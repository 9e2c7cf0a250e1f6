CONSTANTS
    Buyers = {b1}
    MaxOrders = 1
    Requests = {r1}
    Workers = {w1, w2}
    Budget <- QuietBudget
SPECIFICATION Spec
CHECK_DEADLOCK FALSE
PROPERTY RefundIsFinal
