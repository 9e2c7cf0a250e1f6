CONSTANTS
    Buyers = {b1, b2}
    MaxOrders = 1
    Requests = {r1}
    Workers = {w1}
    Budget <- PayoutBudget
SPECIFICATION Spec
CHECK_DEADLOCK FALSE
INVARIANT SellerPaidOnce
