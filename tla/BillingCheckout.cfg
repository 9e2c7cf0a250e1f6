CONSTANTS
    Buyers = {b1}
    MaxOrders = 2
    Requests = {r1, r2}
    Workers = {w1}
    Budget <- CheckoutBudget
SPECIFICATION Spec
SYMMETRY Symmetry
CHECK_DEADLOCK FALSE
INVARIANTS AccessIsPaid OneOpenPurchase
