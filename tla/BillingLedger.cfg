CONSTANTS
    Buyers = {b1}
    MaxOrders = 1
    Requests = {r1}
    Workers = {w1}
    Budget <- LedgerBudget
SPECIFICATION FairSpec
CHECK_DEADLOCK FALSE
INVARIANTS TypeOK LedgerMatchesStripe RefundRevokesAccess
PROPERTIES RefundIsFinal  PaysOnlyCompleted RefundSettles
