CONSTANTS
    Events = {e1, e2}
    Api = {a1}
    Workers = {w1, w2}
    MaxTries = 3
    MaxAttempts = 3
    FaultBudget <- RetriedFaults
    Operator = "off"
SPECIFICATION FairSpec
CHECK_DEADLOCK FALSE
INVARIANT ActiveHasCarrier
PROPERTY ConfirmedIsSettled
