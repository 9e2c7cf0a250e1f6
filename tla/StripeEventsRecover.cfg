CONSTANTS
    Events = {e1}
    Api = {a1}
    Workers = {w1}
    MaxTries = 2
    MaxAttempts = 8
    FaultBudget <- EveryFaultOnce
    Operator = "patient"
SPECIFICATION RecoverSpec
CHECK_DEADLOCK FALSE
PROPERTY RecordedIsRecovered
