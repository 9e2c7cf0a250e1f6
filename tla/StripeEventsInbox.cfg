CONSTANTS
    Events = {e1}
    Api = {a1, a2}
    Workers = {w1, w2}
    MaxTries = 2
    MaxAttempts = 1
    FaultBudget <- InboxFaults
    Operator = "eager"
SPECIFICATION Spec
SYMMETRY Symmetry
CHECK_DEADLOCK FALSE
INVARIANTS InboxInv JobsAreHeldOnce
PROPERTIES ImplementsInbox OnlyLateWritersReopen
