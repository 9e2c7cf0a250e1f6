CONSTANTS
    Requests = {r1}
    Workers = {w1, w2}
    MaxTries = 2
    MaxJobs = 2
    MaxPort = 2
    MaxFaults = 1
SPECIFICATION Spec
CHECK_DEADLOCK FALSE
INVARIANTS PortReserved
PROPERTIES OnlyReviewPromotes
