CONSTANTS
    Requests = {r1}
    Workers = {w1}
    MaxTries = 2
    MaxJobs = 1
    MaxPort = 2
    MaxFaults = 2
SPECIFICATION FairSpec
CHECK_DEADLOCK FALSE
INVARIANTS TypeOK
PROPERTIES SucceededIsNotRerun JobSettles
