SPECIFICATION UsageSpec
CONSTANTS
    Tools = {t1, t2}
    Calls = {c1, c2}
    Runs = {cron, loop}
    MaxTries = 2
    MaxFaults = 2
INVARIANTS CallsAreKept LedgerIsInvoice LeaseIsHeld
PROPERTIES UsageSettles
CHECK_DEADLOCK FALSE
