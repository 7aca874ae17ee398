\* Three processes; two things go wrong.
CONSTANTS
    Procs = {p1, p2, p3}
    Nobody = Nobody
    WaitLimit = 1
    StaleAge = 2
    FaultKinds = {"crash", "stamp", "slow"}
    MaxFaults = 2
SPECIFICATION FairLockSpec
CHECK_DEADLOCK FALSE
PROPERTIES RequestsEnd TakeoverExcludes
