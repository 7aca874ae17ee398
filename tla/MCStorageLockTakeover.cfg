\* Three processes, one of which may crash: two are left to find its lock file stale.
CONSTANTS
    Procs = {p1, p2, p3}
    Nobody = Nobody
    WaitLimit = 1
    StaleAge = 0
    FaultKinds = {"crash"}
    MaxFaults = 1
SPECIFICATION LockSpec
CHECK_DEADLOCK FALSE
INVARIANT MutualExclusion
