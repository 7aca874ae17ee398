\* Two processes, one of which may crash; the active file may be damaged twice, or
\* two snapshots may.
CONSTANTS
    Procs = {p1, p2}
    Nobody = Nobody
    WaitLimit = 0
    StaleAge = 0
    FaultKinds = {"crash"}
    MaxFaults = 1
    Configs = {c1, c2}
    NoConfig = NoConfig
    Unreadable = Unreadable
    AnyGen = AnyGen
    MaxGen = 3
    Retention = 1
    BothDamaged = FALSE
    MaxLost = 2
    MaxSpoiled = 2
SPECIFICATION StoreSpec
SYMMETRY Symmetric
CHECK_DEADLOCK FALSE
INVARIANTS StoreTypeOK RecoverySource
PROPERTIES RegisterSpec NoLostUpdate ReplacedIsKept
