SPECIFICATION Spec
CONSTANTS
    Block = {b1, b2}
    INTERVAL = 2
    DISK_DELAY = 2
    Workloads <- SafeLoads
SYMMETRY Perms
CHECK_DEADLOCK FALSE
INVARIANTS
    TypeOK
    HomeAfterLog
    TailCovers
    TailSafe
    DsyncSurvives
