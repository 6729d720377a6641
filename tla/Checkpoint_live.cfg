SPECIFICATION FairSpec
CONSTANTS
    Block = {b1}
    INTERVAL = 1
    DISK_DELAY = 1
    Workloads <- FlushLoads
CHECK_DEADLOCK FALSE
PROPERTY
    FlushEnds
