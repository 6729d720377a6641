SPECIFICATION FairSpec
CONSTANTS
    Blocks = {b1, b2}
    MaxTid = 3
    Batch = 2
CHECK_DEADLOCK FALSE
INVARIANTS
    TypeOK
    ReleasedIsDurable
    HeldOnce
PROPERTIES
    BlocksReturn
    UnmountEnds
