SPECIFICATION Spec
CONSTANTS
    Proc = {p1, p2}
    Kind = {"update", "osync", "sync_fs", "nested", "flush", "osync_tid", "dsync_tid"}
    MaxTid = 2
    MaxCredits = 2
    Timer = TRUE
    Scarce = TRUE
    MayFail = TRUE
    BARRIER = TRUE
    ASYNC_COMMIT = FALSE
SYMMETRY Perms
CHECK_DEADLOCK FALSE
INVARIANTS
    TypeOK
    CommitHasTransaction
    HandlesOnRunning
    Quiesced
    CreditsBounded
    RequestNotLost
    WrittenInOrder
    AckedIsWritten
PROPERTY
    CommitsOneByOne
