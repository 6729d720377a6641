SPECIFICATION Spec
CONSTANTS
    Proc = {p1, p2}
    Kind = {"osync", "dsync"}
    MaxTid = 2
    MaxCredits = 2
    Timer = FALSE
    Scarce = FALSE
    MayFail = FALSE
    BARRIER = FALSE
    ASYNC_COMMIT = FALSE
SYMMETRY Perms
CHECK_DEADLOCK FALSE
INVARIANT
    DsyncFlagKept
