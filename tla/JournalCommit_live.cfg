SPECIFICATION FairSpec
CONSTANTS
    Proc = {p1, p2}
    Kind = {"update", "dsync", "nested"}
    MaxTid = 2
    MaxCredits = 1
    Timer = FALSE
    Scarce = FALSE
    MayFail = TRUE
    BARRIER = TRUE
    ASYNC_COMMIT = TRUE
CHECK_DEADLOCK FALSE
INVARIANT
    DsyncDurable
PROPERTIES
    EveryCallReturns
    KeepsPromises
