SPECIFICATION FairSpec
CONSTANTS
    Meta = {m1}
    Data = {d1}
    Procs = {p1, p2}
    MaxTid = 3
    MaxVersion = 2
    MaxInPlay = 1
    Appends = TRUE
    Overtakes = FALSE
    Retracts = FALSE
    Deletes = FALSE
    Interferes = FALSE
    Drops = FALSE
    MayFail = TRUE
CHECK_DEADLOCK FALSE
PROPERTY
    AccessReturns
