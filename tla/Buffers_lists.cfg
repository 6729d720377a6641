SPECIFICATION Spec
CONSTANTS
    Meta = {m1}
    Data = {d1}
    Procs = {p1, p2}
    MaxTid = 3
    MaxVersion = 4
    MaxInPlay = 1
    Appends = TRUE
    Overtakes = FALSE
    Retracts = FALSE
    Deletes = FALSE
    Interferes = FALSE
    Drops = FALSE
    MayFail = TRUE
SYMMETRY Perms
CHECK_DEADLOCK FALSE
INVARIANTS
    TypeOK
    AssertionsHold
    LoggedIsClosed
    DataInPlace
    Recoverable
    TruncatedIsClean
