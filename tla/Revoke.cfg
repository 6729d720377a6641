SPECIFICATION Spec
CONSTANTS
    Blocks = {b1, b2}
    MaxTid = 4
    MaxOps = 4
    DataJournal = FALSE
SYMMETRY Perms
CHECK_DEADLOCK FALSE
INVARIANTS
    TypeOK
    ReplaySafe
    RevokeAccepted
