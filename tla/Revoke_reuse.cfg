SPECIFICATION Spec
CONSTANTS
    Blocks = {b1, b2}
    MaxTid = 4
    MaxOps = 4
    DataJournal = TRUE
SYMMETRY Perms
CHECK_DEADLOCK FALSE
INVARIANT
    ReplayAlwaysSafe
