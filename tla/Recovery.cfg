SPECIFICATION Spec
CONSTANTS
  Blocks = {b1, b2}
  None = None
  Options <- AllOptions
SYMMETRY Symmetry
INVARIANTS
  TypeOK
  ReplayMatchesLog
  NeverPastGap
  RecoveredIsPrefix
CHECK_DEADLOCK FALSE
