CONSTANTS
  Files = {talk}
  MaxLines = 4
  MaxTroubles = 1
  Quiet = FALSE
  None = None
SPECIFICATION Spec
INVARIANT NothingLost
CHECK_DEADLOCK FALSE
