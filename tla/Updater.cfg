CONSTANTS
  MaxRelease = 3
  MaxWithdrawn = 1
  MaxHand = 1
  MaxTrouble = 2
SPECIFICATION Spec
INVARIANT NeverWithoutBinary
PROPERTY Converges
CHECK_DEADLOCK FALSE
