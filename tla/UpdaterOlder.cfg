CONSTANTS
  MaxRelease = 2
  MaxWithdrawn = 1
  MaxHand = 0
  MaxTrouble = 0
SPECIFICATION Spec
PROPERTY NothingOlder
CHECK_DEADLOCK FALSE
