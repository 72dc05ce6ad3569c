CONSTANTS
  CheckInBackoffMax = 3
  MaxKey = 2
  MaxEnrol = 2
  MaxPress = 1
  MaxTrouble = 1
SPECIFICATION CheckInSpec
INVARIANT FiveMinutesBehindAtMost
PROPERTY SettlesInStep
CHECK_DEADLOCK FALSE
