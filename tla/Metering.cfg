CONSTANTS
  Members = {ann}
  MaxAnswers = 3
  MaxPending = 2
  None = None
SPECIFICATION Spec
INVARIANTS TypeOK MeteredOnce EveryEventAccounted
CHECK_DEADLOCK FALSE
PROPERTY CeilingLifts
