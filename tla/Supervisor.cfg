CONSTANTS
  Own = {mine}
  Shares = {saif}
  Default = mine
  mine = mine
  Nothing = Nothing
  MaxKey = 2
  MaxLife = 2
  MaxConv = 2
  MaxAsk = 2
SPECIFICATION Spec
INVARIANTS TypeOK SaysWhatRuns
PROPERTIES RuleStaysInItsSession CloseEnds KeyRenewed
CHECK_DEADLOCK FALSE
