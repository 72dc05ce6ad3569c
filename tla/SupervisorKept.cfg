CONSTANTS
  Own = {mine}
  Shares = {saif}
  Default = mine
  mine = mine
  Nothing = Nothing
  MaxKey = 2
  MaxLife = 1
  MaxConv = 2
  MaxAsk = 2
SPECIFICATION Spec
PROPERTY ConversationKept
CHECK_DEADLOCK FALSE
