SPECIFICATION MCSpec
CONSTANTS
  anna = anna
  bert = bert
  Accounts = {anna, bert}
  Games = {game}
  None = None
  MaxOps = 9
  AccountOps = 2
  GameOps = 1
  BothOps = 1
PROPERTIES
  ManualKeepsWaiting
CHECK_DEADLOCK FALSE
