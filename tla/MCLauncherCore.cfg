SPECIFICATION MCSpec
CONSTANTS
  anna = anna
  bert = bert
  Accounts = {anna, bert}
  Games = {game}
  None = None
  MaxOps = 9
  AccountOps = 4
  GameOps = 3
  BothOps = 2
INVARIANTS
  LauncherTypeOK
  SessionIsOfKey
  SignedOutStaysOut
  SignInHasAnswer
  PendingHasTask
  SteamIsCurrent
PROPERTIES
  OnlyWantedChanges
  RunningStaysInstalled
  RemovalsAreSure
CHECK_DEADLOCK FALSE
