SPECIFICATION Spec
CONSTANTS
  Requests = {1, 2, 3}
  Apps = {game, other, short}
  Valid = {game, other}
  LaunchApp = other
  Declares = {game, short}
  SignIns = {s1, s2}
  Attempts = 2
  None = None
  Kinds = {"prefetch", "getter", "user", "proof", "is_entitled", "local"}
  Ring = 2
  MaxStarts = 1
SYMMETRY MCSymmetry
INVARIANTS
  TypeOK
  TokenIsCurrent
  AnsweredForAccount
  MessagesAreOwn
  EachRepliedOnce
  GetterIsPaced
CHECK_DEADLOCK FALSE
