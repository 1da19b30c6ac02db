SPECIFICATION Spec
CONSTANTS
  Metas = {alice, bob}
  Keys = {k1, k2}
  Limit = 1
  Legacy = Legacy
  None = None
  MaxOps = 5
  MaxOutages = 1
SYMMETRY MCSymmetry
INVARIANTS
  VaultTypeOK
  IndexReadable
  KeptSessions
  ForgottenWhenReachable
PROPERTIES
  LegacyKept
  LimitKept
CHECK_DEADLOCK FALSE
