SPECIFICATION Spec
CONSTANTS
  Metas = {alice, bob}
  Keys = {k1, k2}
  Limit = 1
  Legacy = Legacy
  None = None
  MaxOps = 4
  MaxOutages = 2
INVARIANTS
  RemovedIsForgotten
CHECK_DEADLOCK FALSE
