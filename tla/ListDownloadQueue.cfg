SPECIFICATION Spec
CONSTANTS
  g1 = g1
  g2 = g2
  alice = alice
  bob = bob
  v1 = v1
  NoAccount = NoAccount
  Newest = Newest
  None = None
  Apps = {g1, g2}
  Accounts = {alice, bob}
  Versions = {v1}
  Requests <- MCRequests
  Restored <- MCRestored
  Workers = {w1, w2}
  MaxEntries = 4
  MaxOps = 3
  SavesMayFail = FALSE
  ReadsMayFail = TRUE
PROPERTIES
  ImplementsJobList
SYMMETRY MCSymmetry
CHECK_DEADLOCK FALSE
