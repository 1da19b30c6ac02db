SPECIFICATION Spec
CONSTANTS
  g1 = g1
  g2 = g2
  alice = alice
  bob = bob
  v1 = v1
  NoAccount = NoAccount
  Newest = Newest
  None = None
  Apps = {g1, g2}
  Accounts = {alice}
  Versions = {v1}
  Requests <- MCOneRequest
  Restored <- MCNothingSaved
  Workers = {w1, w2}
  MaxEntries = 2
  MaxOps = 4
  SavesMayFail = FALSE
  ReadsMayFail = TRUE
INVARIANT OneAfterAnother
CHECK_DEADLOCK FALSE
