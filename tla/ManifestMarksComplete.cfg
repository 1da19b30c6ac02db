SPECIFICATION InstallSpec
CONSTANTS
  g1 = g1
  alice = alice
  bob = bob
  b1 = b1
  b2 = b2
  f1 = f1
  f2 = f2
  s1 = s1
  s2 = s2
  s3 = s3
  NoAccount = NoAccount
  Newest = Newest
  None = None
  Garbage = Garbage
  Apps = {g1}
  Accounts = {alice, bob}
  Versions = {b1, b2}
  Files = {f1, f2}
  Segments = {s1, s2, s3}
  Content <- MCContent
  BuildsOf <- MCOneBuild
  Requests <- MCRequests
  Restored <- MCRestored
  Workers = {w1, w2}
  MaxEntries = 2
  MaxOps = 3
  SavesMayFail = FALSE
  ReadsMayFail = TRUE
INVARIANT ManifestMarksComplete
CHECK_DEADLOCK FALSE
