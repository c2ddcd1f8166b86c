SPECIFICATION Spec
CONSTANTS
  u1 = u1
  u2 = u2
  Users = {u1, u2}
  NoUser = NoUser
  r1 = r1
  r2 = r2
  Reqs = {r1, r2}
  NoReq = NoReq
  c1 = c1
  CephIds = {c1}
  NoCeph = NoCeph
  SingleThreshold = 2
  DefaultChunk = 2
  MaxParts = 3
  MiB = 2
  LargestSize = 14
  FileSize = 2
  NumParts <- PlannedParts
  Multipart <- PlannedMode
  Slow = {r1}
  Ops = {"initiate", "part", "complete", "pause", "cancel"}
  Faults = {}
SYMMETRY UserSymmetry
VIEW Read
INVARIANTS LockExclusive CompletedIsIndexed
PROPERTIES LockReleasedByOwner KeepsContract
CHECK_DEADLOCK FALSE
