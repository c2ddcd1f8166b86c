SPECIFICATION Spec
CONSTANTS
  u1 = u1
  Users = {u1}
  NoUser = NoUser
  r1 = r1
  Reqs = {r1}
  NoReq = NoReq
  c1 = c1
  CephIds = {c1}
  NoCeph = NoCeph
  SingleThreshold = 2
  DefaultChunk = 2
  MaxParts = 3
  MiB = 2
  LargestSize = 14
  FileSize = 2
  NumParts <- PlannedParts
  Multipart <- PlannedMode
  Slow = {}
  Ops = {"initiate", "part", "get", "complete", "pause", "resume", "heartbeat", "cancel"}
  Faults = {}
SYMMETRY Symmetry
INVARIANTS CompletedNotCancelled
CHECK_DEADLOCK FALSE
