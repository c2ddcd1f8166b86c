SPECIFICATION Spec
CONSTANTS
  u1 = u1
  u2 = u2
  Users = {u1, u2}
  NoUser = NoUser
  r1 = r1
  Reqs = {r1}
  NoReq = NoReq
  c1 = c1
  c2 = c2
  c3 = c3
  CephIds = {c1, c2, c3}
  NoCeph = NoCeph
  SingleThreshold = 2
  DefaultChunk = 2
  MaxParts = 3
  MiB = 2
  LargestSize = 14
  FileSize = 4
  NumParts <- PlannedParts
  Multipart <- PlannedMode
  Slow = {}
  Ops = {"initiate", "part", "get", "complete", "heartbeat", "cancel"}
  Faults = {"outage", "reply", "sent"}
SYMMETRY Symmetry
INVARIANTS TypeOK WritableIsOpen CachedPartsExist ObjectBacked EveryPlanFits
CHECK_DEADLOCK FALSE
