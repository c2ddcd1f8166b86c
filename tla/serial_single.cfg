SPECIFICATION Spec
CONSTANTS
  u1 = u1
  u2 = u2
  Users = {u1, u2}
  NoUser = NoUser
  r1 = r1
  Reqs = {r1}
  NoReq = NoReq
  c1 = c1
  CephIds = {c1}
  NoCeph = NoCeph
  SingleThreshold = 2
  DefaultChunk = 2
  MaxParts = 3
  MiB = 2
  LargestSize = 14
  FileSize = 2
  NumParts <- PlannedParts
  Multipart <- PlannedMode
  Slow = {r1}
  Ops = {"initiate", "part", "get", "complete", "heartbeat", "cancel"}
  Faults = {"crash", "outage", "ignored", "reply", "mysql"}
SYMMETRY Symmetry
INVARIANTS ObjectBacked
CHECK_DEADLOCK FALSE
