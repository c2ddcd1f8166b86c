SPECIFICATION FairSpec
CONSTANTS
  u1 = u1
  u2 = u2
  Users = {u1, u2}
  NoUser = NoUser
  r1 = r1
  r2 = r2
  Reqs = {r1, r2}
  NoReq = NoReq
  c1 = c1
  CephIds = {c1}
  NoCeph = NoCeph
  SingleThreshold = 2
  DefaultChunk = 2
  MaxParts = 3
  MiB = 2
  LargestSize = 14
  FileSize = 2
  NumParts <- PlannedParts
  Multipart <- PlannedMode
  Slow = {}
  Ops = {"initiate", "part", "complete"}
  Faults = {"outage", "reply", "sent", "mysql"}
PROPERTIES FinalizingResolves AnnouncedIsIndexed
CHECK_DEADLOCK FALSE
