SPECIFICATION FairSpec
CONSTANTS
  Size = 4
  Buffer = 2
  Window = 1
  Requests <- AllRequests
  Faults = {"ticket", "browser", "gateway", "ceph", "service"}
INVARIANTS RangeIsNamed BodyIsNamed
PROPERTIES ReadEnds
CHECK_DEADLOCK FALSE
