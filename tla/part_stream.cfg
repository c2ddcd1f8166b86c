SPECIFICATION FairSpec
CONSTANTS
  Size = 3
  Lengths = {2, 3, 4}
  Window = 2
  Faults = {"browser", "gateway", "ceph", "service", "damage"}
INVARIANTS RecordedIsStored
PROPERTIES UploaderEnds HandlerEnds
CHECK_DEADLOCK FALSE
