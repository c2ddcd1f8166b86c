SPECIFICATION FairSpec
CONSTANTS
  Size = 3
  Lengths = {3}
  Window = 2
  Faults = {"ceph"}
PROPERTIES PutIsAnswered
CHECK_DEADLOCK FALSE
