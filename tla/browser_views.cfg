SPECIFICATION FairSpec
CONSTANTS
  f1 = f1
  f2 = f2
  c1 = c1
  c2 = c2
  Flows = {f1, f2}
  Copies = {c1, c2}
  NoCopy = NoCopy
  NumParts = 3
  Senders = 2
  Ops = {"pause", "resume", "cancel", "reload", "navigate"}
  Failures = FALSE
INVARIANTS FinishedIsCatalogued
PROPERTIES BusyEnds
CHECK_DEADLOCK FALSE
