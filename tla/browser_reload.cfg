SPECIFICATION Spec
CONSTANTS
  f1 = f1
  f2 = f2
  f3 = f3
  c1 = c1
  c2 = c2
  Flows = {f1, f2, f3}
  Copies = {c1, c2}
  NoCopy = NoCopy
  NumParts = 3
  Senders = 2
  Ops = {"pause", "resume", "reload"}
  Failures = TRUE
SYMMETRY Symmetry
INVARIANTS TypeOK FinishedIsCatalogued Recoverable
PROPERTIES IdIsKept
CHECK_DEADLOCK FALSE
