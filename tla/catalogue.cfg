SPECIFICATION MaintenanceSpec
CONSTANTS
  u1 = u1
  u2 = u2
  Users = {u1, u2}
  Team = Team
  h1 = h1
  h2 = h2
  Hashes = {h1, h2}
  Names <- ThreeNames
  UploadNames <- Uploaded
  NoRegion = 0
  Times = {1, 2}
  PageSize = 1
  MaxId = 2
  MaxFile = 3
  Faults = {"insert"}
SYMMETRY Symmetry
INVARIANTS TypeOK NothingSkipped OwnerIsUploader  PartsAreOwn
PROPERTIES InstantIsListed
VIEW Read
CONSTRAINT Bounded
CHECK_DEADLOCK FALSE
