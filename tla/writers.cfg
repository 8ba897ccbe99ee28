\* Bounds stop the edits, and a path may lose its file for good.
SPECIFICATION MCSpec
CONSTANTS
  Handles = {a, b, c}
  Everyone = Everyone
  Grows = FALSE
  PlanesAt = 2
  Backups = FALSE
  MaxEdits = 2
  MaxGen = 2
  MaxNonces = 3
  NoFile = NoFile
  NoCursor = NoCursor
SYMMETRY Interchangeable
INVARIANTS IdentityMeansContents NothingClobbered NothingMixed
CHECK_DEADLOCK FALSE
