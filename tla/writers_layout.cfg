\* Bounds stop the edits, and a path may lose its file for good.
SPECIFICATION MCSpec
CONSTANTS
  Handles = {a, b}
  Everyone = Everyone
  Grows = TRUE
  PlanesAt = 2
  Backups = FALSE
  MaxEdits = 3
  MaxGen = 2
  MaxNonces = 3
  NoFile = NoFile
  NoCursor = NoCursor
SYMMETRY Interchangeable
INVARIANTS NothingClobbered
CHECK_DEADLOCK FALSE
