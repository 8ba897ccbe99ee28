\* No process exits with unsynced writes; bounds stop the writer.
SPECIFICATION MCSpec
CONSTANTS
  Vec <- Nat
  Block = 2
  Capacity = 5
  MaxOps = 2
  PlanesAt = 5
  FreshRows = TRUE
  HeaderTears = {"prefix", "suffix"}
  DirtyRestarts = FALSE
  Start = 4
  BatchSizes = {1, 2}
  MaxEdits = 3
  MaxGen = 2
  MaxCal = 1
  MaxCuts = 2
  NoRow = NoRow
  Hole = Hole
  Junk = Junk
  NoBody = NoBody
  NoFile = NoFile
  NoCursor = NoCursor
INVARIANTS TypeOK Loadable RecoversACommit AckedSurvives NeverWedged DirtyTracking OneSyncApart
CHECK_DEADLOCK FALSE
