\* The write that destroys a rejected header is itself torn.
SPECIFICATION Spec
CONSTANTS
  Vec <- Nat
  Block = 2
  Capacity = 4
  MaxOps = 1
  PlanesAt = 5
  FreshRows = TRUE
  HeaderTears = {"prefix"}
  DirtyRestarts = FALSE
  Start = 4
  BatchSizes = {1}
  MaxEdits = 3
  MaxGen = 2
  MaxCal = 0
  MaxCuts = 3
  NoRow = NoRow
  Hole = Hole
  Junk = Junk
  NoBody = NoBody
  NoFile = NoFile
  NoCursor = NoCursor
INVARIANT AdjacentRecovery
CHECK_DEADLOCK FALSE
