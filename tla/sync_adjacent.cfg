\* Header writes land whole or not at all, no row is ever added twice.
SPECIFICATION MCAdjacent
CONSTANTS
  Vec <- Nat
  Block = 2
  Capacity = 4
  MaxOps = 2
  PlanesAt = 5
  FreshRows = TRUE
  HeaderTears = {}
  DirtyRestarts = FALSE
  Start = 4
  BatchSizes = {1}
  MaxEdits = 3
  MaxGen = 2
  MaxCal = 1
  MaxCuts = 2
  NoRow = NoRow
  Hole = Hole
  Junk = Junk
  NoBody = NoBody
  NoFile = NoFile
  NoCursor = NoCursor
INVARIANT AdjacentRecovery
PROPERTY ImplementsStore
CHECK_DEADLOCK FALSE
