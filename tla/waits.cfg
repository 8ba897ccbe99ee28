\* Searches and walks end, and CallsReturn rules out any other stop.
SPECIFICATION MCSpec
CONSTANTS
  Workers <- MCWorkers
  Calls <- MCCalls
  Items <- MCItems
  Searches <- MCSearches
  Readers <- MCReaders
  ChunkRows <- MCChunkRows
  Rows = 5
  Block = 2
  OpRows = {1}
  Damage <- MCDamage
  Budget = 3
INVARIANTS EveryItemRanOnce ServesTheCommit BudgetKept
PROPERTY CallsReturn
CHECK_DEADLOCK FALSE
