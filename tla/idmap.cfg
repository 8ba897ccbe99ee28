\* Every call of two threads over a map that may not be built.
SPECIFICATION MCSpec
CONSTANTS
  Id = {a, b, c}
  Thread = {t, u}
  Loader = {t}
  Chunk = 1
  Batch <- MCBatch
  MaxLen = 3
  Nobody = Nobody
SYMMETRY MCSymmetry
INVARIANTS MapsAgree TablesTrusted TablesFreed WholeOrNothing
PROPERTY ImplementsIdSet
