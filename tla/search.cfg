\* Every scan really ends, and so do forks.
SPECIFICATION MCSpec
CONSTANTS
  Vecs = 6
  Scores = {1, 2, 3}
  Masks <- MCMasks
  Pieces = {1, 3}
  Keep = {1, 2}
  ImageVecs = 4
  ImageChunk = 3
  ImageQueries = {1, 2}
  ImageScores = {1, 2, 3}
  ImageMasks <- MCImageMasks
  ImageKeep = {1, 2, 3}
  Thresholds <- MCThresholds
  Index = {0, 1}
  StreamVecs = 2
  Chunk = 1
  Queries = {1, 2}
  StreamScores = {1, 2}
  K = 2
  MayStop = TRUE
  Block = 2
  Thread = {t1, t2}
  Pid = {1, 2}
  Sizes = {1, 2}
  MaxForks = 2
  NoCell = NoCell
  Vector = {"a", "b"}
  Batch <- MCBatch
  Dims = {1, 2}
  BlockRows = 2
  PlanesMin = 3
  SampleMin = 4
  MaxOps = 1
  Captures = TRUE
  MaxRows = 4
  MaxCalib = 1
INVARIANTS ExactTopK PrefixTopK GlobalTopK EveryFormHoldsTheRows KernelsReadTheirRows EachAllowedSlotOnce SumsExact CachesAgree PoolSurvivesForks
CHECK_DEADLOCK FALSE
