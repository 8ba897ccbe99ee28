\* Bounds stop the writers.
SPECIFICATION MCSpec
CONSTANTS
  Store = {w, r}
  Writer = {w}
  NodeId = {a, b}
  Reissues = FALSE
  MaxAdds = 3
  MaxStops = 2
  NoFile = NoFile
  NoSave = NoSave
  Process = {p, q}
  Dest <- MCDest
  Staged = {}
  Width <- MCWidth
  Pid = {1}
  SuffixLen <- MCSuffixLen
  Rand = {1, 2}
  NameMax = 5
  Tries = 2
  Cap = 2
  MaxSaves = 2
  MaxKills = 1
  NoName <- MCNoName
INVARIANTS Coherent SaveSurvives MapsSayTheSame  SweepsTakeTheDead ConversionKeeps
CHECK_DEADLOCK FALSE
