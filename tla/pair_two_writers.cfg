\* Two store objects of one process save to one path.
SPECIFICATION Spec
CONSTANTS
  Store = {v, w}
  Writer = {v, w}
  NodeId = {a, b}
  Reissues = FALSE
  MaxAdds = 2
  MaxStops = 0
  NoFile = NoFile
  NoSave = NoSave
INVARIANT LastWriterWins
CHECK_DEADLOCK FALSE
