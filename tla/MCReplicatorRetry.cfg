SPECIFICATION Spec
CONSTANTS
  Peer = {p1}
  Doc = {d1, d2}
  Worker = {w1, w2}
  Outcome = {"ok", "remoteError", "sendError", "timeout"}
  None = None
  MaxVersion = 1
  MaxAdds = 2
  MaxDeletes = 1
  MaxCrashes = 1
INVARIANTS OneRetrier FlagIsTrue
SYMMETRY Symmetry
CHECK_DEADLOCK FALSE
