SPECIFICATION Spec
CONSTANTS
  Peer = {p1}
  Doc = {d1}
  Worker = {w1}
  Outcome = {"ok", "sendError"}
  None = None
  MaxVersion = 1
  MaxAdds = 1
  MaxDeletes = 0
  MaxCrashes = 1
INVARIANTS RetryingIsRunning
CHECK_DEADLOCK FALSE
