SPECIFICATION MCSpec
CONSTANTS
  r1 = r1
  r2 = r2
  c1 = c1
  c2 = c2
  k1 = k1
  d1 = d1
  d2 = d2
  col = col
  w1 = w1
  w2 = w2
  w3 = w3
  None = None
  Workers = {w1, w2, w3}
  Keys = {c1, c2}
INVARIANTS KeysAreWorkedOn OnlyWritersConflict PushedIsComplete
PROPERTIES ImplementsMutex EveryRequestEnds PublishReturnsOrAbandoned CallsReturn HandlersReturn
CHECK_DEADLOCK FALSE
