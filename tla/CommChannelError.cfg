SPECIFICATION Spec
CONSTANTS
  Request = {r1}
INVARIANTS OkMeansApplied
CHECK_DEADLOCK FALSE
