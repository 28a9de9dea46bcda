SPECIFICATION Spec
CONSTANTS
  Graphs <- Deep
  SeenDepth = 10
  MaxDepth = 200
INVARIANT EqualAgrees
CHECK_DEADLOCK FALSE
