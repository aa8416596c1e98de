CONSTANTS
  N = 2
  Fake = {2}
  MaxFrame = 3
  MaxGen = 1
SPECIFICATION Spec
INVARIANT OwnFrame
CHECK_DEADLOCK FALSE
