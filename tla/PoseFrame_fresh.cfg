CONSTANTS
  N = 2
  Fake = {2}
  MaxFrame = 3
  MaxGen = 1
SPECIFICATION Spec
INVARIANT TypeOK
INVARIANT FrameFresh
CHECK_DEADLOCK FALSE
