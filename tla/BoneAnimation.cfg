CONSTANTS
  Animations <- AllAnimations
  Others = {1, 5}
  Frames = {0, 100, 255}
  Elapsed <- Elapses
  Fps = {30}
  Behind = 25600
SPECIFICATION Spec
INVARIANT TypeOK
INVARIANT FrameInData
INVARIANT AngleExact
INVARIANT PositionExact
