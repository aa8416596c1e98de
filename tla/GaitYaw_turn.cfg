CONSTANTS
  Heading <- Headings
  View <- Views
  Elapsed <- Elapses
  BlendStart <- BlendLow
  BlendEnd = 45
  StateByte = {255}
  NumFrames = 2
  Stride = 1
SPECIFICATION FairSpec
INVARIANT TypeOK
INVARIANT BytesFit
INVARIANT TorsoOnView
INVARIANT TwistBound
PROPERTY LegsFollow
PROPERTY LegsArrive
