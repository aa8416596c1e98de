CONSTANTS
  NumSeq = 2
  Shown = {0, 1}
  Gaits = {0, 1, 2}
  Walk = 1
  Blend <- Blends
  Tick = {10, 21}
  MaxClock = 31
  MaxRecords = 3
  Skeletons <- Models
  Asked = {0, 4}
  NumBlends <- Numbers
  WholeBody = {0}
SPECIFICATION Spec
INVARIANT HeldSequence
