CONSTANTS
  Backup = 5
  Lerp = {0, 2, 3}
  Tick = {1, 2}
  Turn = 100
  MaxSeq = 7
  MaxClock = 9
SPECIFICATION Spec
INVARIANT TypeOK
INVARIANT Bracketed
INVARIANT NewestAlone
INVARIANT Inside
INVARIANT TurnsShort
PROPERTY NeverBack
CHECK_DEADLOCK FALSE
