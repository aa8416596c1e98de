SPECIFICATION Spec
CONSTANTS
  h1 = h1
  bot = bot
  server = server
  Client = {h1, bot}
  Server = server
  Backup = 2
  Fake = {bot}
  MaxSeq = 5
  MaxFrame = 4
  MaxGen = 1
INVARIANTS
  TypeOK
  BacktrackExact
  FrameCoherent
PROPERTIES
  Backtracks
