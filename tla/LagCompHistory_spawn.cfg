SPECIFICATION Spec
CONSTANTS
  b1 = b1
  b2 = b2
  server = server
  Client = {b1, b2}
  Server = server
  Backup = 2
  Fake = {b1, b2}
  MaxSeq = 1
  MaxFrame = 4
  MaxGen = 2
SYMMETRY Roster
INVARIANTS
  SpawnClean
