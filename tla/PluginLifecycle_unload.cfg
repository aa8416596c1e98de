CONSTANTS
  Engines = {"rehlds", "oldrehlds"}
  Dirs = {"cstrike", "valve", "other"}
  Versions = {"current", "other"}
  Images = {}
  SvsPattern <- MCSvsPattern
  SvPattern <- MCSvPattern
  WordSize = 2
  AddrSpace = 64
  Base = 8
  MaxRequest = 1
SPECIFICATION Spec
INVARIANT UnloadAnytime
CHECK_DEADLOCK FALSE
