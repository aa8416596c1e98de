CONSTANTS
  Engines = {"rehlds", "oldrehlds", "hlds"}
  Dirs = {"cstrike", "valve", "other"}
  Versions = {"current", "other"}
  Images <- MCImages
  SvsPattern <- MCSvsPattern
  SvPattern <- MCSvPattern
  WordSize = 2
  AddrSpace = 64
  Base = 8
  MaxRequest = 1
SPECIFICATION Spec
INVARIANT TypeOK
INVARIANT Fallback
INVARIANT CleanUnload
INVARIANT FoundFirst
INVARIANT FaultOnlyAbsent
CHECK_DEADLOCK FALSE
