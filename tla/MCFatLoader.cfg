SPECIFICATION FairSpec
CONSTANTS
  FlashUnits = 4
  SectorUnits = 2
  p = p
  b = b
  s = s
  Data <- MCData
  Programs <- MCPrograms
  BadEntries <- MCBadEntries
  Stubs <- MCStubs
  Drives <- MCDrives
  MaxFaults = 3
  Erased = Erased
  Garbled = Garbled
  NoRequest = NoRequest
INVARIANTS LoaderInv FlashedWhole SkippedEqual
PROPERTIES OnlyFilePages OnlyPrograms LogTruth Installs
CHECK_DEADLOCK FALSE
