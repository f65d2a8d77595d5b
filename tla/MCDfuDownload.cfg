SPECIFICATION MCSpec
CONSTANTS
  FlashUnits = 7
  SectorUnits = 2
  PageStart <- SectorPages
  ImageBase = 2
  ImageLen = 3
  Image <- MCImage
  Interruptions = 2
  d1 = d1
  d2 = d2
  d3 = d3
  other = other
  Data = {d1, d2, d3, other}
  Erased = Erased
  Garbled = Garbled
  NoRequest = NoRequest
INVARIANTS DlInv DownloadWhole NeighboursIntact NeverGarbled
PROPERTIES ImplementsSession DownloadEnds
CHECK_DEADLOCK FALSE
