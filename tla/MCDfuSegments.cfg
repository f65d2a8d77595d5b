SPECIFICATION MCSpec
CONSTANTS
  FlashUnits = 7
  SectorUnits = 2
  PageStart <- SmallPages
  ImageBase = 2
  ImageLen = 1
  Image <- MCShortImage
  Interruptions = 2
  d1 = d1
  d2 = d2
  d3 = d3
  other = other
  Data = {d1, d2, d3, other}
  Erased = Erased
  Garbled = Garbled
  NoRequest = NoRequest
INVARIANT NeighboursIntact
CHECK_DEADLOCK FALSE
