SPECIFICATION FairSpec
CONSTANTS
  FlashUnits = 3
  SectorUnits = 2
  Data = {d1, d2}
  Erased = Erased
  Garbled = Garbled
  NoRequest = NoRequest
  Radix = 2
  Manufacturer = Manufacturer
  Product = Product
  ConfigString = ConfigString
  InterfaceString = InterfaceString
INVARIANT IoInv
PROPERTIES RequestStable ImplementsFairStore RequestServed
