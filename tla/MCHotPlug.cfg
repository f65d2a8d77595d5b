SPECIFICATION FairSpec
CONSTANTS
  Timeouts = {0}
  Wrap = 2
  Horizon = 1
  ExtUsb = FALSE
  ErrorSteps = 1
  MediaChanges = 1
  UsbInitFails = FALSE
PROPERTY HotPluggable
CHECK_DEADLOCK FALSE
