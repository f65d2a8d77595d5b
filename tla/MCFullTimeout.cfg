SPECIFICATION Spec
CONSTANTS
  Timeouts = {1}
  Wrap = 4
  Horizon = 2
  ExtUsb = FALSE
  ErrorSteps = 2
  MediaChanges = 0
  UsbInitFails = FALSE
INVARIANT FullTimeout
CHECK_DEADLOCK FALSE
