SPECIFICATION Spec
CONSTANTS
  Timeouts = {0}
  Wrap = 2
  Horizon = 1
  ExtUsb = FALSE
  ErrorSteps = 1
  MediaChanges = 0
  UsbInitFails = FALSE
INVARIANT JumpWaitsForDfu
CHECK_DEADLOCK FALSE
