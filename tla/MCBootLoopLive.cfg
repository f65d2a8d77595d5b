SPECIFICATION FairSpec
CONSTANTS
  Timeouts = {0}
  Wrap = 2
  Horizon = 1
  ExtUsb = FALSE
  ErrorSteps = 2
  MediaChanges = 0
  UsbInitFails = TRUE
PROPERTIES SourcesPolled ErrorEnds BootsWhenLeftAlone
CHECK_DEADLOCK FALSE
