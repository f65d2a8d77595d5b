SPECIFICATION Spec
CONSTANTS
  Timeouts = {0, 2}
  Wrap = 3
  Horizon = 1
  ExtUsb = FALSE
  ErrorSteps = 2
  MediaChanges = 1
  UsbInitFails = FALSE
INVARIANTS LoopInv DownloadedBoots PartialNeverBoots DfuKeptUp InfiniteWaits
PROPERTIES ImplementsSession ImplementsRun
CHECK_DEADLOCK FALSE
