SPECIFICATION FairSpec
CONSTANTS
  Wrap = 3
  ERROR_PERIOD_MS = 2
  HAPPY_PERIOD_MS = 1
  HAPPY_BLINKS = 1
  Codes = {2}
  MaxErrors = 2
  MaxPresses = 2
INVARIANT LedInv
PROPERTIES CodeBlinks SequencesEnd
