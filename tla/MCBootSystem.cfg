SPECIFICATION SysFairSpec
CONSTANTS
  SKIP = SKIP
  INF = INF
  DEFAULT = DEFAULT
  HoldMs = 4
  SettleMs = 1
  ClockMod = 7
  ClockStarts <- MCClockStarts
INVARIANTS SysInv HandoffInv ResetLeadsToBootloader FaultOnlyTorn TornBootsOnlyAfterCut
PROPERTIES JumpOncePerHandoff ModeGrantedOnce EncoderDecides StartupEnds
