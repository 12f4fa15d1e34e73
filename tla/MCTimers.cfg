SPECIFICATION TimersSpec
CONSTANTS
  Callback = {f, g, h}
  NULL = NULL
  MAX_TIMER_COUNT = 2
  TimerPeriod = {0, 2}
  UINT8 = 5
  SinceBound = 4
SYMMETRY Symmetric
INVARIANTS
  TimersTypeOK
  FiresOnTime
  TwiceOnlyAfterHole
  NoneLeftOut
