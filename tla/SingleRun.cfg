SPECIFICATION TimingSpec
CONSTANTS
  Task = {t1, t2}
  kv1Idle = kv1Idle
  NULL = NULL
  MAX_TASK_QUEUE_SIZE = 2
  Period = {0, 2, 3}
  AppState = {0, 1}
  Garbage = {0, 1}
  UINT8 = 1
INVARIANTS
  SingleRunOnce
