SPECIFICATION TimingSpec
CONSTANTS
  Task = {t1, t2, t3, t4}
  kv1Idle = kv1Idle
  NULL = NULL
  MAX_TASK_QUEUE_SIZE = 3
  Period = {0, 2}
  AppState = {1, 254}
  Garbage = {1}
  UINT8 = 1
SYMMETRY Symmetric
INVARIANTS
  TableTypeOK
  CompactTable
  NoDuplicateTask
  CalledEveryPeriod
  RepeatedGoesOn
PROPERTIES
  ImplementsSchedule
