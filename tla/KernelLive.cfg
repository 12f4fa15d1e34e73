SPECIFICATION CalmSpec
CONSTANTS
  Task = {t1, t2}
  kv1Idle = kv1Idle
  NULL = NULL
  MAX_TASK_QUEUE_SIZE = 2
  Period = {1, 2}
  AppState = {0, 1}
  Garbage = {0}
  UINT8 = 1
  kv1IdleTask = kv1IdleTask
  Extern = {cli}
  Ref = {0, 1, cli, NULL}
  Nowhere = Nowhere
  BurstLimit = 2
  MAX_CALL_QUEUE_SIZE = 2
PROPERTIES
  EveryCallIsServed
