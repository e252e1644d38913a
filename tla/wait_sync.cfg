SPECIFICATION Spec
CONSTANTS
  t1 = t1
  t2 = t2
  t3 = t3
  e1 = e1
  s1 = s1
  m1 = m1
  m2 = m2
  x1 = x1
  k1 = k1
  key1 = key1
  key2 = key2
  None = None
  Thread = {t1, t2, t3}
  Event = {e1}
  ManualReset = {}
  Semaphore = {s1}
  Mutex = {m1, m2}
  Timer = {}
  KeyedEvent = {}
  TimerSets = {}
  Key = {}
  SemMax <- SemLimit
  Selects <- SyncSelects
  Counts <- OneTwo
  WrapAt = 8
  MaxSuspend = 0
  MaxRecursion = 2
  MaxApc = 0
  Smp = FALSE
SYMMETRY OtherThreads
INVARIANTS
  QueueConsistent
  SemaphoreInBounds
  NoLostWakeup
  MutexConsistent
  DeadThreadGone
PROPERTIES
  AbandonedReported
CHECK_DEADLOCK FALSE
