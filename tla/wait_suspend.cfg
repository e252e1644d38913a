SPECIFICATION Spec
CONSTANTS
  t1 = t1
  t2 = t2
  t3 = t3
  e1 = e1
  s1 = s1
  m1 = m1
  m2 = m2
  x1 = x1
  k1 = k1
  key1 = key1
  key2 = key2
  None = None
  Thread = {t1, t2}
  Event = {}
  ManualReset = {}
  Semaphore = {}
  Mutex = {m1}
  Timer = {x1}
  KeyedEvent = {}
  TimerSets <- Callback
  Key = {}
  SemMax <- SemLimit
  Selects <- SuspendSelects
  Counts <- One
  WrapAt = 8
  MaxSuspend = 1
  MaxRecursion = 1
  MaxApc = 1
  Smp = TRUE
SYMMETRY Threads
INVARIANTS
  TimerApcOwned
  NoLostWakeup
PROPERTIES
  SuspendedAcquiresNothing
CHECK_DEADLOCK FALSE
