SPECIFICATION FairSpec
CONSTANTS
  t1 = t1
  t2 = t2
  t3 = t3
  e1 = e1
  s1 = s1
  m1 = m1
  m2 = m2
  x1 = x1
  k1 = k1
  key1 = key1
  key2 = key2
  None = None
  Thread = {t1, t2}
  Event = {e1}
  ManualReset = {e1}
  Semaphore = {s1}
  Mutex = {}
  Timer = {}
  KeyedEvent = {k1}
  TimerSets = {}
  Key = {key1, key2}
  SemMax <- SemLimit
  Selects <- TimedSelects
  Counts <- One
  WrapAt = 8
  MaxSuspend = 1
  MaxRecursion = 0
  MaxApc = 0
  Smp = FALSE
PROPERTIES
  RequestsEnd
  TimedWaitEnds
CHECK_DEADLOCK FALSE
