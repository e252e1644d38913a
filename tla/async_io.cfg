CONSTANTS
  t1 = t1
  Thread <- OneThread
  MaxAsync = 2
  None = None
  Timed = {TRUE}
  Smp = FALSE
SPECIFICATION FairSpec
INVARIANTS OneOwner NoStaleAsync NoMissedInput PacketOnce
PROPERTY EndedIsFreed
CHECK_DEADLOCK FALSE
