CONSTANTS
  None = None
  MaxProcess = 2
  MaxThread = 2
  SigkillDelay = 1
  MasterTimeout = 2
  ShutdownDelay = 1
  IdleSleep = 2
SPECIFICATION FairSpec
INVARIANTS CountsExact ShutdownArmed RefcountExact
CHECK_DEADLOCK FALSE
PROPERTIES DeadIsReaped SystemTold
