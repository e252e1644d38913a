SPECIFICATION FairSpec
CONSTANTS
  s1 = s1
  s2 = s2
  s3 = s3
  c1 = c1
  c2 = c2
  w1 = w1
  w2 = w2
  None = None
  Server = {s1, s2, s3}
  Client = {c1, c2}
  Waiter = {w1}
  MaxInstances = {0, 2}
  Sharing <- TwoSharings
  Access <- WriteAccess
INVARIANTS
  StatesMatch
  InstancesCounted
  NoMissedListen
PROPERTIES
  OutcomesHonest
  FlushEnds
CHECK_DEADLOCK FALSE
