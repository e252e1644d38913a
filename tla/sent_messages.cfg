SPECIFICATION FairSpec
CONSTANTS
  t1 = t1
  t2 = t2
  None = None
  Thread = {t1, t2}
  Hook = t1
  Focus = t2
  MaxResults = 2
  MaxSends = 3
INVARIANTS
  ResultsOwned
  BitsMatch
PROPERTIES
  OneAnswer
  SendReturns
CHECK_DEADLOCK FALSE
