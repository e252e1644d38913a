SPECIFICATION FairSpec
CONSTANTS
  SelfWakes = TRUE
  Kills = TRUE
  MaxDone = 2
PROPERTY KilledThreadEnds
PROPERTY ImplementsPipe
PROPERTY ReturnsOwnStatus
CHECK_DEADLOCK FALSE
