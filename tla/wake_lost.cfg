SPECIFICATION FairSpec
CONSTANTS
  SelfWakes = FALSE
  Kills = FALSE
  MaxDone = 0
PROPERTY RepliesArrive
CHECK_DEADLOCK FALSE
