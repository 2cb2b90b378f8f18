CONSTANTS
  UserModes = {"r"}
  Instants = {1}
  MaxSeq = 2
  MaxBump = 1
SPECIFICATION FairSpec
CHECK_DEADLOCK FALSE
PROPERTIES CompletedWaitEnds EvictionEndsWaits
