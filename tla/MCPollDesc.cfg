CONSTANTS
  UserModes = {"r"}
  Instants = {1}
  MaxSeq = 3
  MaxBump = 1
SPECIFICATION Spec
CHECK_DEADLOCK FALSE
INVARIANTS NeverThrows ParkedIsWatched WaitersAccounted
PROPERTIES CompletionsKept ImplementsPollSem
