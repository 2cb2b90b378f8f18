CONSTANTS
  UserModes = {}
  Instants = {1, 2}
  MaxSeq = 4
  MaxBump = 1
SPECIFICATION Spec
CHECK_DEADLOCK FALSE
INVARIANTS SeqMatchesDeadline DeadlineArmed
