\* Two Ms in any roles, with high resolution timers and without.
CONSTANTS
  m1 = m1
  m2 = m2
  o1 = o1
  Ms = {m1, m2}
  Instants = {1, 2}
  Operations = {o1}
SPECIFICATION FairSpec
INVARIANTS WakeupInFlight PollUntilIsTrue NeverMissesWakeup
PROPERTY BreakEndsPoll
