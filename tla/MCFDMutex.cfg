\* Four goroutines, so that both counts overflow.  A panic may end them all.
CONSTANTS
  g1 = g1
  g2 = g2
  g3 = g3
  g4 = g4
  Goroutines = {g1, g2, g3, g4}
  MaxRef = 2
SPECIFICATION Spec
SYMMETRY GoroutineSymmetry
CHECK_DEADLOCK FALSE
INVARIANTS RefsCountHolders SleepersCounted NoLostWakeup
PROPERTY ImplementsLifetime
