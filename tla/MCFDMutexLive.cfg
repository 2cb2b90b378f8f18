\* Three goroutines, no overflow: six references at most.
CONSTANTS
  g1 = g1
  g2 = g2
  g3 = g3
  Goroutines = {g1, g2, g3}
  MaxRef = 6
SPECIFICATION FairSpec
PROPERTIES CloseFailsWaiters CloseDestroys
