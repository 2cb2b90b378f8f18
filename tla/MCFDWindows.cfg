\* A reader, a writer and a controller.
CONSTANTS
  w1 = w1
  w2 = w2
  c1 = c1
  Workers = {w1, w2}
  Loopers = {w1, w2}
  Controllers = {c1}
  Goroutines = {w1, w2, c1}
  Handles <- SharedHandles
SPECIFICATION Spec
SYMMETRY WorkerSymmetry
INVARIANTS TypeOK KernelDoneFirst NoStaleCompletion ResultExplained DestroyedQuiet
