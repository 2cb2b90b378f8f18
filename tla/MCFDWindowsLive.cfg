\* One operation and one controller on every kind of handle.
CONSTANTS
  w1 = w1
  w2 = w2
  c1 = c1
  Workers = {w1}
  Loopers = {}
  Controllers = {c1}
  Goroutines = {w1, c1}
  Handles <- EveryHandle
SPECIFICATION FairSpec
PROPERTIES CloseCompletesByWaking CloseEndsPending DoneReturns DeadlineEndsOwn
