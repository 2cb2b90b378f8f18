CONSTANTS
  MaxInt = 31
  NsPerMs = 3
  INFINITE = 11
  Start = 10
  End = 30
  Delays <- Ordinary
  Setters = 2
SPECIFICATION Spec
INVARIANT NeverLate
PROPERTY NeverEarly
