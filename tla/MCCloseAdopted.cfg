\* A socket of another completion port, on Windows 7.
CONSTANTS
  w1 = w1
  w2 = w2
  c1 = c1
  Workers = {w1}
  Loopers = {}
  Controllers = {c1}
  Goroutines = {w1, c1}
  Handles <- AdoptedOnly
SPECIFICATION FairSpec
PROPERTY CloseCompletes
