\* Two goroutines list one File; Seek and Close run between their calls.
CONSTANTS
  r1 = r1
  r2 = r2
  Readers = {r1, r2}
  Directories <- SmallDirectories
  FileSystems <- AllFileSystems
  Counts <- AskedFor
  PoolSize = 2
  BufSize = 1
  MaxBuf = 2
  SeekRaces = FALSE
  MaxCalls = 3
  MaxSeeks = 1
  MaxFaults = 1
SPECIFICATION FairSpec
CHECK_DEADLOCK FALSE
INVARIANTS EachOnceInOrder EndIsTheEnd HandlesOwned
PROPERTY ReaddirReturns
