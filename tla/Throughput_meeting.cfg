\* One thread more than are configured, as when 16 are started for fewer.
CONSTANTS
  Threads = {w1, w2, w3}
  First = w1
  NumberOfThreads = 2
  Setups <- OneChange
  MaxAsync = 0
SPECIFICATION Spec
\* the threads wait for each other
CHECK_DEADLOCK FALSE
INVARIANT NobodyStartsAlone
