\* Ten configurations of the producer and of the throttler, three threads.
CONSTANTS
  Threads = {w1, w2, w3}
  First = w1
  NumberOfThreads = 3
  Setups <- Several
  MaxAsync = 1
SPECIFICATION FairSpec
\* the threads stop at the end
CHECK_DEADLOCK FALSE
INVARIANTS
  TypeOK
  NobodyStartsAlone
  PoisonSuffices
  TargetRespected
  OneRateInQueue
  SessionsBelowThreshold
PROPERTIES
  WorkersStop
  SessionsEnd
