\* Every kind of provider; two threads of three runs.
CONSTANTS
  NThreads = 2
  NRuns = 3
  Setups <- All
SPECIFICATION FairSpec
\* the threads end after their runs
CHECK_DEADLOCK FALSE
INVARIANTS
  TypeOK
  AcceptedFileSuffices
  IdentifiersDiffer
PROPERTIES
  ValuesInTurn
  RotationRaisesInRaceOnly
