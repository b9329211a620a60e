\* Two threads check an assertion that calls a macro, in a process with two scenarios.
CONSTANTS
  NThreads = 2
  NRuns = 3
  Setups <- Assertions
SPECIFICATION FairSpec
\* the threads end after their runs
CHECK_DEADLOCK FALSE
PROPERTY
  AssertionUsesOwnMacros
