\* Two executions of a list: timeouts, failures, notifications that come early.
CONSTANTS
  Runs = 2
  Steps <- TwoThenNone
  Timed <- EveryStep
  TimeoutOk <- SecondStep
  CanFail = TRUE
  CanBeFast = TRUE
SPECIFICATION FairSpec
\* the runs are finite
CHECK_DEADLOCK FALSE
INVARIANT TypeOK
PROPERTIES
  NewRunWhenNobodyWaits
  ThreadFinishes
