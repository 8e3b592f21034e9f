SPECIFICATION TimedSpec
CONSTANTS
  run1 = run1
  run2 = run2
  Run = {run1}
  RetryDelay = 1
  PollDelay = 2
  VciLimit = 3
  WifiLimit = 4
INVARIANTS
  TypeOK
  SuccessComplete
PROPERTIES
  StopsAsking
  VciInitEnds
  WifiFollows
CHECK_DEADLOCK FALSE
