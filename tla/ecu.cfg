CONSTANTS
  Lists <- AllKinds
  MaxRuns = 2
SPECIFICATION FairSpec
INVARIANTS TypeOK PassHeard SilentGivenUp WellFormed AnswersFresh NothingLeft
PROPERTIES TestsEnd
CHECK_DEADLOCK FALSE
