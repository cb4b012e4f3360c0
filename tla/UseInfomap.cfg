SPECIFICATION Spec
CONSTANTS
  MaxRuns = 2
  MaxLines = 2
INVARIANTS RunningIsHonest
PROPERTIES NothingAfterTheAnswer OutputIsWhatArrived EveryRunEnds
CHECK_DEADLOCK FALSE
