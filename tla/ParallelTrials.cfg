SPECIFICATION FairSpec
CONSTANTS
  NumTrials = 4
  Codelengths = {10, 20}
  Eps = 2
  MaxLength = 1000
  TrialOffset = 1
  ConfigWidth = 16
  EngineWidth = 4
  OmpThreads = 2
  BaseSeed = 2
  DanglingFlow = 0
  Starts = {"initial", "paths"}
  PrintAllTrials = TRUE
  Overwrite = TRUE
  NoFinalOutput = FALSE
  Failures = TRUE
INVARIANTS BestIsFirstMinimum CancelIsNoFailure FailureIsLowest
PROPERTIES ImplementsBestOfTrials RunEnds
