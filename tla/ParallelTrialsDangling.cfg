SPECIFICATION Spec
CONSTANTS
  NumTrials = 3
  Codelengths = {10, 20}
  Eps = 2
  MaxLength = 1000
  TrialOffset = 1
  ConfigWidth = 16
  EngineWidth = 4
  OmpThreads = 2
  BaseSeed = 2
  DanglingFlow = 1
  Starts = {}
  PrintAllTrials = FALSE
  Overwrite = TRUE
  NoFinalOutput = FALSE
  Failures = FALSE
INVARIANTS TrialNamesOneRun
