SPECIFICATION Spec
CONSTANTS
  Configs <- MCConfigs
  Eps = 2
  MaxLength = 1000
  ConfigWidth = 16
  EngineWidth = 4
  UserSeed = 15
  MinTrials = 2
  Patience = 2
  ToleranceUnit = 10
  DanglingFlow = 0
  NoFinalOutput = FALSE
INVARIANTS TrialSeedsReproduce CompletedIsBest HeaderIsHonest NumberedFilesAreTheirTrials StopsAtFirstPlateau
PROPERTIES OldFilesSurvive
