SPECIFICATION Spec
CONSTANTS
  Leaves <- NineLeaves
  Modules <- AllModules
  FirstTree <- FirstModules
  Findings <- AllFindings
  FineTuned <- Tuned
  LeafLength <- Squares
  IndexLength = 1
  Gains <- SomeGains
  Eps = 1
  Bias <- Prefer
  MinDegree = 4
  Starts <- FineTuneFirst
INVARIANTS CodelengthIsTrees
