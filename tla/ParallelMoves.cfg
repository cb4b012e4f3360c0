SPECIFICATION ParallelSpec
CONSTANTS
  NumNodes = 4
  LinkFlow <- UndirectedLinks
  Undirected = TRUE
  Recorded = TRUE
  TeleportFlow <- Teleports
  TeleportWeight <- Weights
  NodeFlow <- Flows
  PhysicalNodes <- NoPhysical
  Memory = FALSE
  RandomMoves = FALSE
  GivenModules <- SomeGivenModules
  CoreLoopLimit = 0
  MaxCodelength = 1
INVARIANTS CommitsKeepFlow EmptyModulesExact SettledBetweenSweeps
PROPERTIES NoLoneNodeRenamed
