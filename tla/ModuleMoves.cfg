SPECIFICATION FairSpec
CONSTANTS
  NumNodes = 4
  LinkFlow <- DirectedLinks
  Undirected = FALSE
  Recorded = TRUE
  TeleportFlow <- Teleports
  TeleportWeight <- Weights
  NodeFlow <- Flows
  PhysicalNodes <- SharedPhysical
  Memory = TRUE
  RandomMoves = FALSE
  GivenModules <- OneGivenModules
  CoreLoopLimit = 0
  MaxCodelength = 1
INVARIANTS CountsExact FlowExact MemoryTermsOnce CleanIsSettled
PROPERTIES OptimisationEnds
