SPECIFICATION Spec
CONSTANTS
  Ids = {1, 2, 3}
  Weights = {0, 1}
  Threshold = 0
  NoSelfLinks = FALSE
  MaxSize = 8
INVARIANTS StatisticsExact RowsAreTheLinks
PROPERTIES ImplementsWeightedGraph
