SPECIFICATION Spec
CONSTANTS
  Capacity = 3
  Width = 14
  Values = {0, 1, 2}
  Plus <- PlusModulo
  Default = 0
INVARIANTS SlotsMatchIndices
PROPERTIES ImplementsRoundMap
