SPECIFICATION Spec
CONSTANTS
  PoolSize = 14
  HeapSize = 4
  NumLeaves = 4
  LeafFlow <- Flows
  Found <- SomePartitions
  Starts <- AllStarts
  TuneLimit = 3
  NumTrials = 2
  MaxRuns = 2
VIEW Seen
INVARIANTS TreeIsSound TreeIsWhatWasFound CallsAreLegal
