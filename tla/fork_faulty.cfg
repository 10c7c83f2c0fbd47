SPECIFICATION Spec
CONSTANTS
  Blocks <- FaultyBlocks
  Genesis = "g"
  Parent <- FaultyParent
  Index <- FaultyIndex
  Work <- FaultyWork
  NoProof <- FaultyProof
  BadTime <- FaultyTime
  BadBody <- FaultyBody
  MaxOrphans = 2
  OrphanAge = 0
  TipStaleTtl = 0
  MaxTipStale = 1
  MaxReorgDepth = 3
  Base = 10
  CheckpointEvery = 3
  MaxClock = 0
INVARIANTS
  TypeOK ChainLinked CandidatesRooted
PROPERTIES
  CheckpointKept ImplementsMainChain
