SPECIFICATION HSpec
CONSTANTS
  Blocks <- HonestBlocks
  Genesis = "g"
  Parent <- HonestParent
  Index <- HonestIndex
  Work <- HonestWork
  NoProof <- MCNone
  BadTime <- MCNone
  BadBody <- MCNone
  MaxOrphans = 7
  OrphanAge = 0
  TipStaleTtl = 0
  MaxTipStale = 1
  MaxReorgDepth = 3
  Base = 10
  CheckpointEvery = 1000
  MaxClock = 0
INVARIANTS
  WorkKept
