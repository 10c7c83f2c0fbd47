SPECIFICATION FairSpec
CONSTANTS
  Blocks <- HonestBlocks
  Genesis = "g"
  Parent <- HonestParent
  Index <- HonestIndex
  Work <- HonestWork
  NoProof <- MCNone
  BadTime <- MCNone
  BadBody <- MCNone
  MaxOrphans = 7
  OrphanAge = 0
  TipStaleTtl = 0
  MaxTipStale = 1
  MaxReorgDepth = 2
  Base = 3
  CheckpointEvery = 1
  MaxClock = 1
INVARIANTS
  HashesWait CandidateAlive MergeProgress
PROPERTIES
  ImplementsMainChain CallsReturn
