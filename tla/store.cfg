SPECIFICATION Spec
CONSTANTS
  t1 = t1
  t2 = t2
  Blocks <- ForkBlocks
  Genesis = "g"
  Parent <- ForkParent
  Index <- ForkIndex
  Work <- ForkWork
  NoProof <- MCNone
  BadTime <- MCNone
  BadBody <- MCNone
  Threads <- MCThreads
  NoThread = NoThread
  NoBlock = NoBlock
  MaxReorgDepth = 3
  CheckpointEvery = 2
  Base = 2
  MaxFailures = 2
CONSTRAINT CalmOrAlone
SYMMETRY MCSymmetry
INVARIANTS
  TypeOK SavedSurvives NothingComesBack
