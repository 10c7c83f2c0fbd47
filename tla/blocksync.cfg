\* Two peers, one a block ahead, the other level at first and growing past it to height
\* 2; two frame threads, so a frame may overtake another.
SPECIFICATION FairSpec
CONSTANTS
  p1 = p1
  p2 = p2
  Peers <- TwoPeers
  Start <- StartTwo
  Growing <- SecondPeer
  MaxHeight = 2
  Workers = 2
  MaxPerRequest = 2
  HeaderBatch = 2
  TailFrame = 2
  LagTolerance = 0
  BanScore = 1
  MaxOut = 1
  MaxRx = 2
INVARIANTS TypeOK IdleHasNoWork
PROPERTY StallsHaveCause
\* The peers' chain stops at MaxHeight and the node may have nothing left to do.
CHECK_DEADLOCK FALSE
