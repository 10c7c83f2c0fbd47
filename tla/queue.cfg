\* Two readers, two workers, a queue of three.
SPECIFICATION FairSpec
CONSTANTS
  p1 = p1
  p2 = p2
  w1 = w1
  w2 = w2
  Peers <- MCPeers
  Workers <- MCWorkers
  RXQ_CAPACITY = 3
  MaxFrames = 4
INVARIANTS TypeOK NoStandstill
PROPERTIES ImplementsFrameChannel EveryFrameHandled
\* The workers wait for ever once the peers send nothing more.
CHECK_DEADLOCK FALSE
