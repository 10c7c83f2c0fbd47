\* Two peers, two streams of three chunks, two workers; the node asks, gets tail
\* blocks, loses a connection or cannot write its file once.
SPECIFICATION FairSpec
CONSTANTS
  p1 = p1
  p2 = p2
  w1 = w1
  w2 = w2
  Workers <- MCWorkers
  Peers <- TwoPeers
  Asked <- OnePeer
  Chunks = 3
  MaxDeferred = 1
  MaxPending = 2
  MaxSessions = 2
  MaxEvents = 1
INVARIANT TypeOK
PROPERTIES ImplementsTransfer InOrderSessionEnds FirstSnapshotInstalled
\* Once the event and the streams of the bounds are used up nothing is left to do.
CHECK_DEADLOCK FALSE
