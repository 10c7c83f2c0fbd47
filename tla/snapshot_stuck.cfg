\* One peer, one stream, nothing fails.
SPECIFICATION Spec
CONSTANTS
  p1 = p1
  p2 = p2
  w1 = w1
  w2 = w2
  Workers <- MCWorkers
  Peers <- OnePeer
  Asked <- OnePeer
  Chunks = 2
  MaxDeferred = 1
  MaxPending = 2
  MaxSessions = 1
  MaxEvents = 0
INVARIANT CanAskAgain
CHECK_DEADLOCK FALSE
