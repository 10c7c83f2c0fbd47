---------------------------- MODULE MCFrameQueue ----------------------------
(* FrameQueue with two read loops, two workers and a queue of three frames:   *)
(* the narrowest queue that QueueWide admits for these threads.               *)
EXTENDS FrameQueue, TLC

CONSTANTS p1, p2, w1, w2

MCPeers == {p1, p2}
MCWorkers == {w1, w2}
=============================================================================
