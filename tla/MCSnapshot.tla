----------------------------- MODULE MCSnapshot -----------------------------
(* Snapshot with small sets of peers and workers.                             *)
EXTENDS Snapshot, TLC

CONSTANTS p1, p2, w1, w2

MCWorkers == {w1, w2}
OnePeer == {p1}
TwoPeers == {p1, p2}
Symmetry == Permutations(MCWorkers)
=============================================================================
