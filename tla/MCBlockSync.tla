----------------------------- MODULE MCBlockSync -----------------------------
(* BlockSync with one or two peers and the heights they start with.           *)
EXTENDS BlockSync

CONSTANTS p1, p2

OnePeer == {p1}
SecondPeer == {p2}
TwoPeers == {p1, p2}
StartOne == [p \in OnePeer |-> 3]
StartTwo == [p \in TwoPeers |-> IF p = p1 THEN 1 ELSE 0]
=============================================================================
