---------------------------- MODULE MCAtomicSwap ----------------------------
(* Instance of AtomicSwap: two threads, one preimage that matches and one that *)
(* does not, and durations that are past, short, and too long for time_t.      *)
EXTENDS AtomicSwap

CONSTANTS c1, c2, u1, u2

MCCallers == {c1, c2}
MCSwaps == {u1, u2}
OneSwap == {u1}
MCHashOf == [s \in {"s1", "s2"} |-> IF s = "s1" THEN "h1" ELSE "h2"]
MCDurations == {-1, 0, 1, 7}
=============================================================================
