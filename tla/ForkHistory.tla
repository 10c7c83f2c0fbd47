---------------------------- MODULE ForkHistory ----------------------------
(* ForkChoice with the main chain at the entry of the running call.         *)
EXTENDS MCForkChoice

VARIABLE entry

HInit == Init /\ entry = chain

\* No crash: what is at stake is what a call that returns has done.
HNext ==
  /\ Step \/ Input
  /\ entry' = (IF Idle THEN chain ELSE entry)

HSpec == HInit /\ [][HNext]_<<vars, entry>>

\* "Compare incoming chain and merge if better" (blockchain.cpp:4075): a call
\* never leaves the node on a chain with less work than the one it had before.
WorkKept == Idle => CumulativeDifficulty(chain) >= CumulativeDifficulty(entry)
=============================================================================
