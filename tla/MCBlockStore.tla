---------------------------- MODULE MCBlockStore ----------------------------
(* Instances of BlockStore: two branches of different difficulty.            *)
EXTENDS BlockStore, TLC

CONSTANTS t1, t2

MCThreads == {t1, t2}
MCSymmetry == Permutations(MCThreads)
MCNone == {}

\*   g - a1 - a2 - a3
\*    \- b1 - b2 - b3       the b branch was mined at a higher difficulty
ForkBlocks == {"g", "a1", "a2", "a3", "b1", "b2", "b3"}
ForkParent == [b \in ForkBlocks |->
  CASE b \in {"g", "a1", "b1"} -> "g"
    [] b = "a2" -> "a1"
    [] b = "a3" -> "a2"
    [] b = "b2" -> "b1"
    [] b = "b3" -> "b2"]
ForkIndex == [b \in ForkBlocks |->
  CASE b = "g" -> 0
    [] b \in {"a1", "b1"} -> 1
    [] b \in {"a2", "b2"} -> 2
    [] b \in {"a3", "b3"} -> 3]
ForkWork == [b \in ForkBlocks |-> IF b \in {"b1", "b2", "b3"} THEN 2 ELSE 1]

\* The properties are about calm states: once an unlocked save overlapped another
\* task they promise nothing, and such states are followed only while one task runs.
CalmOrAlone == calm \/ \A t, u \in Threads : t = u \/ task[t] = Idle \/ task[u] = Idle
=============================================================================
