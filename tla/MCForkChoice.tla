---------------------------- MODULE MCForkChoice ----------------------------
(* Instances of ForkChoice: small block trees, with the history variable the *)
(* properties about whole calls need.                                        *)
EXTENDS ForkChoice

MCNone == {}

\*   g - a1 - a2
\*    \- b1 - b2 - b3        a2 and b3 were mined at a higher difficulty
\*         \- c2
HonestBlocks == {"g", "a1", "a2", "b1", "b2", "b3", "c2"}
HonestParent == [b \in HonestBlocks |->
  CASE b \in {"g", "a1", "b1"} -> "g"
    [] b = "a2" -> "a1"
    [] b \in {"b2", "c2"} -> "b1"
    [] b = "b3" -> "b2"]
HonestIndex == [b \in HonestBlocks |->
  CASE b = "g" -> 0
    [] b \in {"a1", "b1"} -> 1
    [] b \in {"a2", "b2", "c2"} -> 2
    [] b = "b3" -> 3]
HonestWork == [b \in HonestBlocks |-> IF b \in {"a2", "b3"} THEN 3 ELSE 2]

\*   g - a1 - a2 - a3      b2 fails a check of its body; hi, hj and lo carry a
\*   |\    \- hi, lo         wrong index, late a time out of the window, np no
\*   | \- b1 - b2 - b3      proof; the b branch was mined at a higher difficulty
\*    \- hj, late, np
FaultyBlocks == {"g", "a1", "a2", "a3", "b1", "b2", "b3", "hi", "hj", "lo", "late", "np"}
FaultyParent == [b \in FaultyBlocks |->
  CASE b \in {"g", "a1", "b1", "hj", "late", "np"} -> "g"
    [] b \in {"a2", "hi", "lo"} -> "a1"
    [] b = "a3" -> "a2"
    [] b = "b2" -> "b1"
    [] b = "b3" -> "b2"]
FaultyIndex == [b \in FaultyBlocks |->
  CASE b = "g" -> 0
    [] b \in {"a1", "b1", "lo", "late", "np"} -> 1
    [] b \in {"a2", "b2"} -> 2
    [] b \in {"a3", "b3", "hi", "hj"} -> 3]
FaultyWork == [b \in FaultyBlocks |-> IF b \in {"b1", "b2", "b3"} THEN 2 ELSE 1]
FaultyBody == {"b2"}
FaultyTime == {"late"}
FaultyProof == {"np"}
=============================================================================
