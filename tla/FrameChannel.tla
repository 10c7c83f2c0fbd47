---------------------------- MODULE FrameChannel ----------------------------
(***************************************************************************)
(* What the receiving side of a node promises to the handlers of frames:   *)
(* every frame a peer sent is handled once, and when a frame is handled    *)
(* fewer than Window earlier frames of the same peer are still waiting.    *)
(* It is not a FIFO: a single frame can be overtaken by every later one.   *)
(***************************************************************************)
EXTENDS Naturals, FiniteSets

CONSTANTS Peers, Frames, Window

VARIABLES
  arrived,   \* how many frames of each peer have arrived
  backlog,   \* the frames that arrived and are not handled yet
  handled    \* how often each frame was handled

Earlier(f) == {g \in backlog : g[1] = f[1] /\ g[2] < f[2]}

Init ==
  /\ arrived = [p \in Peers |-> 0]
  /\ backlog = {}
  /\ handled = [f \in Frames |-> 0]

\* The next frame of p arrives: frames of a peer are numbered from 1.
Arrive(p) ==
  /\ arrived' = [arrived EXCEPT ![p] = @ + 1]
  /\ backlog' = backlog \union {<<p, arrived[p] + 1>>}
  /\ UNCHANGED handled

Handle(f) ==
  /\ Cardinality(Earlier(f)) < Window
  /\ backlog' = backlog \ {f}
  /\ handled' = [handled EXCEPT ![f] = @ + 1]
  /\ UNCHANGED arrived

Next ==
  \/ \E p \in Peers : Arrive(p)
  \/ \E f \in backlog : Handle(f)

Spec == Init /\ [][Next]_<<arrived, backlog, handled>>
=============================================================================
