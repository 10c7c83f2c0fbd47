-------------------------- MODULE SnapshotTransfer --------------------------
(***************************************************************************)
(* What the transfer of snapshots promises to the chain: the bytes kept of *)
(* a session are always an initial part of that session's own stream, they *)
(* may be thrown away at any time, and a session is installed only when    *)
(* all of it is there.  Nothing is ever put together from two sessions.    *)
(***************************************************************************)
EXTENDS Naturals

CONSTANTS Sessions, Chunks   \* a stream is Chunks pieces long

VARIABLES
  got,        \* the pieces kept of each session, as <<session, offset>>
  installed   \* the contents handed to the chain

Piece(s, n) == {<<s, o>> : o \in 0..(n - 1)}
Whole(s) == Piece(s, Chunks)

Init ==
  /\ got = [s \in Sessions |-> {}]
  /\ installed = {}

Gain(s) ==
  /\ \E n \in 1..Chunks : got' = [got EXCEPT ![s] = Piece(s, n)] /\ got[s] \subseteq got'[s]
  /\ UNCHANGED installed

Discard(s) ==
  /\ got' = [got EXCEPT ![s] = {}]
  /\ UNCHANGED installed

Install(s) ==
  /\ got[s] = Whole(s)
  /\ installed' = installed \union {got[s]}
  /\ UNCHANGED got

Next == \E s \in Sessions : Gain(s) \/ Discard(s) \/ Install(s)

Spec == Init /\ [][Next]_<<got, installed>>
=============================================================================
