----------------------------- MODULE FrameQueue -----------------------------
(***************************************************************************)
(* The bounded queue between the read loops of the transports and the      *)
(* pool of workers that handle frames (network.cpp, rxQ).  Readers and     *)
(* workers wait on one condition variable, rxQCv, the readers for room and *)
(* the workers for a frame, and each wakes one waiter, of either kind.  A  *)
(* worker handles the frame it took after it left the lock, so frames of   *)
(* one peer are handled by several workers at once.                        *)
(***************************************************************************)
EXTENDS Naturals, Sequences, FiniteSets

CONSTANTS
  Peers,         \* one read loop for each connected peer, all free to interleave
  Workers,       \* the threads of the pool
  RXQ_CAPACITY,
  MaxFrames      \* bound: frames each peer sends

ASSUME ThreadsAssumption == /\ IsFiniteSet(Peers) /\ IsFiniteSet(Workers)
                            /\ Peers \intersect Workers = {}
                            /\ Peers # {} /\ Workers # {}
ASSUME BoundAssumption == MaxFrames \in Nat
ASSUME CapacityAssumption == RXQ_CAPACITY \in Nat \ {0}

\* A read loop may still owe the notification of its last push when it waits, so
\* it counts twice.  determineWorkerCount gives twice the number of cores, and
\* with the peers of the table the sum stays far below 2 * 1024.
ASSUME QueueWide ==
  2 * Cardinality(Peers) + Cardinality(Workers) <= 2 * RXQ_CAPACITY

VARIABLES
  rxQ,       \* the queue, oldest first
  read,      \* frames each read loop has decoded so far
  pc,        \* where each thread is
  item,      \* the frame each worker holds, None when it holds none
  done       \* how often each frame was handled to the end

vars == <<rxQ, read, pc, item, done>>

None == <<>>
Threads == Peers \union Workers
Frames == Peers \X (1..MaxFrames)
Waiting == {t \in Threads : pc[t] = "wait"}

Init ==
  /\ rxQ = <<>>
  /\ read = [p \in Peers |-> 0]
  /\ pc = [t \in Threads |-> IF t \in Peers THEN "read" ELSE "take"]
  /\ item = [w \in Workers |-> None]
  /\ done = [f \in Frames |-> 0]

\* A waiter tests its predicate again, with the lock.
Resumed(t) == IF t \in Peers THEN "push" ELSE "take"

\* notify_one, by a thread that goes on at "next"
NotifyOne(t, next) ==
  \/ /\ Waiting = {}
     /\ pc' = [pc EXCEPT ![t] = next]
  \/ \E u \in Waiting : pc' = [pc EXCEPT ![t] = next, ![u] = Resumed(u)]

\* The transport decoded a whole frame and calls back.
ReadFrame(p) ==
  /\ pc[p] = "read" /\ read[p] < MaxFrames
  /\ read' = [read EXCEPT ![p] = @ + 1]
  /\ pc' = [pc EXCEPT ![p] = "push"]
  /\ UNCHANGED <<rxQ, item, done>>

\* Mutant: the room test is off by one.
Push_OneTooMany(p) ==
  /\ pc[p] = "push"
  /\ IF Len(rxQ) <= RXQ_CAPACITY
     THEN rxQ' = Append(rxQ, <<p, read[p]>>) /\ pc' = [pc EXCEPT ![p] = "notify"]
     ELSE pc' = [pc EXCEPT ![p] = "wait"] /\ UNCHANGED rxQ
  /\ UNCHANGED <<read, item, done>>

\* rxQCv.wait for room, then rxQ.push
Push(p) ==
  /\ pc[p] = "push"
  /\ \/ /\ Len(rxQ) < RXQ_CAPACITY
        /\ rxQ' = Append(rxQ, <<p, read[p]>>)
        /\ pc' = [pc EXCEPT ![p] = "notify"]
     \/ /\ Len(rxQ) >= RXQ_CAPACITY
        /\ pc' = [pc EXCEPT ![p] = "wait"]
        /\ UNCHANGED rxQ
  /\ UNCHANGED <<read, item, done>>

\* Mutant: nobody is told of the frame.
NotifyPushed_Silent(p) ==
  /\ pc[p] = "notify"
  /\ pc' = [pc EXCEPT ![p] = "read"]
  /\ UNCHANGED <<rxQ, read, item, done>>

\* The reader notifies after it left the lock.
NotifyPushed(p) ==
  /\ pc[p] = "notify"
  /\ NotifyOne(p, "read")
  /\ UNCHANGED <<rxQ, read, item, done>>

\* Mutant: the worker does not wake the read loops that wait for room.
Take_Silent(w) ==
  /\ pc[w] = "take"
  /\ IF rxQ # <<>>
     THEN /\ item' = [item EXCEPT ![w] = Head(rxQ)]
          /\ rxQ' = Tail(rxQ)
          /\ pc' = [pc EXCEPT ![w] = "process"]
     ELSE pc' = [pc EXCEPT ![w] = "wait"] /\ UNCHANGED <<rxQ, item>>
  /\ UNCHANGED <<read, done>>

\* Mutant: the worker looks at the front of the queue and leaves it there.
Take_NoPop(w) ==
  /\ pc[w] = "take" /\ rxQ # <<>>
  /\ item' = [item EXCEPT ![w] = Head(rxQ)]
  /\ NotifyOne(w, "process")
  /\ UNCHANGED <<rxQ, read, done>>

\* The worker takes the oldest frame and notifies with the lock held.
Take(w) ==
  /\ pc[w] = "take"
  /\ \/ /\ rxQ # <<>>
        /\ item' = [item EXCEPT ![w] = Head(rxQ)]
        /\ rxQ' = Tail(rxQ)
        /\ NotifyOne(w, "process")
     \/ /\ rxQ = <<>>
        /\ pc' = [pc EXCEPT ![w] = "wait"]
        /\ UNCHANGED <<rxQ, item>>
  /\ UNCHANGED <<read, done>>

\* processFrame returns.
ProcessFrame(w) ==
  /\ pc[w] = "process"
  /\ done' = [done EXCEPT ![item[w]] = @ + 1]
  /\ item' = [item EXCEPT ![w] = None]
  /\ pc' = [pc EXCEPT ![w] = "take"]
  /\ UNCHANGED <<rxQ, read>>

Reader(p) == ReadFrame(p) \/ Push(p) \/ NotifyPushed(p)
Worker(w) == Take(w) \/ ProcessFrame(w)
Next == (\E p \in Peers : Reader(p)) \/ (\E w \in Workers : Worker(w))

Spec == Init /\ [][Next]_vars

\* A thread that can go on does, and a handler returns.
FairSpec ==
  /\ Spec
  /\ \A p \in Peers : WF_vars(Push(p) \/ NotifyPushed(p))
  /\ \A w \in Workers : WF_vars(Worker(w))
-----------------------------------------------------------------------------
(* What follows states properties; none of it is code.                     *)

\* Every variable keeps its type, and the queue its capacity.
TypeOK ==
  /\ rxQ \in Seq(Frames) /\ Len(rxQ) <= RXQ_CAPACITY
  /\ read \in [Peers -> 0..MaxFrames]
  /\ \A p \in Peers : pc[p] \in {"read", "push", "wait", "notify"}
  /\ \A w \in Workers : pc[w] \in {"take", "wait", "process"}
  /\ item \in [Workers -> Frames \union {None}]
  /\ done \in [Frames -> Nat]

Held == {item[w] : w \in {v \in Workers : pc[v] = "process"}}
Queued == {rxQ[i] : i \in DOMAIN rxQ}

\* Frames that a read loop handed over: all but the one it still carries
HandedOver(p) == read[p] - (IF pc[p] \in {"push", "wait"} THEN 1 ELSE 0)

Channel == INSTANCE FrameChannel WITH
             Frames  <- Frames,
             Window  <- Cardinality(Workers),
             arrived <- [p \in Peers |-> HandedOver(p)],
             backlog <- Queued \union Held,
             handled <- done

\* The queue and its workers are a channel that handles each frame once and lets
\* a frame overtake fewer others than there are workers: what the handlers of
\* snapshot chunks, which tolerate disorder within limits, build on.
ImplementsFrameChannel == Channel!Spec

\* Readers and workers never all wait at once: a notification meant for a worker
\* that wakes a reader, or the other way round, is never the last one.  It is what
\* one condition variable for two conditions puts at risk, and it rests on
\* QueueWide: with a queue of two the same four threads do come to a standstill.
NoStandstill ==
  Waiting # Threads

\* Every frame a peer sent is handled in the end, whichever waiter each
\* notification wakes.
EveryFrameHandled ==
  \A p \in Peers : \A k \in 1..MaxFrames :
    (read[p] >= k) ~> (done[<<p, k>>] > 0)
=============================================================================
