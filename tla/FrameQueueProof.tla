-------------------------- MODULE FrameQueueProof --------------------------
(* Theorems about FrameQueue, for any number of read loops and workers and *)
(* any capacity that QueueWide admits.                                     *)
EXTENDS FrameQueue, FiniteSetTheorems, TLAPS

PeerPCs == {"read", "push", "wait", "notify"}
WorkerPCs == {"take", "wait", "process"}

\* A read loop that carries a frame has read one, a worker that handles a frame
\* holds one.
Typed ==
  /\ TypeOK
  /\ pc \in [Threads -> PeerPCs \union WorkerPCs]
  /\ \A p \in Peers : pc[p] # "read" => read[p] > 0
  /\ \A w \in Workers : pc[w] = "process" => item[w] \in Frames

\* One thread goes on at "next" and one waiter, at most, tests again.
Wakes(t, next) ==
  \E u \in Waiting :
    pc' = [pc EXCEPT ![t] = next, ![u] = Resumed(u)]
Moves(t, next) == pc' = [pc EXCEPT ![t] = next]

-----------------------------------------------------------------------------

LEMMA ThreadSets ==
  /\ IsFiniteSet(Peers) /\ IsFiniteSet(Workers)
  /\ \A p \in Peers : p \in Threads /\ p \notin Workers
  /\ \A w \in Workers : w \in Threads /\ w \notin Peers
  BY ThreadsAssumption DEF Threads

\* NotifyOne leaves both kinds of threads at places of their kind.
LEMMA NotifyTyped ==
  ASSUME Typed, NEW t \in Threads, NEW next,
         t \in Peers => next \in PeerPCs,
         t \in Workers => next \in WorkerPCs,
         Moves(t, next) \/ Wakes(t, next)
  PROVE  /\ pc' \in [Threads -> PeerPCs \union WorkerPCs]
         /\ \A p \in Peers : pc'[p] \in PeerPCs
         /\ \A w \in Workers : pc'[w] \in WorkerPCs
<1>1. CASE Moves(t, next)
  BY <1>1 DEF Moves, Typed, TypeOK, Threads, PeerPCs, WorkerPCs
<1>2. CASE Wakes(t, next)
  <2>1. PICK u \in Waiting : pc' = [pc EXCEPT ![t] = next, ![u] = Resumed(u)]
    BY <1>2 DEF Wakes
  <2>2. u \in Threads
    BY DEF Waiting
  <2>3. /\ u \in Peers => Resumed(u) \in PeerPCs
        /\ u \in Workers => Resumed(u) \in WorkerPCs
    BY ThreadSets DEF Resumed, PeerPCs, WorkerPCs
  <2> QED
    BY <2>1, <2>2, <2>3 DEF Typed, TypeOK, Threads, PeerPCs, WorkerPCs
<1> QED
  BY <1>1, <1>2

\* The threads that a step neither runs nor wakes stay where they are.
LEMMA NotifyKeeps ==
  ASSUME Typed, NEW t \in Threads, NEW next, NEW x \in Threads, x # t,
         Moves(t, next) \/ Wakes(t, next)
  PROVE  pc'[x] = pc[x] \/ (pc[x] = "wait" /\ pc'[x] = Resumed(x))
  BY DEF Moves, Wakes, Waiting, Typed

LEMMA NotifyActor ==
  ASSUME Typed, NEW t \in Threads, NEW next, pc[t] # "wait",
         Moves(t, next) \/ Wakes(t, next)
  PROVE  pc'[t] = next
  BY DEF Moves, Wakes, Waiting, Typed

LEMMA NotifyForms ==
  ASSUME NEW t, NEW next, NotifyOne(t, next)
  PROVE  \/ Waiting = {} /\ Moves(t, next)
         \/ Wakes(t, next)
  BY DEF NotifyOne, Moves, Wakes

LEMMA InitTyped == Init => Typed
<1> SUFFICES ASSUME Init PROVE Typed
  OBVIOUS
<1>1. rxQ \in Seq(Frames) /\ Len(rxQ) <= RXQ_CAPACITY
  BY CapacityAssumption DEF Init
<1>2. read \in [Peers -> 0..MaxFrames]
  BY BoundAssumption DEF Init
<1>3. /\ pc \in [Threads -> PeerPCs \union WorkerPCs]
      /\ \A p \in Peers : pc[p] = "read"
      /\ \A w \in Workers : pc[w] = "take"
  BY ThreadSets DEF Init, PeerPCs, WorkerPCs
<1>4. item \in [Workers -> Frames \union {None}] /\ done \in [Frames -> Nat]
  BY DEF Init
<1> QED
  BY <1>1, <1>2, <1>3, <1>4 DEF Typed, TypeOK

LEMMA NextTyped == Typed /\ [Next]_vars => Typed'
<1> SUFFICES ASSUME Typed, [Next]_vars PROVE Typed'
  OBVIOUS
<1> USE ThreadSets
<1>1. ASSUME NEW p \in Peers, ReadFrame(p) PROVE Typed'
  <2>1. Moves(p, "push")
    BY <1>1 DEF ReadFrame, Moves
  <2>2. /\ pc' \in [Threads -> PeerPCs \union WorkerPCs]
        /\ \A q \in Peers : pc'[q] \in PeerPCs
        /\ \A w \in Workers : pc'[w] \in WorkerPCs
    BY <2>1, NotifyTyped DEF PeerPCs
  <2>3. read' \in [Peers -> 0..MaxFrames] /\ read'[p] > 0
    BY <1>1, BoundAssumption DEF ReadFrame, Typed, TypeOK
  <2>4. \A q \in Peers : pc'[q] # "read" => read'[q] > 0
    BY <1>1, <2>3 DEF ReadFrame, Typed, TypeOK
  <2>5. \A w \in Workers : pc'[w] = pc[w]
    BY <1>1 DEF ReadFrame, Typed
  <2> QED
    BY <1>1, <2>2, <2>3, <2>4, <2>5 DEF ReadFrame, Typed, TypeOK, PeerPCs, WorkerPCs
<1>2. ASSUME NEW p \in Peers, Push(p) PROVE Typed'
  <2>1. PICK next \in {"notify", "wait"} : Moves(p, next)
    BY <1>2 DEF Push, Moves
  <2>2. /\ pc' \in [Threads -> PeerPCs \union WorkerPCs]
        /\ \A q \in Peers : pc'[q] \in PeerPCs
        /\ \A w \in Workers : pc'[w] \in WorkerPCs
    BY <2>1, NotifyTyped DEF PeerPCs
  <2>3. \A x \in Threads : x # p => pc'[x] = pc[x]
    BY <2>1 DEF Moves, Typed
  <2>4. <<p, read[p]>> \in Frames
    BY <1>2, BoundAssumption DEF Push, Typed, TypeOK, Frames
  <2>5. rxQ' \in Seq(Frames) /\ Len(rxQ') <= RXQ_CAPACITY
    <3>1. rxQ \in Seq(Frames) /\ Len(rxQ) \in Nat /\ Len(rxQ) <= RXQ_CAPACITY
      BY DEF Typed, TypeOK
    <3>2. CASE rxQ' = rxQ
      BY <3>1, <3>2
    <3>3. CASE Len(rxQ) < RXQ_CAPACITY /\ rxQ' = Append(rxQ, <<p, read[p]>>)
      <4>1. rxQ' \in Seq(Frames) /\ Len(rxQ') = Len(rxQ) + 1
        BY <2>4, <3>1, <3>3
      <4> QED
        BY <3>1, <3>3, <4>1, CapacityAssumption
    <3> QED
      BY <1>2, <3>2, <3>3 DEF Push
  <2>6. read[p] > 0
    BY <1>2 DEF Push, Typed
  <2> QED
    BY <1>2, <2>2, <2>3, <2>5, <2>6 DEF Push, Typed, TypeOK, PeerPCs, WorkerPCs
<1>3. ASSUME NEW p \in Peers, NotifyPushed(p) PROVE Typed'
  <2>1. Moves(p, "read") \/ Wakes(p, "read")
    BY <1>3, NotifyForms DEF NotifyPushed
  <2>2. /\ pc' \in [Threads -> PeerPCs \union WorkerPCs]
        /\ \A q \in Peers : pc'[q] \in PeerPCs
        /\ \A w \in Workers : pc'[w] \in WorkerPCs
    BY <2>1, NotifyTyped DEF PeerPCs
  <2>3. \A x \in Threads : x # p => pc'[x] = pc[x] \/ (pc[x] = "wait" /\ pc'[x] = Resumed(x))
    BY <2>1, NotifyKeeps
  <2>4. \A w \in Workers : pc'[w] = "process" => pc[w] = "process"
    BY <2>3 DEF Resumed
  <2>5. \A q \in Peers : pc'[q] # "read" => pc[q] # "read"
    BY <1>3, <2>1, <2>3, NotifyActor DEF NotifyPushed
  <2> QED
    BY <1>3, <2>2, <2>4, <2>5 DEF NotifyPushed, Typed, TypeOK, PeerPCs, WorkerPCs
<1>4. ASSUME NEW w \in Workers, Take(w) PROVE Typed'
  <2>1. CASE rxQ # <<>>
    <3>1. /\ item' = [item EXCEPT ![w] = Head(rxQ)]
          /\ rxQ' = Tail(rxQ)
          /\ Moves(w, "process") \/ Wakes(w, "process")
      BY <1>4, <2>1, NotifyForms DEF Take
    <3>2. /\ pc' \in [Threads -> PeerPCs \union WorkerPCs]
          /\ \A q \in Peers : pc'[q] \in PeerPCs
          /\ \A v \in Workers : pc'[v] \in WorkerPCs
      BY <3>1, NotifyTyped DEF WorkerPCs
    <3>3. \A x \in Threads : x # w => pc'[x] = pc[x] \/ (pc[x] = "wait" /\ pc'[x] = Resumed(x))
      BY <3>1, NotifyKeeps
    <3>4. Head(rxQ) \in Frames /\ rxQ' \in Seq(Frames) /\ Len(rxQ') <= RXQ_CAPACITY
      BY <2>1, <3>1, CapacityAssumption DEF Typed, TypeOK
    <3>5. \A v \in Workers : pc'[v] = "process" => item'[v] \in Frames
      BY <3>1, <3>3, <3>4 DEF Typed, TypeOK, Resumed
    <3>6. \A q \in Peers : pc'[q] # "read" => pc[q] # "read"
      BY <3>3
    <3>7. item' \in [Workers -> Frames \union {None}]
      BY <3>1, <3>4 DEF Typed, TypeOK
    <3> QED
      BY <1>4, <3>2, <3>4, <3>5, <3>6, <3>7 DEF Take, Typed, TypeOK, PeerPCs, WorkerPCs
  <2>2. CASE rxQ = <<>>
    <3>1. Moves(w, "wait") /\ UNCHANGED <<rxQ, item, read, done>>
      BY <1>4, <2>2 DEF Take, Moves
    <3>2. /\ pc' \in [Threads -> PeerPCs \union WorkerPCs]
          /\ \A q \in Peers : pc'[q] \in PeerPCs
          /\ \A v \in Workers : pc'[v] \in WorkerPCs
      BY <3>1, NotifyTyped DEF WorkerPCs
    <3>3. \A x \in Threads : pc'[x] = pc[x] \/ (x = w /\ pc'[x] = "wait")
      BY <3>1 DEF Moves, Typed
    <3> QED
      BY <3>1, <3>2, <3>3 DEF Typed, TypeOK, PeerPCs, WorkerPCs
  <2> QED
    BY <2>1, <2>2
<1>5. ASSUME NEW w \in Workers, ProcessFrame(w) PROVE Typed'
  <2>1. Moves(w, "take")
    BY <1>5 DEF ProcessFrame, Moves
  <2>2. /\ pc' \in [Threads -> PeerPCs \union WorkerPCs]
        /\ \A q \in Peers : pc'[q] \in PeerPCs
        /\ \A v \in Workers : pc'[v] \in WorkerPCs
    BY <2>1, NotifyTyped DEF WorkerPCs
  <2>3. \A x \in Threads : pc'[x] = pc[x] \/ (x = w /\ pc'[x] = "take")
    BY <2>1 DEF Moves, Typed
  <2>4. item' \in [Workers -> Frames \union {None}]
    BY <1>5 DEF ProcessFrame, Typed, TypeOK
  <2>5. done' \in [Frames -> Nat]
    BY <1>5 DEF ProcessFrame, Typed, TypeOK
  <2>6. \A v \in Workers : pc'[v] = "process" => item'[v] \in Frames
    BY <1>5, <2>3 DEF ProcessFrame, Typed, TypeOK
  <2> QED
    BY <1>5, <2>2, <2>3, <2>4, <2>5, <2>6 DEF ProcessFrame, Typed, TypeOK, PeerPCs, WorkerPCs
<1>6. CASE UNCHANGED vars
  BY <1>6 DEF vars, Typed, TypeOK
<1> QED
  BY <1>1, <1>2, <1>3, <1>4, <1>5, <1>6 DEF Next, Reader, Worker

\* Every thread, frame and counter keeps its type, and the queue its capacity.
THEOREM TypeCorrect == Spec => []TypeOK
<1>1. Typed => TypeOK
  BY DEF Typed
<1> QED
  BY <1>1, InitTyped, NextTyped, PTL DEF Spec

-----------------------------------------------------------------------------
(* Readers and workers never all wait.                                     *)

AwakeWorkers == {w \in Workers : pc[w] # "wait"}
AwakeReaders == {p \in Peers : pc[p] # "wait"}
Owing == {p \in Peers : pc[p] = "notify"}

\* Workers that are awake whenever a reader waits for room.
Enough == IF Cardinality(Workers) + Cardinality(Peers) <= RXQ_CAPACITY
          THEN Cardinality(Workers)
          ELSE RXQ_CAPACITY + 1 - Cardinality(Peers)

\* While the queue fills, each frame in it has woken a worker or is still owed a
\* notification, unless enough workers are awake.  While a reader waits, enough
\* workers are awake, and each frame taken since the queue was full has woken a
\* thread more: before the queue is empty, and a worker may wait, QueueWide makes
\* these more than all threads but the reader.
WakeInv ==
  /\ \/ Len(rxQ) <= Cardinality(AwakeWorkers) + Cardinality(Owing)
     \/ Cardinality(AwakeWorkers) >= Enough
  /\ AwakeReaders # Peers =>
       /\ Cardinality(AwakeWorkers) >= Enough
       /\ Cardinality(AwakeWorkers) + Cardinality(AwakeReaders)
            >= RXQ_CAPACITY - Len(rxQ) + Enough

LEMMA EnoughConstant == Enough' = Enough
  BY DEF Enough

\* The sizes WakeInv speaks of are natural numbers within their sets.
LEMMA Sizes ==
  /\ Cardinality(Peers) \in Nat /\ Cardinality(Workers) \in Nat
  /\ Cardinality(Peers) > 0 /\ Cardinality(Workers) > 0
  /\ IsFiniteSet(AwakeWorkers) /\ IsFiniteSet(AwakeReaders) /\ IsFiniteSet(Owing)
  /\ Cardinality(AwakeWorkers) \in Nat /\ Cardinality(AwakeWorkers) <= Cardinality(Workers)
  /\ Cardinality(AwakeReaders) \in Nat /\ Cardinality(AwakeReaders) <= Cardinality(Peers)
  /\ AwakeReaders # Peers => Cardinality(AwakeReaders) < Cardinality(Peers)
  /\ AwakeWorkers = Workers => Cardinality(AwakeWorkers) = Cardinality(Workers)
  /\ Cardinality(Owing) \in Nat
  /\ \A p \in AwakeReaders : p \notin Owing =>
       Cardinality(Owing) < Cardinality(AwakeReaders)
  /\ Enough \in Nat /\ Enough > 0
<1>1. /\ AwakeWorkers \in SUBSET Workers
      /\ AwakeReaders \in SUBSET Peers
      /\ Owing \in SUBSET AwakeReaders
  BY DEF AwakeWorkers, AwakeReaders, Owing
<1>2. /\ Cardinality(Peers) \in Nat /\ Cardinality(Workers) \in Nat
      /\ Cardinality(Peers) > 0 /\ Cardinality(Workers) > 0
  BY ThreadsAssumption, FS_CardinalityType, FS_EmptySet
<1>3. /\ IsFiniteSet(AwakeWorkers) /\ IsFiniteSet(AwakeReaders)
      /\ Cardinality(AwakeWorkers) <= Cardinality(Workers)
      /\ Cardinality(AwakeReaders) <= Cardinality(Peers)
      /\ Cardinality(AwakeReaders) = Cardinality(Peers) => AwakeReaders = Peers
  BY <1>1, ThreadsAssumption, FS_Subset
<1>4. /\ IsFiniteSet(Owing)
      /\ Cardinality(Owing) <= Cardinality(AwakeReaders)
      /\ Cardinality(Owing) = Cardinality(AwakeReaders) => Owing = AwakeReaders
  BY <1>1, <1>3, FS_Subset
<1>5. /\ Cardinality(AwakeWorkers) \in Nat /\ Cardinality(AwakeReaders) \in Nat
      /\ Cardinality(Owing) \in Nat
  BY <1>3, <1>4, FS_CardinalityType
<1>6. Enough \in Nat /\ Enough > 0
  BY <1>2, CapacityAssumption, QueueWide DEF Enough
<1> QED
  BY <1>2, <1>3, <1>4, <1>5, <1>6

\* What a wakened thread adds to the sizes; the mover is awake before.
LEMMA WakeSizes ==
  ASSUME Typed, NEW t \in Threads, NEW next, pc[t] # "wait", next # "wait",
         next # "notify",
         Wakes(t, next)
  PROVE  /\ \/ /\ AwakeWorkers' # AwakeWorkers
                /\ AwakeWorkers # Workers
                /\ Cardinality(AwakeWorkers') = Cardinality(AwakeWorkers) + 1
                /\ Cardinality(AwakeReaders') = Cardinality(AwakeReaders)
                /\ AwakeReaders' = AwakeReaders
            \/ /\ AwakeWorkers' = AwakeWorkers
                /\ AwakeReaders # Peers
                /\ Cardinality(AwakeReaders') = Cardinality(AwakeReaders) + 1
         /\ Owing' = Owing \ {t}
<1>1. PICK u \in Waiting : pc' = [pc EXCEPT ![t] = next, ![u] = Resumed(u)]
  BY DEF Wakes
<1>2. u \in Threads /\ pc[u] = "wait" /\ u # t
  BY <1>1 DEF Waiting
<1>3. /\ pc'[t] = next /\ pc'[u] = Resumed(u)
      /\ \A x \in Threads : x # t /\ x # u => pc'[x] = pc[x]
  BY <1>1, <1>2 DEF Typed
<1>4. Resumed(u) \notin {"wait", "notify"}
  BY DEF Resumed
<1>5. Owing' = Owing \ {t}
  BY <1>2, <1>3, <1>4, ThreadSets DEF Owing
<1>6. CASE u \in Workers
  <2>1. AwakeReaders' = AwakeReaders
    BY <1>2, <1>3, <1>6, ThreadSets DEF AwakeReaders
  <2>2. AwakeWorkers' = AwakeWorkers \union {u} /\ u \notin AwakeWorkers
    BY <1>2, <1>3, <1>4, <1>6, ThreadSets DEF AwakeWorkers
  <2> QED
    BY <1>5, <1>6, <2>1, <2>2, Sizes, FS_AddElement
<1>7. CASE u \in Peers
  <2>1. AwakeWorkers' = AwakeWorkers
    BY <1>2, <1>3, <1>7, ThreadSets DEF AwakeWorkers
  <2>2. AwakeReaders' = AwakeReaders \union {u} /\ u \notin AwakeReaders
    BY <1>2, <1>3, <1>4, <1>7, ThreadSets DEF AwakeReaders
  <2> QED
    BY <1>5, <1>7, <2>1, <2>2, Sizes, FS_AddElement
<1> QED
  BY <1>2, <1>6, <1>7 DEF Threads

LEMMA InitWake == Init => WakeInv
<1> SUFFICES ASSUME Init PROVE WakeInv
  OBVIOUS
<1>1. AwakeReaders = Peers /\ Len(rxQ) = 0
  BY ThreadSets DEF Init, AwakeReaders
<1> QED
  BY <1>1, Sizes DEF WakeInv

\* A step that wakes nobody, moves nobody to or from a waiting place, and leaves
\* the queue and the owed notifications alone.
LEMMA SameKeepsWake ==
  ASSUME WakeInv, AwakeWorkers' = AwakeWorkers, AwakeReaders' = AwakeReaders,
         Owing' = Owing, Len(rxQ)' = Len(rxQ)
  PROVE  WakeInv'
  BY DEF WakeInv, Enough

LEMMA PushKeepsWake ==
  ASSUME Typed, WakeInv, NEW p \in Peers, Push(p)
  PROVE  WakeInv'
<1>1. /\ Len(rxQ) \in Nat /\ Len(rxQ) <= RXQ_CAPACITY
      /\ RXQ_CAPACITY \in Nat
  BY CapacityAssumption DEF Typed, TypeOK
<1>2. AwakeWorkers' = AwakeWorkers
  BY ThreadSets DEF Push, AwakeWorkers, Typed
<1>3. CASE Len(rxQ) < RXQ_CAPACITY
  <2>1. Len(rxQ') = Len(rxQ) + 1 /\ pc' = [pc EXCEPT ![p] = "notify"]
    BY <1>1, <1>3, CapacityAssumption DEF Push, Typed, TypeOK
  <2>2. AwakeReaders' = AwakeReaders
    BY <2>1, ThreadSets DEF Push, AwakeReaders, Typed
  <2>3. Owing' = Owing \union {p} /\ p \notin Owing
    BY <2>1, ThreadSets DEF Push, Owing, Typed
  <2>4. Cardinality(Owing') = Cardinality(Owing) + 1
    BY <2>3, Sizes, FS_AddElement
  <2> QED
    BY <1>1, <1>2, <2>1, <2>2, <2>4, Sizes, EnoughConstant DEF WakeInv
<1>4. CASE Len(rxQ) = RXQ_CAPACITY
  <2>1. rxQ' = rxQ /\ pc' = [pc EXCEPT ![p] = "wait"]
    BY <1>1, <1>4 DEF Push
  <2>2. AwakeReaders' = AwakeReaders \ {p} /\ p \in AwakeReaders /\ p \notin Owing
    BY <2>1, ThreadSets DEF Push, AwakeReaders, Owing, Typed
  <2>3. Owing' = Owing
    BY <2>1, ThreadSets DEF Push, Owing, Typed
  <2>4. Cardinality(AwakeReaders') = Cardinality(AwakeReaders) - 1
    BY <2>2, Sizes, FS_RemoveElement
  <2>5. Cardinality(Owing) < Cardinality(AwakeReaders)
    BY <2>2, Sizes
  <2>6. Cardinality(AwakeWorkers) >= Enough
    BY <1>1, <1>4, <2>5, Sizes DEF WakeInv, Enough
  <2> QED
    BY <1>1, <1>2, <1>4, <2>1, <2>3, <2>4, <2>5, <2>6, Sizes, CapacityAssumption
       DEF WakeInv, Enough
<1> QED
  BY <1>1, <1>3, <1>4

LEMMA NotifyKeepsWake ==
  ASSUME Typed, WakeInv, NEW p \in Peers, NotifyPushed(p)
  PROVE  WakeInv'
<1>1. p \in Threads /\ pc[p] = "notify" /\ rxQ' = rxQ /\ p \in Owing
  BY ThreadSets DEF NotifyPushed, Owing
<1>2. Len(rxQ) \in Nat /\ Len(rxQ) <= RXQ_CAPACITY /\ RXQ_CAPACITY \in Nat
  BY CapacityAssumption DEF Typed, TypeOK
<1>3. CASE Waiting = {} /\ Moves(p, "read")
  <2>1. AwakeReaders' = AwakeReaders /\ AwakeReaders = Peers
    BY <1>1, <1>3, ThreadSets DEF Moves, AwakeReaders, Waiting, Typed
  <2>2. AwakeWorkers' = AwakeWorkers /\ AwakeWorkers = Workers
    BY <1>1, <1>3, ThreadSets DEF Moves, AwakeWorkers, Waiting, Typed
  <2>3. Cardinality(Workers) >= Enough
    BY Sizes, CapacityAssumption DEF Enough
  <2> QED
    BY <2>1, <2>2, <2>3, EnoughConstant DEF WakeInv
<1>4. CASE Wakes(p, "read")
  <2>1. Owing' = Owing \ {p}
    BY <1>1, <1>4, WakeSizes
  <2>2. Cardinality(Owing') = Cardinality(Owing) - 1
    BY <1>1, <2>1, Sizes, FS_RemoveElement
  <2>3. CASE AwakeWorkers' # AwakeWorkers
    <3>1. /\ Cardinality(AwakeWorkers') = Cardinality(AwakeWorkers) + 1
          /\ AwakeReaders' = AwakeReaders
      BY <1>1, <1>4, <2>3, WakeSizes
    <3> QED
      BY <1>1, <1>2, <2>2, <3>1, Sizes, EnoughConstant DEF WakeInv
  <2>4. CASE AwakeWorkers' = AwakeWorkers
    <3>1. /\ AwakeReaders # Peers
          /\ Cardinality(AwakeReaders') = Cardinality(AwakeReaders) + 1
      BY <1>1, <1>4, <2>4, WakeSizes
    <3> QED
      BY <1>1, <1>2, <2>4, <3>1, Sizes, EnoughConstant DEF WakeInv
  <2> QED
    BY <2>3, <2>4
<1> QED
  BY <1>3, <1>4, NotifyForms DEF NotifyPushed

LEMMA TakeKeepsWake ==
  ASSUME Typed, WakeInv, NEW w \in Workers, Take(w)
  PROVE  WakeInv'
<1>1. w \in Threads /\ pc[w] = "take" /\ w \in AwakeWorkers /\ w \notin Owing
  BY ThreadSets DEF Take, AwakeWorkers, Owing
<1>2. Len(rxQ) \in Nat /\ Len(rxQ) <= RXQ_CAPACITY /\ RXQ_CAPACITY \in Nat
  BY CapacityAssumption DEF Typed, TypeOK
<1>3. CASE rxQ # <<>>
  <2>1. Len(rxQ') = Len(rxQ) - 1
    BY <1>3 DEF Take, Typed, TypeOK
  <2>2. CASE Waiting = {} /\ Moves(w, "process")
    <3>1. AwakeReaders' = AwakeReaders /\ AwakeReaders = Peers
      BY <1>1, <2>2, ThreadSets DEF Moves, AwakeReaders, Waiting, Typed
    <3>2. AwakeWorkers' = AwakeWorkers /\ AwakeWorkers = Workers
      BY <1>1, <2>2, ThreadSets DEF Moves, AwakeWorkers, Waiting, Typed
    <3>3. Cardinality(Workers) >= Enough
      BY Sizes, CapacityAssumption DEF Enough
    <3> QED
      BY <3>1, <3>2, <3>3, EnoughConstant DEF WakeInv
  <2>3. CASE Wakes(w, "process")
    <3>1. Owing' = Owing
      BY <1>1, <2>3, WakeSizes
    <3>2. CASE AwakeWorkers' # AwakeWorkers
      <4>1. /\ Cardinality(AwakeWorkers') = Cardinality(AwakeWorkers) + 1
            /\ AwakeReaders' = AwakeReaders
        BY <1>1, <2>3, <3>2, WakeSizes
      <4> QED
        BY <1>2, <2>1, <3>1, <4>1, Sizes, EnoughConstant DEF WakeInv
    <3>3. CASE AwakeWorkers' = AwakeWorkers
      <4>1. /\ AwakeReaders # Peers
            /\ Cardinality(AwakeReaders') = Cardinality(AwakeReaders) + 1
        BY <1>1, <2>3, <3>3, WakeSizes
      <4> QED
        BY <1>2, <2>1, <3>1, <3>3, <4>1, Sizes, EnoughConstant DEF WakeInv
    <3> QED
      BY <3>2, <3>3
  <2> QED
    BY <1>3, <2>2, <2>3, NotifyForms DEF Take
<1>4. CASE rxQ = <<>>
  <2>1. rxQ' = rxQ /\ Len(rxQ) = 0 /\ pc' = [pc EXCEPT ![w] = "wait"]
    BY <1>4 DEF Take
  <2>2. AwakeReaders' = AwakeReaders /\ Owing' = Owing
    BY <1>1, <2>1, ThreadSets DEF AwakeReaders, Owing, Typed
  <2>3. AwakeReaders = Peers
    BY <1>2, <2>1, Sizes, QueueWide DEF WakeInv, Enough
  <2>4. Cardinality(AwakeWorkers') \in Nat
    <3>1. AwakeWorkers' = AwakeWorkers \ {w}
      BY <1>1, <2>1, ThreadSets DEF AwakeWorkers, Typed
    <3> QED
      BY <3>1, Sizes, FS_RemoveElement, FS_CardinalityType
  <2> QED
    BY <2>1, <2>2, <2>3, <2>4, Sizes DEF WakeInv
<1> QED
  BY <1>3, <1>4

LEMMA NextWake == Typed /\ WakeInv /\ [Next]_vars => WakeInv'
<1> SUFFICES ASSUME Typed, WakeInv, [Next]_vars PROVE WakeInv'
  OBVIOUS
<1>1. ASSUME NEW p \in Peers, ReadFrame(p) PROVE WakeInv'
  <2>1. /\ AwakeWorkers' = AwakeWorkers /\ AwakeReaders' = AwakeReaders
        /\ Owing' = Owing /\ rxQ' = rxQ
    BY <1>1, ThreadSets DEF ReadFrame, AwakeWorkers, AwakeReaders, Owing, Typed
  <2> QED
    BY <2>1, SameKeepsWake
<1>2. ASSUME NEW w \in Workers, ProcessFrame(w) PROVE WakeInv'
  <2>1. /\ AwakeWorkers' = AwakeWorkers /\ AwakeReaders' = AwakeReaders
        /\ Owing' = Owing /\ rxQ' = rxQ
    BY <1>2, ThreadSets DEF ProcessFrame, AwakeWorkers, AwakeReaders, Owing, Typed
  <2> QED
    BY <2>1, SameKeepsWake
<1>3. CASE UNCHANGED vars
  <2>1. /\ AwakeWorkers' = AwakeWorkers /\ AwakeReaders' = AwakeReaders
        /\ Owing' = Owing /\ rxQ' = rxQ
    BY <1>3 DEF vars, AwakeWorkers, AwakeReaders, Owing
  <2> QED
    BY <2>1, SameKeepsWake
<1> QED
  BY <1>1, <1>2, <1>3, PushKeepsWake, NotifyKeepsWake, TakeKeepsWake
     DEF Next, Reader, Worker

\* One condition variable for two conditions is enough for a queue this wide:
\* whichever waiter each notification wakes, some thread is always awake.
THEOREM NeverAllWaiting == Spec => []NoStandstill
<1>1. WakeInv => NoStandstill
  <2> SUFFICES ASSUME WakeInv, Waiting = Threads PROVE FALSE
    BY DEF NoStandstill
  <2>1. AwakeWorkers = {} /\ AwakeReaders = {}
    BY ThreadSets DEF Waiting, AwakeWorkers, AwakeReaders
  <2>2. Cardinality(AwakeWorkers) = 0 /\ AwakeReaders # Peers
    BY <2>1, FS_EmptySet, ThreadsAssumption
  <2> QED
    BY <2>2, Sizes DEF WakeInv
<1> QED
  BY <1>1, InitTyped, NextTyped, InitWake, NextWake, PTL DEF Spec

-----------------------------------------------------------------------------
(* The queue and its workers implement the channel.                        *)

Handling(w) == pc[w] = "process"
Earlier(f, g) == f[1] = g[1] => f[2] < g[2]
Handed == [p \in Peers |-> HandedOver(p)]
Arrived(f, handed) == f[2] <= handed[f[1]]

\* Frames of a peer leave the queue in their order, so that a frame is overtaken
\* only by frames that other workers handle, and no two workers hold the same.
OrderInv ==
  /\ \A i, j \in 1..Len(rxQ) : i < j => Earlier(rxQ[i], rxQ[j])
  /\ \A w \in Workers : Handling(w) =>
       \A i \in 1..Len(rxQ) : Earlier(item[w], rxQ[i])
  /\ \A v, w \in Workers : Handling(v) /\ Handling(w) /\ item[v] = item[w] => v = w
  /\ \A i \in 1..Len(rxQ) : Arrived(rxQ[i], Handed)
  /\ \A w \in Workers : Handling(w) => Arrived(item[w], Handed)

Backlog == Queued \union Held

\* What the threads of a notification hold does not change by it.
LEMMA NotifyKeepsHolding ==
  ASSUME Typed, NEW t \in Threads, NEW next, NEW x \in Threads, x # t,
         Moves(t, next) \/ Wakes(t, next), read' = read
  PROVE  /\ x \in Workers => (Handling(x)' <=> Handling(x))
         /\ x \in Peers => HandedOver(x)' = HandedOver(x)
<1>1. pc'[x] = pc[x] \/ (pc[x] = "wait" /\ pc'[x] = Resumed(x))
  BY NotifyKeeps
<1> QED
  BY <1>1, ThreadSets DEF Handling, HandedOver, Resumed

\* A step that changes neither what is queued and held nor what was handed over.
LEMMA SameKeepsOrder ==
  ASSUME Typed, OrderInv, rxQ' = rxQ,
         \A w \in Workers : Handling(w)' => Handling(w) /\ item'[w] = item[w],
         Handed' = Handed
  PROVE  OrderInv'
<1>1. \A i \in 1..Len(rxQ) : rxQ[i] \in Frames
  BY DEF Typed, TypeOK
<1>3. \A w \in Workers : Handling(w) => item[w] \in Frames
  BY DEF Typed, Handling
<1> QED
  BY <1>1, <1>3 DEF OrderInv

LEMMA SameBacklog ==
  ASSUME rxQ' = rxQ,
         \A w \in Workers : (Handling(w)' <=> Handling(w)) /\ item'[w] = item[w]
  PROVE  Backlog' = Backlog
  BY DEF Backlog, Queued, Held, Handling

LEMMA HandedTyped ==
  ASSUME Typed
  PROVE  Handed \in [Peers -> Nat]
<1> SUFFICES ASSUME NEW p \in Peers PROVE HandedOver(p) \in Nat
  BY DEF Handed
<1>1. read[p] \in 0..MaxFrames /\ (pc[p] # "read" => read[p] > 0)
  BY DEF Typed, TypeOK
<1>2. CASE pc[p] \in {"push", "wait"}
  BY <1>1, <1>2, BoundAssumption DEF HandedOver
<1>3. CASE pc[p] \notin {"push", "wait"}
  BY <1>1, <1>3, BoundAssumption DEF HandedOver
<1> QED
  BY <1>2, <1>3

\* A frame that enters the queue is the next of its peer.
LEMMA PushedOrder ==
  ASSUME Typed, OrderInv, NEW p \in Peers, Push(p), Len(rxQ) < RXQ_CAPACITY
  PROVE  /\ OrderInv'
         /\ Handed' = [Handed EXCEPT ![p] = @ + 1]
         /\ Backlog' = Backlog \union {<<p, Handed[p] + 1>>}
<1>0. PICK f : f = <<p, read[p]>>
  OBVIOUS
<1>1. /\ rxQ' = Append(rxQ, f) /\ pc' = [pc EXCEPT ![p] = "notify"]
      /\ UNCHANGED <<read, item, done>>
  BY <1>0, CapacityAssumption DEF Push, Typed, TypeOK
<1>2. /\ f \in Frames /\ f[1] = p /\ f[2] = Handed[p] + 1
      /\ HandedOver(p)' = Handed[p] + 1
  <2>1. pc[p] = "push" /\ pc'[p] = "notify" /\ read[p] \in 1..MaxFrames
    <3>1. pc[p] = "push"
      BY DEF Push
    <3>2. read[p] \in 0..MaxFrames /\ read[p] > 0
      BY <3>1 DEF Typed, TypeOK
    <3>3. pc'[p] = "notify"
      BY <1>1, ThreadSets DEF Typed
    <3> QED
      BY <3>1, <3>2, <3>3, BoundAssumption
  <2> QED
    BY <1>0, <1>1, <2>1 DEF HandedOver, Handed, Frames
<1>3. Handed' = [Handed EXCEPT ![p] = @ + 1]
  <2>1. \A q \in Peers : q # p => HandedOver(q)' = HandedOver(q)
    BY <1>1, ThreadSets DEF HandedOver, Typed
  <2> QED
    BY <1>2, <2>1 DEF Handed
<1>4. \A w \in Workers : (Handling(w)' <=> Handling(w)) /\ item'[w] = item[w]
  BY <1>1, ThreadSets DEF Handling, Typed
<1>5. /\ Len(rxQ) \in Nat /\ Len(rxQ') = Len(rxQ) + 1
      /\ \A i \in 1..Len(rxQ) : rxQ'[i] = rxQ[i] /\ rxQ[i] \in Frames
      /\ rxQ'[Len(rxQ) + 1] = f
  BY <1>1, <1>2 DEF Typed, TypeOK
<1>6. \A g \in Frames : Arrived(g, Handed) => Arrived(g, Handed') /\ Earlier(g, f)
  BY <1>2, <1>3, HandedTyped DEF Arrived, Earlier, Frames
<1>7. \A w \in Workers : Handling(w) => item[w] \in Frames
  BY DEF Typed, Handling
<1>8. Arrived(f, Handed')
  BY <1>2, <1>3, HandedTyped DEF Arrived
<1>9. OrderInv'
  <2>1. \A i, j \in 1..Len(rxQ') : i < j => Earlier(rxQ'[i], rxQ'[j])
    BY <1>5, <1>6 DEF OrderInv
  <2>2. \A w \in Workers : Handling(w)' =>
          \A i \in 1..Len(rxQ') : Earlier(item'[w], rxQ'[i])
    BY <1>4, <1>5, <1>6, <1>7 DEF OrderInv
  <2>3. \A v, w \in Workers :
          Handling(v)' /\ Handling(w)' /\ item'[v] = item'[w] => v = w
    BY <1>4 DEF OrderInv
  <2>4. \A i \in 1..Len(rxQ') : Arrived(rxQ'[i], Handed')
    BY <1>5, <1>6, <1>8 DEF OrderInv
  <2>5. \A w \in Workers : Handling(w)' => Arrived(item'[w], Handed')
    BY <1>4, <1>6, <1>7 DEF OrderInv
  <2> QED
    BY <2>1, <2>2, <2>3, <2>4, <2>5 DEF OrderInv, Earlier
<1>10. Backlog' = Backlog \union {f}
  <2>1. Held' = Held
    BY <1>4 DEF Held, Handling
  <2>2. Queued' = Queued \union {f}
    BY <1>5 DEF Queued
  <2> QED
    BY <2>1, <2>2 DEF Backlog
<1> QED
  BY <1>0, <1>2, <1>3, <1>9, <1>10 DEF Frames

\* The oldest frame passes from the queue to a worker.
LEMMA TakenOrder ==
  ASSUME Typed, OrderInv, NEW w \in Workers, Take(w), rxQ # <<>>
  PROVE  /\ OrderInv'
         /\ Handed' = Handed
         /\ Backlog' = Backlog
<1>1. /\ item' = [item EXCEPT ![w] = Head(rxQ)]
      /\ rxQ' = Tail(rxQ)
      /\ Moves(w, "process") \/ Wakes(w, "process")
      /\ pc[w] = "take" /\ read' = read
  BY NotifyForms DEF Take
<1>2. /\ Len(rxQ) \in Nat \ {0} /\ Len(rxQ') = Len(rxQ) - 1
      /\ \A i \in 1..Len(rxQ') : rxQ'[i] = rxQ[i + 1]
      /\ Head(rxQ) = rxQ[1]
      /\ \A i \in 1..Len(rxQ) : rxQ[i] \in Frames
  BY <1>1 DEF Typed, TypeOK
<1>3. Handling(w)' /\ item'[w] = rxQ[1] /\ ~ Handling(w)
  BY <1>1, <1>2, NotifyActor, ThreadSets DEF Handling, Typed, TypeOK
<1>4. \A v \in Workers : v # w => (Handling(v)' <=> Handling(v)) /\ item'[v] = item[v]
  BY <1>1, NotifyKeepsHolding, ThreadSets DEF Typed, TypeOK
<1>5. Handed' = Handed
  <2>1. \A p \in Peers : HandedOver(p)' = HandedOver(p)
    BY <1>1, NotifyKeepsHolding, ThreadSets
  <2> QED
    BY <2>1 DEF Handed
<1>6. \A f \in Frames : Arrived(f, Handed) => Arrived(f, Handed')
  BY <1>5
<1>7. \A v \in Workers : Handling(v) => item[v] \in Frames
  BY DEF Typed, Handling
<1>8. OrderInv'
  <2>1. \A i, j \in 1..Len(rxQ') : i < j => Earlier(rxQ'[i], rxQ'[j])
    BY <1>2 DEF OrderInv
  <2>2. \A v \in Workers : Handling(v)' =>
          \A i \in 1..Len(rxQ') : Earlier(item'[v], rxQ'[i])
    <3> SUFFICES ASSUME NEW v \in Workers, Handling(v)', NEW i \in 1..Len(rxQ')
                 PROVE  Earlier(item'[v], rxQ'[i])
      OBVIOUS
    <3>1. i + 1 \in 1..Len(rxQ) /\ 1 \in 1..Len(rxQ) /\ rxQ'[i] = rxQ[i + 1] /\ 1 < i + 1
      BY <1>2
    <3>2. CASE v = w
      BY <1>3, <3>1, <3>2 DEF OrderInv
    <3>3. CASE v # w
      BY <1>4, <3>1, <3>3 DEF OrderInv
    <3> QED
      BY <3>2, <3>3
  <2>3. \A v \in Workers : v # w /\ Handling(v)' => item'[v] # item'[w]
    <3> SUFFICES ASSUME NEW v \in Workers, v # w, Handling(v)', item'[v] = rxQ[1]
                 PROVE  FALSE
      BY <1>3
    <3>1. Earlier(rxQ[1], rxQ[1])
      BY <1>2, <1>4 DEF OrderInv
    <3>2. rxQ[1] \in Frames
      BY <1>2
    <3> QED
      BY <3>1, <3>2 DEF Earlier, Frames
  <2>4. \A u, v \in Workers :
          Handling(u)' /\ Handling(v)' /\ item'[u] = item'[v] => u = v
    BY <1>4, <2>3 DEF OrderInv
  <2>5. \A i \in 1..Len(rxQ') : Arrived(rxQ'[i], Handed')
    BY <1>2, <1>6 DEF OrderInv
  <2>6. \A v \in Workers : Handling(v)' => Arrived(item'[v], Handed')
    BY <1>2, <1>3, <1>4, <1>6, <1>7 DEF OrderInv
  <2> QED
    BY <2>1, <2>2, <2>4, <2>5, <2>6 DEF OrderInv, Earlier
<1>9. Backlog' = Backlog
  <2>1. Held' = Held \union {rxQ[1]}
    BY <1>3, <1>4 DEF Held, Handling
  <2>2. Queued = Queued' \union {rxQ[1]}
    <3>1. \A i \in 2..Len(rxQ) : rxQ[i] = rxQ'[i - 1] /\ i - 1 \in 1..Len(rxQ')
      BY <1>2
    <3>2. \A i \in 1..Len(rxQ) : i = 1 \/ i \in 2..Len(rxQ)
      OBVIOUS
    <3>3. rxQ \in Seq(Frames) /\ rxQ' \in Seq(Frames)
      BY <1>1 DEF Typed, TypeOK
    <3>4. /\ Queued = {rxQ[i] : i \in 1..Len(rxQ)}
          /\ Queued' = {rxQ'[i] : i \in 1..Len(rxQ')}
      BY <3>3 DEF Queued
    <3> QED
      BY <1>2, <3>1, <3>2, <3>4
  <2> QED
    BY <2>1, <2>2 DEF Backlog
<1> QED
  BY <1>5, <1>8, <1>9

\* A handler returns: its frame leaves the backlog, and the earlier frames of the
\* peer that are still there are those that the other workers hold.
LEMMA ProcessedOrder ==
  ASSUME Typed, OrderInv, NEW w \in Workers, ProcessFrame(w)
  PROVE  /\ OrderInv'
         /\ Handed' = Handed
         /\ item[w] \in Backlog
         /\ Backlog' = Backlog \ {item[w]}
         /\ Cardinality({g \in Backlog : g[1] = item[w][1] /\ g[2] < item[w][2]})
              < Cardinality(Workers)
<1>0. PICK f : f = item[w]
  OBVIOUS
<1>1. /\ pc' = [pc EXCEPT ![w] = "take"] /\ item' = [item EXCEPT ![w] = None]
      /\ UNCHANGED <<rxQ, read>> /\ Handling(w) /\ f \in Frames
  BY <1>0 DEF ProcessFrame, Handling, Typed
<1>2. /\ ~ Handling(w)'
      /\ \A v \in Workers : v # w => (Handling(v)' <=> Handling(v)) /\ item'[v] = item[v]
  BY <1>1, ThreadSets DEF Handling, Typed, TypeOK
<1>3. Handed' = Handed
  <2>1. \A p \in Peers : HandedOver(p)' = HandedOver(p)
    BY <1>1, ThreadSets DEF HandedOver, Typed
  <2> QED
    BY <2>1 DEF Handed
<1>4. OrderInv'
  BY <1>1, <1>2, <1>3, SameKeepsOrder
<1>5. f \in Held
  BY <1>0, <1>1 DEF Held, Handling
<1>6. f \notin Queued
  <2>1. \A i \in 1..Len(rxQ) : Earlier(f, rxQ[i])
    BY <1>0, <1>1 DEF OrderInv
  <2>2. ~ Earlier(f, f)
    BY <1>1 DEF Earlier, Frames
  <2>3. Queued = {rxQ[i] : i \in 1..Len(rxQ)}
    BY DEF Queued, Typed, TypeOK
  <2> QED
    BY <2>1, <2>2, <2>3
<1>7. Held' = Held \ {f}
  <2>1. \A v \in Workers : v # w /\ Handling(v) => item[v] # f
    BY <1>0, <1>1 DEF OrderInv
  <2> QED
    BY <1>0, <1>1, <1>2, <2>1 DEF Held, Handling
<1>8. Backlog' = Backlog \ {f}
  BY <1>1, <1>6, <1>7 DEF Backlog, Queued
<1>9. Cardinality({g \in Backlog : g[1] = f[1] /\ g[2] < f[2]}) < Cardinality(Workers)
  <2> DEFINE E == {g \in Backlog : g[1] = f[1] /\ g[2] < f[2]}
             V == {v \in Workers \ {w} : Handling(v) /\ item[v] \in E}
             h == [v \in V |-> item[v]]
  <2>1. \A g \in Queued : ~ (g[1] = f[1] /\ g[2] < f[2])
    <3>1. \A i \in 1..Len(rxQ) : Earlier(f, rxQ[i]) /\ rxQ[i] \in Frames
      BY <1>0, <1>1 DEF OrderInv, Typed, TypeOK
    <3>2. Queued = {rxQ[i] : i \in 1..Len(rxQ)}
      BY DEF Queued, Typed, TypeOK
    <3>3. \A g \in Frames : Earlier(f, g) => ~ (g[1] = f[1] /\ g[2] < f[2])
      BY <1>1 DEF Earlier, Frames
    <3> QED
      BY <3>1, <3>2, <3>3
  <2>2. f \notin E
    BY <1>1 DEF Frames
  <2>3. \A g \in E : \E v \in V : h[v] = g
    BY <1>0, <2>1, <2>2 DEF Backlog, Held, Handling
  <2>4. h \in Surjection(V, E)
    <3>1. h \in [V -> E]
      OBVIOUS
    <3> QED
      BY <2>3, <3>1 DEF Surjection
  <2>5. IsFiniteSet(Workers \ {w}) /\ Cardinality(Workers \ {w}) = Cardinality(Workers) - 1
    BY ThreadsAssumption, FS_RemoveElement
  <2>6. IsFiniteSet(V) /\ Cardinality(V) <= Cardinality(Workers \ {w})
    <3>1. V \in SUBSET (Workers \ {w})
      OBVIOUS
    <3> QED
      BY <2>5, <3>1, FS_Subset
  <2> HIDE DEF E, V, h
  <2>7. IsFiniteSet(E) /\ Cardinality(E) <= Cardinality(V)
    BY <2>4, <2>6, FS_Surjection
  <2>8. Cardinality(E) \in Nat /\ Cardinality(V) \in Nat /\ Cardinality(Workers) \in Nat
    BY <2>6, <2>7, FS_CardinalityType, ThreadsAssumption
  <2>9. Cardinality(E) < Cardinality(Workers)
    BY <2>5, <2>6, <2>7, <2>8
  <2> QED
    BY <2>9 DEF E
<1> QED
  BY <1>0, <1>3, <1>4, <1>5, <1>8, <1>9 DEF Backlog

\* A step of a read loop that hands nothing over.
LEMMA ReaderOrder ==
  ASSUME Typed, OrderInv, NEW p \in Peers,
         \/ ReadFrame(p) \/ NotifyPushed(p)
         \/ Push(p) /\ Len(rxQ) >= RXQ_CAPACITY
  PROVE  /\ OrderInv'
         /\ Handed' = Handed
         /\ Backlog' = Backlog
         /\ done' = done
<1>1. rxQ' = rxQ /\ item' = item /\ done' = done
  BY CapacityAssumption DEF ReadFrame, NotifyPushed, Push, Typed, TypeOK
<1>2. /\ \A w \in Workers : Handling(w)' <=> Handling(w)
      /\ \A q \in Peers : HandedOver(q)' = HandedOver(q)
  <2>1. CASE ReadFrame(p)
    BY <2>1, ThreadSets DEF ReadFrame, Handling, HandedOver, Typed, TypeOK
  <2>2. CASE Push(p) /\ Len(rxQ) >= RXQ_CAPACITY
    <3>1. pc' = [pc EXCEPT ![p] = "wait"] /\ pc[p] = "push" /\ read' = read
      BY <2>2, CapacityAssumption DEF Push, Typed, TypeOK
    <3> QED
      BY <3>1, ThreadSets DEF Handling, HandedOver, Typed, TypeOK
  <2>3. CASE NotifyPushed(p)
    <3>1. /\ Moves(p, "read") \/ Wakes(p, "read")
          /\ read' = read /\ pc[p] = "notify"
      BY <2>3, NotifyForms DEF NotifyPushed
    <3>2. pc'[p] = "read"
      BY <3>1, NotifyActor, ThreadSets
    <3>3. HandedOver(p)' = HandedOver(p)
      BY <3>1, <3>2 DEF HandedOver
    <3> QED
      BY <3>1, <3>3, NotifyKeepsHolding, ThreadSets
  <2> QED
    BY <2>1, <2>2, <2>3
<1>3. Handed' = Handed
  BY <1>2 DEF Handed
<1> QED
  BY <1>1, <1>2, <1>3, SameKeepsOrder, SameBacklog

\* The channel counts sets as the queue does.
LEMMA SameCardinality ==
  ASSUME NEW S
  PROVE  Channel!Cardinality(S) = Cardinality(S)
  BY DEF Channel!Cardinality, Cardinality, Channel!IsFiniteSet, IsFiniteSet

LEMMA InitOrder == Init => OrderInv
  BY ThreadSets DEF Init, OrderInv, Handling

\* Every step is a step of the channel or leaves its variables alone.
LEMMA NextOrder ==
  ASSUME Typed, OrderInv, [Next]_vars
  PROVE  /\ OrderInv'
         /\ [Channel!Next]_<<Handed, Backlog, done>>
<1>1. ASSUME NEW p \in Peers, Reader(p)
      PROVE  OrderInv' /\ [Channel!Next]_<<Handed, Backlog, done>>
  <2>1. CASE Push(p) /\ Len(rxQ) < RXQ_CAPACITY
    <3>1. Channel!Arrive(p)
      BY <2>1, PushedOrder DEF Channel!Arrive, Push, Handed, Backlog
    <3> QED
      BY <2>1, <3>1, PushedOrder DEF Channel!Next
  <2>2. CASE ~ (Push(p) /\ Len(rxQ) < RXQ_CAPACITY)
    <3>1. ReadFrame(p) \/ NotifyPushed(p) \/ (Push(p) /\ Len(rxQ) >= RXQ_CAPACITY)
      BY <1>1, <2>2 DEF Reader, Push
    <3> QED
      BY <3>1, ReaderOrder
  <2> QED
    BY <2>1, <2>2
<1>2. ASSUME NEW w \in Workers, Take(w)
      PROVE  OrderInv' /\ [Channel!Next]_<<Handed, Backlog, done>>
  <2>1. CASE rxQ # <<>>
    BY <1>2, <2>1, TakenOrder DEF Take
  <2>2. CASE rxQ = <<>>
    <3>1. /\ pc' = [pc EXCEPT ![w] = "wait"] /\ pc[w] = "take"
          /\ UNCHANGED <<rxQ, item, read, done>>
      BY <1>2, <2>2 DEF Take
    <3>2. /\ \A v \in Workers : Handling(v)' <=> Handling(v)
          /\ \A p \in Peers : HandedOver(p)' = HandedOver(p)
      BY <3>1, ThreadSets DEF Handling, HandedOver, Typed
    <3>3. Handed' = Handed
      BY <3>2 DEF Handed
    <3> QED
      BY <3>1, <3>2, <3>3, SameKeepsOrder, SameBacklog
  <2> QED
    BY <2>1, <2>2
<1>3. ASSUME NEW w \in Workers, ProcessFrame(w)
      PROVE  OrderInv' /\ [Channel!Next]_<<Handed, Backlog, done>>
  <2>1. Channel!Earlier(item[w]) = {g \in Backlog : g[1] = item[w][1] /\ g[2] < item[w][2]}
    BY DEF Channel!Earlier, Backlog
  <2>2. /\ Cardinality(Channel!Earlier(item[w])) < Cardinality(Workers)
        /\ Backlog' = Backlog \ {item[w]} /\ item[w] \in Backlog
        /\ Handed' = Handed
        /\ done' = [done EXCEPT ![item[w]] = @ + 1]
    BY <1>3, <2>1, ProcessedOrder DEF ProcessFrame
  <2>3. Channel!Handle(item[w])
    BY <2>2, SameCardinality DEF Channel!Handle, Handed, Backlog
  <2> QED
    BY <1>3, <2>2, <2>3, ProcessedOrder DEF Channel!Next, Backlog
<1>4. CASE UNCHANGED vars
  <2>1. OrderInv' /\ Handed' = Handed /\ Backlog' = Backlog /\ done' = done
    BY <1>4 DEF vars, OrderInv, Handling, Handed, HandedOver, Backlog, Queued, Held
  <2> QED
    BY <2>1
<1> QED
  BY <1>1, <1>2, <1>3, <1>4 DEF Next, Worker

\* The queue, its workers and its one condition variable handle each frame once,
\* and let a frame overtake fewer others than there are workers.
THEOREM ImplementsChannel == Spec => ImplementsFrameChannel
<1>1. Init => Channel!Init
  BY ThreadSets, BoundAssumption DEF Init, Channel!Init, HandedOver, Queued, Held
<1>2. Typed /\ OrderInv /\ [Next]_vars => OrderInv' /\ [Channel!Next]_<<Handed, Backlog, done>>
  BY NextOrder
<1>3. [Channel!Next]_<<Handed, Backlog, done>>
        => [Channel!Next]_<<[p \in Peers |-> HandedOver(p)], Queued \union Held, done>>
  BY DEF Handed, Backlog
<1> QED
  BY <1>1, <1>2, <1>3, InitTyped, NextTyped, InitOrder, PTL
     DEF Spec, ImplementsFrameChannel, Channel!Spec
=============================================================================
