---------------------------- MODULE MempoolProof ----------------------------
(* Theorems about Mempool, for any transactions, accounts and threads.      *)
EXTENDS Mempool, SumTheorems, TLAPS

\* The job holds blockchainMutex.
Holding(job) ==
  \/ job.pc = "clear"
  \/ job.pc \in {"wipe", "build", "write"} /\ job.locked

\* The job will write the transaction under its key.
Saves(job, tx) ==
  \/ job.pc \in {"wipe", "build"}
  \/ job.pc = "write" /\ tx \in job.batch

\* The first n blocks of the chain hold none of the transactions.
Unmined(c, n, txs) == \A j \in 1..n : c[j].txs \cap txs = {}

\* As long as the block a search started from is on the chain, the transactions
\* it took are in none of the blocks up to there.
SearchFresh(job, c, n) ==
  job.pc = "pow" =>
    /\ job.base <= n
    /\ \A i \in 1..Len(c) : c[i].id = job.base => Unmined(c, i, job.txs)

\* Blocks are numbered in the order they were made.
Numbered ==
  /\ \A i \in 1..Len(chain) : chain[i].id <= made
  /\ \A i, j \in 1..Len(chain) : i < j => chain[i].id < chain[j].id

\* A pending transaction is on disk, or a save that runs will write it, or the
\* last write of it failed.
Covered ==
  \A tx \in pending : tx \in kept \union unsaved \/ \E t \in Threads : Saves(task[t], tx)

IInv ==
  /\ TypeOK
  /\ ConfirmedOnce
  /\ Unmined(chain, Len(chain), pending)
  /\ Numbered
  /\ \A t \in Threads : SearchFresh(task[t], chain, made)
  /\ Covered

Block == [id : 1..MaxBlocks, txs : SUBSET Txs]

-----------------------------------------------------------------------------

LEMMA JobTyped ==
  ASSUME TypeOK, NEW t \in Threads
  PROVE  /\ task[t] \in Tasks
         /\ task[t].pc \in {"wipe", "build"} =>
              task[t] \in [pc : {"wipe", "build"}, locked : BOOLEAN, again : BOOLEAN]
         /\ task[t].pc = "write" =>
              task[t] \in [pc : {"write"}, locked : BOOLEAN, again : BOOLEAN, batch : SUBSET Txs]
         /\ task[t].pc = "set" => task[t] \in [pc : {"set"}, loaded : SUBSET Txs]
         /\ task[t].pc = "pow" =>
              task[t] \in [pc : {"pow"}, base : 0..MaxBlocks, txs : SUBSET Txs]
  BY DEF TypeOK, Tasks, Idle

LEMMA Confirming ==
  ASSUME NEW c \in Seq(Block), NEW txs
  PROVE  Unmined(c, Len(c), txs) <=> txs \cap Confirmed(c) = {}
  BY DEF Unmined, Confirmed, Block

\* The count of failures stays within its bound.
LEMMA FaultsTyped ==
  ASSUME TypeOK
  PROVE  /\ UNCHANGED faultVars => failures' \in 0..MaxFailures /\ unsaved' \subseteq Txs
         /\ \A failed \in BOOLEAN : Counted(failed) => failures' \in 0..MaxFailures
<1>1. UNCHANGED faultVars => failures' \in 0..MaxFailures /\ unsaved' \subseteq Txs
  BY DEF TypeOK, faultVars
<1>2. ASSUME NEW failed \in BOOLEAN, Counted(failed)
      PROVE  failures' \in 0..MaxFailures
  <2>1. failures' = failures + 0 \/ failures' = failures + 1
    BY <1>2 DEF Counted
  <2> QED
    BY <1>2, <2>1, PoolAssumption DEF Counted, TypeOK
<1> QED
  BY <1>1, <1>2

\* A step that gives one thread a new job and leaves the chain alone.
LEMMA JobStep ==
  ASSUME IInv, NEW t \in Threads, NEW job \in Tasks, Become(t, job),
         UNCHANGED <<chain, made>>,
         pending' \subseteq Txs, kept' \subseteq Txs, seen' \subseteq Txs,
         failures' \in 0..MaxFailures, unsaved' \subseteq Txs,
         pending' \cap Confirmed(chain) = {},
         Holding(job) => Free \/ Locked(t),
         SearchFresh(job, chain, made),
         Covered'
  PROVE  IInv'
<1>1. /\ task' \in [Threads -> Tasks] /\ task'[t] = job
      /\ \A u \in Threads \ {t} : task'[u] = task[u]
  BY DEF IInv, TypeOK, Become
<1>2. \A u, v \in Threads : Locked(u)' /\ Locked(v)' => u = v
  <2> SUFFICES ASSUME NEW u \in Threads, NEW v \in Threads, Locked(u)', Locked(v)', u # v
               PROVE FALSE
    OBVIOUS
  <2>1. \A w \in Threads : Locked(w)' <=> Holding(task'[w])
    BY DEF Locked, Holding
  <2>2. \A w \in Threads : Locked(w) <=> Holding(task[w])
    BY DEF Locked, Holding
  <2>3. \A w \in Threads \ {t} : Locked(w)' => Locked(w)
    BY <1>1, <2>1, <2>2
  <2>4. CASE u # t /\ v # t
    BY <2>3, <2>4 DEF IInv, TypeOK
  <2>5. CASE u = t \/ v = t
    <3>1. Holding(job)
      BY <1>1, <2>1, <2>5
    <3>2. PICK w \in Threads \ {t} : Locked(w)
      BY <2>3, <2>5
    <3> QED
      BY <3>1, <3>2 DEF Free, IInv, TypeOK
  <2> QED
    BY <2>4, <2>5
<1>3. TypeOK'
  BY <1>1, <1>2 DEF IInv, TypeOK
<1>4. ConfirmedOnce' /\ Numbered'
  BY DEF IInv, ConfirmedOnce, Numbered
<1>5. chain \in Seq(Block)
  BY DEF IInv, TypeOK, Block
<1>6. Unmined(chain, Len(chain), pending)'
  <2>1. Unmined(chain, Len(chain), pending')
    BY <1>5, Confirming
  <2> QED
    BY <2>1 DEF Unmined
<1>7. \A u \in Threads : SearchFresh(task[u], chain, made)'
  BY <1>1 DEF IInv, SearchFresh, Unmined
<1> QED
  BY <1>3, <1>4, <1>6, <1>7 DEF IInv

LEMMA NothingIdle ==
  /\ Idle.pc = "idle" /\ Idle \in Tasks /\ ~ Holding(Idle)
  /\ \A tx : ~ Saves(Idle, tx)
  BY DEF Idle, Tasks, Holding, Saves

LEMMA PendingUnconfirmed ==
  ASSUME IInv
  PROVE  chain \in Seq(Block) /\ pending \subseteq Txs /\ pending \cap Confirmed(chain) = {}
  BY Confirming DEF IInv, TypeOK, Block

LEMMA SaveJobs ==
  ASSUME NEW locked \in BOOLEAN, NEW again \in BOOLEAN
  PROVE  /\ SaveJob(locked, again) \in Tasks
         /\ Holding(SaveJob(locked, again)) => locked
         /\ SearchFresh(SaveJob(locked, again), chain, made)
         /\ \A tx : Saves(SaveJob(locked, again), tx)
<1>1. SaveJob(locked, again) \in [pc : {"wipe", "build"}, locked : BOOLEAN, again : BOOLEAN]
  BY DEF SaveJob
<1> QED
  BY <1>1 DEF Tasks, SaveJob, Holding, SearchFresh, Saves

\* Whoever keeps its job keeps what it saves.
LEMMA Others ==
  ASSUME IInv, NEW t \in Threads, NEW job, Become(t, job)
  PROVE  /\ task'[t] = job
         /\ \A u \in Threads \ {t} : task'[u] = task[u]
  BY DEF IInv, TypeOK, Become

\* A thread that starts a save covers everything.
LEMMA SaverCovers ==
  ASSUME IInv, NEW t \in Threads, NEW job, Become(t, job), \A tx \in pending' : Saves(job, tx)
  PROVE  Covered'
<1>1. \A tx \in pending' : Saves(task'[t], tx)
  BY Others
<1> QED
  BY <1>1 DEF Covered, Saves

\* A thread that saves nothing may turn to a job that saves nothing.
LEMMA IdlerCovers ==
  ASSUME IInv, NEW t \in Threads, NEW job, Become(t, job), \A tx \in pending : ~ Saves(task[t], tx),
         UNCHANGED <<kept, unsaved>>, pending' \subseteq pending
  PROVE  Covered'
<1> SUFFICES ASSUME NEW tx \in pending', tx \notin kept' \union unsaved'
             PROVE  \E u \in Threads : Saves(task'[u], tx)
  BY DEF Covered, Saves
<1>1. PICK u \in Threads : Saves(task[u], tx)
  BY DEF IInv, Covered
<1>2. u # t
  BY <1>1
<1>3. task'[u] = task[u]
  BY <1>2, Others
<1> QED
  BY <1>1, <1>3

-----------------------------------------------------------------------------

LEMMA ReceiveKeepsIInv ==
  ASSUME IInv, NEW t \in Threads, NEW tx \in Txs, Receive(t, tx)
  PROVE  IInv'
<1>1. CASE Acceptable(tx)
  <2>1. /\ pending' = pending \union {tx} /\ tx \notin Confirmed(chain)
        /\ Become(t, SaveJob(TRUE, FALSE)) /\ Free
    BY <1>1 DEF Receive, Acceptable
  <2>2. Covered'
    BY <2>1, SaveJobs, SaverCovers
  <2> QED
    BY <2>1, <2>2, SaveJobs, JobStep, PendingUnconfirmed, FaultsTyped DEF Receive, IInv, TypeOK
<1>2. CASE ~ Acceptable(tx)
  <2>1. UNCHANGED <<chain, made, pending, kept, task, faultVars>> /\ seen' \subseteq Txs
    BY <1>2 DEF Receive, IInv, TypeOK
  <2>2. TypeOK'
    BY <2>1 DEF IInv, TypeOK, Locked, faultVars
  <2> QED
    BY <2>1, <2>2 DEF IInv, ConfirmedOnce, Numbered, Covered, SearchFresh, Unmined, Saves, faultVars
<1> QED
  BY <1>1, <1>2

LEMMA SendKeepsIInv ==
  ASSUME IInv, NEW t \in Threads, NEW tx \in Txs, Send(t, tx)
  PROVE  IInv'
<1>1. CASE Acceptable(tx)
  <2>1. /\ pending' = pending \union {tx} /\ tx \notin Confirmed(chain)
        /\ Become(t, SaveJob(TRUE, TRUE)) /\ Free
    BY <1>1 DEF Send, Acceptable
  <2>2. Covered'
    BY <2>1, SaveJobs, SaverCovers
  <2> QED
    BY <2>1, <2>2, SaveJobs, JobStep, PendingUnconfirmed, FaultsTyped DEF Send, IInv, TypeOK
<1>2. CASE ~ Acceptable(tx)
  <2>1. UNCHANGED pending /\ Become(t, SaveJob(FALSE, FALSE))
    BY <1>2 DEF Send
  <2>2. Covered'
    BY <2>1, SaveJobs, SaverCovers
  <2> QED
    BY <2>1, <2>2, SaveJobs, JobStep, PendingUnconfirmed, FaultsTyped DEF Send, IInv, TypeOK
<1> QED
  BY <1>1, <1>2

LEMMA LoadKeepsIInv ==
  ASSUME IInv, NEW t \in Threads, LoadRead(t) \/ LoadSet(t)
  PROVE  IInv'
<1>1. CASE LoadRead(t)
  <2> DEFINE job == [pc |-> "set", loaded |-> kept]
  <2>1. job \in Tasks /\ job.pc = "set"
    BY DEF IInv, TypeOK, Tasks
  <2>2. ~ Holding(job) /\ SearchFresh(job, chain, made)
    BY <2>1 DEF Holding, SearchFresh
  <2>3. /\ Become(t, job) /\ task[t] = Idle
        /\ UNCHANGED <<chain, made, pending, kept, seen, faultVars>>
    BY <1>1 DEF LoadRead
  <2> HIDE DEF job
  <2>4. Covered'
    BY <2>3, IdlerCovers, NothingIdle DEF faultVars
  <2> QED
    BY <2>1, <2>2, <2>3, <2>4, JobStep, PendingUnconfirmed, FaultsTyped DEF IInv, TypeOK
<1>2. CASE LoadSet(t)
  <2>1. /\ Become(t, SaveJob(FALSE, FALSE))
        /\ UNCHANGED <<chain, made, kept, seen, faultVars>>
    BY <1>2 DEF LoadSet
  <2>2. pending' \subseteq Txs /\ pending' \cap Confirmed(chain) = {}
    BY <1>2, JobTyped DEF LoadSet, Restored, IInv
  <2>3. Covered'
    BY <2>1, SaveJobs, SaverCovers
  <2> QED
    BY <2>1, <2>2, <2>3, SaveJobs, JobStep, FaultsTyped DEF IInv, TypeOK
<1> QED
  BY <1>1, <1>2

LEMMA WipeKeepsIInv ==
  ASSUME IInv, NEW t \in Threads, Wipe(t)
  PROVE  IInv'
<1> DEFINE job == [pc |-> "build", locked |-> task[t].locked, again |-> task[t].again]
<1>1. task[t].locked \in BOOLEAN /\ task[t].again \in BOOLEAN
  BY JobTyped DEF Wipe, IInv
<1>2. job \in Tasks
  BY <1>1 DEF Tasks
<1>3. /\ Holding(job) => Locked(t)
      /\ SearchFresh(job, chain, made)
      /\ \A tx : Saves(job, tx)
  BY DEF Holding, Locked, SearchFresh, Saves, Wipe
<1>4. Become(t, job) /\ UNCHANGED <<chain, made, pending, seen, unsaved>>
  BY DEF Wipe
<1>5. kept' \subseteq Txs /\ failures' \in 0..MaxFailures
  <2>1. PICK left \in SUBSET kept : kept' = left /\ Counted(left # {})
    BY DEF Wipe
  <2>2. (left # {}) \in BOOLEAN
    OBVIOUS
  <2> QED
    BY <2>1, <2>2, FaultsTyped DEF IInv, TypeOK
<1> HIDE DEF job
<1>6. Covered'
  BY <1>3, <1>4, SaverCovers
<1> QED
  BY <1>2, <1>3, <1>4, <1>5, <1>6, JobStep, PendingUnconfirmed DEF IInv, TypeOK

LEMMA BuildKeepsIInv ==
  ASSUME IInv, NEW t \in Threads, Build(t)
  PROVE  IInv'
<1> DEFINE job == [pc |-> "write", locked |-> task[t].locked, again |-> task[t].again,
                   batch |-> pending]
<1>1. task[t].locked \in BOOLEAN /\ task[t].again \in BOOLEAN
  BY JobTyped DEF Build, IInv
<1>2. job \in Tasks
  BY <1>1 DEF Tasks, IInv, TypeOK
<1>3. /\ Holding(job) => Locked(t)
      /\ SearchFresh(job, chain, made)
      /\ \A tx \in pending : Saves(job, tx)
  BY DEF Holding, Locked, SearchFresh, Saves, Build
<1>4. /\ Become(t, job) /\ UNCHANGED <<chain, made, pending, kept, seen, failures>>
      /\ unsaved' = {}
  BY DEF Build
<1> HIDE DEF job
<1>5. Covered'
  BY <1>3, <1>4, SaverCovers
<1> QED
  BY <1>2, <1>3, <1>4, <1>5, JobStep, PendingUnconfirmed DEF IInv, TypeOK

LEMMA WriteKeepsIInv ==
  ASSUME IInv, NEW t \in Threads, Write(t)
  PROVE  IInv'
<1> DEFINE job == IF task[t].again THEN SaveJob(FALSE, FALSE) ELSE Idle
<1>1. task[t].pc = "write" /\ task[t].batch \subseteq Txs
  BY JobTyped DEF Write, IInv
<1>2. job \in Tasks /\ ~ Holding(job) /\ SearchFresh(job, chain, made)
  BY SaveJobs, NothingIdle DEF SearchFresh
<1>3. Become(t, job) /\ UNCHANGED <<chain, made, pending, seen>>
  BY DEF Write
<1>4. PICK stored \in SUBSET task[t].batch :
        /\ kept' = kept \union stored
        /\ unsaved' = (unsaved \union task[t].batch) \ stored
        /\ Counted(stored # task[t].batch)
  BY DEF Write
<1>5. kept' \subseteq Txs /\ unsaved' \subseteq Txs /\ failures' \in 0..MaxFailures
  <2>1. (stored # task[t].batch) \in BOOLEAN
    OBVIOUS
  <2> QED
    BY <1>1, <1>4, <2>1, FaultsTyped DEF IInv, TypeOK
<1> HIDE DEF job
<1>6. Covered'
  <2> SUFFICES ASSUME NEW tx \in pending, tx \notin kept' \union unsaved'
               PROVE  \E u \in Threads : Saves(task'[u], tx)
    BY <1>3 DEF Covered, Saves
  <2>1. PICK u \in Threads : Saves(task[u], tx)
    BY <1>4 DEF IInv, Covered
  <2>2. u # t
    BY <1>1, <1>4, <2>1 DEF Saves
  <2> QED
    BY <1>3, <2>1, <2>2, Others
<1> QED
  BY <1>1, <1>2, <1>3, <1>5, <1>6, JobStep, PendingUnconfirmed DEF IInv, TypeOK

LEMMA MineStartKeepsIInv ==
  ASSUME IInv, NEW t \in Threads, MineStart(t)
  PROVE  IInv'
<1>1. PICK p \in SetToSeqs(pending) :
        Become(t, [pc |-> "pow", base |-> TipId, txs |-> Mineable(p)])
  BY DEF MineStart
<1> DEFINE job == [pc |-> "pow", base |-> TipId, txs |-> Mineable(p)]
<1>2. Mineable(p) \subseteq pending
  <2>1. p \in [1..Cardinality(pending) -> pending]
    BY DEF SetToSeqs
  <2> QED
    BY <2>1 DEF Mineable
<1>3. TipId \in 0..MaxBlocks /\ TipId <= made
  <2>1. CASE chain = << >>
    BY <2>1, PoolAssumption DEF TipId, IInv, TypeOK
  <2>2. CASE chain # << >>
    <3>1. Len(chain) \in 1..Len(chain) /\ chain[Len(chain)] \in Block
      BY <2>2, PendingUnconfirmed
    <3> QED
      BY <2>2, <3>1 DEF TipId, Last, IInv, TypeOK, Numbered, Block
  <2> QED
    BY <2>1, <2>2
<1>4. job \in Tasks
  BY <1>2, <1>3 DEF Tasks, IInv, TypeOK
<1>5. SearchFresh(job, chain, made)
  BY <1>2, <1>3, PendingUnconfirmed DEF SearchFresh, Unmined, IInv
<1>6. ~ Holding(job)
  BY DEF Holding
<1>7. /\ Become(t, job) /\ task[t] = Idle
      /\ UNCHANGED <<chain, made, pending, kept, seen, faultVars>>
  BY <1>1 DEF MineStart
<1> HIDE DEF job
<1>8. Covered'
  BY <1>7, IdlerCovers, NothingIdle DEF faultVars
<1> QED
  BY <1>4, <1>5, <1>6, <1>7, <1>8, JobStep, PendingUnconfirmed, FaultsTyped DEF IInv, TypeOK

\* A block with transactions that are in none below it.
LEMMA ExtendKeepsChain ==
  ASSUME IInv, NEW txs \in SUBSET Txs, Unmined(chain, Len(chain), txs), Extend(txs)
  PROVE  /\ chain' \in Seq(Block) /\ made' \in 0..MaxBlocks
         /\ pending' \subseteq pending
         /\ ConfirmedOnce' /\ Numbered'
         /\ Unmined(chain, Len(chain), pending)'
         /\ \A t \in Threads : SearchFresh(task[t], chain', made')
<1> DEFINE blk == [id |-> made + 1, txs |-> txs]
<1>1. /\ chain' = Append(chain, blk) /\ made' = made + 1 /\ made < MaxBlocks
      /\ pending' = pending \ txs
  BY DEF Extend
<1>2. chain \in Seq(Block) /\ made \in 0..MaxBlocks /\ MaxBlocks \in Nat
  BY PoolAssumption, PendingUnconfirmed DEF IInv, TypeOK
<1>3. blk \in Block /\ made' \in 0..MaxBlocks
  BY <1>1, <1>2 DEF Block
<1>4. /\ Len(chain') = Len(chain) + 1 /\ chain' \in Seq(Block)
      /\ \A i \in 1..Len(chain) : chain'[i] = chain[i]
      /\ chain'[Len(chain) + 1] = blk
  <2> HIDE DEF blk
  <2> QED
    BY <1>1, <1>2, <1>3
<1>5. Numbered'
  <2>1. \A i \in 1..Len(chain) : chain'[i].id <= made
    BY <1>4 DEF IInv, Numbered
  <2>2. \A i \in 1..Len(chain') : chain'[i].id \in Nat
    <3>1. \A i \in 1..Len(chain') : chain'[i] \in Block
      BY <1>4
    <3> QED
      BY <1>2, <3>1 DEF Block
  <2>3. \A i \in 1..Len(chain') : chain'[i].id <= made'
    BY <1>1, <1>2, <1>4, <2>1, <2>2
  <2>4. ASSUME NEW i \in 1..Len(chain'), NEW j \in 1..Len(chain'), i < j
        PROVE  chain'[i].id < chain'[j].id
    <3>1. CASE j = Len(chain) + 1
      BY <1>1, <1>2, <1>4, <2>1, <2>2, <2>4, <3>1
    <3>2. CASE j # Len(chain) + 1
      BY <1>2, <1>4, <2>4, <3>2 DEF IInv, Numbered
    <3> QED
      BY <3>1, <3>2
  <2> QED
    BY <2>3, <2>4 DEF Numbered
<1>6. ConfirmedOnce'
  <2> SUFFICES ASSUME NEW i \in 1..Len(chain'), NEW j \in 1..Len(chain'), i < j
               PROVE chain'[i].txs \cap chain'[j].txs = {}
    BY <1>4 DEF ConfirmedOnce
  <2>1. CASE j = Len(chain) + 1
    BY <1>2, <1>4, <2>1 DEF Unmined
  <2>2. CASE j # Len(chain) + 1
    BY <1>2, <1>4, <2>2 DEF IInv, ConfirmedOnce
  <2> QED
    BY <2>1, <2>2
<1>7. Unmined(chain, Len(chain), pending)'
  BY <1>1, <1>2, <1>4 DEF IInv, Unmined
<1>8. \A t \in Threads : SearchFresh(task[t], chain', made')
  <2> SUFFICES ASSUME NEW t \in Threads, task[t].pc = "pow"
               PROVE SearchFresh(task[t], chain', made')
    BY DEF SearchFresh
  <2>1. task[t].base \in 0..MaxBlocks /\ task[t].base <= made
    BY JobTyped DEF IInv, SearchFresh
  <2>2. ASSUME NEW i \in 1..Len(chain'), chain'[i].id = task[t].base
        PROVE  Unmined(chain', i, task[t].txs)
    <3>1. i # Len(chain) + 1
      BY <1>2, <1>4, <2>1, <2>2
    <3>2. i \in 1..Len(chain) /\ chain[i].id = task[t].base
      BY <1>2, <1>4, <2>2, <3>1
    <3>3. Unmined(chain, i, task[t].txs)
      BY <3>2 DEF IInv, SearchFresh
    <3> QED
      BY <1>2, <1>4, <3>2, <3>3 DEF Unmined
  <2> QED
    BY <1>1, <1>2, <2>1, <2>2 DEF SearchFresh
<1> QED
  BY <1>1, <1>3, <1>4, <1>5, <1>6, <1>7, <1>8

LEMMA MineEndKeepsIInv ==
  ASSUME IInv, NEW t \in Threads, MineEnd(t)
  PROVE  IInv'
<1>1. task[t].pc = "pow" /\ UNCHANGED <<kept, seen, faultVars>>
  BY DEF MineEnd
<1>2. CASE Free /\ task[t].base = TipId /\ Extend(task[t].txs) /\ Become(t, [pc |-> "clear"])
  <2>1. task[t].txs \in SUBSET Txs
    BY <1>1, JobTyped DEF IInv
  <2>2. Unmined(chain, Len(chain), task[t].txs)
    <3>1. CASE chain = << >>
      BY <3>1 DEF Unmined
    <3>2. CASE chain # << >>
      <4>1. Len(chain) \in 1..Len(chain) /\ chain[Len(chain)].id = task[t].base
        BY <1>2, <3>2, PendingUnconfirmed DEF TipId, Last
      <4> QED
        BY <1>1, <4>1 DEF IInv, SearchFresh
    <3> QED
      BY <3>1, <3>2
  <2>3. /\ chain' \in Seq(Block) /\ made' \in 0..MaxBlocks
        /\ pending' \subseteq pending
        /\ ConfirmedOnce' /\ Numbered'
        /\ Unmined(chain, Len(chain), pending)'
        /\ \A u \in Threads : SearchFresh(task[u], chain', made')
    BY <1>2, <2>1, <2>2, ExtendKeepsChain
  <2> DEFINE job == [pc |-> "clear"]
  <2>4. job \in Tasks /\ job.pc = "clear"
    BY DEF Tasks
  <2>5. Become(t, job)
    BY <1>2
  <2> HIDE DEF job
  <2>6. /\ task' \in [Threads -> Tasks] /\ task'[t] = job
        /\ \A u \in Threads \ {t} : task'[u] = task[u]
    BY <2>4, <2>5 DEF IInv, TypeOK, Become
  <2>7. \A u, v \in Threads : Locked(u)' /\ Locked(v)' => u = v
    BY <1>2, <2>6 DEF Free, Locked
  <2>8. TypeOK'
    BY <1>1, <2>3, <2>6, <2>7 DEF IInv, TypeOK, Block, faultVars
  <2>9. (\A u \in Threads : SearchFresh(task[u], chain, made))'
    BY <2>3, <2>4, <2>6 DEF SearchFresh
  <2>10. Covered'
    BY <1>1, <2>3, <2>5, IdlerCovers DEF Saves, faultVars
  <2> QED
    BY <2>3, <2>8, <2>9, <2>10 DEF IInv
<1>3. CASE Become(t, Idle) /\ UNCHANGED <<chain, made, pending>>
  <2>1. Covered'
    BY <1>1, <1>3, IdlerCovers DEF Saves, faultVars
  <2> QED
    BY <1>1, <1>3, <2>1, JobStep, NothingIdle, PendingUnconfirmed, FaultsTyped DEF IInv, TypeOK, SearchFresh
<1> QED
  BY <1>2, <1>3 DEF MineEnd

LEMMA ClearPoolKeepsIInv ==
  ASSUME IInv, NEW t \in Threads, ClearPool(t)
  PROVE  IInv'
<1>1. /\ Become(t, Idle) /\ pending' = {} /\ kept' \in {{}, kept} /\ Counted(kept' # {})
      /\ UNCHANGED <<chain, made, seen, unsaved>>
  BY DEF ClearPool
<1>2. Covered'
  BY <1>1 DEF Covered
<1>3. failures' \in 0..MaxFailures
  <2>1. (kept' # {}) \in BOOLEAN
    OBVIOUS
  <2> QED
    BY <1>1, <2>1, FaultsTyped DEF IInv
<1> QED
  BY <1>1, <1>2, <1>3, JobStep, NothingIdle DEF IInv, TypeOK, SearchFresh

LEMMA PeerBlockKeepsIInv ==
  ASSUME IInv, NEW txs \in SUBSET Txs, PeerBlock(txs)
  PROVE  IInv'
<1>1. Unmined(chain, Len(chain), txs)
  BY Confirming, PendingUnconfirmed DEF PeerBlock
<1>2. Extend(txs) /\ UNCHANGED <<kept, seen, task, faultVars>>
  BY DEF PeerBlock
<1>3. /\ chain' \in Seq(Block) /\ made' \in 0..MaxBlocks
      /\ pending' \subseteq pending
      /\ ConfirmedOnce' /\ Numbered'
      /\ Unmined(chain, Len(chain), pending)'
      /\ \A u \in Threads : SearchFresh(task[u], chain', made')
  BY <1>1, <1>2, ExtendKeepsChain
<1>4. TypeOK'
  BY <1>2, <1>3 DEF IInv, TypeOK, Locked, Block, faultVars
<1>5. Covered'
  BY <1>2, <1>3 DEF IInv, Covered, Saves, faultVars
<1>6. (\A t \in Threads : SearchFresh(task[t], chain, made))'
  BY <1>2, <1>3
<1> QED
  BY <1>3, <1>4, <1>5, <1>6 DEF IInv

LEMMA RollbackKeepsIInv ==
  ASSUME IInv, NEW n \in 0..MaxBlocks, Rollback(n)
  PROVE  IInv'
<1>1. n < Len(chain) /\ chain' = SubSeq(chain, 1, n) /\ UNCHANGED <<made, pending, kept, seen, task, faultVars>>
  BY DEF Rollback
<1>2. /\ chain' \in Seq(Block) /\ Len(chain') = n /\ n \in Nat
      /\ \A i \in 1..n : chain'[i] = chain[i] /\ i \in 1..Len(chain)
  BY <1>1, PendingUnconfirmed, PoolAssumption
<1>3. TypeOK'
  BY <1>1, <1>2 DEF IInv, TypeOK, Locked, Block, faultVars
<1>4. ConfirmedOnce'
  BY <1>2 DEF IInv, ConfirmedOnce
<1>5. Numbered'
  BY <1>1, <1>2 DEF IInv, Numbered
<1>6. Unmined(chain, Len(chain), pending)'
  BY <1>1, <1>2 DEF IInv, Unmined
<1>7. (\A t \in Threads : SearchFresh(task[t], chain, made))'
  BY <1>1, <1>2 DEF IInv, SearchFresh, Unmined
<1>8. Covered'
  BY <1>1 DEF IInv, Covered, Saves, faultVars
<1> QED
  BY <1>3, <1>4, <1>5, <1>6, <1>7, <1>8 DEF IInv

LEMMA RestartKeepsIInv ==
  ASSUME IInv, NEW t \in Threads, Restart(t)
  PROVE  IInv'
<1> DEFINE job == [pc |-> "set", loaded |-> kept]
<1>1. /\ pending' = {} /\ seen' = {} /\ unsaved' = {}
      /\ UNCHANGED <<chain, made, kept, failures>>
      /\ task' = [[u \in Threads |-> Idle] EXCEPT ![t] = job]
  BY DEF Restart
<1>2. job \in Tasks /\ job.pc = "set"
  BY DEF IInv, TypeOK, Tasks
<1> HIDE DEF job
<1>3. task' \in [Threads -> Tasks] /\ \A u \in Threads : task'[u].pc \in {"idle", "set"}
  BY <1>1, <1>2, NothingIdle
<1>4. TypeOK'
  BY <1>1, <1>3 DEF IInv, TypeOK, Locked
<1>5. Covered' /\ Unmined(chain, Len(chain), pending)'
  BY <1>1 DEF Covered, Unmined
<1>6. (\A u \in Threads : SearchFresh(task[u], chain, made))'
  BY <1>3 DEF SearchFresh
<1> QED
  BY <1>1, <1>4, <1>5, <1>6 DEF IInv, ConfirmedOnce, Numbered

-----------------------------------------------------------------------------

LEMMA InitIInv == Init => IInv
<1> SUFFICES ASSUME Init PROVE IInv
  OBVIOUS
<1>1. chain = << >> /\ pending = {} /\ \A t \in Threads : task[t] = Idle
  BY DEF Init
<1>2. TypeOK
  BY <1>1, NothingIdle, PoolAssumption DEF Init, TypeOK, Locked
<1> QED
  BY <1>1, <1>2, NothingIdle
     DEF IInv, ConfirmedOnce, Unmined, Numbered, SearchFresh, Covered

LEMMA NextIInv == IInv /\ [Next]_vars => IInv'
<1> SUFFICES ASSUME IInv, [Next]_vars PROVE IInv'
  OBVIOUS
<1>1. CASE UNCHANGED vars
  <2>1. TypeOK'
    BY <1>1 DEF vars, IInv, TypeOK, Locked
  <2> QED
    BY <1>1, <2>1 DEF vars, IInv, ConfirmedOnce, Unmined, Numbered, SearchFresh, Covered, Saves
<1>2. ASSUME NEW t \in Threads, NEW tx \in Txs, Receive(t, tx) \/ Send(t, tx)
      PROVE  IInv'
  BY <1>2, ReceiveKeepsIInv, SendKeepsIInv
<1>3. ASSUME NEW t \in Threads, LoadRead(t) \/ LoadSet(t) \/ Wipe(t) \/ Build(t) \/ Write(t)
      PROVE  IInv'
  BY <1>3, LoadKeepsIInv, WipeKeepsIInv, BuildKeepsIInv, WriteKeepsIInv
<1>4. ASSUME NEW t \in Threads, MineStart(t) \/ MineEnd(t) \/ ClearPool(t) \/ Restart(t)
      PROVE  IInv'
  BY <1>4, MineStartKeepsIInv, MineEndKeepsIInv, ClearPoolKeepsIInv, RestartKeepsIInv
<1>5. ASSUME NEW txs \in SUBSET Txs, PeerBlock(txs)
      PROVE  IInv'
  BY <1>5, PeerBlockKeepsIInv
<1>6. ASSUME NEW n \in 0..MaxBlocks, Rollback(n)
      PROVE  IInv'
  BY <1>6, RollbackKeepsIInv
<1> QED
  BY <1>1, <1>2, <1>3, <1>4, <1>5, <1>6 DEF Next

\* The inductive invariant: types, and what relates chain, pool, disk and the
\* jobs of the threads at every step of addTransaction, saving and mining.
THEOREM Invariant == Spec => []IInv
  BY InitIInv, NextIInv, PTL DEF Spec

\* Every variable keeps its type, and two threads never hold blockchainMutex.
THEOREM TypeCorrect == Spec => []TypeOK
<1>1. IInv => TypeOK
  BY DEF IInv
<1> QED
  BY <1>1, Invariant, PTL

\* No transaction is confirmed by two blocks of the main chain, whatever was
\* loaded again, mined late or cut.
THEOREM ConfirmedAtMostOnce == Spec => []ConfirmedOnce
<1>1. IInv => ConfirmedOnce
  BY DEF IInv
<1> QED
  BY <1>1, Invariant, PTL

\* When no thread saves or clears the pool, all of it is under tx_ keys except
\* for what a write failed to store since the pool was last copied, although
\* savePendingTransactionsToDB runs on several threads at once and goes on
\* whatever the database answers.
THEOREM PoolReachesDisk == Spec => []PoolOnDisk
<1>1. IInv => PoolOnDisk
  BY DEF IInv, PoolOnDisk, Covered, Saves
<1> QED
  BY <1>1, Invariant, PTL

-----------------------------------------------------------------------------
(* Nobody spends more than he has.                                         *)

ConfirmedTo(c, n) == UNION {c[i].txs : i \in 1..n}

\* After the transactions of base, txs leave no account below zero.
Pays(base, txs) == \A acc \in Accounts : Funds[acc] + Net(acc, base) + Net(acc, txs) >= 0

IdAt(c, i) == IF i = 0 THEN 0 ELSE c[i].id

\* As long as the block a search started from is on the chain, what is confirmed
\* up to there pays for the transactions the search took.
SearchPays(job, c) ==
  job.pc = "pow" =>
    \A i \in 0..Len(c) : IdAt(c, i) = job.base => Pays(ConfirmedTo(c, i), job.txs)

SolventTo(c, n) == \A acc \in Accounts : Funds[acc] + Net(acc, ConfirmedTo(c, n)) >= 0

SolvencyInv ==
  /\ IInv
  /\ \A n \in 0..Len(chain) : SolventTo(chain, n)
  /\ \A t \in Threads : SearchPays(task[t], chain)

LEMMA AmountsFinite ==
  ASSUME NEW txs \in SUBSET Txs, NEW S \in SUBSET txs
  PROVE  IsFiniteSet(S) /\ (\A x \in S : Amount[x] \in Nat) /\ Total(S) \in Nat
<1>1. IsFiniteSet(S) /\ \A x \in S : Amount[x] \in Nat
  BY FiniteAssumption, PoolAssumption, FS_Subset
<1> QED
  BY <1>1, SumNat DEF Total

LEMMA NetInt ==
  ASSUME NEW acc, NEW txs \in SUBSET Txs
  PROVE  Net(acc, txs) \in Int
<1>1. PICK S, T : S = {tx \in txs : Recipient[tx] = acc} /\ T = {tx \in txs : Sender[tx] = acc}
  OBVIOUS
<1>2. Total(S) \in Nat /\ Total(T) \in Nat
  BY <1>1, AmountsFinite
<1> QED
  BY <1>1, <1>2 DEF Net

LEMMA NetEmpty ==
  ASSUME NEW acc
  PROVE  Net(acc, {}) = 0
<1>1. PICK S, T : S = {tx \in {} : Recipient[tx] = acc} /\ T = {tx \in {} : Sender[tx] = acc}
  OBVIOUS
<1>2. S = {} /\ T = {}
  BY <1>1
<1>3. Net(acc, {}) = Total(S) - Total(T)
  BY <1>1 DEF Net
<1> QED
  BY <1>2, <1>3, SumEmpty DEF Total

LEMMA NetDisjoint ==
  ASSUME NEW acc, NEW S \in SUBSET Txs, NEW T \in SUBSET Txs, S \cap T = {}
  PROVE  Net(acc, S \union T) = Net(acc, S) + Net(acc, T)
<1>1. PICK U : U = S \union T
  OBVIOUS
<1>2. PICK inS, inT, inU, outS, outT, outU :
        /\ inS = {tx \in S : Recipient[tx] = acc} /\ outS = {tx \in S : Sender[tx] = acc}
        /\ inT = {tx \in T : Recipient[tx] = acc} /\ outT = {tx \in T : Sender[tx] = acc}
        /\ inU = {tx \in U : Recipient[tx] = acc} /\ outU = {tx \in U : Sender[tx] = acc}
  OBVIOUS
<1>3. /\ inU = inS \union inT /\ outU = outS \union outT
      /\ inS \cap inT = {} /\ outS \cap outT = {}
  BY <1>1, <1>2
<1>4. /\ IsFiniteSet(inS) /\ IsFiniteSet(inT) /\ IsFiniteSet(outS) /\ IsFiniteSet(outT)
      /\ (\A x \in inS \union inT : Amount[x] \in Nat)
      /\ (\A x \in outS \union outT : Amount[x] \in Nat)
      /\ Total(inS) \in Nat /\ Total(inT) \in Nat /\ Total(outS) \in Nat /\ Total(outT) \in Nat
  BY <1>2, AmountsFinite
<1>5. Total(inU) = Total(inS) + Total(inT) /\ Total(outU) = Total(outS) + Total(outT)
  BY <1>3, <1>4, SumDisjoint DEF Total
<1>6. /\ Net(acc, S) = Total(inS) - Total(outS) /\ Net(acc, T) = Total(inT) - Total(outT)
      /\ Net(acc, U) = Total(inU) - Total(outU)
  BY <1>2 DEF Net
<1> QED
  BY <1>1, <1>4, <1>5, <1>6

\* A transaction takes its amount from its sender at most, and from nobody else.
LEMMA NetOne ==
  ASSUME NEW acc, NEW tx \in Txs
  PROVE  /\ Net(acc, {tx}) >= - Amount[tx]
         /\ Sender[tx] # acc => Net(acc, {tx}) >= 0
<1>1. PICK S, T : S = {x \in {tx} : Recipient[x] = acc} /\ T = {x \in {tx} : Sender[x] = acc}
  OBVIOUS
<1>2. Net(acc, {tx}) = Total(S) - Total(T)
  BY <1>1 DEF Net
<1>3. Total(S) \in Nat /\ Amount[tx] \in Nat
  BY <1>1, AmountsFinite, PoolAssumption
<1>4. Total({}) = 0
  BY SumEmpty DEF Total
<1>5. Total({tx}) = Amount[tx]
  <2>1. IsFiniteSet({}) /\ {} \union {tx} = {tx}
    BY FS_EmptySet
  <2>2. SumFunctionOnSet(Amount, {} \union {tx}) = SumFunctionOnSet(Amount, {}) + Amount[tx]
    BY <1>3, <2>1, SumAdd
  <2> QED
    BY <1>3, <1>4, <2>1, <2>2 DEF Total
<1>6. T = {} \/ (T = {tx} /\ Sender[tx] = acc)
  BY <1>1
<1> QED
  BY <1>2, <1>3, <1>4, <1>5, <1>6

-----------------------------------------------------------------------------
(* What minePendingTransactions takes from the pool.                       *)

Before(p, f, i) == {p[j] : j \in {k \in 1..(i - 1) : f[k]}}
TakeStep(p, f, i) ==
  /\ p[i] \notin L2
  /\ Balance(Sender[p[i]]) + Net(Sender[p[i]], Before(p, f, i)) >= Amount[p[i]]
TakesIn(p, dom, f) == f = [i \in dom |-> TakeStep(p, f, i)]
Takes(p, f) == TakesIn(p, DOMAIN p, f)

LEMMA MineableIs ==
  ASSUME NEW p
  PROVE  \E f : f = (CHOOSE g : Takes(p, g)) /\ Mineable(p) = {p[i] : i \in {k \in DOMAIN p : f[k]}}
  BY DEF Mineable, Takes, TakesIn, TakeStep, Before

LEMMA TakesExists ==
  ASSUME NEW n \in Nat, NEW p, DOMAIN p = 1..n
  PROVE  \E f : Takes(p, f)
<1> DEFINE Unsolved == {m \in Nat : ~ \E f : TakesIn(p, 1..m, f)}
<1>1. Unsolved = {}
  <2> SUFFICES ASSUME Unsolved # {} PROVE FALSE
    OBVIOUS
  <2>1. PICK m \in Unsolved : \A k \in Unsolved : m <= k
    <3>1. Unsolved \subseteq Nat
      OBVIOUS
    <3> HIDE DEF Unsolved
    <3> QED
      BY <3>1, LeastElement
  <2>2. m \in Nat /\ ~ \E f : TakesIn(p, 1..m, f)
    OBVIOUS
  <2>3. CASE m = 0
    <3>1. TakesIn(p, 1..m, [i \in 1..m |-> TRUE])
      <4>1. 1..m = {}
        BY <2>3
      <4> QED
        BY <4>1 DEF TakesIn
    <3> QED
      BY <2>2, <3>1
  <2>4. CASE m # 0
    <3>1. m - 1 \in Nat /\ m - 1 \notin Unsolved
      <4>1. m - 1 \in Nat /\ ~ (m <= m - 1)
        BY <2>2, <2>4
      <4> HIDE DEF Unsolved
      <4> QED
        BY <2>1, <4>1
    <3>2. PICK f : TakesIn(p, 1..(m - 1), f)
      BY <3>1
    <3>3. PICK g : g = [i \in 1..m |-> TakeStep(p, f, i)]
      OBVIOUS
    <3>4. \A k \in 1..(m - 1) : g[k] = f[k]
      <4>1. \A k \in 1..(m - 1) : f[k] = TakeStep(p, f, k)
        BY <3>2 DEF TakesIn
      <4>2. \A k \in 1..(m - 1) : k \in 1..m
        BY <2>2
      <4> QED
        BY <3>3, <4>1, <4>2
    <3>5. \A i \in 1..m : TakeStep(p, g, i) = TakeStep(p, f, i)
      <4> SUFFICES ASSUME NEW i \in 1..m
                   PROVE  TakeStep(p, g, i) = TakeStep(p, f, i)
        OBVIOUS
      <4>1. \A k \in 1..(i - 1) : k \in 1..(m - 1)
        BY <2>2
      <4>2. \A k \in 1..(i - 1) : g[k] = f[k]
        BY <3>4, <4>1
      <4>3. Before(p, g, i) = Before(p, f, i)
        <5>1. {k \in 1..(i - 1) : g[k]} = {k \in 1..(i - 1) : f[k]}
          BY <4>2
        <5> QED
          BY <5>1 DEF Before
      <4> QED
        BY <4>3 DEF TakeStep
    <3>6. TakesIn(p, 1..m, g)
      BY <3>3, <3>5 DEF TakesIn
    <3> QED
      BY <2>2, <3>6
  <2> QED
    BY <2>3, <2>4
<1>2. n \notin Unsolved
  BY <1>1
<1> QED
  BY <1>2 DEF Takes

LEMMA ConfirmedTyped ==
  ASSUME NEW c \in Seq(Block)
  PROVE  Confirmed(c) \in SUBSET Txs /\ \A n \in 0..Len(c) : ConfirmedTo(c, n) \in SUBSET Txs
<1>1. \A i \in 1..Len(c) : c[i] \in Block
  OBVIOUS
<1>2. \A i \in 1..Len(c) : c[i].txs \in SUBSET Txs
  BY <1>1 DEF Block
<1>3. DOMAIN c = 1..Len(c) /\ \A n \in 0..Len(c) : 1..n \subseteq 1..Len(c)
  OBVIOUS
<1> QED
  BY <1>2, <1>3 DEF Confirmed, ConfirmedTo

LEMMA MineablePays ==
  ASSUME IInv, NEW p \in SetToSeqs(pending), Pays(Confirmed(chain), {})
  PROVE  Pays(Confirmed(chain), Mineable(p))
<1>1. PICK n \in Nat : n = Cardinality(pending)
  BY FiniteAssumption, FS_Subset, FS_CardinalityType DEF IInv, TypeOK
<1>2. /\ DOMAIN p = 1..n /\ p \in [1..n -> pending]
      /\ \A i, j \in 1..n : i # j => p[i] # p[j]
  BY <1>1 DEF SetToSeqs
<1>3. PICK f : f = (CHOOSE g : Takes(p, g)) /\ Mineable(p) = {p[i] : i \in {k \in DOMAIN p : f[k]}}
  BY MineableIs
<1>4. Takes(p, f)
  BY <1>2, <1>3, TakesExists
<1>5. \A i \in 1..n : f[i] = TakeStep(p, f, i)
  BY <1>2, <1>4 DEF Takes, TakesIn
<1>6. Mineable(p) = Before(p, f, n + 1)
  BY <1>2, <1>3 DEF Before
<1>7. pending \subseteq Txs
  BY DEF IInv, TypeOK
<1>8. \A i \in 1..(n + 1) : Before(p, f, i) \in SUBSET Txs
  BY <1>2, <1>7 DEF Before
<1> DEFINE Overdrawn == {i \in 1..(n + 1) : ~ Pays(Confirmed(chain), Before(p, f, i))}
<1>9. Overdrawn = {}
  <2> SUFFICES ASSUME Overdrawn # {} PROVE FALSE
    OBVIOUS
  <2>1. PICK i \in Overdrawn : \A k \in Overdrawn : i <= k
    <3>1. Overdrawn \subseteq Nat
      OBVIOUS
    <3> HIDE DEF Overdrawn
    <3> QED
      BY <3>1, LeastElement
  <2>2. i \in 1..(n + 1) /\ ~ Pays(Confirmed(chain), Before(p, f, i))
    OBVIOUS
  <2>3. i # 1
    <3>1. ASSUME i = 1 PROVE Before(p, f, i) = {}
      BY <3>1 DEF Before
    <3> QED
      BY <2>2, <3>1
  <2>4. PICK h \in 1..n : i = h + 1
    BY <2>2, <2>3
  <2>5. Pays(Confirmed(chain), Before(p, f, h))
    <3>1. h \in 1..(n + 1) /\ ~ (i <= h)
      BY <2>4
    <3>2. h \notin Overdrawn
      <4> HIDE DEF Overdrawn
      <4> QED
        BY <2>1, <3>1
    <3> QED
      BY <3>1, <3>2
  <2>6. CASE ~ f[h]
    <3>1. {k \in 1..h : f[k]} = {k \in 1..(h - 1) : f[k]}
      BY <2>6
    <3>2. Before(p, f, i) = Before(p, f, h)
      BY <2>4, <3>1 DEF Before
    <3> QED
      BY <2>2, <2>5, <3>2
  <2>7. CASE f[h]
    <3>1. PICK old, tx : old = Before(p, f, h) /\ tx = p[h]
      OBVIOUS
    <3>2. Before(p, f, i) = old \union {tx}
      <4>1. {k \in 1..h : f[k]} = {k \in 1..(h - 1) : f[k]} \union {h}
        BY <2>7
      <4> QED
        BY <2>4, <3>1, <4>1 DEF Before
    <3>3. tx \in Txs /\ old \in SUBSET Txs /\ tx \notin old
      BY <1>2, <1>7, <1>8, <3>1 DEF Before
    <3>4. Balance(Sender[tx]) + Net(Sender[tx], old) >= Amount[tx]
      BY <1>5, <2>7, <3>1 DEF TakeStep
    <3>5. ASSUME NEW acc \in Accounts
          PROVE  Funds[acc] + Net(acc, Confirmed(chain)) + Net(acc, old \union {tx}) >= 0
      <4>1. Net(acc, old \union {tx}) = Net(acc, old) + Net(acc, {tx})
        BY <3>3, NetDisjoint
      <4>2. /\ Net(acc, {tx}) >= - Amount[tx]
            /\ Sender[tx] # acc => Net(acc, {tx}) >= 0
            /\ Net(acc, {tx}) \in Int /\ Net(acc, old) \in Int /\ Amount[tx] \in Nat
        BY <3>3, NetOne, NetInt, PoolAssumption
      <4>3. Net(acc, Confirmed(chain)) \in Int /\ Funds[acc] \in Nat
        BY PendingUnconfirmed, ConfirmedTyped, NetInt, PoolAssumption
      <4>4. Funds[acc] + Net(acc, Confirmed(chain)) + Net(acc, old) >= 0
        BY <2>5, <3>1 DEF Pays
      <4>5. Sender[tx] = acc => Funds[acc] + Net(acc, Confirmed(chain)) + Net(acc, old) >= Amount[tx]
        BY <3>4 DEF Balance
      <4>6. PICK funds, below, before, one, amount :
              /\ funds = Funds[acc] /\ below = Net(acc, Confirmed(chain)) /\ before = Net(acc, old)
              /\ one = Net(acc, {tx}) /\ amount = Amount[tx]
        OBVIOUS
      <4>7. /\ funds \in Nat /\ below \in Int /\ before \in Int /\ one \in Int /\ amount \in Nat
            /\ one >= - amount
            /\ Sender[tx] # acc => one >= 0
            /\ funds + below + before >= 0
            /\ Sender[tx] = acc => funds + below + before >= amount
        BY <4>2, <4>3, <4>4, <4>5, <4>6
      <4>8. funds + below + (before + one) >= 0
        BY <4>7
      <4> QED
        BY <4>1, <4>6, <4>8
    <3> QED
      BY <2>2, <3>2, <3>5 DEF Pays
  <2> QED
    BY <2>6, <2>7
<1>10. n + 1 \notin Overdrawn
  BY <1>9
<1> QED
  BY <1>6, <1>10

-----------------------------------------------------------------------------

LEMMA Solvent ==
  ASSUME SolvencyInv
  PROVE  Pays(Confirmed(chain), {}) /\ NoOverdraft
<1>1. Confirmed(chain) = ConfirmedTo(chain, Len(chain)) /\ Len(chain) \in 0..Len(chain)
  BY PendingUnconfirmed DEF SolvencyInv, Confirmed, ConfirmedTo
<1>2. Confirmed(chain) \in SUBSET Txs
  BY PendingUnconfirmed, ConfirmedTyped DEF SolvencyInv
<1>3. \A acc \in Accounts : Funds[acc] + Net(acc, Confirmed(chain)) >= 0
  BY <1>1 DEF SolvencyInv, SolventTo
<1>4. NoOverdraft
  BY <1>3 DEF NoOverdraft, Balance
<1>5. ASSUME NEW acc \in Accounts
      PROVE  Funds[acc] + Net(acc, Confirmed(chain)) + Net(acc, {}) >= 0
  BY <1>2, <1>3, NetInt, NetEmpty, PoolAssumption
<1> QED
  BY <1>4, <1>5 DEF Pays

\* A step that leaves the chain alone: what a thread turns to must pay.
LEMMA JobPays ==
  ASSUME SolvencyInv, IInv', UNCHANGED chain,
         NEW t \in Threads, NEW job, Become(t, job), SearchPays(job, chain)
  PROVE  SolvencyInv'
<1>1. IInv
  BY DEF SolvencyInv
<1>2. task'[t] = job /\ \A u \in Threads \ {t} : task'[u] = task[u]
  BY <1>1, Others
<1>3. \A u \in Threads : SearchPays(task'[u], chain)
  BY <1>2 DEF SolvencyInv
<1>4. (\A u \in Threads : SearchPays(task[u], chain))'
  BY <1>3 DEF SearchPays, Pays, ConfirmedTo, IdAt
<1>5. (\A n \in 0..Len(chain) : SolventTo(chain, n))'
  BY DEF SolvencyInv, SolventTo, ConfirmedTo
<1> QED
  BY <1>4, <1>5 DEF SolvencyInv

LEMMA IdlersPay ==
  ASSUME NEW job, job.pc # "pow"
  PROVE  SearchPays(job, chain)
  BY DEF SearchPays

LEMMA PoolStepsPay ==
  ASSUME SolvencyInv, IInv', NEW t \in Threads,
         \/ \E tx \in Txs : Receive(t, tx) \/ Send(t, tx)
         \/ LoadRead(t) \/ LoadSet(t) \/ Wipe(t) \/ Build(t) \/ Write(t) \/ ClearPool(t)
  PROVE  SolvencyInv'
<1>1. \A locked, again : SaveJob(locked, again).pc # "pow"
  BY DEF SaveJob
<1>2. Idle.pc # "pow"
  BY DEF Idle
<1>3. CASE \E tx \in Txs : Receive(t, tx)
  <2>1. UNCHANGED chain
    BY <1>3 DEF Receive
  <2>2. UNCHANGED task \/ Become(t, SaveJob(TRUE, FALSE))
    BY <1>3 DEF Receive
  <2>3. CASE UNCHANGED task
    <3>1. Become(t, task[t])
      BY <2>3 DEF Become, SolvencyInv, IInv, TypeOK
    <3> QED
      BY <2>1, <3>1, JobPays DEF SolvencyInv
  <2> QED
    BY <1>1, <2>1, <2>2, <2>3, JobPays, IdlersPay
<1>4. CASE \E tx \in Txs : Send(t, tx)
  <2>1. UNCHANGED chain /\ \E again \in BOOLEAN, locked \in BOOLEAN : Become(t, SaveJob(locked, again))
    BY <1>4 DEF Send
  <2> QED
    BY <1>1, <2>1, JobPays, IdlersPay
<1>5. CASE LoadRead(t)
  <2>1. PICK job : job = [pc |-> "set", loaded |-> kept]
    OBVIOUS
  <2>2. job.pc # "pow" /\ Become(t, job) /\ UNCHANGED chain
    BY <1>5, <2>1 DEF LoadRead
  <2> QED
    BY <2>2, JobPays, IdlersPay
<1>6. CASE LoadSet(t)
  BY <1>1, <1>6, JobPays, IdlersPay DEF LoadSet
<1>7. CASE Wipe(t)
  <2>1. PICK job : job = [pc |-> "build", locked |-> task[t].locked, again |-> task[t].again]
    OBVIOUS
  <2>2. job.pc # "pow" /\ Become(t, job) /\ UNCHANGED chain
    BY <1>7, <2>1 DEF Wipe
  <2> QED
    BY <2>2, JobPays, IdlersPay
<1>8. CASE Build(t)
  <2>1. PICK job : job = [pc |-> "write", locked |-> task[t].locked, again |-> task[t].again,
                          batch |-> pending]
    OBVIOUS
  <2>2. job.pc # "pow" /\ Become(t, job) /\ UNCHANGED chain
    BY <1>8, <2>1 DEF Build
  <2> QED
    BY <2>2, JobPays, IdlersPay
<1>9. CASE Write(t)
  <2>1. PICK job : job = IF task[t].again THEN SaveJob(FALSE, FALSE) ELSE Idle
    OBVIOUS
  <2>2. job.pc # "pow" /\ Become(t, job) /\ UNCHANGED chain
    BY <1>1, <1>2, <1>9, <2>1 DEF Write
  <2> QED
    BY <2>2, JobPays, IdlersPay
<1>10. CASE ClearPool(t)
  BY <1>2, <1>10, JobPays, IdlersPay DEF ClearPool
<1> QED
  BY <1>3, <1>4, <1>5, <1>6, <1>7, <1>8, <1>9, <1>10

LEMMA MineStartPays ==
  ASSUME SolvencyInv, IInv', NEW t \in Threads, MineStart(t)
  PROVE  SolvencyInv'
<1>1. PICK p \in SetToSeqs(pending) :
        Become(t, [pc |-> "pow", base |-> TipId, txs |-> Mineable(p)])
  BY DEF MineStart
<1>2. PICK job : job = [pc |-> "pow", base |-> TipId, txs |-> Mineable(p)]
  OBVIOUS
<1>3. job.base = TipId /\ job.txs = Mineable(p) /\ Become(t, job) /\ UNCHANGED chain
  BY <1>1, <1>2 DEF MineStart
<1>4. IInv /\ chain \in Seq(Block)
  BY PendingUnconfirmed DEF SolvencyInv
<1>5. Pays(Confirmed(chain), Mineable(p))
  BY <1>4, Solvent, MineablePays
<1>6. ASSUME NEW i \in 0..Len(chain), IdAt(chain, i) = TipId
      PROVE  i = Len(chain)
  <2>1. \A k \in 1..Len(chain) : chain[k] \in Block
    BY <1>4
  <2>2. \A k \in 1..Len(chain) : chain[k].id \in 1..MaxBlocks
    BY <2>1 DEF Block
  <2>3. TipId = IdAt(chain, Len(chain))
    BY <1>4 DEF TipId, IdAt, Last
  <2>4. CASE i = 0
    BY <1>4, <1>6, <2>2, <2>3, <2>4, PoolAssumption DEF IdAt
  <2>5. CASE i # 0 /\ i < Len(chain)
    <3>1. i \in 1..Len(chain) /\ Len(chain) \in 1..Len(chain)
      BY <1>4, <2>5
    <3>2. chain[i].id < chain[Len(chain)].id
      BY <1>4, <2>5, <3>1 DEF IInv, Numbered
    <3> QED
      BY <1>6, <2>2, <2>3, <3>1, <3>2, PoolAssumption DEF IdAt
  <2> QED
    BY <1>4, <2>4, <2>5
<1>7. Confirmed(chain) = ConfirmedTo(chain, Len(chain))
  BY <1>4 DEF Confirmed, ConfirmedTo
<1>8. SearchPays(job, chain)
  BY <1>3, <1>5, <1>6, <1>7 DEF SearchPays
<1> QED
  BY <1>3, <1>8, JobPays

\* A block that the balances below it pay for.
LEMMA ExtendPays ==
  ASSUME SolvencyInv, NEW txs \in SUBSET Txs, Extend(txs), Unmined(chain, Len(chain), txs),
         Pays(Confirmed(chain), txs)
  PROVE  /\ \A n \in 0..Len(chain') : SolventTo(chain', n)
         /\ \A t \in Threads : SearchPays(task[t], chain')
<1>1. IInv /\ chain \in Seq(Block) /\ made \in 0..MaxBlocks /\ MaxBlocks \in Nat
  BY PendingUnconfirmed, PoolAssumption DEF SolvencyInv, IInv, TypeOK
<1>2. PICK blk : blk = [id |-> made + 1, txs |-> txs]
  OBVIOUS
<1>3. blk \in Block /\ blk.id = made + 1 /\ blk.txs = txs
  BY <1>1, <1>2 DEF Extend, Block
<1>4. /\ Len(chain') = Len(chain) + 1 /\ Len(chain) \in Nat
      /\ \A i \in 1..Len(chain) : chain'[i] = chain[i]
      /\ chain'[Len(chain) + 1] = blk
  BY <1>1, <1>2, <1>3 DEF Extend
<1>5. \A n \in 0..Len(chain) : ConfirmedTo(chain', n) = ConfirmedTo(chain, n)
  <2> SUFFICES ASSUME NEW n \in 0..Len(chain)
               PROVE  ConfirmedTo(chain', n) = ConfirmedTo(chain, n)
    OBVIOUS
  <2>1. \A i \in 1..n : chain'[i] = chain[i]
    BY <1>4
  <2> QED
    BY <2>1 DEF ConfirmedTo
<1>6. SolventTo(chain', Len(chain) + 1)
  <2> SUFFICES ASSUME NEW acc \in Accounts
               PROVE  Funds[acc] + Net(acc, ConfirmedTo(chain', Len(chain) + 1)) >= 0
    BY DEF SolventTo
  <2>1. ConfirmedTo(chain', Len(chain) + 1) = Confirmed(chain) \union txs
    <3>1. 1..(Len(chain) + 1) = 1..Len(chain) \union {Len(chain) + 1}
      BY <1>4
    <3>2. ConfirmedTo(chain', Len(chain) + 1) = ConfirmedTo(chain', Len(chain)) \union txs
      BY <1>3, <1>4, <3>1 DEF ConfirmedTo
    <3>3. ConfirmedTo(chain', Len(chain)) = ConfirmedTo(chain, Len(chain))
      BY <1>4, <1>5
    <3>4. ConfirmedTo(chain, Len(chain)) = Confirmed(chain)
      BY <1>1 DEF ConfirmedTo, Confirmed
    <3> QED
      BY <3>2, <3>3, <3>4
  <2>2. Confirmed(chain) \in SUBSET Txs /\ txs \cap Confirmed(chain) = {}
    BY <1>1, ConfirmedTyped, Confirming
  <2>3. Net(acc, Confirmed(chain) \union txs) = Net(acc, Confirmed(chain)) + Net(acc, txs)
    BY <2>2, NetDisjoint
  <2>4. PICK funds, below, new :
          funds = Funds[acc] /\ below = Net(acc, Confirmed(chain)) /\ new = Net(acc, txs)
    OBVIOUS
  <2>5. funds \in Nat /\ below \in Int /\ new \in Int /\ funds + below + new >= 0
    BY <2>2, <2>4, NetInt, PoolAssumption DEF Pays
  <2>6. funds + (below + new) >= 0
    BY <2>5
  <2> QED
    BY <2>1, <2>3, <2>4, <2>6
<1>7. ASSUME NEW n \in 0..Len(chain') PROVE SolventTo(chain', n)
  <2>1. CASE n = Len(chain) + 1
    BY <1>6, <2>1
  <2>2. CASE n # Len(chain) + 1
    <3>1. n \in 0..Len(chain)
      BY <1>4, <2>2
    <3>2. SolventTo(chain, n)
      BY <3>1 DEF SolvencyInv
    <3> QED
      BY <1>5, <3>1, <3>2 DEF SolventTo
  <2> QED
    BY <2>1, <2>2
<1>8. ASSUME NEW t \in Threads PROVE SearchPays(task[t], chain')
  <2> SUFFICES ASSUME task[t].pc = "pow", NEW i \in 0..Len(chain'), IdAt(chain', i) = task[t].base
               PROVE  Pays(ConfirmedTo(chain', i), task[t].txs)
    BY DEF SearchPays
  <2>1. task[t].base \in 0..MaxBlocks /\ task[t].base <= made
    BY <1>1, JobTyped DEF IInv, SearchFresh
  <2>2. i # Len(chain) + 1
    BY <1>1, <1>3, <1>4, <2>1 DEF IdAt
  <2>3. i \in 0..Len(chain)
    BY <1>4, <2>2
  <2>4. IdAt(chain, i) = task[t].base
    BY <1>4, <2>3 DEF IdAt
  <2>5. Pays(ConfirmedTo(chain, i), task[t].txs)
    BY <2>3, <2>4 DEF SolvencyInv, SearchPays
  <2> QED
    BY <1>5, <2>3, <2>5
<1> QED
  BY <1>7, <1>8

\* A search that ends on the tip it started from.
LEMMA TipPays ==
  ASSUME SolvencyInv, NEW t \in Threads, task[t].pc = "pow", task[t].base = TipId
  PROVE  /\ task[t].txs \in SUBSET Txs
         /\ Unmined(chain, Len(chain), task[t].txs)
         /\ Pays(Confirmed(chain), task[t].txs)
<1>1. IInv /\ chain \in Seq(Block)
  BY PendingUnconfirmed DEF SolvencyInv
<1>2. TipId = IdAt(chain, Len(chain)) /\ Len(chain) \in 0..Len(chain)
  BY <1>1 DEF TipId, IdAt, Last
<1>3. Confirmed(chain) = ConfirmedTo(chain, Len(chain))
  BY <1>1 DEF Confirmed, ConfirmedTo
<1>4. Pays(Confirmed(chain), task[t].txs)
  BY <1>2, <1>3 DEF SolvencyInv, SearchPays
<1>5. CASE chain = << >>
  BY <1>1, <1>4, <1>5, JobTyped DEF Unmined, IInv
<1>6. CASE chain # << >>
  <2>1. Len(chain) \in 1..Len(chain) /\ chain[Len(chain)].id = task[t].base
    BY <1>1, <1>2, <1>6 DEF IdAt
  <2> QED
    BY <1>1, <1>4, <2>1, JobTyped DEF IInv, SearchFresh
<1> QED
  BY <1>5, <1>6

LEMMA MineEndPays ==
  ASSUME SolvencyInv, IInv', NEW t \in Threads, MineEnd(t)
  PROVE  SolvencyInv'
<1>1. task[t].pc = "pow"
  BY DEF MineEnd
<1>2. CASE task[t].base = TipId /\ Extend(task[t].txs) /\ Become(t, [pc |-> "clear"])
  <2>1. PICK job : job = [pc |-> "clear"]
    OBVIOUS
  <2>2. job.pc # "pow" /\ Become(t, job)
    BY <1>2, <2>1
  <2>3. task'[t] = job /\ \A u \in Threads \ {t} : task'[u] = task[u]
    BY <2>2, Others DEF SolvencyInv
  <2>4. PICK txs : txs = task[t].txs
    OBVIOUS
  <2>5. txs \in SUBSET Txs /\ Unmined(chain, Len(chain), txs) /\ Pays(Confirmed(chain), txs) /\ Extend(txs)
    BY <1>1, <1>2, <2>4, TipPays
  <2>6. /\ \A n \in 0..Len(chain') : SolventTo(chain', n)
        /\ \A u \in Threads : SearchPays(task[u], chain')
    BY <2>5, ExtendPays
  <2>7. \A u \in Threads : SearchPays(task'[u], chain')
    BY <2>2, <2>3, <2>6 DEF SearchPays
  <2> QED
    BY <2>6, <2>7 DEF SolvencyInv
<1>3. CASE Become(t, Idle) /\ UNCHANGED chain
  <2>1. Idle.pc # "pow"
    BY DEF Idle
  <2> QED
    BY <1>3, <2>1, JobPays, IdlersPay
<1> QED
  BY <1>2, <1>3 DEF MineEnd

LEMMA PeerBlockPays ==
  ASSUME SolvencyInv, IInv', NEW txs \in SUBSET Txs, PeerBlock(txs)
  PROVE  SolvencyInv'
<1>1. Unmined(chain, Len(chain), txs)
  BY Confirming, PendingUnconfirmed DEF PeerBlock, SolvencyInv
<1>2. Pays(Confirmed(chain), txs)
  BY DEF PeerBlock, Pays, Balance
<1>3. Extend(txs) /\ UNCHANGED task
  BY DEF PeerBlock
<1>4. /\ \A n \in 0..Len(chain') : SolventTo(chain', n)
      /\ \A t \in Threads : SearchPays(task[t], chain')
  BY <1>1, <1>2, <1>3, ExtendPays
<1> QED
  BY <1>3, <1>4 DEF SolvencyInv

LEMMA RollbackPays ==
  ASSUME SolvencyInv, IInv', NEW n \in 0..MaxBlocks, Rollback(n)
  PROVE  SolvencyInv'
<1>1. n < Len(chain) /\ chain' = SubSeq(chain, 1, n) /\ UNCHANGED task
  BY DEF Rollback
<1>2. /\ Len(chain') = n /\ n \in Nat /\ \A i \in 1..n : chain'[i] = chain[i]
      /\ \A i \in 0..n : i \in 0..Len(chain)
  BY <1>1, PendingUnconfirmed, PoolAssumption DEF SolvencyInv
<1>3. ASSUME NEW i \in 0..n
      PROVE  ConfirmedTo(chain', i) = ConfirmedTo(chain, i) /\ IdAt(chain', i) = IdAt(chain, i)
  <2>1. \A k \in 1..i : chain'[k] = chain[k]
    BY <1>2
  <2>2. i # 0 => chain'[i] = chain[i]
    BY <1>2
  <2> QED
    BY <2>1, <2>2 DEF ConfirmedTo, IdAt
<1>4. \A i \in 0..Len(chain') : SolventTo(chain', i)
  BY <1>2, <1>3 DEF SolvencyInv, SolventTo
<1>5. \A t \in Threads : SearchPays(task[t], chain')
  BY <1>2, <1>3 DEF SolvencyInv, SearchPays
<1> QED
  BY <1>1, <1>4, <1>5 DEF SolvencyInv

LEMMA RestartPays ==
  ASSUME SolvencyInv, IInv', NEW t \in Threads, Restart(t)
  PROVE  SolvencyInv'
<1>1. PICK job : job = [pc |-> "set", loaded |-> kept]
  OBVIOUS
<1>2. task' = [[u \in Threads |-> Idle] EXCEPT ![t] = job] /\ job.pc = "set" /\ UNCHANGED chain
  BY <1>1 DEF Restart
<1>3. \A u \in Threads : task'[u].pc # "pow"
  BY <1>2 DEF Idle
<1>4. (\A u \in Threads : SearchPays(task[u], chain))'
  BY <1>3 DEF SearchPays
<1>5. (\A n \in 0..Len(chain) : SolventTo(chain, n))'
  BY <1>2 DEF SolvencyInv, SolventTo, ConfirmedTo
<1> QED
  BY <1>4, <1>5 DEF SolvencyInv

LEMMA InitSolvent == Init => SolvencyInv
<1> SUFFICES ASSUME Init PROVE SolvencyInv
  OBVIOUS
<1>1. IInv
  BY InitIInv
<1>2. chain = << >> /\ \A t \in Threads : task[t].pc # "pow"
  BY DEF Init, Idle
<1>3. ConfirmedTo(chain, 0) = {}
  BY DEF ConfirmedTo
<1>4. SolventTo(chain, 0)
  BY <1>3, NetEmpty, PoolAssumption DEF SolventTo
<1>5. \A n \in 0..Len(chain) : SolventTo(chain, n)
  <2>1. \A n \in 0..Len(chain) : n = 0
    BY <1>2
  <2> QED
    BY <1>4, <2>1
<1> QED
  BY <1>1, <1>2, <1>5 DEF SolvencyInv, SearchPays

LEMMA NextSolvent == SolvencyInv /\ [Next]_vars => SolvencyInv'
<1> SUFFICES ASSUME SolvencyInv, [Next]_vars PROVE SolvencyInv'
  OBVIOUS
<1>1. IInv'
  BY NextIInv DEF SolvencyInv
<1>2. CASE UNCHANGED vars
  BY <1>1, <1>2 DEF vars, SolvencyInv, SolventTo, SearchPays, Pays, ConfirmedTo, IdAt
<1>3. ASSUME NEW t \in Threads,
             \/ \E tx \in Txs : Receive(t, tx) \/ Send(t, tx)
             \/ LoadRead(t) \/ LoadSet(t) \/ Wipe(t) \/ Build(t) \/ Write(t) \/ ClearPool(t)
      PROVE  SolvencyInv'
  BY <1>1, <1>3, PoolStepsPay
<1>4. ASSUME NEW t \in Threads, MineStart(t) \/ MineEnd(t) \/ Restart(t)
      PROVE  SolvencyInv'
  BY <1>1, <1>4, MineStartPays, MineEndPays, RestartPays
<1>5. ASSUME NEW txs \in SUBSET Txs, PeerBlock(txs) PROVE SolvencyInv'
  BY <1>1, <1>5, PeerBlockPays
<1>6. ASSUME NEW n \in 0..MaxBlocks, Rollback(n) PROVE SolvencyInv'
  BY <1>1, <1>6, RollbackPays
<1> QED
  BY <1>2, <1>3, <1>4, <1>5, <1>6 DEF Next

\* No block of the main chain takes an account below zero, although a search
\* works on balances of a chain that changes meanwhile, blocks are cut, and the
\* pool may promise what its senders no longer have.
THEOREM BalancesNeverNegative == Spec => []NoOverdraft
<1>1. SolvencyInv => NoOverdraft
  BY Solvent
<1> QED
  BY <1>1, InitSolvent, NextSolvent, PTL DEF Spec
=============================================================================
