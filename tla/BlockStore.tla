----------------------------- MODULE BlockStore -----------------------------
(***************************************************************************)
(* The main chain in memory and what RocksDB keeps of it.  addBlock puts   *)
(* the new block under its height, then saveToDB compares chain and disk   *)
(* from the top down and writes the difference as one batch.  saveToDB     *)
(* takes no lock of its own: addBlock and compareAndMergeChains call it    *)
(* with blockchainMutex held, rollbackToHeight (self-healing) and          *)
(* replaceChainUpTo (snapshots) after they released it, and the RPC        *)
(* handlers mineonce, mineloop and history save or load the chain without  *)
(* it (main.cpp:828-831, 854-856, 1086).  A write may fail and the process *)
(* may stop between any two steps.                                         *)
(***************************************************************************)
EXTENDS BlockTree, CheckpointKeys

CONSTANTS
  Threads,          \* network, mining and self-healing threads
  NoThread,         \* nobody holds blockchainMutex
  NoBlock,          \* no block stored under a height
  MaxReorgDepth,    \* kMaxReorgDepth and MAX_REORG
  CheckpointEvery,  \* the 1000 of saveCheckpoint's caller
  MaxFailures       \* bound of the model: writes that fail

Heights == {Index[b] : b \in Blocks}

ASSUME StoreAssumption ==
  /\ NoThread \notin Threads /\ NoBlock \notin Blocks
  /\ MaxReorgDepth \in Nat /\ CheckpointEvery \in Nat \ {0}
  /\ MaxFailures \in Nat
  /\ Index[Genesis] = 0
  /\ \A b \in Blocks \ {Genesis} : Index[b] = Index[Parent[b]] + 1

VARIABLES
  chain,       \* the main chain in memory
  disk,        \* block_height_N keys
  recorded,    \* lastPersistedHeight
  lastHeight,  \* last_height key, -1 when absent
  checkpoint,  \* checkpointHeight
  checkKeys,   \* heights stored in the column family cfCheck
  cfOpen,      \* cfCheck is not null
  holder,      \* owner of blockchainMutex
  task,        \* what each thread is doing
  failures,    \* writes that failed
  saved,       \* history: the chain of the last save that succeeded, << >>
               \*   after a failed one
  calm         \* history: since the database was created no task overlapped one
               \*   that saves without the mutex, and no block was put at a
               \*   height up to which the chain had been saved

mem == <<chain, recorded, checkpoint, cfOpen>>
dsk == <<disk, lastHeight, checkKeys>>
vars == <<mem, dsk, holder, task, failures, saved, calm>>

Top(s) == Len(s) - 1

\* the chain from genesis to a block
Path[b \in Blocks] == IF b = Genesis THEN <<b>> ELSE Append(Path[Parent[b]], b)

IsPrefixOf(s, t) == Len(s) <= Len(t) /\ \A i \in 1..Len(s) : s[i] = t[i]

-----------------------------------------------------------------------------
(* What is on disk. *)

\* loadFromDB reads heights from 0 up, to the first hole or broken link.
Readable(n) ==
  \A h \in 0..n :
    /\ h \in Heights /\ disk[h] # NoBlock
    /\ h > 0 => Parent[disk[h]] = disk[h - 1]
LoadedLength == Cardinality({h \in Heights : Readable(h)})
Loaded == [i \in 1..LoadedLength |-> disk[i - 1]]

\* saveToDB's scan: from min(recordedHeight, chainHeight) down to the first
\* height where chain and disk agree; everything above it is rewritten.
Agree(s, rec) == {h \in 0..Top(s) : h <= rec /\ disk[h] = s[h + 1]}

RewriteFrom(s, rec) ==
  IF Agree(s, rec) = {} THEN 0
  ELSE 1 + CHOOSE h \in Agree(s, rec) : \A k \in Agree(s, rec) : k <= h

RecordedHeight == IF recorded >= 0 THEN recorded ELSE lastHeight

\* the batch: the chain, where rewriting starts, and the height up to which
\* the keys above the chain are deleted
Batch == [chain |-> chain, from |-> RewriteFrom(chain, RecordedHeight),
          upTo |-> RecordedHeight]

\* Mutant: the heights above the chain are not deleted.
Written_KeepsTail(b) ==
  [h \in Heights |->
     IF h >= b.from /\ h <= Top(b.chain) THEN b.chain[h + 1] ELSE disk[h]]

Written(b) ==
  [h \in Heights |->
     IF h >= b.from /\ h <= Top(b.chain) THEN b.chain[h + 1]
     ELSE IF h > Top(b.chain) /\ h <= b.upTo THEN NoBlock
     ELSE disk[h]]

-----------------------------------------------------------------------------
(* Tasks. *)

Idle == [pc |-> "idle"]
AllIdle == \A t \in Threads : task[t] = Idle

Start(t, job) ==
  /\ task' = [task EXCEPT ![t] = job]
  /\ calm' = (calm /\ \A u \in Threads : task[u] = Idle \/ holder = u)

\* Mutant: the mutex is not waited for.
StartLocked_NoWait(t, job) == holder' = t /\ Start(t, job)

StartLocked(t, job) == holder = NoThread /\ holder' = t /\ Start(t, job)

\* the mutex is taken and released within the step
StartUnlocked(t, job) == holder = NoThread /\ UNCHANGED holder /\ Start(t, job)

\* Mutant: a call that fails or ends keeps the mutex.
Stop_KeepsLock(t) == task' = [task EXCEPT ![t] = Idle] /\ UNCHANGED holder

Stop(t) ==
  /\ task' = [task EXCEPT ![t] = Idle]
  /\ holder' = IF holder = t THEN NoThread ELSE holder

SaveJob(b) == [pc |-> "plan", blk |-> b]

-----------------------------------------------------------------------------
(* Changes of the main chain. *)

\* addBlock up to the push; the checks before it are ForkChoice's.
AddBlock(t, b) ==
  /\ task[t] = Idle
  /\ IF chain = << >> THEN b = Genesis
     ELSE b # Genesis /\ Parent[b] = Last(chain)
  /\ chain' = Append(chain, b)
  /\ StartLocked(t, [pc |-> "put", blk |-> b])
  /\ UNCHANGED <<recorded, checkpoint, cfOpen, dsk, failures, saved>>

\* compareAndMergeChains for a candidate ending in b, after its guards
MergeGuards(c) ==
  LET depth == Len(chain) - CommonLength(chain, c) IN
  /\ depth <= MaxReorgDepth
  /\ checkpoint > 0 => Top(chain) - depth >= checkpoint - 2
  /\ CumulativeDifficulty(c) > CumulativeDifficulty(chain)

\* Either the candidate replaces the chain (it is empty, or of the same
\* length), or the chain is cut and addBlock is called for the rest.
Merge(t, b) ==
  LET c == Path[b] IN
  /\ task[t] = Idle
  /\ \/ chain = << >> /\ chain' = c
     \/ /\ chain # << >> /\ MergeGuards(c)
        /\ Len(c) = Len(chain)
        /\ chain' = c
     \/ /\ chain # << >> /\ MergeGuards(c)
        /\ Len(c) # Len(chain) /\ ~ IsPrefixOf(chain, c)
        /\ chain' = Prefix(chain, CommonLength(chain, c))
  /\ StartLocked(t, SaveJob(NoBlock))
  /\ UNCHANGED <<recorded, checkpoint, cfOpen, dsk, failures, saved>>

\* the saveToDB after the last block of a merge (4150, 4211), and the one of
\* the RPC handlers that mine (main.cpp:828, 854), which take no lock
SaveAgain(t) ==
  /\ task[t] = Idle
  /\ chain # << >>
  /\ StartLocked(t, SaveJob(NoBlock))
  /\ UNCHANGED <<mem, dsk, failures, saved>>

SaveUnlocked(t) ==
  /\ task[t] = Idle
  /\ chain # << >>
  /\ task' = [task EXCEPT ![t] = SaveJob(NoBlock)]
  /\ calm' = (calm /\ AllIdle)
  /\ UNCHANGED <<mem, dsk, holder, failures, saved>>

RollbackToHeight(t, h) ==
  /\ task[t] = Idle
  /\ h \in 0..Top(chain)
  /\ chain' = Prefix(chain, h + 1)
  /\ StartUnlocked(t, SaveJob(NoBlock))
  /\ UNCHANGED <<recorded, checkpoint, cfOpen, dsk, failures, saved>>

\* handleSnapshotEnd: the fork-choice rule on an unlocked look at the chain
SnapshotDepth(c) == IF Top(chain) > Top(c) THEN Top(chain) - Top(c) ELSE 0
LocalWork(n) == IF chain = << >> THEN 0
                ELSE CumulativeDifficulty(Prefix(chain, IF n < Len(chain) THEN n ELSE Len(chain)))
InLimits(c) ==
  /\ SnapshotDepth(c) <= MaxReorgDepth
  /\ checkpoint > 0 => SnapshotDepth(c) <= Top(chain) - (checkpoint - 2)
Acceptable(c) ==
  /\ InLimits(c)
  /\ CumulativeDifficulty(c) * 100 > LocalWork(Len(chain)) * 101

SnapshotEnd(t, b) ==
  /\ task[t] = Idle
  /\ Acceptable(Path[b])
  /\ StartUnlocked(t, [pc |-> "apply", blk |-> b])
  /\ UNCHANGED <<mem, dsk, failures, saved>>

\* replaceChainUpTo: the limits again, and the work of the part of the chain
\* that is as long as the snapshot
SnapshotApply(t) ==
  LET c == Path[task[t].blk] IN
  /\ task[t].pc = "apply"
  /\ holder = NoThread
  /\ IF InLimits(c) /\ CumulativeDifficulty(c) * 100 > LocalWork(Len(c)) * 101
     THEN /\ chain' = c
          /\ task' = [task EXCEPT ![t] = SaveJob(NoBlock)]
     ELSE /\ UNCHANGED chain
          /\ task' = [task EXCEPT ![t] = Idle]
  /\ UNCHANGED <<recorded, checkpoint, cfOpen, dsk, holder, failures, saved, calm>>

-----------------------------------------------------------------------------
(* The steps of a save. *)

Fail == failures < MaxFailures /\ failures' = failures + 1 /\ saved' = << >>

\* addBlock's Puts under block_height_N and block_<hash>.  The first may fail,
\* or the second after the first; the block stays on the chain.
PutBlock(t) ==
  LET b == task[t].blk
      put == [disk EXCEPT ![Index[b]] = b] IN
  /\ task[t].pc = "put"
  /\ \/ /\ disk' = put
        /\ task' = [task EXCEPT ![t] = SaveJob(b)]
        /\ UNCHANGED <<holder, failures, saved>>
     \/ /\ Fail
        /\ disk' \in {disk, put}
        /\ Stop(t)
  /\ calm' = (calm /\ Index[b] > recorded)
  /\ UNCHANGED <<mem, lastHeight, checkKeys>>

\* saveToDB up to the write: chain, lastPersistedHeight and disk are read
PlanSave(t) ==
  /\ task[t].pc = "plan"
  /\ task' = [task EXCEPT ![t] = [pc |-> "commit", blk |-> task[t].blk, batch |-> Batch]]
  /\ UNCHANGED <<mem, dsk, holder, failures, saved, calm>>

\* The writer thread applies the batch, all or nothing; addBlock goes on to
\* its checkpoint, the others ignore a failure.
WriteBatch(t) ==
  LET batch == task[t].batch IN
  /\ task[t].pc = "commit"
  /\ \/ /\ disk' = Written(batch)
        /\ lastHeight' = Top(batch.chain)
        /\ saved' = batch.chain
        /\ task' = [task EXCEPT ![t] = [pc |-> "written", blk |-> task[t].blk, batch |-> batch]]
        /\ UNCHANGED <<holder, failures>>
     \/ /\ Fail
        /\ Stop(t)
        /\ UNCHANGED <<disk, lastHeight>>
  /\ UNCHANGED <<mem, checkKeys, calm>>

\* lastPersistedHeight = chainHeight
EndSave(t) ==
  LET b == task[t].blk IN
  /\ task[t].pc = "written"
  /\ recorded' = Top(task[t].batch.chain)
  /\ IF b # NoBlock /\ Index[b] % CheckpointEvery = 0
     THEN /\ task' = [task EXCEPT ![t] = [pc |-> "checkpoint", blk |-> b]]
          /\ UNCHANGED holder
     ELSE Stop(t)
  /\ UNCHANGED <<chain, checkpoint, cfOpen, dsk, failures, saved, calm>>

\* saveCheckpoint: nothing without its column family; the Put is not checked
SaveCheckpoint(t) ==
  LET h == Index[task[t].blk] IN
  /\ task[t].pc = "checkpoint"
  /\ IF cfOpen
     THEN checkpoint' = h /\ checkKeys' = checkKeys \union {h}
     ELSE UNCHANGED <<checkpoint, checkKeys>>
  /\ Stop(t)
  /\ UNCHANGED <<chain, recorded, cfOpen, disk, lastHeight, failures, saved, calm>>

-----------------------------------------------------------------------------
(* Loading, restarting and purging. *)

\* reloadBlockchainState and loadFromDB in the RPC handlers, without the lock;
\* the merge of a pending fork that may follow is Merge
Reload(t) ==
  /\ task[t] = Idle
  /\ LoadedLength > 0
  /\ chain' = Loaded
  /\ recorded' = LoadedLength - 1
  /\ saved' = Loaded
  /\ calm' = (calm /\ AllIdle)
  /\ UNCHANGED <<checkpoint, cfOpen, dsk, holder, task, failures>>

\* A new process: the constructor opens the column families, loads the chain
\* (an empty database gets the embedded genesis block) and the checkpoint.
Restart ==
  LET found == IF LoadedLength > 0 THEN Loaded ELSE <<Genesis>>
      fresh == [chain |-> found, from |-> 0, upTo |-> lastHeight] IN
  /\ chain' = found
  /\ IF LoadedLength > 0
     THEN UNCHANGED dsk
     ELSE disk' = Written(fresh) /\ lastHeight' = 0 /\ checkKeys' = checkKeys \union {0}
  /\ recorded' = Top(found)
  /\ saved' = found
  /\ checkpoint' = LastKey(checkKeys')
  /\ cfOpen' = TRUE
  /\ holder' = NoThread
  /\ task' = [t \in Threads |-> Idle]
  /\ calm' = (calm \/ \A h \in Heights : disk[h] = NoBlock)
  /\ UNCHANGED failures

\* purgeDataForResync destroys the database and reopens it without its column
\* family; it clears the chain and leaves lastPersistedHeight and
\* checkpointHeight.  Threads that use the database meanwhile are left out.
Purge ==
  /\ AllIdle
  /\ chain' = << >>
  /\ disk' = [h \in Heights |-> NoBlock]
  /\ lastHeight' = -1
  /\ checkKeys' = {}
  /\ cfOpen' = FALSE
  /\ saved' = << >>
  /\ calm' = FALSE
  /\ UNCHANGED <<recorded, checkpoint, holder, task, failures>>

Init ==
  /\ chain = <<Genesis>>
  /\ disk = [h \in Heights |-> IF h = 0 THEN Genesis ELSE NoBlock]
  /\ recorded = 0 /\ lastHeight = 0
  /\ checkpoint = 0 /\ checkKeys = {0} /\ cfOpen = TRUE
  /\ holder = NoThread
  /\ task = [t \in Threads |-> Idle]
  /\ failures = 0
  /\ saved = <<Genesis>>
  /\ calm = TRUE

LockedStep(t) ==
  \/ \E b \in Blocks : AddBlock(t, b) \/ Merge(t, b)
  \/ SaveAgain(t)
  \/ PutBlock(t) \/ PlanSave(t) \/ WriteBatch(t) \/ EndSave(t) \/ SaveCheckpoint(t)

UnlockedStep(t) ==
  \/ \E b \in Blocks : SnapshotEnd(t, b)
  \/ SnapshotApply(t) \/ SaveUnlocked(t)
  \/ \E h \in Heights : RollbackToHeight(t, h)
  \/ Reload(t)

Next ==
  \/ \E t \in Threads : LockedStep(t) \/ UnlockedStep(t)
  \/ Restart \/ Purge

Spec == Init /\ [][Next]_vars

-----------------------------------------------------------------------------

Batches == [chain : Seq(Blocks), from : Nat, upTo : Int]
Tasks ==
  {Idle}
    \union [pc : {"apply", "put", "checkpoint"}, blk : Blocks]
    \union [pc : {"plan"}, blk : Blocks \union {NoBlock}]
    \union [pc : {"commit", "written"}, blk : Blocks \union {NoBlock}, batch : Batches]

TypeOK ==
  /\ chain \in Seq(Blocks) /\ saved \in Seq(Blocks)
  /\ disk \in [Heights -> Blocks \union {NoBlock}]
  /\ recorded \in Nat /\ lastHeight \in Nat \union {-1}
  /\ checkpoint \in Nat /\ checkKeys \subseteq Nat
  /\ cfOpen \in BOOLEAN /\ calm \in BOOLEAN
  /\ holder \in {t \in Threads : task[t] # Idle} \union {NoThread}
  /\ task \in [Threads -> Tasks]
  /\ failures \in 0..MaxFailures

\* In a calm history the chain of the last successful save can be loaded again,
\* at whatever step the process stops: the next block, replacement or cut is on
\* disk as a whole or not at all, and no older record of the same heights comes
\* back.  The second condition of calm is needed once a save has failed: after a
\* replacement that was not written, the put of the next block at a saved height
\* makes saveToDB's scan stop above the stale heights.
SavedSurvives == calm => IsPrefixOf(saved, Loaded)

\* Without failed writes, in a calm history, what a restart finds is the main
\* chain and no more: a block that was cut off or replaced does not come back.
NothingComesBack ==
  calm /\ AllIdle /\ failures = 0 /\ saved # << >> => Loaded = chain
=============================================================================
