----------------------------- MODULE ForkChoice -----------------------------
(***************************************************************************)
(* Block acceptance and fork choice: Blockchain::addBlock with the orphan  *)
(* pool, the tip-stale cache, the futureBlocks buffer, the side-chain      *)
(* registry pendingForkChains, evaluatePendingForksLocked and              *)
(* compareAndMergeChains.                                                  *)
(*                                                                         *)
(* addBlock runs under the recursive blockchainMutex and calls itself: an  *)
(* accepted block attaches its orphans, an orphan may become a side chain, *)
(* a side chain may trigger a reorganisation, a reorganisation adds        *)
(* blocks.  The C++ call stack is the variable stack: its head is the      *)
(* running call, every step pops it and pushes the calls it makes.  New    *)
(* input arrives only when the stack is empty, as the mutex demands; a     *)
(* crash may come at any step.                                             *)
(***************************************************************************)
EXTENDS BlockTree, CheckpointKeys

CONSTANTS
  MaxOrphans,       \* MAX_ORPHAN_BLOCKS
  OrphanAge,        \* kMaxOrphanAge
  TipStaleTtl,      \* kTipStaleCacheTtl
  MaxTipStale,      \* kMaxTipStaleCache
  MaxReorgDepth,    \* kMaxReorgDepth
  CheckpointEvery,  \* the 1000 of saveCheckpoint's caller
  MaxClock          \* bound of the model: the last instant of the clock

ASSUME LimitsAssumption ==
  /\ MaxOrphans \in Nat /\ OrphanAge \in Nat /\ TipStaleTtl \in Nat
  /\ MaxTipStale \in Nat \ {0} /\ MaxReorgDepth \in Nat
  /\ CheckpointEvery \in Nat \ {0} /\ MaxClock \in Nat

VARIABLES
  chain,         \* the main chain, genesis first
  side,          \* pendingForkChains: side[t] is the candidate keyed by tip t,
                 \*   empty when there is none
  orphans,       \* orphanBlocks: position of a block in the vector kept under
                 \*   its parent, 0 when it is not there
  orphanHashes,  \* orphanHashes
  orphanAt,      \* orphanReceivedAt, Never when absent
  tipStale,      \* tipStaleCache and tipStaleReceivedAt, Never when absent
  requested,     \* requestedParents
  future,        \* futureBlocks, at most one block per index
  evaluating,    \* evaluatingSideChains
  checkpoint,    \* checkpointHeight
  checkKeys,     \* cfCheck: the heights saved as checkpoints, never deleted
  clock,         \* std::time
  stack,         \* running calls, innermost first
  ret            \* BlockAddResult of the last addBlock that returned

vars == <<chain, side, orphans, orphanHashes, orphanAt, tipStale, requested,
          future, evaluating, checkpoint, checkKeys, clock, stack, ret>>
poolVars == <<orphans, orphanHashes, orphanAt>>
forkVars == <<side, evaluating>>

Never == -1
Results == {"Added", "Duplicate", "Invalid", "Stale", "SideChain",
            "QueuedOrphan", "Future", "Dropped"}
Tip == Last(chain)
Tips == {t \in Blocks : side[t] # << >>}

-----------------------------------------------------------------------------
(* Call frames. *)

NoKids == [b \in Blocks |-> 0]
Ops == {"add", "route", "attach", "kids", "future", "eval", "merge", "append",
        "check", "cleanup", "reattach", "reattached", "added", "sideChain"}
Frames == [op : Ops, blk : Blocks, kids : [Blocks -> Nat], pos : Nat]

Call(op, b) == [op |-> op, blk |-> b, kids |-> NoKids, pos |-> 0]
CallAt(op, b, n) == [op |-> op, blk |-> b, kids |-> NoKids, pos |-> n]
CallAll(op, kids, n) == [op |-> op, blk |-> Genesis, kids |-> kids, pos |-> n]

Running(op) == stack # << >> /\ Head(stack).op = op
Top == Head(stack)
Replace(calls) == stack' = calls \o Tail(stack)
Return(r) == ret' = r /\ stack' = Tail(stack)

-----------------------------------------------------------------------------
(* The orphan pool.  A block is in a vector once at most: a second copy, which *)
(* addBlock adds when it gets a waiting block that orphanHashes does not list, *)
(* is not modelled.                                                            *)

\* Keep only the blocks of keep, in arrival order within each parent's vector.
Ranked(keep, pool) ==
  [b \in Blocks |->
     IF b \in keep
     THEN Cardinality({y \in keep : Parent[y] = Parent[b] /\ pool[y] <= pool[b]})
     ELSE 0]

Pooled(pool) == {b \in Blocks : pool[b] > 0}
PoolSize(pool) == Cardinality(Pooled(pool))
Children(p, pool) == {b \in Pooled(pool) : Parent[b] = p}

\* push_back under the block's parent
Pushed(b, pool) ==
  [pool EXCEPT ![b] = 1 + Cardinality(Children(Parent[b], pool))]

\* What addBlock removes from the pool before it looks at the block: the block
\* itself, and everything pruneStaleOrphans finds older than kMaxOrphanAge.
Swept(b) ==
  (orphanHashes \intersect {b})
    \union {h \in Blocks : orphanAt[h] # Never /\ orphanAt[h] < clock - OrphanAge}

PoolAfterSweep(b) == Ranked(Pooled(orphans) \ Swept(b), orphans)
HashesAfterSweep(b) == orphanHashes \ Swept(b)
AtAfterSweep(b) == [h \in Blocks |-> IF h \in Swept(b) THEN Never ELSE orphanAt[h]]
RequestedAfterSweep(b) == requested \ (orphanHashes \intersect {b})

\* addBlock lines 585-609 with nothing stored afterwards
SweepOnly(b) ==
  /\ orphans' = PoolAfterSweep(b)
  /\ orphanHashes' = HashesAfterSweep(b)
  /\ orphanAt' = AtAfterSweep(b)

\* the same sweep, then the block is appended under its parent
SweepAndStore(b) ==
  /\ orphans' = Pushed(b, PoolAfterSweep(b))
  /\ orphanHashes' = HashesAfterSweep(b) \union {b}
  /\ orphanAt' = [AtAfterSweep(b) EXCEPT ![b] = clock]

\* pruneStaleTipCache
FreshTipStale ==
  [h \in Blocks |-> IF tipStale[h] < clock - TipStaleTtl THEN Never ELSE tipStale[h]]

-----------------------------------------------------------------------------
(* The side-chain registry. *)

ParentInMain(b) == InChain(Parent[b], chain)
ParentInSide(b) == side[Parent[b]] # << >>
Position(b, s) == CHOOSE i \in 1..Len(s) : s[i] = b

\* registerSideChainBlockLocked does nothing for a block of the main chain or
\* one whose parent is neither a candidate's tip nor on the main chain.
Registrable(b) ==
  /\ ~ InChain(b, chain)
  /\ ParentInSide(b) \/ ParentInMain(b)

\* Mutant: a new candidate keeps one block too many of the main chain.
Registered_LongPrefix(b) ==
  IF ParentInSide(b)
  THEN [t \in Blocks |->
          IF t = b /\ side[b] = << >> THEN Append(side[Parent[b]], b)
          ELSE IF t = Parent[b] THEN << >>
          ELSE side[t]]
  ELSE LET n == Position(Parent[b], chain)
       IN [side EXCEPT ![b] =
             Append(Prefix(chain, IF n < Len(chain) THEN n + 1 ELSE n), b)]

\* Extending a candidate moves it from its old tip's key to the new one, where
\* emplace keeps an entry that is already there; otherwise the candidate is
\* the main chain up to the parent and the block.
Registered(b) ==
  IF ParentInSide(b)
  THEN [t \in Blocks |->
          IF t = b /\ side[b] = << >> THEN Append(side[Parent[b]], b)
          ELSE IF t = Parent[b] THEN << >>
          ELSE side[t]]
  ELSE [side EXCEPT ![b] = Append(Prefix(chain, Position(Parent[b], chain)), b)]

\* Register b, attach the orphans waiting for it, then make the calls of rest.
RegisterThen(b, rest) ==
  IF Registrable(b)
  THEN side' = Registered(b) /\ Replace(<<Call("attach", b)>> \o rest)
  ELSE side' = side /\ Replace(rest)

\* cleanupSideChainsLocked
Cleaned ==
  [t \in Blocks |->
     IF InChain(t, chain) \/ (side[t] # << >> /\ side[t][1] # chain[1])
     THEN << >> ELSE side[t]]

\* medianTimePastForParent knows the parent
TimeKnown(b) ==
  ParentInMain(b) \/ \E t \in Tips : InChain(Parent[b], side[t])

-----------------------------------------------------------------------------
(* addBlock, from its entry to the first call it makes.  The actions are its *)
(* outcomes, in the order of its returns.                                    *)

KnownHash(b) == b \in NoProof \/ InChain(b, chain)

\* a rival of the tip under the same parent
CompetesWithTip(b) ==
  /\ Index[b] = Index[Tip]
  /\ Len(chain) >= 2
  /\ Parent[b] = chain[Len(chain) - 1]

TimeRejected(b) == TimeKnown(b) /\ b \in BadTime

\* 567-584: no proof, or already in the main chain
AddRefuse(b) ==
  /\ KnownHash(b)
  /\ Return(IF b \in NoProof THEN "Invalid" ELSE "Duplicate")
  /\ UNCHANGED <<chain, side, poolVars, tipStale, requested, future, evaluating,
                 checkpoint, checkKeys, clock>>

\* 611-629, cacheTipStaleBlock: expired entries go first, then the oldest one
\* if the cache is full.
AddTipStale(b) ==
  /\ ~ KnownHash(b)
  /\ CompetesWithTip(b)
  /\ SweepOnly(b)
  /\ requested' = RequestedAfterSweep(b)
  /\ LET cached == {h \in Blocks : FreshTipStale[h] # Never}
         oldest == {h \in cached : \A g \in cached : FreshTipStale[h] <= FreshTipStale[g]}
     IN IF Cardinality(cached) >= MaxTipStale
        THEN \E h \in oldest :
               tipStale' = [FreshTipStale EXCEPT ![h] = Never, ![b] = clock]
        ELSE tipStale' = [FreshTipStale EXCEPT ![b] = clock]
  /\ Return("Stale")
  /\ UNCHANGED <<chain, forkVars, future, checkpoint, checkKeys, clock>>

\* 637-653
AddBadTime(b) ==
  /\ ~ KnownHash(b) /\ ~ CompetesWithTip(b)
  /\ TimeRejected(b)
  /\ SweepOnly(b)
  /\ requested' = RequestedAfterSweep(b)
  /\ Return("Invalid")
  /\ UNCHANGED <<chain, forkVars, tipStale, future, checkpoint, checkKeys, clock>>

OffTip(b) ==
  /\ ~ KnownHash(b) /\ ~ CompetesWithTip(b) /\ ~ TimeRejected(b)
  /\ Parent[b] # Tip

\* Mutant: the parent is not compared with the tip.
OnTip_AnyParent(b) ==
  ~ KnownHash(b) /\ ~ CompetesWithTip(b) /\ ~ TimeRejected(b)

OnTip(b) ==
  /\ ~ KnownHash(b) /\ ~ CompetesWithTip(b) /\ ~ TimeRejected(b)
  /\ Parent[b] = Tip

\* 670-685: the parent is known, the block joins a side chain
AddSide(b) ==
  /\ OffTip(b)
  /\ ParentInMain(b) \/ ParentInSide(b)
  /\ tipStale' = FreshTipStale
  /\ requested' = RequestedAfterSweep(b)
  /\ IF PoolSize(PoolAfterSweep(b)) >= MaxOrphans
     THEN /\ SweepOnly(b)
          /\ Return("Dropped")
          /\ UNCHANGED side
     ELSE /\ SweepAndStore(b)
          /\ RegisterThen(b, <<Call("eval", b), Call("sideChain", b)>>)
          /\ UNCHANGED ret
  /\ UNCHANGED <<chain, evaluating, future, checkpoint, checkKeys, clock>>

\* 664-668, promoteStaleTipParent: the cached parent becomes a side chain first;
\* the block itself continues at "route".
AddPromote(b) ==
  LET p == Parent[b]
      swept == PoolAfterSweep(b) IN
  /\ OffTip(b)
  /\ ~ ParentInMain(b) /\ ~ ParentInSide(b)
  /\ FreshTipStale[p] # Never
  /\ PoolSize(swept) < MaxOrphans
  /\ tipStale' = [FreshTipStale EXCEPT ![p] = Never]
  /\ requested' = RequestedAfterSweep(b) \ {p}
  /\ IF p \in HashesAfterSweep(b)
     THEN SweepOnly(b)
     ELSE /\ orphans' = Pushed(p, swept)
          /\ orphanHashes' = HashesAfterSweep(b) \union {p}
          /\ orphanAt' = [AtAfterSweep(b) EXCEPT ![p] = clock]
  /\ RegisterThen(p, <<Call("route", b)>>)
  /\ UNCHANGED <<chain, evaluating, future, checkpoint, checkKeys, clock, ret>>

\* 687-701: no parent anywhere.  A full pool drops the block, and with it a
\* cached tip-stale parent, which promoteStaleTipParent has already taken out
\* of its cache.
AddOrphan(b) ==
  LET p == Parent[b]
      full == PoolSize(PoolAfterSweep(b)) >= MaxOrphans IN
  /\ OffTip(b)
  /\ ~ ParentInMain(b) /\ ~ ParentInSide(b)
  /\ FreshTipStale[p] = Never \/ full
  /\ tipStale' = [FreshTipStale EXCEPT ![p] = Never]
  /\ IF full
     THEN /\ SweepOnly(b)
          /\ requested' = RequestedAfterSweep(b)
                            \ (IF FreshTipStale[p] # Never THEN {p} ELSE {})
          /\ Return("Dropped")
     ELSE /\ SweepAndStore(b)
          /\ requested' = RequestedAfterSweep(b) \union {p}
          /\ Return("QueuedOrphan")
  /\ UNCHANGED <<chain, forkVars, future, checkpoint, checkKeys, clock>>

\* Mutant: futureBlocks keeps several blocks of an index.
AddRejectOnTip_Multi(b) ==
  /\ OnTip(b)
  /\ SweepOnly(b)
  /\ requested' = RequestedAfterSweep(b)
  /\ \/ /\ Index[b] < Index[Tip] + 1
        /\ Return("Stale")
        /\ UNCHANGED future
     \/ /\ Index[b] > Index[Tip] + 1
        /\ future' = future \union {b}
        /\ Return("Future")
     \/ /\ Index[b] = Index[Tip] + 1
        /\ b \in BadBody
        /\ Return("Invalid")
        /\ UNCHANGED future
  /\ UNCHANGED <<chain, forkVars, tipStale, checkpoint, checkKeys, clock>>

\* 704-798: on the tip, but the index is off or a check of the body fails
AddRejectOnTip(b) ==
  /\ OnTip(b)
  /\ SweepOnly(b)
  /\ requested' = RequestedAfterSweep(b)
  /\ \/ /\ Index[b] < Index[Tip] + 1
        /\ Return("Stale")
        /\ UNCHANGED future
     \/ /\ Index[b] > Index[Tip] + 1
        /\ future' = {f \in future : Index[f] # Index[b]} \union {b}
        /\ Return("Future")
     \/ /\ Index[b] = Index[Tip] + 1
        /\ b \in BadBody
        /\ Return("Invalid")
        /\ UNCHANGED future
  /\ UNCHANGED <<chain, forkVars, tipStale, checkpoint, checkKeys, clock>>

\* saveCheckpoint, every 1000 blocks
CheckpointDue(b) == Index[b] % CheckpointEvery = 0
SaveCheckpoint(b) ==
  IF CheckpointDue(b)
  THEN checkpoint' = Index[b] /\ checkKeys' = checkKeys \union {Index[b]}
  ELSE UNCHANGED <<checkpoint, checkKeys>>

\* Mutant: a block that fails a check of its body is accepted.
AddExtend_AnyBody(b) ==
  /\ OnTip(b)
  /\ Index[b] = Index[Tip] + 1
  /\ SweepOnly(b)
  /\ chain' = Append(chain, b)
  /\ SaveCheckpoint(b)
  /\ requested' = RequestedAfterSweep(b)
  /\ Replace(<<CallAt("future", b, Index[b] + 1), Call("attach", b),
               Call("eval", b), Call("added", b)>>)
  /\ UNCHANGED <<forkVars, tipStale, future, clock, ret>>

\* 813-930: append, persist, then futureBlocks, the orphans waiting for the
\* block and the pending forks
AddExtend(b) ==
  /\ OnTip(b)
  /\ Index[b] = Index[Tip] + 1
  /\ b \notin BadBody
  /\ SweepOnly(b)
  /\ chain' = Append(chain, b)
  /\ SaveCheckpoint(b)
  /\ requested' = RequestedAfterSweep(b)
  /\ Replace(<<CallAt("future", b, Index[b] + 1), Call("attach", b),
               Call("eval", b), Call("added", b)>>)
  /\ UNCHANGED <<forkVars, tipStale, future, clock, ret>>

AddBlock ==
  /\ Running("add")
  /\ \/ AddRefuse(Top.blk)
     \/ AddTipStale(Top.blk)
     \/ AddBadTime(Top.blk)
     \/ AddSide(Top.blk)
     \/ AddPromote(Top.blk)
     \/ AddOrphan(Top.blk)
     \/ AddRejectOnTip(Top.blk)
     \/ AddExtend(Top.blk)

-----------------------------------------------------------------------------
(* The rest of addBlock and the calls it makes. *)

\* addBlock after promoteStaleTipParent returned true: only parentInSide is
\* looked up again (666), whatever the nested calls did to the main chain.
Route ==
  LET b == Top.blk
      fresh == b \notin orphanHashes
      full == PoolSize(orphans) >= MaxOrphans
      stored == fresh /\ ~ full IN
  /\ Running("route")
  /\ orphans' = IF stored THEN Pushed(b, orphans) ELSE orphans
  /\ orphanHashes' = IF stored THEN orphanHashes \union {b} ELSE orphanHashes
  /\ orphanAt' = IF stored THEN [orphanAt EXCEPT ![b] = clock] ELSE orphanAt
  /\ \/ /\ ParentInSide(b)
        /\ ~ (fresh /\ full)
        /\ RegisterThen(b, <<Call("eval", b), Call("sideChain", b)>>)
        /\ UNCHANGED <<requested, ret>>
     \/ /\ ~ ParentInSide(b)
        /\ ~ full
        /\ requested' = requested \union {Parent[b]}
        /\ Return("QueuedOrphan")
        /\ UNCHANGED side
     \/ /\ full
        /\ ParentInSide(b) => fresh
        /\ Return("Dropped")
        /\ UNCHANGED <<side, requested>>
  /\ UNCHANGED <<chain, tipStale, future, evaluating, checkpoint, checkKeys, clock>>

\* tryAttachOrphans: take the whole vector kept under the parent
Attach ==
  LET p == Top.blk
      waiting == Children(p, orphans) IN
  /\ Running("attach")
  /\ requested' = requested \ {p}
  /\ orphans' = [b \in Blocks |-> IF b \in waiting THEN 0 ELSE orphans[b]]
  /\ Replace(IF waiting = {} THEN << >>
             ELSE <<CallAll("kids", Ranked(waiting, orphans), 0)>>)
  /\ UNCHANGED <<chain, forkVars, orphanHashes, orphanAt, tipStale, future,
                 checkpoint, checkKeys, clock, ret>>

\* Mutant: the child's receive time stays behind.
AttachChild_KeepsTime ==
  /\ Running("kids")
  /\ LET kids == Top.kids
         left == Pooled(kids) IN
       \/ left = {} /\ Replace(<< >>) /\ UNCHANGED orphanHashes
       \/ \E c \in left :
            /\ \A d \in left : kids[c] <= kids[d]
            /\ orphanHashes' = orphanHashes \ {c}
            /\ Replace(<<Call("add", c), CallAll("kids", [kids EXCEPT ![c] = 0], 0)>>)
  /\ UNCHANGED <<chain, forkVars, orphans, orphanAt, tipStale, requested, future,
                 checkpoint, checkKeys, clock, ret>>

\* Mutant: the loop does not advance.
AttachChild_Repeats ==
  /\ Running("kids")
  /\ \E c \in Pooled(Top.kids) :
       Replace(<<Call("add", c), CallAll("kids", Top.kids, 0)>>)
  /\ UNCHANGED <<chain, forkVars, poolVars, tipStale, requested, future,
                 checkpoint, checkKeys, clock, ret>>

\* tryAttachOrphans' loop: the child leaves orphanHashes and goes to addBlock
AttachChild ==
  /\ Running("kids")
  /\ LET kids == Top.kids
         left == Pooled(kids) IN
       \/ /\ left = {}
          /\ Replace(<< >>)
          /\ UNCHANGED <<orphanHashes, orphanAt>>
       \/ \E c \in left :
            /\ \A d \in left : kids[c] <= kids[d]
            /\ orphanHashes' = orphanHashes \ {c}
            /\ orphanAt' = [orphanAt EXCEPT ![c] = Never]
            /\ Replace(<<Call("add", c), CallAll("kids", [kids EXCEPT ![c] = 0], 0)>>)
  /\ UNCHANGED <<chain, forkVars, orphans, tipStale, requested, future,
                 checkpoint, checkKeys, clock, ret>>

\* the while loop over futureBlocks (915-923)
ApplyFuture ==
  /\ Running("future")
  /\ \/ /\ \A f \in future : Index[f] # Top.pos
        /\ Replace(<< >>)
        /\ UNCHANGED future
     \/ \E f \in future :
          /\ Index[f] = Top.pos
          /\ future' = future \ {f}
          /\ Replace(<<Call("add", f), CallAt("future", Top.blk, Top.pos + 1)>>)
  /\ UNCHANGED <<chain, forkVars, poolVars, tipStale, requested, checkpoint,
                 checkKeys, clock, ret>>

\* evaluatePendingForksLocked: nested evaluations return at once; otherwise the
\* heaviest candidate beyond the main chain, whichever the map yields first,
\* goes to compareAndMergeChains by reference.
Heaviest(s) ==
  {t \in Blocks :
     /\ s[t] # << >>
     /\ CumulativeDifficulty(s[t]) > CumulativeDifficulty(chain)
     /\ \A u \in Blocks : s[u] # << >> =>
          CumulativeDifficulty(s[u]) <= CumulativeDifficulty(s[t])}

\* Mutant: the evaluatingSideChains flag is not tested.
Evaluate_Nested ==
  /\ Running("eval")
  /\ side' = Cleaned
  /\ IF Heaviest(Cleaned) = {}
     THEN Replace(<< >>) /\ UNCHANGED evaluating
     ELSE \E t \in Heaviest(Cleaned) :
            evaluating' = TRUE /\ Replace(<<Call("merge", t), Call("cleanup", t)>>)
  /\ UNCHANGED <<chain, poolVars, tipStale, requested, future, checkpoint,
                 checkKeys, clock, ret>>

Evaluate ==
  /\ Running("eval")
  /\ IF evaluating
     THEN Replace(<< >>) /\ UNCHANGED forkVars
     ELSE /\ side' = Cleaned
          /\ \/ /\ Heaviest(Cleaned) = {}
                /\ Replace(<< >>)
                /\ UNCHANGED evaluating
             \/ \E t \in Heaviest(Cleaned) :
                  /\ evaluating' = TRUE
                  /\ Replace(<<Call("merge", t), Call("cleanup", t)>>)
  /\ UNCHANGED <<chain, poolVars, tipStale, requested, future, checkpoint,
                 checkKeys, clock, ret>>

Cleanup ==
  /\ Running("cleanup")
  /\ side' = Cleaned
  /\ evaluating' = FALSE
  /\ Replace(<< >>)
  /\ UNCHANGED <<chain, poolVars, tipStale, requested, future, checkpoint,
                 checkKeys, clock, ret>>

-----------------------------------------------------------------------------
(* compareAndMergeChains.  Its argument is a reference into the registry, so *)
(* every later read of the candidate is a read of side[t].                   *)

ReorgDepth(t) == Len(chain) - CommonLength(chain, side[t])

\* Mutant: the checkpoint guard is off by one.
Mergeable_OffByOne(t) ==
  /\ side[t] # << >> /\ Linked(side[t])
  /\ side[t][1] = chain[1]
  /\ ReorgDepth(t) <= MaxReorgDepth
  /\ checkpoint > 0 => (Len(chain) - 1) - ReorgDepth(t) >= checkpoint - 3
  /\ CumulativeDifficulty(side[t]) > CumulativeDifficulty(chain)

\* 4085-4130: linked, same genesis, within both depth limits, more work
Mergeable(t) ==
  /\ side[t] # << >> /\ Linked(side[t])
  /\ side[t][1] = chain[1]
  /\ ReorgDepth(t) <= MaxReorgDepth
  /\ checkpoint > 0 => (Len(chain) - 1) - ReorgDepth(t) >= checkpoint - 2
  /\ CumulativeDifficulty(side[t]) > CumulativeDifficulty(chain)

ExtendsMain(t) == CommonLength(chain, side[t]) = Len(chain)
SameLength(t) == Len(side[t]) = Len(chain)

MergeRefuse(t) ==
  /\ ~ Mergeable(t)
  /\ Replace(<< >>)
  /\ UNCHANGED chain

\* 4141-4153: the main chain is a prefix, append the rest
MergeAppend(t) ==
  /\ Mergeable(t)
  /\ ExtendsMain(t)
  /\ Replace(<<CallAt("append", t, Len(chain))>>)
  /\ UNCHANGED chain

\* 4156-4174: same length, the candidate replaces the main chain as it is
MergeSameLength(t) ==
  /\ Mergeable(t)
  /\ ~ ExtendsMain(t)
  /\ SameLength(t)
  /\ chain' = side[t]
  /\ Replace(<< >>)

\* 4177-4209: rollbackToIndex, then addBlock for every block after the fork
MergeReorganise(t) ==
  LET c == CommonLength(chain, side[t]) IN
  /\ Mergeable(t)
  /\ ~ ExtendsMain(t)
  /\ ~ SameLength(t)
  /\ chain' = Prefix(chain, c)
  /\ Replace(<<CallAt("append", t, c)>>)

Merge ==
  /\ Running("merge")
  /\ \/ MergeRefuse(Top.blk)
     \/ MergeAppend(Top.blk)
     \/ MergeSameLength(Top.blk)
     \/ MergeReorganise(Top.blk)
  /\ UNCHANGED <<forkVars, poolVars, tipStale, requested, future, checkpoint,
                 checkKeys, clock, ret>>

\* the append loops: addBlock the next block, stop at the first that is not Added
MergeNext ==
  LET t == Top.blk
      i == Top.pos + 1 IN
  /\ Running("append")
  /\ Replace(IF i > Len(side[t]) THEN << >>
             ELSE <<Call("add", side[t][i]), CallAt("check", t, i)>>)
  /\ UNCHANGED <<chain, forkVars, poolVars, tipStale, requested, future,
                 checkpoint, checkKeys, clock, ret>>

MergeCheck ==
  /\ Running("check")
  /\ Replace(IF ret = "Added" THEN <<CallAt("append", Top.blk, Top.pos)>>
             ELSE << >>)
  /\ UNCHANGED <<chain, forkVars, poolVars, tipStale, requested, future,
                 checkpoint, checkKeys, clock, ret>>

\* addBlock's last statement
Finish ==
  /\ \/ Running("added") /\ Return("Added")
     \/ Running("sideChain") /\ Return("SideChain")
  /\ UNCHANGED <<chain, forkVars, poolVars, tipStale, requested, future,
                 checkpoint, checkKeys, clock>>

\* reattachOrphans: attach what waits for the listed main-chain blocks, in the
\* map's order, and evaluate if that grew the main chain.  pos is the chain's
\* size before the previous parent; the frame is "reattached" once it grew.
ReattachNext ==
  LET left == Pooled(Top.kids)
      grew == Running("reattached") \/ Len(chain) > Top.pos
      op == IF grew THEN "reattached" ELSE "reattach" IN
  /\ Running("reattach") \/ Running("reattached")
  /\ \/ /\ left = {}
        /\ Replace(IF grew THEN <<Call("eval", Genesis)>> ELSE << >>)
     \/ \E p \in left :
          Replace(<<Call("attach", p),
                    CallAll(op, [Top.kids EXCEPT ![p] = 0], Len(chain))>>)
  /\ UNCHANGED <<chain, forkVars, poolVars, tipStale, requested, future,
                 checkpoint, checkKeys, clock, ret>>

Step ==
  \/ AddBlock \/ Route \/ Attach \/ AttachChild \/ ApplyFuture
  \/ Evaluate \/ Cleanup \/ Merge \/ MergeNext \/ MergeCheck
  \/ Finish \/ ReattachNext

-----------------------------------------------------------------------------
(* The callers, which take blockchainMutex, and the crash. *)

Idle == stack = << >>

\* addBlock from the network handlers, the miner or the recovery code
Deliver(b) ==
  /\ Idle
  /\ stack' = <<Call("add", b)>>
  /\ UNCHANGED <<chain, forkVars, poolVars, tipStale, requested, future,
                 checkpoint, checkKeys, clock, ret>>

\* setPendingForkChain({b}), which handleNewBlock calls for a block on the tip
\* whose index is too low
SubmitFork(b) ==
  /\ Idle
  /\ Parent[b] = Tip /\ Index[b] <= Index[Tip]
  /\ side' = Registered(b)
  /\ stack' = <<Call("attach", b), Call("eval", b)>>
  /\ UNCHANGED <<chain, evaluating, poolVars, tipStale, requested, future,
                 checkpoint, checkKeys, clock, ret>>

\* reattachOrphans from autoSyncIfBehind
Reattach ==
  LET ready == {p \in Elems(chain) : Children(p, orphans) # {}} IN
  /\ Idle
  /\ ready # {}
  /\ stack' = <<CallAll("reattach", [p \in Blocks |-> IF p \in ready THEN 1 ELSE 0],
                        Len(chain))>>
  /\ UNCHANGED <<chain, forkVars, poolVars, tipStale, requested, future,
                 checkpoint, checkKeys, clock, ret>>

Tick ==
  /\ Idle
  /\ clock < MaxClock
  /\ clock' = clock + 1
  /\ UNCHANGED <<chain, forkVars, poolVars, tipStale, requested, future,
                 checkpoint, checkKeys, stack, ret>>

\* Mutant: the checkpoint is taken from the height of the stored chain.
LoadCheckpoint_FromTip == checkpoint' = Index[Last(chain')]

\* loadCheckpointFromDB takes the last key, which need not be the highest one.
LoadCheckpoint == \E n \in checkKeys : IsLastKey(n, checkKeys) /\ checkpoint' = n

\* The process is killed after addBlock saved the chain with a block (892) and
\* before it saved the block as a checkpoint (899).
KilledUnmarked(b) ==
  /\ Running("add")
  /\ b = Top.blk
  /\ OnTip(b)
  /\ Index[b] = Index[Tip] + 1
  /\ b \notin BadBody
  /\ CheckpointDue(b)
  /\ chain' = Append(chain, b)

\* Every step that changes the main chain also writes it (saveToDB), so a new
\* process finds the chain of the last step; the checkpoint is loaded from its
\* keys, and everything else is volatile.
Restart ==
  /\ UNCHANGED chain \/ \E b \in Blocks : KilledUnmarked(b)
  /\ LoadCheckpoint
  /\ side' = [b \in Blocks |-> << >>]
  /\ orphans' = NoKids
  /\ orphanHashes' = {}
  /\ orphanAt' = [b \in Blocks |-> Never]
  /\ tipStale' = [b \in Blocks |-> Never]
  /\ requested' = {}
  /\ future' = {}
  /\ evaluating' = FALSE
  /\ stack' = << >>
  /\ UNCHANGED <<checkKeys, clock, ret>>

\* An empty database gets the genesis block, checkpointed at height 0.
Init ==
  /\ chain = <<Genesis>>
  /\ side = [b \in Blocks |-> << >>]
  /\ orphans = NoKids
  /\ orphanHashes = {}
  /\ orphanAt = [b \in Blocks |-> Never]
  /\ tipStale = [b \in Blocks |-> Never]
  /\ requested = {}
  /\ future = {}
  /\ evaluating = FALSE
  /\ checkpoint = 0
  /\ checkKeys = {0}
  /\ clock = 0
  /\ stack = << >>
  /\ ret = "Added"

Input ==
  \/ \E b \in Blocks \ {Genesis} : Deliver(b) \/ SubmitFork(b)
  \/ Reattach
  \/ Tick

Next == Step \/ Input \/ Restart

Spec == Init /\ [][Next]_vars

\* A thread inside addBlock keeps running; blocks and crashes need not come.
FairSpec == Spec /\ WF_vars(Step)

-----------------------------------------------------------------------------

TypeOK ==
  /\ chain \in Seq(Blocks)
  /\ side \in [Blocks -> Seq(Blocks)]
  /\ orphans \in [Blocks -> Nat]
  /\ orphanHashes \subseteq Blocks
  /\ orphanAt \in [Blocks -> Nat \union {Never}]
  /\ tipStale \in [Blocks -> Nat \union {Never}]
  /\ requested \subseteq Blocks
  /\ future \subseteq Blocks /\ \A f, h \in future : Index[f] = Index[h] => f = h
  /\ evaluating \in BOOLEAN
  /\ checkpoint \in Nat
  /\ checkKeys \subseteq Nat
  /\ clock \in 0..MaxClock
  /\ stack \in Seq(Frames)
  /\ ret \in Results

-----------------------------------------------------------------------------
(* Safety. *)

\* The main chain is linked by previousHash from genesis to the tip, through
\* every extension, orphan cascade, replacement, rollback and aborted merge
\* (what validateChainContinuity logs about after each addBlock).
ChainLinked == Linked(chain)

\* Every candidate of pendingForkChains is a linked chain from genesis that
\* ends in the block it is keyed by, although it was assembled from a copy of
\* the main chain that has since been reorganised.
CandidatesRooted == \A t \in Tips : Linked(side[t]) /\ Last(side[t]) = t

\* Between calls every hash of orphanHashes belongs to a block that waits, and
\* orphanReceivedAt has a time for exactly these: addBlock stores no block whose
\* hash it finds there, so a hash without its block would shut the block out.
HashesWait ==
  Idle => /\ orphanHashes \subseteq Pooled(orphans)
          /\ orphanHashes = {b \in Blocks : orphanAt[b] # Never}

\* compareAndMergeChains keeps reading the candidate it was given by reference
\* into pendingForkChains while the blocks it adds change that map; the entry
\* must outlive the merge.
CandidateAlive ==
  \A i \in 1..Len(stack) :
    stack[i].op \in {"merge", "append", "check"} => side[stack[i].blk] # << >>

\* While a merge appends its candidate, the main chain starts with the part
\* appended so far, whatever orphans and side chains each block brought in.
MergeProgress ==
  \A i \in 1..Len(stack) :
    stack[i].op = "append" =>
      LET other == side[stack[i].blk]
          done == stack[i].pos
      IN /\ done <= Len(chain) /\ done <= Len(other)
         /\ \A k \in 1..done : chain[k] = other[k]

\* No step touches the main chain at or below the height checkpointHeight - 2,
\* neither a reorganisation, also when it is aborted halfway, nor a restart; the
\* checkpoint meant is the one in force, which a restart may have set back.
CheckpointKept ==
  [][checkpoint > 0 =>
       \A i \in 1..(checkpoint - 1) :
         i <= Len(chain) => i <= Len(chain') /\ chain'[i] = chain[i]]_vars

(* Refinement. *)

Main == INSTANCE MainChain WITH chain <- chain, checkpoint <- checkpoint,
                               marked <- checkKeys

\* Whatever cascade of orphans, side chains and merges a block sets off, the
\* rest of the node sees the main chain change only by a valid child of the tip,
\* by a heavier chain of the same length, or by a cut, within both limits, and a
\* restart takes up a checkpoint that was once set.
ImplementsMainChain == Main!Spec

(* Liveness. *)

\* Every addBlock returns: the recursion between extension, orphans, side
\* chains and merges ends, and the mutex is released.
CallsReturn == []<>Idle

=============================================================================
