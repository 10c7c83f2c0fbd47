-------------------------- MODULE ForkChoiceProof --------------------------
(***************************************************************************)
(* Proofs about ForkChoice for every block tree and every limit: the type  *)
(* invariant, the linkage of the main chain and of every side-chain        *)
(* candidate, the refinement of MainChain with the checkpoint it gives,    *)
(* and that a merge keeps the candidate it reads by reference and keeps    *)
(* pace with it.                                                           *)
(***************************************************************************)
EXTENDS ForkChoice, SumTheorems, FiniteSetTheorems, SequenceTheorems, TLAPS

-----------------------------------------------------------------------------
(* Linked sequences of blocks. *)

\* Appending a child of the last block keeps a chain linked.
LEMMA LinkedAppend ==
  ASSUME NEW s \in Seq(Blocks), Linked(s), NEW b \in Blocks, Parent[b] = Last(s)
  PROVE  /\ Append(s, b) \in Seq(Blocks)
         /\ Linked(Append(s, b))
         /\ Last(Append(s, b)) = b
  BY DEF Linked, Last

\* A non-empty prefix of a linked chain is linked.
LEMMA LinkedPrefix ==
  ASSUME NEW s \in Seq(Blocks), Linked(s), NEW n \in 1..Len(s)
  PROVE  /\ Prefix(s, n) \in Seq(Blocks)
         /\ Linked(Prefix(s, n))
         /\ Last(Prefix(s, n)) = s[n]
  BY DEF Linked, Last, Prefix

\* The last block of a linked chain is a block.
LEMMA LastIsBlock ==
  ASSUME NEW s \in Seq(Blocks), s # << >>
  PROVE  Last(s) \in Blocks
  BY DEF Last

\* A block of a chain has a position there.
LEMMA PositionInChain ==
  ASSUME NEW s \in Seq(Blocks), NEW b, InChain(b, s)
  PROVE  Position(b, s) \in 1..Len(s) /\ s[Position(b, s)] = b
  BY DEF InChain, Elems, Position

\* Two chains with the same first block have a common prefix, within both.
LEMMA CommonLengthBounds ==
  ASSUME NEW s \in Seq(Blocks), NEW t \in Seq(Blocks),
         s # << >>, t # << >>, s[1] = t[1]
  PROVE  CommonLength(s, t) \in 1..Len(s)
<1> DEFINE A == Agreements(s, t)
<1>0. Len(s) \in Nat /\ Len(s) >= 1
  OBVIOUS
<1>1. IsFiniteSet(1..Len(s)) /\ Cardinality(1..Len(s)) = Len(s)
  BY <1>0, FS_Interval
<1>2. A \subseteq 1..Len(s)
  BY DEF Agreements
<1>3. IsFiniteSet(A) /\ Cardinality(A) <= Len(s)
  BY <1>1, <1>2, FS_Subset
<1>4. 1 \in A
  BY <1>0 DEF Agreements
<1>5. Cardinality(A) \in Nat /\ Cardinality(A) # 0
  BY <1>3, <1>4, FS_CardinalityType, FS_EmptySet
<1> QED
  BY <1>0, <1>3, <1>5 DEF CommonLength

-----------------------------------------------------------------------------
(* Types of the operators the actions are built from. *)

\* Calls are frames.
LEMMA CallTyped ==
  ASSUME NEW op \in Ops, NEW b \in Blocks
  PROVE  Call(op, b) \in Frames
  BY DEF Frames, Call, NoKids

\* A call with a position is a frame.
LEMMA CallAtTyped ==
  ASSUME NEW op \in Ops, NEW b \in Blocks, NEW n \in Nat
  PROVE  CallAt(op, b, n) \in Frames
  BY DEF Frames, CallAt, NoKids

\* A call with a vector of blocks is a frame.
LEMMA CallAllTyped ==
  ASSUME NEW op \in Ops, NEW k \in [Blocks -> Nat], NEW n \in Nat
  PROVE  CallAll(op, k, n) \in Frames
  BY BlocksAssumption DEF Frames, CallAll

\* The running call is a frame, and what replaces it leaves a stack.
LEMMA StackTyped ==
  ASSUME stack \in Seq(Frames), stack # << >>
  PROVE  /\ Top \in Frames
         /\ Tail(stack) \in Seq(Frames)
         /\ \A calls \in Seq(Frames) : calls \o Tail(stack) \in Seq(Frames)
  BY DEF Top

\* Counting blocks gives a number.
LEMMA CountTyped ==
  ASSUME NEW S \in SUBSET Blocks
  PROVE  Cardinality(S) \in Nat
  BY BlocksAssumption, FS_Subset, FS_CardinalityType

\* Removing blocks from the pool, and appending one, keep it a pool.
LEMMA PoolTyped ==
  ASSUME NEW pool \in [Blocks -> Nat], NEW keep \in SUBSET Blocks, NEW b \in Blocks
  PROVE  /\ Ranked(keep, pool) \in [Blocks -> Nat]
         /\ Pushed(b, pool) \in [Blocks -> Nat]
<1>1. \A x \in Blocks :
        Cardinality({y \in keep : Parent[y] = Parent[x] /\ pool[y] <= pool[x]}) \in Nat
  BY CountTyped
<1>2. Cardinality(Children(Parent[b], pool)) \in Nat
  BY CountTyped DEF Children, Pooled
<1> QED
  BY <1>1, <1>2 DEF Ranked, Pushed

\* The sweep at the entry of addBlock keeps the types of the pool.
LEMMA SweepTyped ==
  ASSUME TypeOK, NEW b \in Blocks
  PROVE  /\ PoolAfterSweep(b) \in [Blocks -> Nat]
         /\ HashesAfterSweep(b) \subseteq Blocks
         /\ AtAfterSweep(b) \in [Blocks -> Nat \union {Never}]
         /\ RequestedAfterSweep(b) \subseteq Blocks
         /\ FreshTipStale \in [Blocks -> Nat \union {Never}]
<1>1. Pooled(orphans) \ Swept(b) \in SUBSET Blocks
  BY DEF Pooled
<1>2. PoolAfterSweep(b) \in [Blocks -> Nat]
  BY <1>1, PoolTyped DEF PoolAfterSweep, TypeOK
<1> QED
  BY <1>2 DEF TypeOK, HashesAfterSweep, AtAfterSweep, RequestedAfterSweep,
              FreshTipStale

\* A stored block keeps them too.
LEMMA StoreTyped ==
  ASSUME TypeOK, NEW b \in Blocks, SweepOnly(b) \/ SweepAndStore(b)
  PROVE  /\ orphans' \in [Blocks -> Nat]
         /\ orphanHashes' \subseteq Blocks
         /\ orphanAt' \in [Blocks -> Nat \union {Never}]
<1>1. Pushed(b, PoolAfterSweep(b)) \in [Blocks -> Nat]
  BY SweepTyped, PoolTyped
<1>2. clock \in Nat
  BY LimitsAssumption DEF TypeOK
<1> QED
  BY <1>1, <1>2, SweepTyped DEF SweepOnly, SweepAndStore

-----------------------------------------------------------------------------
(* The registry. *)

\* A registry whose candidates are linked and keyed by their last block.
Rooted(reg) ==
  /\ reg \in [Blocks -> Seq(Blocks)]
  /\ \A t \in Blocks : reg[t] # << >> => Linked(reg[t]) /\ Last(reg[t]) = t

\* The inductive invariant: addBlock extends what is linked, and a candidate
\* may become the main chain or be cut out of it at any time.
IInv == TypeOK /\ ChainLinked /\ Rooted(side)

\* Registration: the candidate is a linked chain that ends in the block.
LEMMA RegisteredRooted ==
  ASSUME IInv, NEW b \in Blocks, ParentInSide(b) \/ ParentInMain(b)
  PROVE  Rooted(Registered(b))
<1> USE BlocksAssumption
<1> DEFINE p == Parent[b]
<1>0. p \in Blocks /\ chain \in Seq(Blocks) /\ side \in [Blocks -> Seq(Blocks)]
  BY DEF IInv, TypeOK, Rooted
<1>1. CASE ParentInSide(b)
  <2>1. side[p] \in Seq(Blocks) /\ Linked(side[p]) /\ Last(side[p]) = p
    BY <1>0, <1>1 DEF IInv, Rooted, ParentInSide
  <2>2. /\ Append(side[p], b) \in Seq(Blocks)
        /\ Linked(Append(side[p], b))
        /\ Last(Append(side[p], b)) = b
    BY <2>1, LinkedAppend
  <2> QED
    BY <1>0, <1>1, <2>2 DEF IInv, Rooted, Registered
<1>2. CASE ~ ParentInSide(b)
  <2> DEFINE n == Position(p, chain)
  <2>1. n \in 1..Len(chain) /\ chain[n] = p
    BY <1>0, <1>2, PositionInChain DEF ParentInMain
  <2>2. /\ Prefix(chain, n) \in Seq(Blocks)
        /\ Linked(Prefix(chain, n))
        /\ Last(Prefix(chain, n)) = p
    BY <1>0, <2>1, LinkedPrefix DEF IInv, ChainLinked
  <2>3. /\ Append(Prefix(chain, n), b) \in Seq(Blocks)
        /\ Linked(Append(Prefix(chain, n), b))
        /\ Last(Append(Prefix(chain, n), b)) = b
    BY <2>2, LinkedAppend
  <2> QED
    BY <1>0, <1>2, <2>3 DEF IInv, Rooted, Registered
<1> QED
  BY <1>1, <1>2

\* Cleaning only removes candidates.
LEMMA CleanedRooted ==
  ASSUME IInv
  PROVE  Rooted(Cleaned)
  BY DEF IInv, TypeOK, Rooted, Cleaned

\* Registration followed by the calls it makes.
LEMMA RegisterThenTyped ==
  ASSUME IInv, stack # << >>, NEW b \in Blocks, NEW rest \in Seq(Frames),
         RegisterThen(b, rest)
  PROVE  Rooted(side') /\ stack' \in Seq(Frames)
<1>1. stack \in Seq(Frames)
  BY DEF IInv, TypeOK
<1>2. Call("attach", b) \in Frames
  <2>1. "attach" \in Ops
    BY DEF Ops
  <2> QED
    BY <2>1, CallTyped
<1>3. CASE Registrable(b)
  <2>1. Rooted(side')
    BY <1>3, RegisteredRooted DEF RegisterThen, Registrable
  <2>2. <<Call("attach", b)>> \o rest \in Seq(Frames)
    BY <1>2
  <2> QED
    BY <1>1, <1>3, <2>1, <2>2, StackTyped DEF RegisterThen, Replace
<1>4. CASE ~ Registrable(b)
  BY <1>1, <1>4, StackTyped DEF RegisterThen, Replace, IInv
<1> QED
  BY <1>3, <1>4

-----------------------------------------------------------------------------
(* addBlock. *)

\* What a call that makes calls, or returns, leaves on the stack.
LEMMA ReplaceTyped ==
  ASSUME IInv, stack # << >>, NEW calls \in Seq(Frames), Replace(calls)
  PROVE  stack' \in Seq(Frames)
  BY StackTyped DEF IInv, TypeOK, Replace

\* The running call returns.
LEMMA PopTyped ==
  ASSUME IInv, stack # << >>, Replace(<< >>)
  PROVE  stack' \in Seq(Frames)
<1>1. << >> \in Seq(Frames)
  OBVIOUS
<1> QED
  BY <1>1, ReplaceTyped

\* addBlock returns a result.
LEMMA ReturnTyped ==
  ASSUME IInv, stack # << >>, NEW r \in Results, Return(r)
  PROVE  stack' \in Seq(Frames) /\ ret' \in Results
  BY StackTyped DEF IInv, TypeOK, Return

\* The outcomes of addBlock that leave the main chain and the registry alone.
LEMMA RefusalsKeepIInv ==
  ASSUME IInv, stack # << >>, NEW b \in Blocks,
         \/ AddRefuse(b) \/ AddTipStale(b) \/ AddBadTime(b)
         \/ AddOrphan(b) \/ AddRejectOnTip(b)
  PROVE  IInv'
<1> USE BlocksAssumption, LimitsAssumption
<1>0. clock \in Nat
  BY DEF IInv, TypeOK
<1>1. CASE AddRefuse(b)
  <2>1. stack' \in Seq(Frames) /\ ret' \in Results
    BY <1>1, ReturnTyped DEF AddRefuse, Results
  <2> QED
    BY <1>1, <2>1 DEF IInv, TypeOK, ChainLinked, AddRefuse, poolVars
<1>2. CASE AddTipStale(b)
  <2>1. stack' \in Seq(Frames) /\ ret' \in Results
    BY <1>2, ReturnTyped DEF AddTipStale, Results
  <2>2. tipStale' \in [Blocks -> Nat \union {Never}]
    <3>1. FreshTipStale \in [Blocks -> Nat \union {Never}]
      BY SweepTyped DEF IInv
    <3>2. \/ \E h \in Blocks :
               tipStale' = [FreshTipStale EXCEPT ![h] = Never, ![b] = clock]
          \/ tipStale' = [FreshTipStale EXCEPT ![b] = clock]
      BY <1>2 DEF AddTipStale
    <3>3. CASE tipStale' = [FreshTipStale EXCEPT ![b] = clock]
      BY <1>0, <3>1, <3>3
    <3>4. ASSUME NEW h \in Blocks,
                 tipStale' = [FreshTipStale EXCEPT ![h] = Never, ![b] = clock]
          PROVE  tipStale' \in [Blocks -> Nat \union {Never}]
      <4> DEFINE evicted == [FreshTipStale EXCEPT ![h] = Never]
      <4>1. evicted \in [Blocks -> Nat \union {Never}]
        BY <3>1
      <4>2. tipStale' = [evicted EXCEPT ![b] = clock]
        BY <3>4
      <4> HIDE DEF evicted
      <4> QED
        BY <1>0, <4>1, <4>2
    <3> QED
      BY <3>2, <3>3, <3>4
  <2> QED
    BY <1>2, <2>1, <2>2, SweepTyped, StoreTyped
       DEF IInv, TypeOK, ChainLinked, AddTipStale, forkVars
<1>3. CASE AddBadTime(b)
  <2>1. stack' \in Seq(Frames) /\ ret' \in Results
    BY <1>3, ReturnTyped DEF AddBadTime, Results
  <2> QED
    BY <1>3, <2>1, SweepTyped, StoreTyped
       DEF IInv, TypeOK, ChainLinked, AddBadTime, forkVars
<1>4. CASE AddOrphan(b)
  <2>1. stack' \in Seq(Frames) /\ ret' \in Results
    BY <1>4, ReturnTyped DEF AddOrphan, Results
  <2>2. tipStale' \in [Blocks -> Nat \union {Never}] /\ requested' \subseteq Blocks
    <3>1. /\ FreshTipStale \in [Blocks -> Nat \union {Never}]
          /\ RequestedAfterSweep(b) \subseteq Blocks
          /\ Parent[b] \in Blocks
      BY SweepTyped DEF IInv
    <3>2. tipStale' = [FreshTipStale EXCEPT ![Parent[b]] = Never]
      BY <1>4 DEF AddOrphan
    <3>3. requested' \subseteq RequestedAfterSweep(b) \union {Parent[b]}
      BY <1>4 DEF AddOrphan
    <3> QED
      BY <3>1, <3>2, <3>3
  <2>3. SweepOnly(b) \/ SweepAndStore(b)
    BY <1>4 DEF AddOrphan
  <2> QED
    BY <1>4, <2>1, <2>2, <2>3, StoreTyped
       DEF IInv, TypeOK, ChainLinked, AddOrphan, forkVars
<1>5. CASE AddRejectOnTip(b)
  <2>1. stack' \in Seq(Frames) /\ ret' \in Results
    BY <1>5, ReturnTyped DEF AddRejectOnTip, Results
  <2>2. future' \subseteq Blocks /\ \A f, h \in future' : Index[f] = Index[h] => f = h
    BY <1>5 DEF AddRejectOnTip, IInv, TypeOK
  <2> QED
    BY <1>5, <2>1, <2>2, SweepTyped, StoreTyped
       DEF IInv, TypeOK, ChainLinked, AddRejectOnTip, forkVars
<1> QED
  BY <1>1, <1>2, <1>3, <1>4, <1>5

\* A block joins a side chain, with or without its cached parent.
LEMMA SideKeepsIInv ==
  ASSUME IInv, stack # << >>, NEW b \in Blocks, AddSide(b) \/ AddPromote(b)
  PROVE  IInv'
<1> USE BlocksAssumption, LimitsAssumption
<1>0. clock \in Nat
  BY DEF IInv, TypeOK
<1>1. CASE AddSide(b)
  <2>1. /\ <<Call("eval", b), Call("sideChain", b)>> \in Seq(Frames)
        /\ "Dropped" \in Results
    BY CallTyped DEF Ops, Results
  <2>2. Rooted(side') /\ stack' \in Seq(Frames) /\ ret' \in Results
    <3>1. CASE PoolSize(PoolAfterSweep(b)) >= MaxOrphans
      BY <1>1, <2>1, <3>1, ReturnTyped DEF AddSide, IInv
    <3>2. CASE ~ (PoolSize(PoolAfterSweep(b)) >= MaxOrphans)
      <4>1. Rooted(side') /\ stack' \in Seq(Frames)
        BY <1>1, <2>1, <3>2, RegisterThenTyped DEF AddSide
      <4> QED
        BY <1>1, <3>2, <4>1 DEF AddSide, IInv, TypeOK
    <3> QED
      BY <3>1, <3>2
  <2>3. SweepOnly(b) \/ SweepAndStore(b)
    BY <1>1 DEF AddSide
  <2> QED
    BY <1>1, <2>2, <2>3, SweepTyped, StoreTyped
       DEF IInv, TypeOK, ChainLinked, Rooted, AddSide
<1>2. CASE AddPromote(b)
  <2> DEFINE p == Parent[b]
  <2>0. p \in Blocks
    OBVIOUS
  <2>1. <<Call("route", b)>> \in Seq(Frames)
    BY CallTyped DEF Ops
  <2>2. Rooted(side') /\ stack' \in Seq(Frames)
    BY <1>2, <2>0, <2>1, RegisterThenTyped DEF AddPromote
  <2>3. /\ orphans' \in [Blocks -> Nat]
        /\ orphanHashes' \subseteq Blocks
        /\ orphanAt' \in [Blocks -> Nat \union {Never}]
    <3>1. CASE p \in HashesAfterSweep(b)
      BY <1>2, <3>1, StoreTyped DEF AddPromote, IInv
    <3>2. CASE p \notin HashesAfterSweep(b)
      <4>1. Pushed(p, PoolAfterSweep(b)) \in [Blocks -> Nat]
        BY <2>0, SweepTyped, PoolTyped DEF IInv
      <4>2. /\ orphans' = Pushed(p, PoolAfterSweep(b))
            /\ orphanHashes' = HashesAfterSweep(b) \union {p}
            /\ orphanAt' = [AtAfterSweep(b) EXCEPT ![p] = clock]
        BY <1>2, <3>2 DEF AddPromote
      <4>3. /\ HashesAfterSweep(b) \subseteq Blocks
            /\ AtAfterSweep(b) \in [Blocks -> Nat \union {Never}]
        BY SweepTyped DEF IInv
      <4> QED
        BY <1>0, <2>0, <4>1, <4>2, <4>3
    <3> QED
      BY <3>1, <3>2
  <2>4. tipStale' \in [Blocks -> Nat \union {Never}] /\ requested' \subseteq Blocks
    BY <1>2, SweepTyped DEF AddPromote, IInv
  <2> QED
    BY <1>2, <2>2, <2>3, <2>4 DEF IInv, TypeOK, ChainLinked, Rooted, AddPromote
<1> QED
  BY <1>1, <1>2

\* The block extends the main chain.
LEMMA ExtendKeepsIInv ==
  ASSUME IInv, stack # << >>, NEW b \in Blocks, AddExtend(b)
  PROVE  IInv'
<1> USE BlocksAssumption, LimitsAssumption
<1>1. chain' \in Seq(Blocks) /\ Linked(chain')
  BY LinkedAppend DEF AddExtend, OnTip, Tip, IInv, TypeOK, ChainLinked
<1>2. checkpoint' \in Nat /\ checkKeys' \subseteq Nat
  <2>1. Index[b] \in Nat /\ SaveCheckpoint(b)
    BY DEF AddExtend
  <2> QED
    BY <2>1 DEF SaveCheckpoint, IInv, TypeOK
<1>3. /\ CallAt("future", b, Index[b] + 1) \in Frames
      /\ Call("attach", b) \in Frames
      /\ Call("eval", b) \in Frames
      /\ Call("added", b) \in Frames
  BY CallTyped, CallAtTyped DEF Ops
<1>4. stack' \in Seq(Frames)
  <2>1. <<CallAt("future", b, Index[b] + 1), Call("attach", b),
          Call("eval", b), Call("added", b)>> \in Seq(Frames)
    BY <1>3
  <2> QED
    BY <2>1, ReplaceTyped DEF AddExtend
<1> QED
  BY <1>1, <1>2, <1>4, SweepTyped, StoreTyped
     DEF IInv, TypeOK, ChainLinked, AddExtend, forkVars

\* addBlock up to the first call it makes.
LEMMA AddBlockKeepsIInv ==
  ASSUME IInv, AddBlock
  PROVE  IInv'
<1>1. stack # << >> /\ Top.blk \in Blocks
  BY StackTyped DEF AddBlock, Running, IInv, TypeOK, Frames
<1> QED
  BY <1>1, RefusalsKeepIInv, SideKeepsIInv, ExtendKeepsIInv DEF AddBlock

-----------------------------------------------------------------------------
(* The calls addBlock makes. *)

\* The running call names a block, a position and a vector of blocks.
LEMMA TopTyped ==
  ASSUME IInv, stack # << >>
  PROVE  /\ Top.blk \in Blocks
         /\ Top.pos \in Nat
         /\ Top.kids \in [Blocks -> Nat]
  BY StackTyped DEF IInv, TypeOK, Frames

\* Removing one block of a vector.
LEMMA KidRemoved ==
  ASSUME NEW k \in [Blocks -> Nat], NEW c \in Blocks
  PROVE  [k EXCEPT ![c] = 0] \in [Blocks -> Nat]
  OBVIOUS

\* addBlock after the cached parent was promoted.
LEMMA RouteKeepsIInv ==
  ASSUME IInv, Route
  PROVE  IInv'
<1> USE BlocksAssumption, LimitsAssumption
<1> DEFINE b == Top.blk
<1>1. stack # << >> /\ b \in Blocks
  BY TopTyped DEF Route, Running
<1>2. clock \in Nat
  BY DEF IInv, TypeOK
<1>3. Pushed(b, orphans) \in [Blocks -> Nat]
  BY <1>1, PoolTyped DEF IInv, TypeOK
<1>4. /\ orphans' \in [Blocks -> Nat]
      /\ orphanHashes' \subseteq Blocks
      /\ orphanAt' \in [Blocks -> Nat \union {Never}]
  BY <1>1, <1>2, <1>3 DEF Route, IInv, TypeOK
<1>5. <<Call("eval", b), Call("sideChain", b)>> \in Seq(Frames)
  BY <1>1, CallTyped DEF Ops
<1>6. /\ Rooted(side') /\ stack' \in Seq(Frames)
      /\ ret' \in Results /\ requested' \subseteq Blocks
  <2>1. CASE /\ RegisterThen(b, <<Call("eval", b), Call("sideChain", b)>>)
             /\ UNCHANGED <<requested, ret>>
    BY <1>1, <1>5, <2>1, RegisterThenTyped DEF IInv, TypeOK
  <2>2. CASE /\ requested' = requested \union {Parent[b]}
             /\ Return("QueuedOrphan") /\ UNCHANGED side
    BY <1>1, <2>2, ReturnTyped DEF IInv, TypeOK, Results
  <2>3. CASE Return("Dropped") /\ UNCHANGED <<side, requested>>
    BY <1>1, <2>3, ReturnTyped DEF IInv, TypeOK, Results
  <2> QED
    BY <2>1, <2>2, <2>3 DEF Route
<1> QED
  BY <1>4, <1>6 DEF Route, IInv, TypeOK, ChainLinked, Rooted

\* tryAttachOrphans and its loop.
LEMMA AttachKeepsIInv ==
  ASSUME IInv, Attach \/ AttachChild
  PROVE  IInv'
<1>1. stack # << >>
  BY DEF Attach, AttachChild, Running
<1>2. CASE Attach
  <2>1. Children(Top.blk, orphans) \in SUBSET Blocks
    BY DEF Children, Pooled
  <2>2. Ranked(Children(Top.blk, orphans), orphans) \in [Blocks -> Nat]
    BY <1>1, <2>1, TopTyped, PoolTyped DEF IInv, TypeOK
  <2>3. <<CallAll("kids", Ranked(Children(Top.blk, orphans), orphans), 0)>>
          \in Seq(Frames)
    BY <2>2, CallAllTyped DEF Ops
  <2>4. stack' \in Seq(Frames)
    <3>1. CASE Children(Top.blk, orphans) = {}
      BY <1>1, <1>2, <3>1, PopTyped DEF Attach
    <3>2. CASE Children(Top.blk, orphans) # {}
      BY <1>1, <1>2, <2>3, <3>2, ReplaceTyped DEF Attach
    <3> QED
      BY <3>1, <3>2
  <2> QED
    BY <1>2, <2>4 DEF Attach, IInv, TypeOK, ChainLinked, Rooted, forkVars
<1>3. CASE AttachChild
  <2>1. \A c \in Blocks :
          <<Call("add", c), CallAll("kids", [Top.kids EXCEPT ![c] = 0], 0)>>
            \in Seq(Frames)
    <3>1. SUFFICES ASSUME NEW c \in Blocks
                   PROVE  /\ Call("add", c) \in Frames
                          /\ CallAll("kids", [Top.kids EXCEPT ![c] = 0], 0) \in Frames
      OBVIOUS
    <3>2. [Top.kids EXCEPT ![c] = 0] \in [Blocks -> Nat]
      BY <1>1, TopTyped, KidRemoved
    <3>3. "add" \in Ops /\ "kids" \in Ops
      BY DEF Ops
    <3> QED
      BY <3>2, <3>3, CallTyped, CallAllTyped
  <2>2. Pooled(Top.kids) \subseteq Blocks
    BY DEF Pooled
  <2>3. stack' \in Seq(Frames)
    <3>1. CASE Replace(<< >>)
      BY <1>1, <3>1, PopTyped
    <3>2. CASE \E c \in Blocks :
                 Replace(<<Call("add", c), CallAll("kids", [Top.kids EXCEPT ![c] = 0], 0)>>)
      BY <1>1, <2>1, <3>2, ReplaceTyped
    <3> QED
      BY <1>3, <2>2, <3>1, <3>2 DEF AttachChild
  <2>4. orphanHashes' \subseteq Blocks /\ orphanAt' \in [Blocks -> Nat \union {Never}]
    BY <1>3 DEF AttachChild, IInv, TypeOK
  <2> QED
    BY <1>3, <2>3, <2>4 DEF AttachChild, IInv, TypeOK, ChainLinked, Rooted, forkVars
<1> QED
  BY <1>2, <1>3

\* The futureBlocks loop.
LEMMA FutureKeepsIInv ==
  ASSUME IInv, ApplyFuture
  PROVE  IInv'
<1>1. stack # << >>
  BY DEF ApplyFuture, Running
<1>2. \A f \in Blocks :
        <<Call("add", f), CallAt("future", Top.blk, Top.pos + 1)>> \in Seq(Frames)
  BY <1>1, TopTyped, CallTyped, CallAtTyped DEF Ops
<1>3. stack' \in Seq(Frames)
  <2>1. CASE Replace(<< >>)
    BY <1>1, <2>1, PopTyped
  <2>2. CASE \E f \in Blocks :
               Replace(<<Call("add", f), CallAt("future", Top.blk, Top.pos + 1)>>)
    BY <1>1, <1>2, <2>2, ReplaceTyped
  <2> QED
    BY <2>1, <2>2 DEF ApplyFuture, IInv, TypeOK
<1>4. future' \subseteq future
  BY DEF ApplyFuture
<1> QED
  BY <1>3, <1>4 DEF ApplyFuture, IInv, TypeOK, ChainLinked, Rooted, forkVars, poolVars

\* evaluatePendingForksLocked.
LEMMA EvaluateKeepsIInv ==
  ASSUME IInv, Evaluate \/ Cleanup
  PROVE  IInv'
<1>1. stack # << >>
  BY DEF Evaluate, Cleanup, Running
<1>2. CASE Evaluate
  <2>1. \A t \in Blocks : <<Call("merge", t), Call("cleanup", t)>> \in Seq(Frames)
    BY CallTyped DEF Ops
  <2>2. Heaviest(Cleaned) \subseteq Blocks
    BY DEF Heaviest
  <2>3. stack' \in Seq(Frames)
    <3>1. CASE Replace(<< >>)
      BY <1>1, <3>1, PopTyped
    <3>2. CASE \E t \in Blocks : Replace(<<Call("merge", t), Call("cleanup", t)>>)
      BY <1>1, <2>1, <3>2, ReplaceTyped
    <3> QED
      BY <1>2, <2>2, <3>1, <3>2 DEF Evaluate
  <2>4. Rooted(side') /\ evaluating' \in BOOLEAN
    BY <1>2, CleanedRooted DEF Evaluate, IInv, TypeOK, forkVars
  <2> QED
    BY <1>2, <2>3, <2>4 DEF Evaluate, IInv, TypeOK, ChainLinked, Rooted, poolVars
<1>3. CASE Cleanup
  <2>1. stack' \in Seq(Frames)
    BY <1>1, <1>3, PopTyped DEF Cleanup
  <2> QED
    BY <1>3, <2>1, CleanedRooted
       DEF Cleanup, IInv, TypeOK, ChainLinked, Rooted, poolVars
<1> QED
  BY <1>2, <1>3

-----------------------------------------------------------------------------
(* compareAndMergeChains. *)

\* Whatever the merge decides, the main chain stays linked.
LEMMA MergeKeepsIInv ==
  ASSUME IInv, Merge
  PROVE  IInv'
<1> DEFINE t == Top.blk
<1>1. stack # << >> /\ t \in Blocks
  BY TopTyped DEF Merge, Running
<1>2. chain \in Seq(Blocks) /\ Linked(chain) /\ side[t] \in Seq(Blocks)
  BY <1>1 DEF IInv, TypeOK, ChainLinked, Rooted
<1>3. Len(chain) \in Nat
  BY <1>2
<1>4. /\ chain' \in Seq(Blocks) /\ Linked(chain')
      /\ stack' \in Seq(Frames)
  <2>1. CASE MergeRefuse(t)
    BY <1>1, <1>2, <2>1, PopTyped DEF MergeRefuse
  <2>2. CASE MergeAppend(t)
    <3>1. <<CallAt("append", t, Len(chain))>> \in Seq(Frames)
      BY <1>1, <1>3, CallAtTyped DEF Ops
    <3> QED
      BY <1>1, <1>2, <2>2, <3>1, ReplaceTyped DEF MergeAppend
  <2>3. CASE MergeSameLength(t)
    BY <1>1, <1>2, <2>3, PopTyped DEF MergeSameLength, Mergeable
  <2>4. CASE MergeReorganise(t)
    <3> DEFINE c == CommonLength(chain, side[t])
    <3>1. /\ chain # << >> /\ side[t] # << >> /\ side[t][1] = chain[1]
          /\ chain' = Prefix(chain, c)
          /\ Replace(<<CallAt("append", t, c)>>)
      BY <1>2, <2>4 DEF MergeReorganise, Mergeable, Linked
    <3>2. c \in 1..Len(chain)
      BY <1>2, <3>1, CommonLengthBounds
    <3> HIDE DEF c
    <3>3. chain' \in Seq(Blocks) /\ Linked(chain')
      BY <1>2, <3>1, <3>2, LinkedPrefix
    <3>4. <<CallAt("append", t, c)>> \in Seq(Frames)
      <4>1. c \in Nat
        BY <1>3, <3>2
      <4> QED
        BY <1>1, <4>1, CallAtTyped DEF Ops
    <3> QED
      BY <1>1, <3>1, <3>3, <3>4, ReplaceTyped
  <2> QED
    BY <2>1, <2>2, <2>3, <2>4 DEF Merge
<1> QED
  BY <1>4 DEF Merge, IInv, TypeOK, ChainLinked, Rooted, forkVars, poolVars

\* The append loop, the return of addBlock and the reattachment loop only
\* move calls.
LEMMA LoopsKeepIInv ==
  ASSUME IInv, MergeNext \/ MergeCheck \/ Finish \/ ReattachNext
  PROVE  IInv'
<1> USE BlocksAssumption
<1>1. stack # << >>
  BY DEF MergeNext, MergeCheck, Finish, ReattachNext, Running
<1>2. Top.blk \in Blocks /\ Top.pos \in Nat /\ Top.kids \in [Blocks -> Nat]
  BY <1>1, TopTyped
<1>3. stack' \in Seq(Frames) /\ ret' \in Results
  <2>1. CASE MergeNext
    <3> DEFINE i == Top.pos + 1
    <3>1. CASE i > Len(side[Top.blk])
      BY <1>1, <2>1, <3>1, PopTyped DEF MergeNext, IInv, TypeOK
    <3>2. CASE ~ (i > Len(side[Top.blk]))
      <4>1. side[Top.blk] \in Seq(Blocks)
        BY <1>2 DEF IInv, TypeOK
      <4>2. i \in 1..Len(side[Top.blk])
        <5>1. Len(side[Top.blk]) \in Nat
          BY <4>1
        <5> QED
          BY <1>2, <3>2, <5>1
      <4>3. side[Top.blk][i] \in Blocks
        BY <4>1, <4>2, ElementOfSeq
      <4>4. Call("add", side[Top.blk][i]) \in Frames /\ CallAt("check", Top.blk, i) \in Frames
        BY <1>2, <4>3, CallTyped, CallAtTyped DEF Ops
      <4>5. Replace(<<Call("add", side[Top.blk][i]), CallAt("check", Top.blk, i)>>)
        BY <2>1, <3>2 DEF MergeNext
      <4>6. <<Call("add", side[Top.blk][i]), CallAt("check", Top.blk, i)>> \in Seq(Frames)
        BY <4>4
      <4> QED
        BY <1>1, <2>1, <4>5, <4>6, ReplaceTyped DEF MergeNext, IInv, TypeOK
    <3> QED
      BY <3>1, <3>2
  <2>2. CASE MergeCheck
    <3>1. <<CallAt("append", Top.blk, Top.pos)>> \in Seq(Frames)
      BY <1>2, CallAtTyped DEF Ops
    <3> QED
      <4>1. CASE ret = "Added"
        BY <1>1, <2>2, <3>1, <4>1, ReplaceTyped DEF MergeCheck, IInv, TypeOK
      <4>2. CASE ret # "Added"
        BY <1>1, <2>2, <4>2, PopTyped DEF MergeCheck, IInv, TypeOK
      <4> QED
        BY <4>1, <4>2
  <2>3. CASE Finish
    BY <1>1, <2>3, ReturnTyped DEF Finish, Results
  <2>4. CASE ReattachNext
    <3>1. <<Call("eval", Genesis)>> \in Seq(Frames)
      BY CallTyped DEF Ops
    <3>2. Len(chain) \in Nat
      BY DEF IInv, TypeOK
    <3>3. ASSUME NEW p \in Blocks, NEW op \in {"reattach", "reattached"}
          PROVE  <<Call("attach", p), CallAll(op, [Top.kids EXCEPT ![p] = 0], Len(chain))>>
                   \in Seq(Frames)
      <4>1. [Top.kids EXCEPT ![p] = 0] \in [Blocks -> Nat]
        BY <1>2, KidRemoved
      <4>2. "attach" \in Ops /\ op \in Ops
        BY DEF Ops
      <4>3. /\ Call("attach", p) \in Frames
            /\ CallAll(op, [Top.kids EXCEPT ![p] = 0], Len(chain)) \in Frames
        BY <3>2, <4>1, <4>2, CallTyped, CallAllTyped
      <4> QED
        BY <4>3
    <3>4. \/ Replace(<< >>)
          \/ Replace(<<Call("eval", Genesis)>>)
          \/ \E p \in Blocks, op \in {"reattach", "reattached"} :
               Replace(<<Call("attach", p),
                         CallAll(op, [Top.kids EXCEPT ![p] = 0], Len(chain))>>)
      BY <2>4 DEF ReattachNext, Pooled
    <3>5. stack' \in Seq(Frames)
      <4>1. CASE Replace(<< >>)
        BY <1>1, <4>1, PopTyped
      <4>2. CASE Replace(<<Call("eval", Genesis)>>)
        BY <1>1, <3>1, <4>2, ReplaceTyped
      <4>3. CASE \E p \in Blocks, op \in {"reattach", "reattached"} :
                   Replace(<<Call("attach", p),
                             CallAll(op, [Top.kids EXCEPT ![p] = 0], Len(chain))>>)
        BY <1>1, <3>3, <4>3, ReplaceTyped
      <4> QED
        BY <3>4, <4>1, <4>2, <4>3
    <3> QED
      BY <2>4, <3>5 DEF ReattachNext, IInv, TypeOK
  <2> QED
    BY <2>1, <2>2, <2>3, <2>4
<1> QED
  BY <1>3 DEF MergeNext, MergeCheck, Finish, ReattachNext,
              IInv, TypeOK, ChainLinked, Rooted, forkVars, poolVars

-----------------------------------------------------------------------------
(* The callers. *)

\* The block of a call killed before it marked it extends the chain.
LEMMA KilledIs ==
  ASSUME IInv, NEW b \in Blocks, KilledUnmarked(b)
  PROVE  /\ chain' = Append(chain, b) /\ Parent[b] = Last(chain)
         /\ Index[b] = Index[Last(chain)] + 1 /\ CheckpointDue(b)
         /\ b \notin NoProof \union BadTime \union BadBody
         /\ ~ InChain(b, chain)
<1>1. chain \in Seq(Blocks) /\ chain # << >>
  BY DEF IInv, TypeOK, ChainLinked, Linked
<1>2. InChain(Last(chain), chain)
  <2>1. Len(chain) \in 1..Len(chain)
    BY <1>1
  <2> QED
    BY <2>1 DEF InChain, Elems, Last
<1>3. Parent[b] = Last(chain) /\ TimeKnown(b)
  BY <1>2 DEF KilledUnmarked, OnTip, Tip, TimeKnown, ParentInMain
<1> QED
  BY <1>3 DEF KilledUnmarked, OnTip, Tip, KnownHash, TimeRejected

\* New input starts a call; a restart forgets everything but the chain and the
\* keys, one of which is the checkpoint.
LEMMA InputKeepsIInv ==
  ASSUME IInv, Input \/ Restart
  PROVE  IInv'
<1> USE BlocksAssumption, LimitsAssumption
<1>1. ASSUME NEW b \in Blocks, Deliver(b) PROVE IInv'
  <2>1. stack' \in Seq(Frames)
    BY <1>1, CallTyped DEF Deliver, Ops
  <2> QED
    BY <1>1, <2>1 DEF Deliver, IInv, TypeOK, ChainLinked, Rooted, forkVars, poolVars
<1>2. ASSUME NEW b \in Blocks, SubmitFork(b) PROVE IInv'
  <2>1. stack' \in Seq(Frames)
    BY <1>2, CallTyped DEF SubmitFork, Ops
  <2>2. InChain(Tip, chain)
    <3>1. chain \in Seq(Blocks) /\ chain # << >>
      BY DEF IInv, TypeOK, ChainLinked, Linked
    <3>2. Len(chain) \in 1..Len(chain)
      BY <3>1
    <3> QED
      BY <3>2 DEF InChain, Elems, Tip, Last
  <2>3. Rooted(side')
    BY <1>2, <2>2, RegisteredRooted DEF SubmitFork, ParentInMain
  <2> QED
    BY <1>2, <2>1, <2>3 DEF SubmitFork, IInv, TypeOK, ChainLinked, Rooted, poolVars
<1>3. CASE Reattach
  <2> DEFINE ready == {p \in Elems(chain) : Children(p, orphans) # {}}
  <2>1. [p \in Blocks |-> IF p \in ready THEN 1 ELSE 0] \in [Blocks -> Nat]
    OBVIOUS
  <2>2. Len(chain) \in Nat
    BY DEF IInv, TypeOK
  <2>3. CallAll("reattach", [p \in Blocks |-> IF p \in ready THEN 1 ELSE 0], Len(chain))
          \in Frames
    BY <2>1, <2>2, CallAllTyped DEF Ops
  <2>4. stack' \in Seq(Frames)
    BY <1>3, <2>3 DEF Reattach
  <2> QED
    BY <1>3, <2>4 DEF Reattach, IInv, TypeOK, ChainLinked, Rooted, forkVars, poolVars
<1>4. CASE Tick
  BY <1>4 DEF Tick, IInv, TypeOK, ChainLinked, Rooted, forkVars, poolVars
<1>5. CASE Restart
  <2>1. << >> \in Seq(Frames) /\ << >> \in Seq(Blocks)
    OBVIOUS
  <2>2. chain' \in Seq(Blocks) /\ Linked(chain')
    <3>1. CASE UNCHANGED chain
      BY <3>1 DEF IInv, TypeOK, ChainLinked
    <3>2. ASSUME NEW b \in Blocks, KilledUnmarked(b)
          PROVE  chain' \in Seq(Blocks) /\ Linked(chain')
      <4>1. chain' = Append(chain, b) /\ Parent[b] = Last(chain)
        BY <3>2, KilledIs
      <4>2. chain \in Seq(Blocks) /\ Linked(chain)
        BY DEF IInv, TypeOK, ChainLinked
      <4> QED
        BY <4>1, <4>2, LinkedAppend
    <3> QED
      BY <1>5, <3>1, <3>2 DEF Restart
  <2>3. checkpoint' \in Nat
    BY <1>5 DEF Restart, LoadCheckpoint, IsLastKey, IInv, TypeOK
  <2> QED
    BY <1>5, <2>1, <2>2, <2>3 DEF Restart, IInv, TypeOK, ChainLinked, Rooted, NoKids
<1> QED
  BY <1>1, <1>2, <1>3, <1>4, <1>5 DEF Input

-----------------------------------------------------------------------------
(* The theorems. *)

\* The initial state satisfies the invariant.
LEMMA InitIInv == Init => IInv
<1> USE BlocksAssumption, LimitsAssumption
<1> SUFFICES ASSUME Init PROVE IInv
  OBVIOUS
<1>1. << >> \in Seq(Frames) /\ << >> \in Seq(Blocks) /\ <<Genesis>> \in Seq(Blocks)
  OBVIOUS
<1>2. ChainLinked
  BY DEF Init, ChainLinked, Linked
<1>3. Rooted(side)
  BY <1>1 DEF Init, Rooted
<1>4. TypeOK
  <2>1. chain \in Seq(Blocks) /\ side \in [Blocks -> Seq(Blocks)]
    BY <1>1 DEF Init
  <2>2. /\ orphans \in [Blocks -> Nat]
        /\ orphanAt \in [Blocks -> Nat \union {Never}]
        /\ tipStale \in [Blocks -> Nat \union {Never}]
    BY DEF Init, NoKids
  <2>3. orphanHashes \subseteq Blocks /\ requested \subseteq Blocks
    BY DEF Init
  <2>4. future \subseteq Blocks /\ \A f, h \in future : Index[f] = Index[h] => f = h
    BY DEF Init
  <2>5. evaluating \in BOOLEAN
    BY Zenon DEF Init
  <2>6. checkpoint \in Nat /\ checkKeys \subseteq Nat /\ clock \in 0..MaxClock
    BY DEF Init
  <2>7. stack \in Seq(Frames) /\ ret \in Results
    BY <1>1 DEF Init, Results
  <2> QED
    BY <2>1, <2>2, <2>3, <2>4, <2>5, <2>6, <2>7 DEF TypeOK
<1> QED
  BY <1>2, <1>3, <1>4 DEF IInv

\* Every step keeps it.
LEMMA NextIInv == IInv /\ [Next]_vars => IInv'
<1> SUFFICES ASSUME IInv, [Next]_vars PROVE IInv'
  OBVIOUS
<1>1. CASE Step
  BY <1>1, AddBlockKeepsIInv, RouteKeepsIInv, AttachKeepsIInv, FutureKeepsIInv,
     EvaluateKeepsIInv, MergeKeepsIInv, LoopsKeepIInv DEF Step
<1>2. CASE Input \/ Restart
  BY <1>2, InputKeepsIInv
<1>3. CASE UNCHANGED vars
  BY <1>3 DEF vars, poolVars, forkVars, IInv, TypeOK, ChainLinked, Rooted
<1> QED
  BY <1>1, <1>2, <1>3 DEF Next

\* The invariant holds throughout, for every block tree and every limit.
THEOREM Invariant == Spec => []IInv
  BY InitIInv, NextIInv, PTL DEF Spec

\* Every variable keeps its type, and futureBlocks one block per index.
THEOREM TypeCorrect == Spec => []TypeOK
<1>1. IInv => TypeOK
  BY DEF IInv
<1> QED
  BY <1>1, Invariant, PTL

\* The main chain is linked from genesis to the tip at every step, also in the
\* middle of a cascade of orphans or of a merge that will be aborted.
THEOREM ChainAlwaysLinked == Spec => []ChainLinked
<1>1. IInv => ChainLinked
  BY DEF IInv
<1> QED
  BY <1>1, Invariant, PTL

\* Every candidate that compareAndMergeChains may be given is linked from
\* genesis and ends in the block it is keyed by.
THEOREM CandidatesAlwaysRooted == Spec => []CandidatesRooted
<1>1. IInv => CandidatesRooted
  BY DEF IInv, Rooted, CandidatesRooted, Tips
<1> QED
  BY <1>1, Invariant, PTL

-----------------------------------------------------------------------------
(* Refinement of MainChain. *)

\* An initial segment of the numbers is finite, also when it is empty.
LEMMA InitialSegment ==
  ASSUME NEW n \in Nat \ {0}
  PROVE  IsFiniteSet(1..(n - 1)) /\ Cardinality(1..(n - 1)) = n - 1
<1>1. 1 \in Int /\ n - 1 \in Int
  OBVIOUS
<1>2. IsFiniteSet(1..(n - 1))
  BY <1>1, FS_Interval
<1>3. Cardinality(1..(n - 1)) = IF 1 > n - 1 THEN 0 ELSE (n - 1) - 1 + 1
  BY <1>1, FS_Interval
<1> QED
  BY <1>2, <1>3

\* The common length is one: the chains agree on that many blocks.
LEMMA CommonPrefix ==
  ASSUME NEW s \in Seq(Blocks), NEW t \in Seq(Blocks),
         s # << >>, t # << >>, s[1] = t[1]
  PROVE  /\ CommonLength(s, t) <= Len(t)
         /\ \A i \in 1..CommonLength(s, t) : s[i] = t[i]
<1> DEFINE A == Agreements(s, t)
           c == CommonLength(s, t)
<1>1. c \in 1..Len(s) /\ Len(s) \in Nat
  BY CommonLengthBounds
<1>2. c \in A
  <2>1. SUFFICES ASSUME c \notin A PROVE FALSE
    OBVIOUS
  <2>2. A \subseteq 1..(c - 1)
    BY <1>1, <2>1 DEF Agreements
  <2>3. IsFiniteSet(1..(c - 1)) /\ Cardinality(1..(c - 1)) = c - 1
    BY <1>1, InitialSegment
  <2>4. Cardinality(A) <= c - 1
    <3> HIDE DEF c, A
    <3> QED
      BY <2>2, <2>3, FS_Subset
  <2> QED
    BY <1>1, <2>4 DEF CommonLength
<1> QED
  BY <1>2 DEF Agreements

\* The operators of BlockTree mean the same inside the instance of MainChain.
LEMMA SameOperators ==
  ASSUME NEW s, NEW t
  PROVE  /\ Main!CommonLength(s, t) = CommonLength(s, t)
         /\ Main!CumulativeDifficulty(s) = CumulativeDifficulty(s)
<1>1. Main!Agreements(s, t) = Agreements(s, t)
  BY DEF Agreements, Main!Agreements
<1>2. Main!AccumulatedWork = AccumulatedWork
  BY DEF AccumulatedWork, Main!AccumulatedWork
<1>3. Main!Last(s) = Last(s)
  BY DEF Last, Main!Last
<1> QED
  BY <1>1, <1>2, <1>3 DEF CommonLength, Main!CommonLength,
                          CumulativeDifficulty, Main!CumulativeDifficulty,
                          Cardinality, Main!Cardinality

\* A candidate that compareAndMergeChains accepts leaves the part of the main
\* chain it shares, and that part satisfies both limits.
LEMMA MergeableKeeps ==
  ASSUME IInv, NEW t \in Blocks, Mergeable(t)
  PROVE  /\ CommonLength(chain, side[t]) \in 1..Len(chain)
         /\ Main!MayKeep(CommonLength(chain, side[t]))
<1> DEFINE c == CommonLength(chain, side[t])
<1>1. /\ chain \in Seq(Blocks) /\ chain # << >>
      /\ side[t] \in Seq(Blocks) /\ side[t] # << >> /\ side[t][1] = chain[1]
  BY DEF IInv, TypeOK, ChainLinked, Linked, Mergeable
<1>2. c \in 1..Len(chain) /\ Len(chain) \in Nat
  BY <1>1, CommonLengthBounds
<1>3. /\ Len(chain) - c <= MaxReorgDepth
      /\ checkpoint > 0 => (Len(chain) - 1) - (Len(chain) - c) >= checkpoint - 2
  BY DEF Mergeable, ReorgDepth
<1> HIDE DEF c
<1>4. checkpoint > 0 => c >= checkpoint - 1
  BY <1>2, <1>3 DEF IInv, TypeOK
<1> QED
  BY <1>2, <1>3, <1>4 DEF Main!MayKeep, c

\* A block that addBlock appends is a valid child of the tip.
LEMMA ExtendRefines ==
  ASSUME IInv, NEW b \in Blocks, AddExtend(b)
  PROVE  Main!Next
<1>1. chain \in Seq(Blocks) /\ chain # << >>
  BY DEF IInv, TypeOK, ChainLinked, Linked
<1>2. InChain(Tip, chain)
  <2>1. Len(chain) \in 1..Len(chain)
    BY <1>1
  <2> QED
    BY <2>1 DEF InChain, Elems, Tip, Last
<1>3. Parent[b] = Last(chain) /\ TimeKnown(b)
  BY <1>2 DEF AddExtend, OnTip, Tip, TimeKnown, ParentInMain
<1>4. b \in Main!Valid
  BY <1>3 DEF AddExtend, OnTip, KnownHash, TimeRejected, Main!Valid
<1>5. Main!Appended(b)
  BY <1>3 DEF AddExtend, Tip, Main!Appended, Last, Main!Last
<1>6. IF Main!Due(b)
      THEN checkpoint' = Index[b] /\ checkKeys' = checkKeys \union {Index[b]}
      ELSE UNCHANGED <<checkpoint, checkKeys>>
  BY DEF AddExtend, SaveCheckpoint, CheckpointDue, Main!Due
<1>7. Main!Extend(b)
  BY <1>5, <1>6 DEF Main!Extend
<1> QED
  BY <1>4, <1>7 DEF Main!Next

\* A restart takes up a marked height, on the chain as it was or with the one
\* block more whose mark was lost.
LEMMA RestartRefines ==
  ASSUME IInv, Restart
  PROVE  Main!Restart
<1>1. CASE UNCHANGED chain
  BY <1>1 DEF Restart, LoadCheckpoint, IsLastKey, Main!Restart
<1>2. ASSUME NEW b \in Blocks, KilledUnmarked(b)
      PROVE  Main!Restart
  <2>1. b \in Main!Valid
    BY <1>2, KilledIs DEF Main!Valid
  <2>2. Main!Appended(b) /\ Main!Due(b)
    BY <1>2, KilledIs DEF CheckpointDue, Main!Due, Main!Appended, Last, Main!Last
  <2> QED
    BY <2>1, <2>2 DEF Restart, LoadCheckpoint, IsLastKey, Main!Restart
<1> QED
  BY <1>1, <1>2 DEF Restart

\* Every step is a step of the main chain, or leaves it alone.
LEMMA StepRefines ==
  IInv /\ [Next]_vars => [Main!Next]_<<chain, checkpoint, checkKeys>>
<1> SUFFICES ASSUME IInv, [Next]_vars, ~ UNCHANGED <<chain, checkpoint, checkKeys>>
             PROVE  Main!Next
  OBVIOUS
<1>1. CASE AddBlock
  <2>1. PICK b \in Blocks : AddExtend(b)
    <3>1. Top.blk \in Blocks
      BY <1>1, TopTyped DEF AddBlock, Running
    <3> QED
      BY <1>1, <3>1 DEF AddBlock, AddRefuse, AddTipStale, AddBadTime, AddSide,
                        AddPromote, AddOrphan, AddRejectOnTip
  <2> QED
    BY <2>1, ExtendRefines
<1>2. CASE Merge
  <2> DEFINE t == Top.blk
             c == CommonLength(chain, side[t])
  <2>1. t \in Blocks
    BY <1>2, TopTyped DEF Merge, Running
  <2>2. Mergeable(t) /\ UNCHANGED <<checkpoint, checkKeys>>
    BY <1>2 DEF Merge, MergeRefuse, MergeAppend, MergeSameLength, MergeReorganise
  <2>3. c \in 1..Len(chain) /\ Main!MayKeep(c)
    BY <2>1, <2>2, MergeableKeeps
  <2>4. CASE MergeSameLength(t)
    <3>1. chain' = side[t]
      BY <2>4 DEF MergeSameLength
    <3>2. Linked(chain') /\ Len(chain') = Len(chain)
      BY <2>2, <2>4 DEF MergeSameLength, Mergeable, SameLength
    <3>3. CumulativeDifficulty(chain') > CumulativeDifficulty(chain)
      BY <2>2, <3>1 DEF Mergeable
    <3>4. Main!Linked(chain')
      BY <3>2 DEF Linked, Main!Linked
    <3>5. Main!CumulativeDifficulty(chain') > Main!CumulativeDifficulty(chain)
      BY <3>3, SameOperators
    <3>6. Main!MayKeep(Main!CommonLength(chain, chain'))
      BY <2>3, <3>1, SameOperators
    <3> QED
      BY <2>2, <3>2, <3>4, <3>5, <3>6 DEF Main!Replace, Main!Next
  <2>5. CASE MergeReorganise(t)
    <3>1. Main!Cut(c)
      BY <2>2, <2>3, <2>5 DEF MergeReorganise, Main!Cut, Prefix, Main!Prefix
    <3> QED
      BY <2>3, <3>1 DEF Main!Next
  <2> QED
    BY <1>2, <2>4, <2>5 DEF Merge, MergeRefuse, MergeAppend
<1>3. CASE Step /\ ~ AddBlock /\ ~ Merge
  BY <1>3 DEF Step, Route, Attach, AttachChild, ApplyFuture, Evaluate, Cleanup,
              MergeNext, MergeCheck, Finish, ReattachNext
<1>4. CASE Input
  BY <1>4 DEF Input, Deliver, SubmitFork, Reattach, Tick
<1>5. CASE Restart
  BY <1>5, RestartRefines DEF Main!Next
<1>6. CASE UNCHANGED vars
  BY <1>6 DEF vars
<1> QED
  BY <1>1, <1>2, <1>3, <1>4, <1>5, <1>6 DEF Next

\* The fork-choice state machine implements MainChain, across cascades, aborted
\* merges and restarts, which may set the checkpoint back to any height marked
\* before and may lose the mark of the block that was being added.
THEOREM Refinement == Spec => ImplementsMainChain
<1>1. Init => Main!Init
  BY DEF Init, Main!Init
<1> QED
  BY <1>1, StepRefines, Invariant, PTL DEF Spec, ImplementsMainChain, Main!Spec

\* Neither a reorganisation nor a restart touches the main chain at or below
\* checkpointHeight - 2, for the checkpoint in force before the step.
THEOREM CheckpointAlwaysKept == Spec => CheckpointKept
<1> DEFINE Kept == checkpoint > 0 =>
             \A i \in 1..(checkpoint - 1) :
               i <= Len(chain) => i <= Len(chain') /\ chain'[i] = chain[i]
<1>1. IInv /\ IInv' /\ [Next]_vars => [Kept]_vars
  <2> SUFFICES ASSUME IInv, IInv', [Next]_vars PROVE Kept
    OBVIOUS
  <2>1. /\ chain \in Seq(Blocks) /\ chain # << >> /\ checkpoint \in Nat
        /\ chain' \in Seq(Blocks) /\ chain' # << >>
        /\ chain[1] = Genesis /\ chain'[1] = Genesis
    BY DEF IInv, TypeOK, ChainLinked, Linked
  <2>2. Main!Next \/ UNCHANGED <<chain, checkpoint, checkKeys>>
    BY StepRefines
  <2>3. CASE UNCHANGED <<chain, checkpoint, checkKeys>>
    BY <2>3
  <2>4. ASSUME NEW b \in Blocks, Main!Appended(b) PROVE Kept
    BY <2>1, <2>4 DEF Main!Appended
  <2>5. ASSUME NEW n \in 1..Len(chain), Main!Cut(n) PROVE Kept
    BY <2>1, <2>5 DEF Main!Cut, Main!MayKeep, Main!Prefix
  <2>6. CASE Main!Replace
    <3> DEFINE c == CommonLength(chain, chain')
    <3>1. c \in 1..Len(chain) /\ \A i \in 1..c : chain[i] = chain'[i]
      BY <2>1, CommonLengthBounds, CommonPrefix
    <3>2. /\ Len(chain') = Len(chain)
          /\ checkpoint > 0 => c >= checkpoint - 1
      BY <2>6, SameOperators DEF Main!Replace, Main!MayKeep
    <3> HIDE DEF c
    <3> QED
      BY <2>1, <3>1, <3>2
  <2>7. CASE Main!Restart
    BY <2>1, <2>4, <2>7 DEF Main!Restart, Main!Valid
  <2> QED
    BY <2>2, <2>3, <2>4, <2>5, <2>6, <2>7 DEF Main!Next, Main!Extend, Main!Valid
<1> QED
  BY <1>1, Invariant, PTL DEF Spec, CheckpointKept

-----------------------------------------------------------------------------
(* The tree of blocks: one path from genesis to each of them, and its work. *)

\* A chain as addBlock builds it, which meets genesis once.
Straight(s) ==
  s \in Seq(Blocks) /\ Linked(s) /\ \A i \in 2..Len(s) : s[i] # Genesis

\* Prefixes and extensions of a straight chain are straight.
LEMMA StraightPrefix ==
  ASSUME NEW s, Straight(s), NEW n \in 1..Len(s)
  PROVE  /\ Straight(Prefix(s, n))
         /\ Len(Prefix(s, n)) = n
         /\ Last(Prefix(s, n)) = s[n]
         /\ \A i \in 1..n : Prefix(s, n)[i] = s[i]
<1>1. s \in Seq(Blocks) /\ Linked(s)
  BY DEF Straight
<1>2. /\ Prefix(s, n) \in Seq(Blocks) /\ Linked(Prefix(s, n))
      /\ Last(Prefix(s, n)) = s[n]
  BY <1>1, LinkedPrefix
<1>3. Len(Prefix(s, n)) = n /\ \A i \in 1..n : Prefix(s, n)[i] = s[i]
  BY <1>1 DEF Prefix
<1> QED
  BY <1>2, <1>3 DEF Straight

\* A straight chain with a child of its last block is straight.
LEMMA StraightAppend ==
  ASSUME NEW s, Straight(s), NEW b \in Blocks \ {Genesis}, Parent[b] = Last(s)
  PROVE  /\ Straight(Append(s, b))
         /\ Last(Append(s, b)) = b
<1>1. s \in Seq(Blocks) /\ Linked(s)
  BY DEF Straight
<1>2. Append(s, b) \in Seq(Blocks) /\ Linked(Append(s, b)) /\ Last(Append(s, b)) = b
  BY <1>1, LinkedAppend
<1>3. \A i \in 2..Len(Append(s, b)) : Append(s, b)[i] # Genesis
  BY <1>1 DEF Straight
<1> QED
  BY <1>2, <1>3 DEF Straight

\* Only the chain of genesis alone ends in genesis; another one ends in a block
\* whose parent ends the rest.
LEMMA StraightEnd ==
  ASSUME NEW s, Straight(s)
  PROVE  /\ Len(s) \in Nat \ {0}
         /\ Last(s) \in Blocks
         /\ Last(s) = Genesis => s = <<Genesis>>
         /\ Last(s) # Genesis =>
              \E f : Straight(f) /\ Last(f) = Parent[Last(s)] /\ s = Append(f, Last(s))
<1>1. /\ s \in Seq(Blocks) /\ s # << >> /\ Len(s) \in Nat \ {0}
      /\ s[1] = Genesis /\ \A i \in 2..Len(s) : Parent[s[i]] = s[i - 1]
  BY DEF Straight, Linked
<1>2. Last(s) \in Blocks
  BY <1>1, LastIsBlock
<1>3. ASSUME Last(s) = Genesis PROVE s = <<Genesis>>
  <2>1. Len(s) = 1
    <3>1. SUFFICES ASSUME Len(s) # 1 PROVE FALSE
      OBVIOUS
    <3>2. PICK n : n = Len(s)
      OBVIOUS
    <3>3. n \in 2..n
      BY <1>1, <3>1, <3>2
    <3>4. s[n] # Genesis
      BY <3>2, <3>3 DEF Straight
    <3> QED
      BY <1>3, <3>2, <3>4 DEF Last
  <2> QED
    BY <1>1, <2>1
<1>4. ASSUME Last(s) # Genesis
      PROVE  \E f : Straight(f) /\ Last(f) = Parent[Last(s)] /\ s = Append(f, Last(s))
  <2>1. PICK n : n = Len(s) - 1
    OBVIOUS
  <2>2. n \in 1..Len(s) /\ n + 1 = Len(s) /\ n + 1 \in 2..Len(s)
    BY <1>1, <1>4, <2>1 DEF Last
  <2>3. Straight(Prefix(s, n)) /\ Last(Prefix(s, n)) = s[n]
    BY <2>2, StraightPrefix
  <2>4. Parent[Last(s)] = s[n]
    BY <1>1, <2>2 DEF Last
  <2>5. s = Append(Prefix(s, n), Last(s))
    BY <1>1, <2>2 DEF Prefix, Last
  <2> QED
    BY <2>3, <2>4, <2>5
<1> QED
  BY <1>1, <1>2, <1>3, <1>4

\* There is one path from genesis to a block.
LEMMA OnePath ==
  ASSUME NEW s, Straight(s), NEW u, Straight(u), Last(s) = Last(u)
  PROVE  s = u
<1> DEFINE Forks(b) == \E p, q : Straight(p) /\ Straight(q) /\ Last(p) = b /\ Last(q) = b /\ p # q
           Forked == {b \in Blocks \ {Genesis} : Forks(b)}
<1>1. Forked = {}
  <2> SUFFICES ASSUME Forked # {} PROVE FALSE
    OBVIOUS
  <2>1. PICK b \in Forked : Parent[b] \notin Forked
    <3>1. Forked \in SUBSET (Blocks \ {Genesis})
      OBVIOUS
    <3> HIDE DEF Forked
    <3> QED
      BY <3>1, TreeAssumption
  <2>2. b \in Blocks /\ b # Genesis /\ Parent[b] \in Blocks
    BY BlocksAssumption
  <2>3. PICK p, q : Straight(p) /\ Straight(q) /\ Last(p) = b /\ Last(q) = b /\ p # q
    OBVIOUS
  <2>4. PICK f : Straight(f) /\ Last(f) = Parent[b] /\ p = Append(f, b)
    BY <2>2, <2>3, StraightEnd
  <2>5. PICK g : Straight(g) /\ Last(g) = Parent[b] /\ q = Append(g, b)
    BY <2>2, <2>3, StraightEnd
  <2>6. f = g
    <3>1. CASE Parent[b] = Genesis
      BY <2>4, <2>5, <3>1, StraightEnd
    <3>2. CASE Parent[b] # Genesis
      <4>1. ~ Forks(Parent[b])
        BY <2>1, <2>2, <3>2
      <4> QED
        BY <2>4, <2>5, <4>1
    <3> QED
      BY <3>1, <3>2
  <2> QED
    BY <2>3, <2>4, <2>5, <2>6
<1>2. CASE Last(s) = Genesis
  BY <1>2, StraightEnd
<1>3. CASE Last(s) # Genesis
  <2>1. Last(s) \in Blocks
    BY StraightEnd
  <2>2. ~ Forks(Last(s))
    BY <1>1, <1>3, <2>1
  <2> QED
    BY <2>2
<1> QED
  BY <1>2, <1>3

\* No block is twice on a chain.
LEMMA StraightDistinct ==
  ASSUME NEW s, Straight(s), NEW i \in 1..Len(s), NEW j \in 1..Len(s), s[i] = s[j]
  PROVE  i = j
<1>1. Prefix(s, i) = Prefix(s, j)
  BY StraightPrefix, OnePath
<1> QED
  BY <1>1, StraightPrefix

\* Accumulated work is what its recursion says.
LEMMA WorkOfBlock ==
  ASSUME NEW b \in Blocks
  PROVE  AccumulatedWork[b] =
           IF b = Genesis THEN Work[b] ELSE AccumulatedWork[Parent[b]] + Work[b]
<1> USE BlocksAssumption
<1> DEFINE Sum(f, x) == IF x = Genesis THEN Work[x] ELSE f[Parent[x]] + Work[x]
           Solved(D) == /\ Genesis \in D
                        /\ \A x \in D : x # Genesis => Parent[x] \in D
                        /\ \E f : f = [x \in D |-> Sum(f, x)]
           Rests == {Blocks \ D : D \in {E \in SUBSET Blocks : Solved(E)}}
<1>1. Solved({Genesis})
  <2>1. PICK f : f = [x \in {Genesis} |-> Work[Genesis]]
    OBVIOUS
  <2>2. f = [x \in {Genesis} |-> Sum(f, x)]
    BY <2>1
  <2> QED
    BY <2>2
<1>2. PICK r \in Rests : \A x \in r : r \ {x} \notin Rests
  <2>1. Rests # {}
    <3>1. {Genesis} \in {E \in SUBSET Blocks : Solved(E)}
      BY <1>1
    <3>2. Blocks \ {Genesis} \in Rests
      <4> HIDE DEF Solved
      <4> QED
        BY <3>1
    <3> QED
      BY <3>2
  <2>2. \A r \in Rests : IsFiniteSet(r)
    <3>1. \A r \in Rests : r \subseteq Blocks
      OBVIOUS
    <3> HIDE DEF Rests
    <3> QED
      BY <3>1, FS_Subset
  <2> HIDE DEF Rests
  <2> QED
    BY <2>1, <2>2, MinimalSet
<1>3. PICK D \in SUBSET Blocks : Solved(D) /\ r = Blocks \ D
  OBVIOUS
<1>4. r = {}
  <2> SUFFICES ASSUME r # {} PROVE FALSE
    OBVIOUS
  <2>1. r \in SUBSET (Blocks \ {Genesis})
    BY <1>3
  <2>2. PICK c \in r : Parent[c] \notin r
    BY <2>1, TreeAssumption
  <2>3. c \in Blocks /\ c \notin D /\ c # Genesis /\ Parent[c] \in D
    BY <1>3, <2>1, <2>2
  <2>4. PICK f : f = [x \in D |-> Sum(f, x)]
    BY <1>3
  <2>5. PICK g : g = [x \in D \union {c} |-> IF x = c THEN f[Parent[c]] + Work[c] ELSE f[x]]
    OBVIOUS
  <2>6. \A x \in D \union {c} : g[x] = Sum(g, x)
    <3>1. \A x \in D : f[x] = Sum(f, x)
      BY <2>4
    <3>2. \A x \in D : g[x] = f[x]
      BY <2>3, <2>5
    <3>3. \A x \in D : x # Genesis => Parent[x] \in D
      BY <1>3
    <3>4. g[c] = f[Parent[c]] + Work[c]
      BY <2>5
    <3> QED
      BY <2>3, <3>1, <3>2, <3>3, <3>4
  <2>7. g = [x \in D \union {c} |-> Sum(g, x)]
    <3>1. g = [x \in D \union {c} |-> g[x]]
      BY <2>5
    <3> HIDE DEF Sum
    <3> QED
      BY <2>6, <3>1
  <2>8. Solved(D \union {c})
    <3>1. Genesis \in D /\ \A x \in D : x # Genesis => Parent[x] \in D
      BY <1>3
    <3> QED
      BY <2>3, <2>7, <3>1
  <2>9. r \ {c} \in Rests
    <3>1. r \ {c} = Blocks \ (D \union {c}) /\ D \union {c} \in SUBSET Blocks
      BY <1>3, <2>3
    <3> HIDE DEF Solved
    <3> QED
      BY <2>8, <3>1
  <2> HIDE DEF Rests
  <2> QED
    BY <1>2, <2>2, <2>9
<1>5. D = Blocks
  BY <1>3, <1>4
<1>6. PICK f : f = [x \in Blocks |-> Sum(f, x)]
  BY <1>3, <1>5
<1>7. AccumulatedWork = [x \in Blocks |-> Sum(AccumulatedWork, x)]
  BY <1>6 DEF AccumulatedWork
<1>8. AccumulatedWork[b] = Sum(AccumulatedWork, b)
  <2> HIDE DEF Sum
  <2> QED
    BY <1>7
<1> QED
  BY <1>8

\* It is a number, and grows with every block.
LEMMA WorkTyped ==
  ASSUME NEW b \in Blocks
  PROVE  AccumulatedWork[b] \in Nat
<1> USE BlocksAssumption
<1> DEFINE Wrong == {x \in Blocks \ {Genesis} : AccumulatedWork[x] \notin Nat}
<1>1. AccumulatedWork[Genesis] \in Nat
  BY WorkOfBlock
<1>2. Wrong = {}
  <2> SUFFICES ASSUME Wrong # {} PROVE FALSE
    OBVIOUS
  <2>1. PICK x \in Wrong : Parent[x] \notin Wrong
    <3>1. Wrong \in SUBSET (Blocks \ {Genesis})
      OBVIOUS
    <3> HIDE DEF Wrong
    <3> QED
      BY <3>1, TreeAssumption
  <2>2. x \in Blocks /\ x # Genesis /\ Parent[x] \in Blocks /\ AccumulatedWork[Parent[x]] \in Nat
    BY <1>1, <2>1
  <2>3. AccumulatedWork[x] = AccumulatedWork[Parent[x]] + Work[x]
    BY <2>2, WorkOfBlock
  <2> QED
    BY <2>2, <2>3
<1> QED
  BY <1>1, <1>2

\* A block carries more work than its parent.
LEMMA WorkGrows ==
  ASSUME NEW b \in Blocks \ {Genesis}
  PROVE  AccumulatedWork[Parent[b]] < AccumulatedWork[b]
<1>1. Parent[b] \in Blocks /\ Work[b] \in Nat \ {0}
  BY BlocksAssumption
<1> QED
  BY <1>1, WorkOfBlock, WorkTyped

\* The last block of a chain carries the most.
LEMMA WorkAlong ==
  ASSUME NEW s, Straight(s), NEW i \in 1..Len(s)
  PROVE  AccumulatedWork[s[i]] <= AccumulatedWork[Last(s)]
<1> DEFINE Less(k) == AccumulatedWork[s[k]] <= AccumulatedWork[Last(s)]
           Wrong == {k \in Nat : k < Len(s) /\ ~ Less(Len(s) - k)}
<1>1. /\ s \in Seq(Blocks) /\ Len(s) \in Nat
      /\ \A k \in 1..Len(s) : s[k] \in Blocks
      /\ \A k \in 2..Len(s) : s[k] # Genesis /\ Parent[s[k]] = s[k - 1]
  BY DEF Straight, Linked
<1>2. \A k \in 1..Len(s) : AccumulatedWork[s[k]] \in Nat
  BY <1>1, WorkTyped
<1>3. Wrong = {}
  <2> SUFFICES ASSUME Wrong # {} PROVE FALSE
    OBVIOUS
  <2>1. PICK k \in Wrong : \A m \in Wrong : k <= m
    <3>1. Wrong \subseteq Nat
      OBVIOUS
    <3> HIDE DEF Wrong
    <3> QED
      BY <3>1, LeastElement
  <2>2. k \in Nat /\ k < Len(s) /\ ~ Less(Len(s) - k)
    OBVIOUS
  <2>3. k # 0
    BY <1>1, <1>2, <2>2 DEF Last
  <2>4. PICK j : j = Len(s) - k
    OBVIOUS
  <2>5. j \in 1..Len(s) /\ j + 1 \in 2..Len(s) /\ j + 1 = Len(s) - (k - 1) /\ Len(s) \in 1..Len(s)
    BY <1>1, <2>2, <2>3, <2>4
  <2>6. Less(j + 1)
    <3>1. k - 1 \in Nat /\ k - 1 < Len(s) /\ ~ (k <= k - 1)
      BY <1>1, <2>2, <2>3
    <3>2. k - 1 \notin Wrong
      <4> HIDE DEF Wrong
      <4> QED
        BY <2>1, <3>1
    <3> QED
      BY <2>5, <3>1, <3>2
  <2>7. AccumulatedWork[s[j]] < AccumulatedWork[s[j + 1]]
    <3>1. s[j + 1] \in Blocks \ {Genesis} /\ Parent[s[j + 1]] = s[j]
      BY <1>1, <2>5
    <3> QED
      BY <3>1, WorkGrows
  <2>8. AccumulatedWork[s[j]] \in Nat /\ AccumulatedWork[s[j + 1]] \in Nat
        /\ AccumulatedWork[Last(s)] \in Nat
    BY <1>2, <2>5 DEF Last
  <2>9. PICK x, y, z : /\ x = AccumulatedWork[s[j]] /\ y = AccumulatedWork[s[j + 1]]
                       /\ z = AccumulatedWork[Last(s)]
    OBVIOUS
  <2>10. ~ (x <= z)
    BY <2>2, <2>4, <2>9
  <2>11. y <= z
    BY <2>6, <2>9
  <2>12. x \in Nat /\ y \in Nat /\ z \in Nat /\ x < y
    BY <2>7, <2>8, <2>9
  <2> QED
    BY <2>10, <2>11, <2>12
<1>4. Len(s) - i \in Nat /\ Len(s) - i < Len(s) /\ Len(s) - (Len(s) - i) = i
  BY <1>1
<1> QED
  BY <1>3, <1>4

-----------------------------------------------------------------------------
(* A merge on the call stack.  At most one is running: its frame stands on a *)
(* cleanup frame, and while it is a check the calls above it may not touch   *)
(* the candidate it reads.                                                   *)

\* The h-th call from the bottom of the stack
At(stk, h) == stk[Len(stk) + 1 - h]

MergeOps == {"merge", "append", "check"}

\* Adding b registers b or b's cached parent: neither takes over t's candidate.
Apart(b, t) ==
  b # Genesis => /\ Parent[b] # t
                 /\ Parent[b] # Genesis => Parent[Parent[b]] # t

\* A call that leaves the candidate of t alone
Spares(f, t) ==
  /\ f.op \in {"add", "route"} => Apart(f.blk, t)
  /\ f.op = "attach" => f.blk # Genesis /\ Parent[f.blk] # t
  /\ f.op = "kids" => \A c \in Pooled(f.kids) : Apart(c, t)
  /\ f.op \notin {"reattach", "reattached"}

\* The first n blocks of the candidate s are those of the main chain.
Follows(ch, s, n) ==
  n \in 1..Len(s) /\ n <= Len(ch) /\ \A k \in 1..n : ch[k] = s[k]

Done(ch, s, n) == n <= Len(ch) /\ ch[n] = s[n]

\* The candidate of t is there, and neither an orphan nor a buffered block
\* could move it on.
Alive(t, reg, pool, buf) ==
  /\ t # Genesis /\ reg[t] # << >>
  /\ Children(t, pool) = {}
  /\ \A g \in buf : Apart(g, t)

Target(f, ch, reg, pool, buf) ==
  /\ Alive(f.blk, reg, pool, buf)
  /\ f.op = "append" => Follows(ch, reg[f.blk], f.pos)
  /\ f.op = "check" => /\ f.pos \in 2..Len(reg[f.blk])
                       /\ Follows(ch, reg[f.blk], f.pos - 1)

\* The call above a check answers Added only with the block in its place.
Answers(f, g, ch, reg) ==
  \/ f.op \in {"add", "route"} /\ f.blk = reg[g.blk][g.pos]
  \/ f.op = "sideChain"
  \/ f.op = "added" /\ Done(ch, reg[g.blk], g.pos)

Nested(stk, h) ==
  /\ h > 1 /\ At(stk, h - 1).op = "cleanup"
  /\ At(stk, h).op # "check" => h = Len(stk)
  /\ \A k \in (h + 1)..Len(stk) : Spares(At(stk, k), At(stk, h).blk)

StackInv(stk, ch, reg, pool, buf, ev) ==
  /\ \A h \in 1..Len(stk) : At(stk, h).op = "route" => At(stk, h).blk # Genesis
  /\ \A h \in 1..Len(stk) : At(stk, h).op = "cleanup" =>
       ev /\ \A k \in 1..Len(stk) : At(stk, k).op = "cleanup" => k = h
  /\ \A h \in 1..Len(stk) : At(stk, h).op \in MergeOps =>
       /\ Nested(stk, h)
       /\ Target(At(stk, h), ch, reg, pool, buf)
       /\ h < Len(stk) => Answers(At(stk, h + 1), At(stk, h), ch, reg)

ReturnInv(stk, r, ch, reg) ==
  stk # << >> /\ Head(stk).op = "check" /\ r = "Added" =>
    Done(ch, reg[Head(stk).blk], Head(stk).pos)

\* u is the stack s with calls in the place of the running call: the calls below
\* keep their heights.
Replaced(s, calls, u) ==
  /\ u \in Seq(Frames)
  /\ Len(s) \in Nat \ {0} /\ Len(calls) \in Nat
  /\ Len(u) = Len(calls) + Len(s) - 1
  /\ \A h \in 1..(Len(s) - 1) : At(u, h) = At(s, h)
  /\ \A h \in Len(s)..Len(u) :
       Len(u) + 1 - h \in 1..Len(calls) /\ At(u, h) = calls[Len(u) + 1 - h]
  /\ At(s, Len(s)) = Head(s)
  /\ u # << >> => Head(u) = At(u, Len(u))
  /\ \A h \in 1..Len(s) : At(s, h) \in Frames

\* The calls below the running one keep their heights when it is replaced.
LEMMA Heights ==
  ASSUME NEW s \in Seq(Frames), s # << >>, NEW calls \in Seq(Frames),
         NEW u, u = calls \o Tail(s)
  PROVE  Replaced(s, calls, u)
<1>1. /\ Tail(s) \in Seq(Frames) /\ Len(Tail(s)) = Len(s) - 1
      /\ \A i \in 1..(Len(s) - 1) : Tail(s)[i] = s[i + 1]
      /\ Len(s) \in Nat \ {0} /\ Len(calls) \in Nat
  OBVIOUS
<1>2. PICK r \in Seq(Frames) : r = Tail(s)
  BY <1>1
<1>3. /\ u \in Seq(Frames) /\ Len(u) = Len(calls) + Len(r)
      /\ \A i \in 1..Len(calls) : u[i] = calls[i]
      /\ \A i \in 1..Len(r) : u[Len(calls) + i] = r[i]
  BY <1>2
<1>4. \A h \in 1..(Len(s) - 1) : At(u, h) = At(s, h)
  <2> SUFFICES ASSUME NEW h \in 1..(Len(s) - 1) PROVE At(u, h) = At(s, h)
    OBVIOUS
  <2>1. Len(s) - h \in 1..Len(r) /\ Len(u) + 1 - h = Len(calls) + (Len(s) - h)
    BY <1>1, <1>2, <1>3
  <2>2. u[Len(u) + 1 - h] = r[Len(s) - h]
    BY <1>3, <2>1
  <2>3. r[Len(s) - h] = s[Len(s) - h + 1] /\ Len(s) - h + 1 = Len(s) + 1 - h
    BY <1>1, <1>2, <2>1
  <2> QED
    BY <2>2, <2>3 DEF At
<1>5. \A h \in Len(s)..Len(u) :
        Len(u) + 1 - h \in 1..Len(calls) /\ At(u, h) = calls[Len(u) + 1 - h]
  BY <1>1, <1>2, <1>3 DEF At
<1>6. At(s, Len(s)) = Head(s)
  <2>1. Len(s) + 1 - Len(s) = 1 /\ Head(s) = s[1]
    BY <1>1
  <2> QED
    BY <2>1 DEF At
<1>7. u # << >> => Head(u) = At(u, Len(u))
  <2>1. Len(u) + 1 - Len(u) = 1
    BY <1>1, <1>2, <1>3
  <2> QED
    BY <1>3, <2>1 DEF At
<1>8. \A h \in 1..Len(s) : At(s, h) \in Frames
  BY <1>1 DEF At
<1> QED
  BY <1>1, <1>2, <1>3, <1>4, <1>5, <1>6, <1>7, <1>8 DEF Replaced

\* Calls that are no part of a merge
Plain(calls) ==
  \A i \in 1..Len(calls) :
    /\ calls[i].op \notin MergeOps \union {"cleanup"}
    /\ calls[i].op = "route" => calls[i].blk # Genesis

Grows(ch, ch2) ==
  /\ Len(ch) \in Nat /\ Len(ch2) \in Nat /\ Len(ch) <= Len(ch2)
  /\ \A k \in 1..Len(ch) : ch2[k] = ch[k]

\* The running call f, which makes the calls, does not disturb a candidate that
\* it has to spare.
Leaves(f, calls, reg, reg2, pool, pool2, buf, buf2) ==
  \A t \in Blocks : Alive(t, reg, pool, buf) /\ Spares(f, t) =>
    /\ reg2[t] = reg[t] /\ Alive(t, reg2, pool2, buf2)
    /\ \A i \in 1..Len(calls) : Spares(calls[i], t)

\* If a check g waits for f, it waits for f's answer or for f's last call.
Replies(f, calls, ch, ch2, reg, reg2, pool, buf, r2) ==
  \A g \in Frames :
    /\ g.op = "check" /\ Target(g, ch, reg, pool, buf)
    /\ Answers(f, g, ch, reg) /\ reg2[g.blk] = reg[g.blk]
    => IF calls = << >> THEN r2 = "Added" => Done(ch2, reg2[g.blk], g.pos)
       ELSE Answers(calls[Len(calls)], g, ch2, reg2)

\* A call that is no part of a merge makes other such calls: the merge below it,
\* if any, goes on with its candidate, and the answer it waits for.
LEMMA Continue ==
  ASSUME NEW s \in Seq(Frames), s # << >>, NEW calls \in Seq(Frames),
         NEW u, u = calls \o Tail(s),
         NEW ch, NEW ch2, NEW reg, NEW reg2, NEW pool, NEW pool2,
         NEW buf, NEW buf2, NEW ev, NEW r2,
         StackInv(s, ch, reg, pool, buf, ev), Grows(ch, ch2),
         Head(s).op \notin MergeOps \union {"cleanup"}, Plain(calls),
         Leaves(Head(s), calls, reg, reg2, pool, pool2, buf, buf2),
         Replies(Head(s), calls, ch, ch2, reg, reg2, pool, buf, r2)
  PROVE  /\ StackInv(u, ch2, reg2, pool2, buf2, ev) /\ ReturnInv(u, r2, ch2, reg2)
         /\ u # << >> => Head(u).op # "merge"
<1>0. Replaced(s, calls, u)
  BY Heights
<1>1. /\ u \in Seq(Frames)
      /\ Len(s) \in Nat \ {0} /\ Len(calls) \in Nat
      /\ Len(u) = Len(calls) + Len(s) - 1
      /\ \A h \in 1..(Len(s) - 1) : At(u, h) = At(s, h)
      /\ \A h \in Len(s)..Len(u) :
           Len(u) + 1 - h \in 1..Len(calls) /\ At(u, h) = calls[Len(u) + 1 - h]
      /\ At(s, Len(s)) = Head(s)
      /\ u # << >> => Head(u) = At(u, Len(u))
      /\ \A h \in 1..Len(s) : At(s, h) \in Frames
  BY <1>0 DEF Replaced
<1>2. \A h \in 1..Len(u) : At(u, h).op \in MergeOps \union {"cleanup"} => h \in 1..(Len(s) - 1)
  <2> SUFFICES ASSUME NEW h \in 1..Len(u), h \notin 1..(Len(s) - 1)
               PROVE  At(u, h).op \notin MergeOps \union {"cleanup"}
    OBVIOUS
  <2>1. h \in Len(s)..Len(u)
    BY <1>1
  <2> QED
    BY <1>1, <2>1 DEF Plain
<1>3. \A h \in 1..Len(u) : At(u, h).op = "route" => At(u, h).blk # Genesis
  <2> SUFFICES ASSUME NEW h \in 1..Len(u), At(u, h).op = "route" PROVE At(u, h).blk # Genesis
    OBVIOUS
  <2>1. CASE h \in 1..(Len(s) - 1)
    BY <1>1, <2>1 DEF StackInv
  <2>2. CASE h \in Len(s)..Len(u)
    BY <1>1, <2>2 DEF Plain
  <2> QED
    BY <1>1, <2>1, <2>2
<1>4. \A h \in 1..Len(u) : At(u, h).op = "cleanup" =>
        ev /\ \A k \in 1..Len(u) : At(u, k).op = "cleanup" => k = h
  <2>1. \A h \in 1..(Len(s) - 1) : h \in 1..Len(s)
    BY <1>1
  <2> QED
    BY <1>1, <1>2, <2>1 DEF StackInv
<1>5. ASSUME NEW h \in 1..(Len(s) - 1), At(s, h).op \in MergeOps
      PROVE  /\ h > 1 /\ At(s, h - 1).op = "cleanup" /\ At(s, h).op = "check"
             /\ \A k \in (h + 1)..Len(s) : Spares(At(s, k), At(s, h).blk)
             /\ Target(At(s, h), ch, reg, pool, buf)
             /\ Answers(At(s, h + 1), At(s, h), ch, reg)
             /\ At(s, h) \in Frames /\ At(s, h).blk \in Blocks
             /\ reg2[At(s, h).blk] = reg[At(s, h).blk]
             /\ \A i \in 1..Len(calls) : Spares(calls[i], At(s, h).blk)
             /\ Target(At(s, h), ch2, reg2, pool2, buf2)
  <2>1. h \in 1..Len(s) /\ h < Len(s) /\ h # Len(s) /\ Len(s) \in (h + 1)..Len(s)
    BY <1>1
  <2>2. /\ Nested(s, h)
        /\ Target(At(s, h), ch, reg, pool, buf)
        /\ Answers(At(s, h + 1), At(s, h), ch, reg)
    BY <1>5, <2>1 DEF StackInv
  <2>3. /\ h > 1 /\ At(s, h - 1).op = "cleanup" /\ At(s, h).op = "check"
        /\ \A k \in (h + 1)..Len(s) : Spares(At(s, k), At(s, h).blk)
    BY <2>1, <2>2 DEF Nested
  <2>4. At(s, h) \in Frames /\ At(s, h).blk \in Blocks
    <3>1. At(s, h) \in Frames
      BY <1>1, <2>1
    <3> QED
      BY <3>1 DEF Frames
  <2>5. Alive(At(s, h).blk, reg, pool, buf) /\ Spares(Head(s), At(s, h).blk)
    BY <1>1, <2>1, <2>2, <2>3 DEF Target
  <2>6. /\ reg2[At(s, h).blk] = reg[At(s, h).blk]
        /\ Alive(At(s, h).blk, reg2, pool2, buf2)
        /\ \A i \in 1..Len(calls) : Spares(calls[i], At(s, h).blk)
    BY <2>4, <2>5 DEF Leaves
  <2>7. Target(At(s, h), ch2, reg2, pool2, buf2)
    <3>1. \A n : Follows(ch, reg[At(s, h).blk], n) => Follows(ch2, reg2[At(s, h).blk], n)
      BY <2>6 DEF Follows, Grows
    <3> QED
      BY <2>2, <2>6, <3>1 DEF Target
  <2> QED
    BY <2>2, <2>3, <2>4, <2>6, <2>7
<1>6. ASSUME NEW h \in 1..Len(u), At(u, h).op \in MergeOps
      PROVE  /\ Nested(u, h)
             /\ Target(At(u, h), ch2, reg2, pool2, buf2)
             /\ h < Len(u) => Answers(At(u, h + 1), At(u, h), ch2, reg2)
  <2>1. h \in 1..(Len(s) - 1) /\ At(u, h) = At(s, h)
    BY <1>1, <1>2, <1>6
  <2>2. h > 1 /\ At(u, h - 1) = At(s, h - 1)
    BY <1>1, <1>5, <1>6, <2>1
  <2>3. \A k \in (h + 1)..Len(u) : Spares(At(u, k), At(u, h).blk)
    <3> SUFFICES ASSUME NEW k \in (h + 1)..Len(u) PROVE Spares(At(u, k), At(s, h).blk)
      BY <2>1
    <3>1. CASE k \in 1..(Len(s) - 1)
      <4>1. k \in (h + 1)..Len(s) /\ At(u, k) = At(s, k)
        BY <1>1, <2>1, <3>1
      <4> QED
        BY <1>5, <1>6, <2>1, <4>1
    <3>2. CASE k \in Len(s)..Len(u)
      BY <1>1, <1>5, <1>6, <2>1, <3>2
    <3> QED
      BY <1>1, <2>1, <3>1, <3>2
  <2>4. Nested(u, h)
    BY <1>5, <1>6, <2>1, <2>2, <2>3 DEF Nested
  <2>5. ASSUME h < Len(u) PROVE Answers(At(u, h + 1), At(u, h), ch2, reg2)
    <3>1. CASE h + 1 \in 1..(Len(s) - 1)
      <4>1. At(u, h + 1) = At(s, h + 1)
        BY <1>1, <3>1
      <4>2. Answers(At(s, h + 1), At(s, h), ch, reg) /\ reg2[At(s, h).blk] = reg[At(s, h).blk]
            /\ Follows(ch, reg[At(s, h).blk], At(s, h).pos - 1)
            /\ At(s, h).pos \in 2..Len(reg[At(s, h).blk])
        BY <1>5, <1>6, <2>1 DEF Target
      <4>3. Done(ch, reg[At(s, h).blk], At(s, h).pos) => Done(ch2, reg2[At(s, h).blk], At(s, h).pos)
        BY <4>2 DEF Done, Grows
      <4> QED
        BY <2>1, <4>1, <4>2, <4>3 DEF Answers
    <3>2. CASE h + 1 = Len(s)
      <4>1. At(u, h + 1) = calls[Len(calls)] /\ calls # << >>
        BY <1>1, <2>5, <3>2
      <4>2. Answers(calls[Len(calls)], At(s, h), ch2, reg2)
        BY <1>1, <1>5, <1>6, <2>1, <3>2, <4>1 DEF Replies
      <4> QED
        BY <2>1, <4>1, <4>2
    <3> QED
      BY <1>1, <2>1, <3>1, <3>2
  <2> QED
    BY <1>5, <1>6, <2>1, <2>4, <2>5
<1>7. ReturnInv(u, r2, ch2, reg2)
  <2> SUFFICES ASSUME u # << >>, Head(u).op = "check", r2 = "Added"
               PROVE  Done(ch2, reg2[Head(u).blk], Head(u).pos)
    BY DEF ReturnInv
  <2>1. /\ Head(u) = At(u, Len(u)) /\ Len(u) \in 1..Len(u)
        /\ At(u, Len(u)).op \in MergeOps
    BY <1>1 DEF MergeOps
  <2>2. Len(u) \in 1..(Len(s) - 1) /\ Head(u) = At(s, Len(u))
    BY <1>1, <1>2, <2>1
  <2>3. calls = << >> /\ Len(u) + 1 = Len(s)
    BY <1>1, <2>2
  <2> QED
    BY <1>1, <1>5, <2>1, <2>2, <2>3 DEF Replies
<1>8. u # << >> => Head(u).op # "merge"
  <2> SUFFICES ASSUME u # << >>, Head(u).op = "merge" PROVE FALSE
    OBVIOUS
  <2>1. /\ Head(u) = At(u, Len(u)) /\ Len(u) \in 1..Len(u)
        /\ At(u, Len(u)).op \in MergeOps
    BY <1>1 DEF MergeOps
  <2>2. Len(u) \in 1..(Len(s) - 1) /\ Head(u) = At(s, Len(u))
    BY <1>1, <1>2, <2>1
  <2> QED
    BY <1>1, <1>5, <2>1, <2>2
<1> QED
  BY <1>3, <1>4, <1>6, <1>7, <1>8 DEF StackInv

\* No merge is running beneath a part of a merge or its cleanup.
LEMMA OneMerge ==
  ASSUME NEW s \in Seq(Frames), s # << >>,
         NEW ch, NEW reg, NEW pool, NEW buf, NEW ev, StackInv(s, ch, reg, pool, buf, ev),
         Head(s).op \in MergeOps \union {"cleanup"} \/ ~ ev
  PROVE  /\ \A h \in 1..(Len(s) - 1) : At(s, h).op \notin MergeOps
         /\ Head(s).op = "cleanup" \/ ~ ev => \A h \in 1..(Len(s) - 1) : At(s, h).op # "cleanup"
         /\ Head(s).op \in MergeOps => Len(s) - 1 \in 1..(Len(s) - 1) /\ At(s, Len(s) - 1).op = "cleanup"
<1>1. Len(s) \in Nat \ {0} /\ At(s, Len(s)) = Head(s)
  BY DEF At
<1>2. Head(s).op \in MergeOps => Len(s) - 1 \in 1..(Len(s) - 1) /\ At(s, Len(s) - 1).op = "cleanup"
  BY <1>1 DEF StackInv, Nested
<1>3. \A h \in 1..(Len(s) - 1) : h \in 1..Len(s) /\ h # Len(s)
  BY <1>1
<1>4. ~ ev \/ \E c \in 1..Len(s) : c >= Len(s) - 1 /\ At(s, c).op = "cleanup"
  BY <1>1, <1>2
<1>5. ASSUME NEW h \in 1..(Len(s) - 1), At(s, h).op \in MergeOps PROVE FALSE
  <2>1. h - 1 \in 1..Len(s) /\ At(s, h - 1).op = "cleanup"
    BY <1>1, <1>5 DEF StackInv, Nested
  <2>2. ev /\ \A c \in 1..Len(s) : At(s, c).op = "cleanup" => c = h - 1
    BY <2>1 DEF StackInv
  <2> QED
    BY <1>1, <1>4, <2>2
<1>6. Head(s).op = "cleanup" \/ ~ ev => \A h \in 1..(Len(s) - 1) : At(s, h).op # "cleanup"
  BY <1>1, <1>3 DEF StackInv
<1> QED
  BY <1>2, <1>5, <1>6

\* When the merge or its cleanup returns, no merge is left; where none was
\* running, none is.
LEMMA MergeEnds ==
  ASSUME NEW s \in Seq(Frames), s # << >>, NEW calls, Len(calls) = 0, NEW u, Replaced(s, calls, u),
         NEW ch, NEW reg, NEW pool, NEW buf, NEW ev, StackInv(s, ch, reg, pool, buf, ev),
         Head(s).op \in MergeOps \union {"cleanup"} \/ ~ ev,
         NEW ch2, NEW reg2, NEW pool2, NEW buf2, NEW ev2, NEW r2,
         Head(s).op = "cleanup" \/ ev2 = ev
  PROVE  /\ StackInv(u, ch2, reg2, pool2, buf2, ev2) /\ ReturnInv(u, r2, ch2, reg2)
         /\ u # << >> => Head(u).op # "merge"
<1>2. /\ Len(s) \in Nat \ {0} /\ Len(u) = Len(s) - 1
      /\ \A h \in 1..Len(u) : h \in 1..(Len(s) - 1) /\ h \in 1..Len(s) /\ At(u, h) = At(s, h)
      /\ u # << >> => Head(u) = At(u, Len(u)) /\ Len(u) \in 1..Len(u)
  BY DEF Replaced
<1>3. /\ \A h \in 1..Len(u) : At(u, h).op \notin MergeOps
      /\ Head(s).op = "cleanup" \/ ~ ev => \A h \in 1..Len(u) : At(u, h).op # "cleanup"
  BY <1>2, OneMerge
<1>4. u # << >> => Head(u).op \notin MergeOps
  BY <1>2, <1>3
<1>5. StackInv(u, ch2, reg2, pool2, buf2, ev2)
  <2>1. \A h \in 1..Len(u) : At(u, h).op = "route" => At(u, h).blk # Genesis
    BY <1>2 DEF StackInv
  <2>2. \A h \in 1..Len(u) : At(u, h).op = "cleanup" =>
          ev2 /\ \A k \in 1..Len(u) : At(u, k).op = "cleanup" => k = h
    <3>1. CASE Head(s).op = "cleanup"
      BY <1>3, <3>1
    <3>2. CASE ev2 = ev
      BY <1>2, <3>2 DEF StackInv
    <3> QED
      BY <3>1, <3>2
  <2> QED
    BY <1>3, <2>1, <2>2 DEF StackInv
<1> QED
  BY <1>4, <1>5 DEF ReturnInv, MergeOps

\* A merge goes on: with its append loop, or with a block to add and the check.
LEMMA MergeMoves ==
  ASSUME NEW s \in Seq(Frames), s # << >>, NEW calls, NEW u, Replaced(s, calls, u),
         NEW ch, NEW reg, NEW pool, NEW buf, NEW ev, StackInv(s, ch, reg, pool, buf, ev),
         Head(s).op \in MergeOps,
         NEW ch2, NEW reg2, NEW pool2, NEW buf2, NEW r2,
         NEW f, f \in Frames, Target(f, ch2, reg2, pool2, buf2),
         \/ Len(calls) = 1 /\ calls[1] = f /\ f.op = "append"
         \/ /\ Len(calls) = 2 /\ calls[2] = f /\ f.op = "check" /\ calls[1].op = "add"
            /\ Spares(calls[1], f.blk) /\ Answers(calls[1], f, ch2, reg2)
  PROVE  /\ StackInv(u, ch2, reg2, pool2, buf2, ev) /\ ReturnInv(u, r2, ch2, reg2)
         /\ u # << >> /\ Head(u).op \in {"append", "add"}
<1>2. PICK n \in Nat \ {0} : n = Len(s)
  BY DEF Replaced
<1>3. /\ n - 1 \in 1..(n - 1) /\ At(s, n - 1).op = "cleanup"
      /\ \A h \in 1..(n - 1) : At(s, h).op \notin MergeOps
  BY <1>2, OneMerge
<1>4. \A h \in 1..(n - 1) : At(u, h) = At(s, h) /\ h \in 1..Len(s)
  BY <1>2 DEF Replaced
<1>5. /\ Len(u) \in n..(n + 1) /\ At(u, n) = f /\ f.op \in {"append", "check"}
      /\ Len(u) = n => f.op = "append"
      /\ Len(u) = n + 1 => /\ f.op = "check" /\ At(u, n + 1).op = "add"
                           /\ Spares(At(u, n + 1), f.blk)
                           /\ Answers(At(u, n + 1), f, ch2, reg2)
  <2>1. \A h \in n..Len(u) : At(u, h) = calls[Len(u) + 1 - h]
    BY <1>2 DEF Replaced
  <2>2. Len(u) = Len(calls) + n - 1
    BY <1>2 DEF Replaced
  <2>3. CASE Len(calls) = 1 /\ calls[1] = f /\ f.op = "append"
    <3>1. Len(u) = n /\ n \in n..Len(u) /\ Len(u) + 1 - n = 1
      BY <1>2, <2>2, <2>3
    <3> QED
      BY <1>2, <2>1, <2>3, <3>1
  <2>4. CASE /\ Len(calls) = 2 /\ calls[2] = f /\ f.op = "check" /\ calls[1].op = "add"
             /\ Spares(calls[1], f.blk) /\ Answers(calls[1], f, ch2, reg2)
    <3>1. /\ Len(u) = n + 1 /\ n \in n..Len(u) /\ Len(u) + 1 - n = 2
          /\ n + 1 \in n..Len(u) /\ Len(u) + 1 - (n + 1) = 1
      BY <1>2, <2>2, <2>4
    <3>2. At(u, n) = f /\ At(u, n + 1) = calls[1]
      BY <2>1, <2>4, <3>1
    <3> QED
      BY <1>2, <2>4, <3>1, <3>2
  <2> QED
    BY <2>3, <2>4
<1>6. \A h \in 1..Len(u) : h \in 1..(n - 1) \/ h = n \/ (h = n + 1 /\ Len(u) = n + 1)
  BY <1>2, <1>5
<1>7. \A h \in 1..Len(u) : At(u, h).op = "route" => At(u, h).blk # Genesis
  BY <1>2, <1>4, <1>5, <1>6 DEF StackInv
<1>8. \A h \in 1..Len(u) : At(u, h).op = "cleanup" => h \in 1..(n - 1)
  BY <1>5, <1>6
<1>9. \A h \in 1..Len(u) : At(u, h).op = "cleanup" =>
        ev /\ \A k \in 1..Len(u) : At(u, k).op = "cleanup" => k = h
  BY <1>4, <1>8 DEF StackInv
<1>10. \A h \in 1..Len(u) : At(u, h).op \in MergeOps => h = n
  BY <1>3, <1>4, <1>5, <1>6 DEF MergeOps
<1>11. Nested(u, n)
  <2>1. n > 1 /\ At(u, n - 1).op = "cleanup"
    BY <1>3, <1>4
  <2>2. \A k \in (n + 1)..Len(u) : k = n + 1 /\ Len(u) = n + 1
    BY <1>2, <1>5
  <2> QED
    BY <1>5, <2>1, <2>2 DEF Nested
<1>12. n < Len(u) => Answers(At(u, n + 1), At(u, n), ch2, reg2)
  BY <1>2, <1>5
<1>13. StackInv(u, ch2, reg2, pool2, buf2, ev)
  BY <1>5, <1>7, <1>9, <1>10, <1>11, <1>12 DEF StackInv
<1>14. u # << >> /\ Head(u).op \in {"append", "add"}
  <2>1. u # << >> /\ Head(u) = At(u, Len(u))
    <3>1. Len(u) # 0
      BY <1>2, <1>5
    <3> QED
      BY <3>1 DEF Replaced
  <2> QED
    BY <1>2, <1>5, <2>1
<1> QED
  BY <1>13, <1>14 DEF ReturnInv

\* evaluatePendingForksLocked starts a merge only when none is running.
LEMMA MergeStarts ==
  ASSUME NEW s \in Seq(Frames), s # << >>,
         NEW calls, Len(calls) = 2, calls[1].op = "merge", calls[2].op = "cleanup",
         NEW u, Replaced(s, calls, u),
         NEW ch, NEW reg, NEW pool, NEW buf, NEW ev, StackInv(s, ch, reg, pool, buf, ev), ~ ev,
         NEW ch2, NEW reg2, NEW pool2, NEW buf2, NEW r2, NEW ev2, ev2,
         Target(calls[1], ch2, reg2, pool2, buf2)
  PROVE  /\ StackInv(u, ch2, reg2, pool2, buf2, ev2) /\ ReturnInv(u, r2, ch2, reg2)
<1>1. PICK m, c : m = calls[1] /\ c = calls[2]
  OBVIOUS
<1>2. PICK n \in Nat \ {0} : n = Len(s)
  BY DEF Replaced
<1>3. \A h \in 1..(n - 1) : At(s, h).op \notin MergeOps /\ At(s, h).op # "cleanup"
  BY <1>2, OneMerge
<1>4. \A h \in 1..(n - 1) : At(u, h) = At(s, h) /\ h \in 1..Len(s)
  BY <1>2 DEF Replaced
<1>5. Len(u) = n + 1 /\ At(u, n) = c /\ At(u, n + 1) = m
  <2>1. Len(u) = n + 1 /\ \A h \in n..Len(u) : At(u, h) = calls[Len(u) + 1 - h]
    BY <1>2 DEF Replaced
  <2>2. /\ n \in n..Len(u) /\ Len(u) + 1 - n = 2
        /\ n + 1 \in n..Len(u) /\ Len(u) + 1 - (n + 1) = 1
    BY <1>2, <2>1
  <2> QED
    BY <1>1, <2>1, <2>2
<1>6. \A h \in 1..Len(u) : h \in 1..(n - 1) \/ h = n \/ h = n + 1
  BY <1>2, <1>5
<1>7. \A h \in 1..Len(u) : At(u, h).op = "route" => At(u, h).blk # Genesis
  BY <1>1, <1>4, <1>5, <1>6 DEF StackInv
<1>8. \A h \in 1..Len(u) : At(u, h).op = "cleanup" => h = n
  BY <1>1, <1>3, <1>4, <1>5, <1>6
<1>9. \A h \in 1..Len(u) : At(u, h).op \in MergeOps => h = n + 1
  BY <1>1, <1>3, <1>4, <1>5, <1>6 DEF MergeOps
<1>10. Nested(u, n + 1)
  BY <1>1, <1>2, <1>5 DEF Nested
<1>11. StackInv(u, ch2, reg2, pool2, buf2, ev2)
  <2>1. \A h \in 1..Len(u) : At(u, h).op = "cleanup" =>
          ev2 /\ \A k \in 1..Len(u) : At(u, k).op = "cleanup" => k = h
    BY <1>8
  <2>2. ~ (n + 1 < Len(u))
    BY <1>2, <1>5
  <2> QED
    BY <1>1, <1>5, <1>7, <1>9, <1>10, <2>1, <2>2 DEF StackInv
<1>12. u # << >> => Head(u) = m
  BY <1>2, <1>5 DEF Replaced
<1> QED
  BY <1>1, <1>11, <1>12 DEF ReturnInv

-----------------------------------------------------------------------------
(* What else the merge relies on. *)

\* The main chain and every candidate are the paths to their last blocks.
Paths(ch, reg) ==
  /\ Straight(ch)
  /\ \A t \in Blocks : reg[t] # << >> => Straight(reg[t]) /\ Last(reg[t]) = t

\* A candidate whose last block has orphans waiting for it is about to be given
\* them, or is part of the main chain.
Waiting(stk, ch, reg, pool) ==
  \A t \in Blocks : reg[t] # << >> /\ Children(t, pool) # {} =>
    \/ InChain(t, ch)
    \/ stk # << >> /\ Head(stk).op = "attach" /\ Head(stk).blk = t

\* Nothing waits for a candidate when a merge begins.
Quiet(stk, reg, pool) ==
  stk # << >> /\ Head(stk).op = "merge" =>
    \A t \in Blocks : reg[t] # << >> => Children(t, pool) = {}

\* t is not the block of the most work.
Outweighed(t, ch, reg) ==
  \/ AccumulatedWork[t] <= AccumulatedWork[Last(ch)]
  \/ \E u \in Blocks : reg[u] # << >> /\ AccumulatedWork[u] > AccumulatedWork[t]

\* A block is buffered when its parent is the tip: since then neither its parent
\* nor its grandparent can be what the next merge is after.
BufferInv(buf, ch, reg) ==
  \A f \in buf : f # Genesis =>
    /\ Outweighed(Parent[f], ch, reg)
    /\ Parent[f] # Genesis => Outweighed(Parent[Parent[f]], ch, reg)

\* The work at hand does not get less.
NoLess(ch, ch2, reg, reg2) ==
  /\ \/ AccumulatedWork[Last(ch)] <= AccumulatedWork[Last(ch2)]
     \/ \E v \in Blocks : reg2[v] # << >> /\ AccumulatedWork[v] > AccumulatedWork[Last(ch)]
  /\ \A u \in Blocks : reg[u] # << >> =>
       \/ AccumulatedWork[u] <= AccumulatedWork[Last(ch2)]
       \/ \E v \in Blocks : reg2[v] # << >> /\ AccumulatedWork[v] >= AccumulatedWork[u]

\* What was outweighed stays so.
LEMMA StillOutweighed ==
  ASSUME NEW ch, NEW ch2, NEW reg, NEW reg2, Straight(ch), Straight(ch2),
         NoLess(ch, ch2, reg, reg2), NEW t \in Blocks, Outweighed(t, ch, reg)
  PROVE  Outweighed(t, ch2, reg2)
<1>1. Last(ch) \in Blocks /\ Last(ch2) \in Blocks
  BY StraightEnd
<1>2. \A b \in Blocks : AccumulatedWork[b] \in Nat
  BY WorkTyped
<1>3. CASE AccumulatedWork[t] <= AccumulatedWork[Last(ch)]
  BY <1>1, <1>2, <1>3 DEF NoLess, Outweighed
<1>4. ASSUME NEW u \in Blocks, reg[u] # << >>, AccumulatedWork[u] > AccumulatedWork[t]
      PROVE  Outweighed(t, ch2, reg2)
  <2>1. CASE AccumulatedWork[u] <= AccumulatedWork[Last(ch2)]
    BY <1>1, <1>2, <1>4, <2>1 DEF Outweighed
  <2>2. CASE \E v \in Blocks : reg2[v] # << >> /\ AccumulatedWork[v] >= AccumulatedWork[u]
    BY <1>1, <1>2, <1>4, <2>2 DEF Outweighed
  <2> QED
    BY <1>4, <2>1, <2>2 DEF NoLess
<1> QED
  BY <1>3, <1>4 DEF Outweighed

\* What is known of the buffered blocks stays known.
LEMMA BufferKept ==
  ASSUME NEW ch, NEW ch2, NEW reg, NEW reg2, Straight(ch), Straight(ch2),
         NoLess(ch, ch2, reg, reg2), NEW buf \in SUBSET Blocks, BufferInv(buf, ch, reg)
  PROVE  BufferInv(buf, ch2, reg2)
<1>1. \A f \in buf : Parent[f] \in Blocks /\ Parent[Parent[f]] \in Blocks
  BY BlocksAssumption
<1> QED
  BY <1>1, StillOutweighed DEF BufferInv

\* The last block of a chain weighs less than one appended to it.
LEMMA LongerWeighsMore ==
  ASSUME NEW ch, Straight(ch), NEW b \in Blocks \ {Genesis}, Parent[b] = Last(ch)
  PROVE  AccumulatedWork[Last(ch)] <= AccumulatedWork[b]
<1>1. Last(ch) \in Blocks
  BY StraightEnd
<1> QED
  BY <1>1, WorkGrows, WorkTyped

-----------------------------------------------------------------------------
(* The registry and the pool. *)

\* Genesis stays on the main chain, and every block's parent with it.
LEMMA OnChain ==
  ASSUME NEW ch, Straight(ch)
  PROVE  /\ InChain(Genesis, ch) /\ InChain(Last(ch), ch)
         /\ \A b \in Blocks \ {Genesis} : InChain(b, ch) => InChain(Parent[b], ch)
         /\ \A b \in Blocks : InChain(b, ch) => AccumulatedWork[b] <= AccumulatedWork[Last(ch)]
<1>1. /\ Len(ch) \in Nat \ {0} /\ ch[1] = Genesis
      /\ \A i \in 2..Len(ch) : Parent[ch[i]] = ch[i - 1]
  BY StraightEnd DEF Straight, Linked
<1>2. 1 \in 1..Len(ch) /\ Len(ch) \in 1..Len(ch)
  BY <1>1
<1>3. \A b \in Blocks \ {Genesis} : InChain(b, ch) => InChain(Parent[b], ch)
  <2> SUFFICES ASSUME NEW b \in Blocks \ {Genesis}, NEW i \in 1..Len(ch), ch[i] = b
               PROVE  InChain(Parent[b], ch)
    BY DEF InChain, Elems
  <2>1. i \in 2..Len(ch) /\ i - 1 \in 1..Len(ch)
    BY <1>1
  <2> QED
    BY <1>1, <2>1 DEF InChain, Elems
<1>4. \A b \in Blocks : InChain(b, ch) => AccumulatedWork[b] <= AccumulatedWork[Last(ch)]
  BY WorkAlong DEF InChain, Elems
<1> QED
  BY <1>1, <1>2, <1>3, <1>4 DEF InChain, Elems, Last

\* Registration makes b a candidate, in the place of its parent if that was one,
\* and leaves the other candidates alone.
LEMMA RegisteredIs ==
  ASSUME IInv, Paths(chain, side), NEW b \in Blocks \ {Genesis},
         ParentInSide(b) \/ ParentInMain(b)
  PROVE  /\ Paths(chain, Registered(b))
         /\ Registered(b)[b] # << >>
         /\ \A t \in Blocks : t # Parent[b] /\ side[t] # << >> => Registered(b)[t] = side[t]
         /\ \A t \in Blocks : t # b /\ Registered(b)[t] # << >> =>
              side[t] # << >> /\ (t = Parent[b] => ~ ParentInSide(b))
         /\ NoLess(chain, chain, side, Registered(b))
<1> DEFINE p == Parent[b]
<1>1. p \in Blocks /\ b \in Blocks /\ b # Genesis /\ p # b
  <2>1. p \in Blocks
    BY BlocksAssumption
  <2> QED
    BY <2>1, WorkGrows, WorkTyped
<1>2. side \in [Blocks -> Seq(Blocks)] /\ Straight(chain)
  BY DEF IInv, TypeOK, Paths
<1>3. PICK new : /\ new \in Seq(Blocks) /\ new # << >> /\ Straight(new) /\ Last(new) = b
                 /\ ParentInSide(b) => new = Append(side[p], b)
                 /\ ~ ParentInSide(b) => new = Append(Prefix(chain, Position(p, chain)), b)
  <2>1. CASE ParentInSide(b)
    <3>1. Straight(side[p]) /\ Last(side[p]) = p
      BY <1>1, <2>1 DEF ParentInSide, Paths
    <3>2. Straight(Append(side[p], b)) /\ Last(Append(side[p], b)) = b
      BY <1>1, <3>1, StraightAppend
    <3> QED
      BY <2>1, <3>2 DEF Straight, Linked
  <2>2. CASE ~ ParentInSide(b)
    <3>1. PICK n : n = Position(p, chain)
      OBVIOUS
    <3>2. n \in 1..Len(chain) /\ chain[n] = p
      BY <1>2, <2>2, <3>1, PositionInChain DEF ParentInMain, Straight
    <3>3. Straight(Prefix(chain, n)) /\ Last(Prefix(chain, n)) = p
      BY <1>2, <3>2, StraightPrefix
    <3>4. Straight(Append(Prefix(chain, n), b)) /\ Last(Append(Prefix(chain, n), b)) = b
      BY <1>1, <3>3, StraightAppend
    <3> QED
      BY <2>2, <3>1, <3>4 DEF Straight, Linked
  <2> QED
    BY <2>1, <2>2
<1>4. side[b] # << >> => side[b] = new
  <2>1. side[b] # << >> => Straight(side[b]) /\ Last(side[b]) = b
    BY <1>1 DEF Paths
  <2> QED
    BY <1>3, <2>1, OnePath
<1>5. PICK reg : reg = Registered(b)
  OBVIOUS
<1>6. /\ reg[b] = new
      /\ reg[p] = IF ParentInSide(b) THEN << >> ELSE side[p]
      /\ \A t \in Blocks : t # b /\ t # p => reg[t] = side[t]
  <2>1. CASE ParentInSide(b)
    BY <1>1, <1>2, <1>3, <1>4, <1>5, <2>1 DEF Registered
  <2>2. CASE ~ ParentInSide(b)
    BY <1>1, <1>2, <1>3, <1>5, <2>2 DEF Registered
  <2> QED
    BY <2>1, <2>2
<1>7. Paths(chain, reg)
  BY <1>1, <1>2, <1>3, <1>6 DEF Paths
<1>8. \A t \in Blocks : t # p /\ side[t] # << >> => reg[t] = side[t]
  BY <1>4, <1>6
<1>9. \A t \in Blocks : t # b /\ reg[t] # << >> =>
        side[t] # << >> /\ (t = p => ~ ParentInSide(b))
  BY <1>6 DEF ParentInSide
<1>10. NoLess(chain, chain, side, reg)
  <2>1. Last(chain) \in Blocks /\ AccumulatedWork[Last(chain)] \in Nat
    BY <1>2, StraightEnd, WorkTyped
  <2>2. AccumulatedWork[p] <= AccumulatedWork[b]
    BY <1>1, WorkGrows, WorkTyped
  <2>3. \A u \in Blocks : AccumulatedWork[u] \in Nat
    BY WorkTyped
  <2>4. ASSUME NEW u \in Blocks, side[u] # << >>
        PROVE  \E v \in Blocks : reg[v] # << >> /\ AccumulatedWork[v] >= AccumulatedWork[u]
    <3>1. CASE u = p
      BY <1>1, <1>3, <1>6, <2>2, <2>3, <3>1
    <3>2. CASE u # p
      BY <1>8, <2>3, <2>4, <3>2
    <3> QED
      BY <3>1, <3>2
  <2> QED
    BY <2>1, <2>4 DEF NoLess
<1> QED
  BY <1>3, <1>5, <1>6, <1>7, <1>8, <1>9, <1>10

\* Cleaning removes the candidates that the main chain contains.
LEMMA CleanedIs ==
  ASSUME IInv, Paths(chain, side)
  PROVE  /\ Paths(chain, Cleaned)
         /\ \A t \in Blocks : Cleaned[t] # << >> => ~ InChain(t, chain) /\ Cleaned[t] = side[t]
         /\ NoLess(chain, chain, side, Cleaned)
<1>1. side \in [Blocks -> Seq(Blocks)] /\ Straight(chain)
  BY DEF IInv, TypeOK, Paths
<1>2. \A t \in Blocks : side[t] # << >> => side[t][1] = chain[1]
  BY <1>1 DEF Paths, Straight, Linked
<1>3. \A t \in Blocks : Cleaned[t] = IF InChain(t, chain) THEN << >> ELSE side[t]
  BY <1>2 DEF Cleaned
<1>4. Last(chain) \in Blocks /\ \A u \in Blocks : AccumulatedWork[u] \in Nat
  BY <1>1, StraightEnd, WorkTyped
<1>5. NoLess(chain, chain, side, Cleaned)
  <2>1. \A u \in Blocks : InChain(u, chain) => AccumulatedWork[u] <= AccumulatedWork[Last(chain)]
    BY <1>1, OnChain
  <2>2. ASSUME NEW u \in Blocks, side[u] # << >>, ~ InChain(u, chain)
        PROVE  \E v \in Blocks : Cleaned[v] # << >> /\ AccumulatedWork[v] >= AccumulatedWork[u]
    BY <1>3, <1>4, <2>2
  <2> QED
    BY <1>4, <2>1, <2>2 DEF NoLess
<1> QED
  BY <1>1, <1>3, <1>5 DEF Paths

\* What may wait afterwards: what waited before, and the blocks of new.
Keeps(pool, pool2, new) == Pooled(pool2) \subseteq Pooled(pool) \union new

\* A vector that is kept holds no other block.
LEMMA RankedKeeps ==
  ASSUME NEW keep \in SUBSET Blocks, NEW pool
  PROVE  Pooled(Ranked(keep, pool)) \subseteq keep
  BY DEF Pooled, Ranked

\* Appending a block adds that block only.
LEMMA PushedKeeps ==
  ASSUME NEW pool \in [Blocks -> Nat], NEW b \in Blocks
  PROVE  Keeps(pool, Pushed(b, pool), {b})
  BY DEF Keeps, Pooled, Pushed

\* addBlock's sweep adds nothing to the pool, its store one block.
LEMMA SweepKeeps ==
  ASSUME TypeOK, NEW b \in Blocks
  PROVE  /\ Keeps(orphans, PoolAfterSweep(b), {})
         /\ \A c \in Blocks : Keeps(orphans, Pushed(c, PoolAfterSweep(b)), {c})
         /\ SweepOnly(b) => Keeps(orphans, orphans', {})
         /\ SweepAndStore(b) => Keeps(orphans, orphans', {b})
<1>1. Pooled(orphans) \ Swept(b) \in SUBSET Blocks
  BY DEF Pooled
<1>2. Pooled(PoolAfterSweep(b)) \subseteq Pooled(orphans)
  BY <1>1, RankedKeeps DEF PoolAfterSweep
<1>3. \A c \in Blocks : Keeps(PoolAfterSweep(b), Pushed(c, PoolAfterSweep(b)), {c})
  BY SweepTyped, PushedKeeps
<1> QED
  BY <1>2, <1>3 DEF Keeps, SweepOnly, SweepAndStore

\* Where no child of t is new, none waits that did not.
LEMMA KeptChildren ==
  ASSUME NEW pool, NEW pool2, NEW new, Keeps(pool, pool2, new), NEW t,
         \A b \in new : Parent[b] # t
  PROVE  Children(t, pool2) \subseteq Children(t, pool)
  BY DEF Keeps, Children

-----------------------------------------------------------------------------
(* The invariant, action by action. *)

MInv ==
  /\ StackInv(stack, chain, side, orphans, future, evaluating)
  /\ ReturnInv(stack, ret, chain, side)
  /\ Paths(chain, side)
  /\ Waiting(stack, chain, side, orphans)
  /\ Quiet(stack, side, orphans)
  /\ BufferInv(future, chain, side)

\* A step of a call that is no part of a merge.
LEMMA PlainStep ==
  ASSUME IInv, MInv, stack # << >>, NEW calls \in Seq(Frames), Replace(calls),
         Top.op \notin MergeOps \union {"cleanup"}, Plain(calls), Grows(chain, chain'),
         Leaves(Top, calls, side, side', orphans, orphans', future, future'),
         Replies(Top, calls, chain, chain', side, side', orphans, future, ret'),
         evaluating' = evaluating, Paths(chain', side'),
         Waiting(stack', chain', side', orphans'),
         BufferInv(future', chain', side')
  PROVE  MInv'
<1>1. stack \in Seq(Frames) /\ Top = Head(stack) /\ stack' = calls \o Tail(stack)
  BY DEF IInv, TypeOK, Top, Replace
<1>2. StackInv(stack, chain, side, orphans, future, evaluating)
  BY DEF MInv
<1>3. /\ StackInv(stack', chain', side', orphans', future', evaluating)
      /\ ReturnInv(stack', ret', chain', side')
      /\ stack' # << >> => Head(stack').op # "merge"
  BY <1>1, <1>2, Continue
<1>4. Quiet(stack', side', orphans')
  BY <1>3 DEF Quiet
<1>5. StackInv(stack', chain', side', orphans', future', evaluating')
  BY <1>3
<1> QED
  BY <1>3, <1>4, <1>5 DEF MInv

\* A chain that stays has not lost a block.
LEMMA SameGrows ==
  ASSUME NEW ch, Straight(ch)
  PROVE  Grows(ch, ch)
  BY DEF Grows, Straight

\* Where no candidate is new and no orphan waits that did not, nothing new waits.
LEMMA StillWaiting ==
  ASSUME NEW stk, NEW ch, NEW reg, NEW pool, Waiting(stk, ch, reg, pool),
         ~ (stk # << >> /\ Head(stk).op = "attach"),
         NEW stk2, NEW ch2, NEW reg2, NEW pool2,
         \A t \in Blocks : InChain(t, ch) => InChain(t, ch2),
         \A t \in Blocks : reg2[t] # << >> =>
           reg[t] # << >> /\ Children(t, pool2) \subseteq Children(t, pool)
  PROVE  Waiting(stk2, ch2, reg2, pool2)
<1> SUFFICES ASSUME NEW t \in Blocks, reg2[t] # << >>, Children(t, pool2) # {}
             PROVE  InChain(t, ch2)
  BY DEF Waiting
<1>1. reg[t] # << >> /\ Children(t, pool) # {}
  OBVIOUS
<1> QED
  BY <1>1 DEF Waiting

\* addBlock returns without having touched the main chain or the registry.
LEMMA RefusalStep ==
  ASSUME IInv, MInv, stack # << >>, Top.op \in {"add", "route"},
         NEW b \in Blocks, b = Top.blk,
         Replace(<< >>), ret' # "Added", UNCHANGED <<chain, side, evaluating>>,
         \/ Keeps(orphans, orphans', {})
         \/ b # Genesis /\ ~ ParentInSide(b) /\ Keeps(orphans, orphans', {b}),
         \/ future' \subseteq future
         \/ b # Genesis /\ Parent[b] = Tip /\ future' \subseteq future \union {b}
  PROVE  MInv'
<1>1. /\ Straight(chain) /\ Paths(chain', side') /\ Grows(chain, chain')
      /\ stack \in Seq(Frames) /\ future \in SUBSET Blocks
  BY SameGrows DEF MInv, Paths, IInv, TypeOK
<1>2. \A t \in Blocks : (side[t] # << >> /\ ~ (b # Genesis /\ Parent[b] = t)) =>
        Children(t, orphans') \subseteq Children(t, orphans)
  BY KeptChildren DEF Keeps, Children
<1>3. Leaves(Top, << >>, side, side', orphans, orphans', future, future')
  <2> SUFFICES ASSUME NEW t \in Blocks, Alive(t, side, orphans, future), Spares(Top, t)
               PROVE  Alive(t, side, orphans', future')
    BY DEF Leaves
  <2>1. Apart(b, t)
    BY DEF Spares
  <2>2. Children(t, orphans') = {}
    <3>1. ~ (b # Genesis /\ Parent[b] = t) /\ side[t] # << >> /\ Children(t, orphans) = {}
      BY <2>1 DEF Apart, Alive
    <3> QED
      BY <1>2, <3>1
  <2>3. \A g \in future' : Apart(g, t)
    BY <2>1 DEF Alive
  <2> QED
    BY <2>2, <2>3 DEF Alive
<1>4. Replies(Top, << >>, chain, chain', side, side', orphans, future, ret')
  BY DEF Replies
<1>5. Waiting(stack', chain', side', orphans')
  <2>1. ~ (stack # << >> /\ Head(stack).op = "attach")
    BY DEF Top
  <2>2. \A t \in Blocks : side'[t] # << >> =>
          side[t] # << >> /\ Children(t, orphans') \subseteq Children(t, orphans)
    <3> SUFFICES ASSUME NEW t \in Blocks, side[t] # << >>
                 PROVE  Children(t, orphans') \subseteq Children(t, orphans)
      OBVIOUS
    <3>1. CASE b # Genesis /\ Parent[b] = t
      <4>1. ParentInSide(b)
        BY <3>1 DEF ParentInSide
      <4>2. Keeps(orphans, orphans', {})
        BY <4>1
      <4> QED
        BY <4>2, KeptChildren
    <3>2. CASE ~ (b # Genesis /\ Parent[b] = t)
      BY <1>2, <3>2
    <3> QED
      BY <3>1, <3>2
  <2>3. Waiting(stack, chain, side, orphans) /\ chain' = chain
    BY DEF MInv
  <2> QED
    BY <2>1, <2>2, <2>3, StillWaiting
<1>6. BufferInv(future', chain', side')
  <2>1. BufferInv(future, chain, side) /\ chain' = chain /\ side' = side
    BY DEF MInv
  <2>2. CASE future' \subseteq future
    BY <2>1, <2>2 DEF BufferInv
  <2>3. CASE b # Genesis /\ Parent[b] = Tip /\ future' \subseteq future \union {b}
    <3>1. Last(chain) \in Blocks /\ AccumulatedWork[Last(chain)] \in Nat
      BY <1>1, StraightEnd, WorkTyped
    <3>2. Outweighed(Parent[b], chain, side)
      BY <2>3, <3>1 DEF Outweighed, Tip
    <3>3. Parent[b] # Genesis => Outweighed(Parent[Parent[b]], chain, side)
      <4>1. Parent[Last(chain)] \in Blocks
        BY <3>1, BlocksAssumption
      <4>2. Last(chain) # Genesis => InChain(Parent[Last(chain)], chain)
        BY <1>1, <3>1, OnChain
      <4>3. Last(chain) # Genesis =>
              AccumulatedWork[Parent[Last(chain)]] <= AccumulatedWork[Last(chain)]
        BY <1>1, <4>1, <4>2, OnChain
      <4> QED
        BY <2>3, <4>3 DEF Outweighed, Tip
    <3> QED
      BY <2>1, <2>3, <3>2, <3>3 DEF BufferInv
  <2> QED
    BY <2>2, <2>3
<1>7. Plain(<< >>) /\ << >> \in Seq(Frames) /\ Top.op \notin MergeOps \union {"cleanup"}
  BY DEF Plain, MergeOps
<1> QED
  BY <1>1, <1>3, <1>4, <1>5, <1>6, <1>7, PlainStep

\* A block joins a side chain, and the calls of rest follow.
LEMMA RegisterStep ==
  ASSUME IInv, MInv, stack # << >>, Top.op \in {"add", "route"},
         NEW c \in Blocks \ {Genesis}, NEW rest \in Seq(Frames), RegisterThen(c, rest),
         rest # << >>, Plain(rest), UNCHANGED <<chain, evaluating, future>>,
         Keeps(orphans, orphans', {c}),
         \A t \in Blocks : Spares(Top, t) =>
           Parent[c] # t /\ \A i \in 1..Len(rest) : Spares(rest[i], t),
         \/ rest[Len(rest)].op = "sideChain"
         \/ rest[Len(rest)].op = "route" /\ rest[Len(rest)].blk = Top.blk
  PROVE  MInv'
<1>1. /\ Straight(chain) /\ Paths(chain, side) /\ Grows(chain, chain')
      /\ stack \in Seq(Frames) /\ chain' = chain
      /\ Top.op \notin MergeOps \union {"cleanup"}
  BY SameGrows DEF MInv, Paths, IInv, TypeOK, MergeOps
<1>2. \A t \in Blocks : Parent[c] # t => Children(t, orphans') \subseteq Children(t, orphans)
  BY KeptChildren
<1>3. \A t \in Blocks : side[t] # << >> /\ Children(t, orphans) # {} => InChain(t, chain)
  BY DEF MInv, Waiting, Top
<1>4. BufferInv(future, chain, side) /\ future \in SUBSET Blocks
  BY DEF MInv, IInv, TypeOK
<1>5. CASE Registrable(c)
  <2>1. PICK calls : calls = <<Call("attach", c)>> \o rest
    OBVIOUS
  <2>2. side' = Registered(c) /\ Replace(calls)
    BY <1>5, <2>1 DEF RegisterThen
  <2>3. /\ Paths(chain, Registered(c))
        /\ \A t \in Blocks : t # Parent[c] /\ side[t] # << >> => Registered(c)[t] = side[t]
        /\ \A t \in Blocks : t # c /\ Registered(c)[t] # << >> =>
             side[t] # << >> /\ (t = Parent[c] => ~ ParentInSide(c))
        /\ NoLess(chain, chain, side, Registered(c))
    BY <1>1, <1>5, RegisteredIs DEF Registrable
  <2>4. /\ calls \in Seq(Frames) /\ Len(calls) = Len(rest) + 1 /\ Len(rest) \in Nat \ {0}
        /\ calls[1] = Call("attach", c) /\ \A i \in 1..Len(rest) : calls[i + 1] = rest[i]
        /\ calls[Len(calls)] = rest[Len(rest)] /\ calls # << >>
    <3>1. Call("attach", c) \in Frames
      BY CallTyped DEF Ops
    <3> QED
      BY <2>1, <3>1
  <2>5. \A i \in 1..Len(calls) : i = 1 \/ (i - 1 \in 1..Len(rest) /\ calls[i] = rest[i - 1])
    <3> SUFFICES ASSUME NEW i \in 1..Len(calls), i # 1
                 PROVE  i - 1 \in 1..Len(rest) /\ calls[i] = rest[i - 1]
      OBVIOUS
    <3>1. i - 1 \in 1..Len(rest) /\ i = (i - 1) + 1
      BY <2>4
    <3> QED
      BY <2>4, <3>1
  <2>6. calls[1].op = "attach" /\ calls[1].blk = c
    BY <2>4 DEF Call
  <2>7. Plain(calls)
    BY <2>5, <2>6 DEF Plain, MergeOps
  <2>8. Leaves(Top, calls, side, side', orphans, orphans', future, future')
    <3> SUFFICES ASSUME NEW t \in Blocks, Alive(t, side, orphans, future), Spares(Top, t)
                 PROVE  /\ side'[t] = side[t] /\ Alive(t, side', orphans', future')
                        /\ \A i \in 1..Len(calls) : Spares(calls[i], t)
      BY DEF Leaves
    <3>1. Parent[c] # t /\ \A i \in 1..Len(rest) : Spares(rest[i], t)
      OBVIOUS
    <3>2. side'[t] = side[t]
      BY <2>2, <2>3, <3>1 DEF Alive
    <3>3. Alive(t, side', orphans', future')
      BY <1>2, <3>1, <3>2 DEF Alive
    <3>4. Spares(calls[1], t)
      BY <2>6, <3>1 DEF Spares
    <3> QED
      BY <2>5, <3>1, <3>2, <3>3, <3>4
  <2>9. Replies(Top, calls, chain, chain', side, side', orphans, future, ret')
    BY <2>4 DEF Replies, Answers
  <2>10. Paths(chain', side')
    BY <1>1, <2>2, <2>3
  <2>11. stack' # << >> /\ Head(stack').op = "attach" /\ Head(stack').blk = c
    <3>1. Tail(stack) \in Seq(Frames) /\ stack' = calls \o Tail(stack)
      BY <1>1, <2>2 DEF Replace
    <3>2. stack' # << >> /\ Head(stack') = calls[1]
      BY <2>4, <3>1
    <3> QED
      BY <2>6, <3>2
  <2>12. Waiting(stack', chain', side', orphans')
    <3> SUFFICES ASSUME NEW t \in Blocks, side'[t] # << >>, Children(t, orphans') # {}, t # c
                 PROVE  InChain(t, chain')
      BY <2>11 DEF Waiting
    <3>1. side[t] # << >> /\ (t = Parent[c] => ~ ParentInSide(c))
      BY <2>2, <2>3
    <3>2. t # Parent[c]
      BY <3>1 DEF ParentInSide
    <3> QED
      BY <1>1, <1>2, <1>3, <3>1, <3>2
  <2>13. BufferInv(future', chain', side')
    <3>1. BufferInv(future, chain, Registered(c))
      BY <1>1, <1>4, <2>3, BufferKept
    <3> QED
      BY <1>1, <2>2, <3>1
  <2> QED
    BY <1>1, <2>2, <2>4, <2>7, <2>8, <2>9, <2>10, <2>12, <2>13, PlainStep
<1>6. CASE ~ Registrable(c)
  <2>1. side' = side /\ Replace(rest)
    BY <1>6 DEF RegisterThen
  <2>2. Leaves(Top, rest, side, side', orphans, orphans', future, future')
    BY <1>2, <2>1 DEF Leaves, Alive
  <2>3. Replies(Top, rest, chain, chain', side, side', orphans, future, ret')
    BY DEF Replies, Answers
  <2>4. Waiting(stack', chain', side', orphans')
    <3> SUFFICES ASSUME NEW t \in Blocks, side[t] # << >>, Children(t, orphans') # {}
                 PROVE  InChain(t, chain)
      BY <1>1, <2>1 DEF Waiting
    <3>1. CASE t = Parent[c]
      <4>1. InChain(c, chain)
        BY <1>6, <3>1 DEF Registrable, ParentInSide
      <4> QED
        BY <1>1, <3>1, <4>1, OnChain
    <3>2. CASE t # Parent[c]
      BY <1>2, <1>3, <3>2
    <3> QED
      BY <3>1, <3>2
  <2>5. Paths(chain', side') /\ BufferInv(future', chain', side')
    BY <1>1, <1>4, <2>1
  <2> QED
    BY <1>1, <2>1, <2>2, <2>3, <2>4, <2>5, PlainStep
<1> QED
  BY <1>5, <1>6

\* The block extends the main chain.
LEMMA ExtendKeepsMInv ==
  ASSUME IInv, MInv, stack # << >>, Top.op = "add",
         NEW b \in Blocks, b = Top.blk, AddExtend(b)
  PROVE  MInv'
<1>1. /\ Straight(chain) /\ Paths(chain, side) /\ chain \in Seq(Blocks)
      /\ stack \in Seq(Frames) /\ future \in SUBSET Blocks
      /\ BufferInv(future, chain, side) /\ Top.op \notin MergeOps \union {"cleanup"}
  BY DEF MInv, Paths, IInv, TypeOK, MergeOps, Straight
<1>2. /\ b # Genesis /\ Parent[b] = Last(chain) /\ chain' = Append(chain, b)
      /\ side' = side /\ evaluating' = evaluating /\ future' = future
      /\ Keeps(orphans, orphans', {})
  <2>1. InChain(Genesis, chain)
    BY <1>1, OnChain
  <2>2. SweepOnly(b) => Keeps(orphans, orphans', {})
    BY SweepKeeps DEF IInv
  <2> QED
    BY <2>1, <2>2 DEF AddExtend, OnTip, KnownHash, Tip, forkVars
<1>3. Straight(chain') /\ Last(chain') = b
  BY <1>1, <1>2, StraightAppend
<1>4. /\ Grows(chain, chain')
      /\ Len(chain') = Len(chain) + 1 /\ chain'[Len(chain) + 1] = b
  BY <1>1, <1>2 DEF Grows
<1>5. PICK calls : calls = <<CallAt("future", b, Index[b] + 1), Call("attach", b),
                             Call("eval", b), Call("added", b)>>
  OBVIOUS
<1>6. /\ calls \in Seq(Frames) /\ Replace(calls) /\ Len(calls) = 4 /\ calls # << >>
      /\ calls[1].op = "future" /\ calls[2].op = "attach" /\ calls[2].blk = b
      /\ calls[3].op = "eval" /\ calls[4].op = "added"
  <2>1. /\ CallAt("future", b, Index[b] + 1) \in Frames
        /\ Call("attach", b) \in Frames
        /\ Call("eval", b) \in Frames
        /\ Call("added", b) \in Frames
    BY CallTyped, CallAtTyped, BlocksAssumption DEF Ops
  <2>2. Replace(calls)
    BY <1>5 DEF AddExtend
  <2> QED
    BY <1>5, <2>1, <2>2 DEF Call, CallAt
<1>7. \A i \in 1..Len(calls) : i = 1 \/ i = 2 \/ i = 3 \/ i = 4
  BY <1>6
<1>8. Plain(calls)
  BY <1>6, <1>7 DEF Plain, MergeOps
<1>9. \A t \in Blocks : Children(t, orphans') \subseteq Children(t, orphans)
  BY <1>2, KeptChildren
<1>10. Leaves(Top, calls, side, side', orphans, orphans', future, future')
  <2> SUFFICES ASSUME NEW t \in Blocks, Alive(t, side, orphans, future), Spares(Top, t)
               PROVE  /\ Alive(t, side, orphans', future)
                      /\ \A i \in 1..Len(calls) : Spares(calls[i], t)
    BY <1>2 DEF Leaves
  <2>1. Apart(b, t)
    BY DEF Spares
  <2>2. \A i \in 1..Len(calls) : Spares(calls[i], t)
    BY <1>2, <1>6, <1>7, <2>1 DEF Spares, Apart
  <2> QED
    BY <1>9, <2>2 DEF Alive
<1>11. Replies(Top, calls, chain, chain', side, side', orphans, future, ret')
  <2> SUFFICES ASSUME NEW g \in Frames, Target(g, chain, side, orphans, future),
                      g.op = "check", b = side[g.blk][g.pos]
               PROVE  Done(chain', side[g.blk], g.pos)
    BY <1>2, <1>6 DEF Replies, Answers
  <2>1. PICK s, n : s = side[g.blk] /\ n = g.pos
    OBVIOUS
  <2>2. g.blk \in Blocks
    BY DEF Frames
  <2>3. Straight(s) /\ n \in 2..Len(s) /\ Follows(chain, s, n - 1) /\ s[n] = b
    BY <1>1, <2>1, <2>2 DEF Target, Alive, Paths
  <2>4. Parent[b] = s[n - 1] /\ Len(s) \in Nat
    BY <2>3 DEF Straight, Linked
  <2>5. n - 1 \in 1..Len(chain) /\ chain[n - 1] = s[n - 1] /\ Len(chain) \in 1..Len(chain)
    BY <1>1, <2>3, <2>4 DEF Follows
  <2>6. chain[n - 1] = chain[Len(chain)]
    BY <1>2, <2>4, <2>5 DEF Last
  <2>7. n - 1 = Len(chain)
    BY <1>1, <2>5, <2>6, StraightDistinct
  <2>8. n = Len(chain) + 1
    BY <1>1, <2>3, <2>4, <2>7
  <2> QED
    BY <1>1, <1>4, <2>1, <2>3, <2>8 DEF Done
<1>12. Waiting(stack', chain', side', orphans')
  <2>1. \A t \in Blocks : InChain(t, chain) => InChain(t, chain')
    BY <1>1, <1>2 DEF InChain, Elems
  <2>2. ~ (stack # << >> /\ Head(stack).op = "attach") /\ Waiting(stack, chain, side, orphans)
    BY DEF Top, MInv
  <2> QED
    BY <1>2, <1>9, <2>1, <2>2, StillWaiting
<1>13. BufferInv(future', chain', side')
  <2>1. NoLess(chain, chain', side, side)
    <3>1. AccumulatedWork[Last(chain)] <= AccumulatedWork[Last(chain')]
      BY <1>1, <1>2, <1>3, LongerWeighsMore
    <3>2. \A u \in Blocks : AccumulatedWork[u] >= AccumulatedWork[u]
      BY WorkTyped
    <3> QED
      BY <3>1, <3>2 DEF NoLess
  <2> QED
    BY <1>1, <1>2, <1>3, <2>1, BufferKept
<1>14. Paths(chain', side')
  BY <1>1, <1>2, <1>3 DEF Paths
<1> QED
  BY <1>1, <1>2, <1>4, <1>6, <1>8, <1>10, <1>11, <1>12, <1>13, <1>14, PlainStep

\* addBlock up to the first call it makes.
LEMMA AddBlockKeepsMInv ==
  ASSUME IInv, MInv, AddBlock
  PROVE  MInv'
<1> DEFINE b == Top.blk
<1>1. /\ stack # << >> /\ Top.op = "add" /\ b \in Blocks
      /\ stack \in Seq(Frames) /\ TypeOK
  BY TopTyped DEF AddBlock, Running, Top, IInv, TypeOK
<1>2. \A r : Return(r) => Replace(<< >>)
  BY <1>1 DEF Return, Replace
<1>3. InChain(Genesis, chain)
  BY OnChain DEF MInv, Paths
<1>4. /\ SweepOnly(b) => Keeps(orphans, orphans', {})
      /\ SweepAndStore(b) => Keeps(orphans, orphans', {b})
      /\ \A c \in Blocks : Keeps(orphans, Pushed(c, PoolAfterSweep(b)), {c})
  BY <1>1, SweepKeeps
<1>5. Keeps(orphans, orphans, {})
  BY DEF Keeps
<1>6. CASE AddRefuse(b)
  <2>1. /\ Replace(<< >>) /\ ret' # "Added" /\ UNCHANGED <<chain, side, evaluating>>
        /\ Keeps(orphans, orphans', {}) /\ future' \subseteq future
    BY <1>2, <1>5, <1>6 DEF AddRefuse, Return, poolVars
  <2> QED
    BY <1>1, <2>1, RefusalStep
<1>7. CASE AddTipStale(b) \/ AddBadTime(b)
  <2>1. /\ Replace(<< >>) /\ ret' # "Added" /\ UNCHANGED <<chain, side, evaluating>>
        /\ Keeps(orphans, orphans', {}) /\ future' \subseteq future
    BY <1>2, <1>4, <1>7 DEF AddTipStale, AddBadTime, Return, forkVars
  <2> QED
    BY <1>1, <2>1, RefusalStep
<1>8. CASE AddOrphan(b)
  <2>1. b # Genesis /\ ~ ParentInSide(b)
    BY <1>3, <1>8 DEF AddOrphan, OffTip, KnownHash
  <2>2. /\ Replace(<< >>) /\ ret' # "Added" /\ UNCHANGED <<chain, side, evaluating>>
        /\ Keeps(orphans, orphans', {}) \/ Keeps(orphans, orphans', {b})
        /\ future' \subseteq future
    BY <1>2, <1>4, <1>8 DEF AddOrphan, Return, forkVars
  <2> QED
    BY <1>1, <2>1, <2>2, RefusalStep
<1>9. CASE AddRejectOnTip(b)
  <2>1. b # Genesis /\ Parent[b] = Tip
    BY <1>3, <1>9 DEF AddRejectOnTip, OnTip, KnownHash
  <2>2. /\ Replace(<< >>) /\ ret' # "Added" /\ UNCHANGED <<chain, side, evaluating>>
        /\ Keeps(orphans, orphans', {})
        /\ future' \subseteq future \union {b}
    BY <1>2, <1>4, <1>9 DEF AddRejectOnTip, Return, forkVars
  <2> QED
    BY <1>1, <2>1, <2>2, RefusalStep
<1>10. CASE AddSide(b)
  <2>1. b # Genesis /\ b \in Blocks \ {Genesis}
    BY <1>1, <1>3, <1>10 DEF AddSide, OffTip, KnownHash
  <2>2. CASE PoolSize(PoolAfterSweep(b)) >= MaxOrphans
    <3>1. /\ SweepOnly(b) /\ Return("Dropped")
          /\ UNCHANGED <<chain, side, evaluating, future>>
      BY <1>10, <2>2 DEF AddSide
    <3>2. Replace(<< >>) /\ ret' # "Added" /\ future' \subseteq future
      BY <1>2, <3>1 DEF Return
    <3>3. Keeps(orphans, orphans', {}) /\ UNCHANGED <<chain, side, evaluating>>
      BY <1>4, <3>1
    <3> QED
      BY <1>1, <3>2, <3>3, RefusalStep
  <2>3. CASE ~ PoolSize(PoolAfterSweep(b)) >= MaxOrphans
    <3>1. PICK rest : rest = <<Call("eval", b), Call("sideChain", b)>>
      OBVIOUS
    <3>2. /\ RegisterThen(b, rest) /\ Keeps(orphans, orphans', {b})
          /\ UNCHANGED <<chain, evaluating, future>>
      BY <1>4, <1>10, <2>3, <3>1 DEF AddSide
    <3>3. /\ rest \in Seq(Frames) /\ rest # << >> /\ Len(rest) = 2
          /\ rest[1].op = "eval" /\ rest[2].op = "sideChain"
      <4>1. Call("eval", b) \in Frames /\ Call("sideChain", b) \in Frames
        BY <1>1, CallTyped DEF Ops
      <4> QED
        BY <3>1, <4>1 DEF Call
    <3>4. \A i \in 1..Len(rest) : i = 1 \/ i = 2
      BY <3>3
    <3>5. Plain(rest)
      BY <3>3, <3>4 DEF Plain, MergeOps
    <3>6. \A t \in Blocks : Spares(Top, t) =>
            Parent[b] # t /\ \A i \in 1..Len(rest) : Spares(rest[i], t)
      BY <1>1, <2>1, <3>3, <3>4 DEF Spares, Apart
    <3> QED
      BY <1>1, <2>1, <3>2, <3>3, <3>5, <3>6, RegisterStep
  <2> QED
    BY <2>2, <2>3
<1>11. CASE AddPromote(b)
  <2>1. PICK p : p = Parent[b]
    OBVIOUS
  <2>2. b # Genesis /\ p \in Blocks \ {Genesis}
    BY <1>1, <1>3, <1>11, <2>1, BlocksAssumption
       DEF AddPromote, OffTip, KnownHash, ParentInMain
  <2>3. PICK rest : rest = <<Call("route", b)>>
    OBVIOUS
  <2>4. RegisterThen(p, rest) /\ UNCHANGED <<chain, evaluating, future>>
    BY <1>11, <2>1, <2>3 DEF AddPromote
  <2>5. Keeps(orphans, orphans', {p})
    <3>1. SweepOnly(b) \/ orphans' = Pushed(p, PoolAfterSweep(b))
      BY <1>11, <2>1 DEF AddPromote
    <3>2. Keeps(orphans, orphans', {}) => Keeps(orphans, orphans', {p})
      BY DEF Keeps
    <3> QED
      BY <1>4, <2>2, <3>1, <3>2
  <2>6. /\ rest \in Seq(Frames) /\ rest # << >> /\ Len(rest) = 1
        /\ rest[1].op = "route" /\ rest[1].blk = b
    <3>1. Call("route", b) \in Frames
      BY <1>1, CallTyped DEF Ops
    <3> QED
      BY <2>3, <3>1 DEF Call
  <2>7. Plain(rest)
    BY <2>2, <2>6 DEF Plain, MergeOps
  <2>8. \A t \in Blocks : Spares(Top, t) =>
          Parent[p] # t /\ \A i \in 1..Len(rest) : Spares(rest[i], t)
    BY <1>1, <2>1, <2>2, <2>6 DEF Spares, Apart
  <2> QED
    BY <1>1, <2>2, <2>4, <2>5, <2>6, <2>7, <2>8, RegisterStep
<1>12. CASE AddExtend(b)
  BY <1>1, <1>12, ExtendKeepsMInv
<1> QED
  BY <1>6, <1>7, <1>8, <1>9, <1>10, <1>11, <1>12 DEF AddBlock

\* addBlock after the cached parent was promoted.
LEMMA RouteKeepsMInv ==
  ASSUME IInv, MInv, Route
  PROVE  MInv'
<1> DEFINE b == Top.blk
<1>1. /\ stack # << >> /\ Top.op = "route" /\ b \in Blocks
      /\ stack \in Seq(Frames) /\ orphans \in [Blocks -> Nat]
  BY TopTyped DEF Route, Running, Top, IInv, TypeOK
<1>2. b # Genesis
  <2>1. Len(stack) \in 1..Len(stack) /\ At(stack, Len(stack)) = Top
    BY <1>1 DEF At, Top
  <2> QED
    BY <1>1, <2>1 DEF MInv, StackInv
<1>3. \A r : Return(r) => Replace(<< >>)
  BY <1>1 DEF Return, Replace
<1>4. /\ Keeps(orphans, orphans', {b}) /\ UNCHANGED <<chain, evaluating, future>>
      /\ orphans' = orphans => Keeps(orphans, orphans', {})
  <2>1. Keeps(orphans, Pushed(b, orphans), {b})
    BY <1>1, PushedKeeps
  <2>2. Keeps(orphans, orphans, {b}) /\ Keeps(orphans, orphans, {})
    BY DEF Keeps
  <2> QED
    BY <2>1, <2>2 DEF Route
<1>5. CASE RegisterThen(b, <<Call("eval", b), Call("sideChain", b)>>)
  <2>1. PICK rest : rest = <<Call("eval", b), Call("sideChain", b)>>
    OBVIOUS
  <2>2. /\ rest \in Seq(Frames) /\ rest # << >> /\ Len(rest) = 2
        /\ rest[1].op = "eval" /\ rest[2].op = "sideChain"
    <3>1. Call("eval", b) \in Frames /\ Call("sideChain", b) \in Frames
      BY <1>1, CallTyped DEF Ops
    <3> QED
      BY <2>1, <3>1 DEF Call
  <2>3. \A i \in 1..Len(rest) : i = 1 \/ i = 2
    BY <2>2
  <2>4. Plain(rest)
    BY <2>2, <2>3 DEF Plain, MergeOps
  <2>5. \A t \in Blocks : Spares(Top, t) =>
          Parent[b] # t /\ \A i \in 1..Len(rest) : Spares(rest[i], t)
    BY <1>1, <1>2, <2>2, <2>3 DEF Spares, Apart
  <2>6. RegisterThen(b, rest)
    BY <1>5, <2>1
  <2> QED
    BY <1>1, <1>2, <1>4, <2>2, <2>4, <2>5, <2>6, RegisterStep
<1>6. CASE ~ ParentInSide(b) /\ Return("QueuedOrphan") /\ UNCHANGED side
  <2>1. Replace(<< >>) /\ ret' # "Added"
    BY <1>3, <1>6 DEF Return
  <2> QED
    BY <1>1, <1>2, <1>4, <1>6, <2>1, RefusalStep
<1>7. CASE PoolSize(orphans) >= MaxOrphans /\ Return("Dropped") /\ UNCHANGED side
  <2>1. Replace(<< >>) /\ ret' # "Added"
    BY <1>3, <1>7 DEF Return
  <2>2. Keeps(orphans, orphans', {})
    BY <1>4, <1>7 DEF Route
  <2> QED
    BY <1>1, <1>4, <1>7, <2>1, <2>2, RefusalStep
<1> QED
  BY <1>5, <1>6, <1>7 DEF Route

\* A call that changes neither the main chain nor the registry.
LEMMA CallStep ==
  ASSUME IInv, MInv, stack # << >>, NEW calls \in Seq(Frames), Replace(calls),
         Top.op \notin MergeOps \union {"cleanup"}, Plain(calls),
         UNCHANGED <<chain, side, evaluating>>,
         Keeps(orphans, orphans', {}), future' \subseteq future,
         \A t \in Blocks : Alive(t, side, orphans, future) /\ Spares(Top, t) =>
           \A i \in 1..Len(calls) : Spares(calls[i], t),
         \/ Top.op \notin {"add", "route", "added", "sideChain"}
         \/ Replies(Top, calls, chain, chain', side, side', orphans, future, ret'),
         Top.op # "attach" \/ Waiting(stack', chain', side', orphans')
  PROVE  MInv'
<1>1. /\ Straight(chain) /\ Paths(chain', side') /\ Grows(chain, chain')
      /\ Waiting(stack, chain, side, orphans) /\ chain' = chain /\ side' = side
  BY SameGrows DEF MInv, Paths
<1>2. \A t \in Blocks : Children(t, orphans') \subseteq Children(t, orphans)
  BY KeptChildren
<1>3. Leaves(Top, calls, side, side', orphans, orphans', future, future')
  BY <1>2 DEF Leaves, Alive
<1>4. Replies(Top, calls, chain, chain', side, side', orphans, future, ret')
  BY DEF Replies, Answers
<1>5. Waiting(stack', chain', side', orphans')
  <2>1. ASSUME Top.op # "attach" PROVE Waiting(stack', chain', side', orphans')
    <3>1. ~ (stack # << >> /\ Head(stack).op = "attach")
      BY <2>1 DEF Top
    <3> QED
      BY <1>1, <1>2, <3>1, StillWaiting
  <2> QED
    BY <2>1
<1>6. BufferInv(future', chain', side')
  BY DEF MInv, BufferInv
<1> QED
  BY <1>1, <1>3, <1>4, <1>5, <1>6, PlainStep

\* Such a call returns.
LEMMA PopStep ==
  ASSUME IInv, MInv, stack # << >>, Replace(<< >>),
         Top.op \notin MergeOps \union {"cleanup"},
         UNCHANGED <<chain, side, evaluating>>,
         Keeps(orphans, orphans', {}), future' \subseteq future,
         \/ Top.op \notin {"add", "route", "added", "sideChain"}
         \/ Replies(Top, << >>, chain, chain', side, side', orphans, future, ret'),
         Top.op # "attach" \/ Waiting(stack', chain', side', orphans')
  PROVE  MInv'
<1>1. PICK calls : calls = << >>
  OBVIOUS
<1>2. calls \in Seq(Frames) /\ Len(calls) = 0
  BY <1>1
<1>3. Plain(calls) /\ \A t \in Blocks : \A i \in 1..Len(calls) : Spares(calls[i], t)
  BY <1>2 DEF Plain
<1>4. /\ Replace(calls)
      /\ \/ Top.op \notin {"add", "route", "added", "sideChain"}
         \/ Replies(Top, calls, chain, chain', side, side', orphans, future, ret')
  BY <1>1
<1> QED
  BY <1>2, <1>3, <1>4, CallStep

\* tryAttachOrphans takes everything that waits for the block.
LEMMA AttachKeepsMInv ==
  ASSUME IInv, MInv, Attach
  PROVE  MInv'
<1>1. PICK p, waiting : p = Top.blk /\ waiting = Children(Top.blk, orphans)
  OBVIOUS
<1>2. /\ stack # << >> /\ Top.op = "attach" /\ p \in Blocks
      /\ orphans \in [Blocks -> Nat] /\ waiting \in SUBSET Blocks
      /\ Waiting(stack, chain, side, orphans)
  BY <1>1, TopTyped DEF Attach, Running, Top, IInv, TypeOK, Children, Pooled, MInv
<1>3. /\ UNCHANGED <<chain, side, evaluating, future>>
      /\ orphans' = [b \in Blocks |-> IF b \in waiting THEN 0 ELSE orphans[b]]
      /\ waiting = {} => Replace(<< >>)
      /\ waiting # {} => Replace(<<CallAll("kids", Ranked(waiting, orphans), 0)>>)
  BY <1>1 DEF Attach, forkVars
<1>4. /\ Keeps(orphans, orphans', {}) /\ Children(p, orphans') = {}
      /\ \A t \in Blocks : Children(t, orphans') \subseteq Children(t, orphans)
  BY <1>1, <1>2, <1>3 DEF Keeps, Pooled, Children
<1>5. Waiting(stack', chain', side', orphans')
  <2> SUFFICES ASSUME NEW t \in Blocks, side[t] # << >>, Children(t, orphans') # {}
               PROVE  InChain(t, chain)
    BY <1>3 DEF Waiting
  <2>1. t # p /\ Children(t, orphans) # {}
    BY <1>4
  <2> QED
    BY <1>1, <1>2, <2>1 DEF Waiting, Top
<1>6. CASE waiting = {}
  BY <1>2, <1>3, <1>4, <1>5, <1>6, PopStep DEF MergeOps
<1>7. CASE waiting # {}
  <2>1. PICK kids : kids = Ranked(waiting, orphans)
    OBVIOUS
  <2>2. kids \in [Blocks -> Nat] /\ Pooled(kids) \subseteq waiting
    BY <1>2, <2>1, PoolTyped, RankedKeeps
  <2>3. PICK calls : calls = <<CallAll("kids", kids, 0)>>
    OBVIOUS
  <2>4. /\ calls \in Seq(Frames) /\ Len(calls) = 1
        /\ calls[1].op = "kids" /\ calls[1].kids = kids
    <3>1. CallAll("kids", kids, 0) \in Frames
      BY <2>2, CallAllTyped DEF Ops
    <3> QED
      BY <2>3, <3>1 DEF CallAll
  <2>5. Plain(calls)
    BY <2>4 DEF Plain, MergeOps
  <2>6. ASSUME NEW t \in Blocks, Alive(t, side, orphans, future), Spares(Top, t)
        PROVE  \A i \in 1..Len(calls) : Spares(calls[i], t)
    <3>1. p # Genesis /\ Parent[p] # t
      BY <1>1, <1>2, <2>6 DEF Spares
    <3>2. p # t
      BY <1>1, <1>7, <2>6 DEF Alive
    <3>3. \A c \in Pooled(kids) : Apart(c, t)
      BY <1>1, <2>2, <3>1, <3>2 DEF Apart, Children
    <3> QED
      BY <2>4, <3>3 DEF Spares
  <2>7. Replace(calls)
    BY <1>3, <1>7, <2>1, <2>3
  <2> QED
    BY <1>2, <1>3, <1>4, <1>5, <2>4, <2>5, <2>6, <2>7, CallStep DEF MergeOps
<1> QED
  BY <1>6, <1>7

\* Its loop gives them to addBlock one by one.
LEMMA AttachChildKeepsMInv ==
  ASSUME IInv, MInv, AttachChild
  PROVE  MInv'
<1>1. /\ stack # << >> /\ Top.op = "kids" /\ Top.kids \in [Blocks -> Nat]
      /\ UNCHANGED <<chain, side, evaluating, future, orphans>>
      /\ Keeps(orphans, orphans', {})
  BY TopTyped DEF AttachChild, Running, Top, forkVars, Keeps
<1>2. Top.op \notin MergeOps \union {"cleanup"}
  BY <1>1 DEF MergeOps
<1>3. CASE Replace(<< >>)
  BY <1>1, <1>2, <1>3, PopStep
<1>4. ASSUME NEW c \in Pooled(Top.kids),
             Replace(<<Call("add", c), CallAll("kids", [Top.kids EXCEPT ![c] = 0], 0)>>)
      PROVE  MInv'
  <2>1. c \in Blocks
    BY DEF Pooled
  <2>2. PICK kids : kids = [Top.kids EXCEPT ![c] = 0]
    OBVIOUS
  <2>3. kids \in [Blocks -> Nat] /\ Pooled(kids) \subseteq Pooled(Top.kids)
    BY <1>1, <2>1, <2>2 DEF Pooled
  <2>4. PICK calls : calls = <<Call("add", c), CallAll("kids", kids, 0)>>
    OBVIOUS
  <2>5. /\ calls \in Seq(Frames) /\ Len(calls) = 2
        /\ calls[1].op = "add" /\ calls[1].blk = c
        /\ calls[2].op = "kids" /\ calls[2].kids = kids
    <3>1. Call("add", c) \in Frames /\ CallAll("kids", kids, 0) \in Frames
      BY <2>1, <2>3, CallTyped, CallAllTyped DEF Ops
    <3> QED
      BY <2>4, <3>1 DEF Call, CallAll
  <2>6. \A i \in 1..Len(calls) : i = 1 \/ i = 2
    BY <2>5
  <2>7. Plain(calls)
    BY <2>5, <2>6 DEF Plain, MergeOps
  <2>8. \A t \in Blocks : Spares(Top, t) => \A i \in 1..Len(calls) : Spares(calls[i], t)
    BY <1>1, <2>3, <2>5, <2>6 DEF Spares
  <2>9. Replace(calls)
    BY <1>4, <2>2, <2>4
  <2> QED
    BY <1>1, <1>2, <2>5, <2>7, <2>8, <2>9, CallStep
<1> QED
  BY <1>3, <1>4 DEF AttachChild

\* The loop over futureBlocks does the same with the buffered blocks.
LEMMA ApplyFutureKeepsMInv ==
  ASSUME IInv, MInv, ApplyFuture
  PROVE  MInv'
<1>1. /\ stack # << >> /\ Top.op = "future" /\ Top.blk \in Blocks /\ Top.pos \in Nat
      /\ UNCHANGED <<chain, side, evaluating, orphans>>
      /\ Keeps(orphans, orphans', {}) /\ future \in SUBSET Blocks
  BY TopTyped DEF ApplyFuture, Running, Top, forkVars, poolVars, Keeps, IInv, TypeOK
<1>2. Top.op \notin MergeOps \union {"cleanup"}
  BY <1>1 DEF MergeOps
<1>3. CASE Replace(<< >>) /\ UNCHANGED future
  BY <1>1, <1>2, <1>3, PopStep
<1>4. ASSUME NEW f \in future, future' = future \ {f},
             Replace(<<Call("add", f), CallAt("future", Top.blk, Top.pos + 1)>>)
      PROVE  MInv'
  <2>1. PICK calls : calls = <<Call("add", f), CallAt("future", Top.blk, Top.pos + 1)>>
    OBVIOUS
  <2>2. /\ calls \in Seq(Frames) /\ Len(calls) = 2
        /\ calls[1].op = "add" /\ calls[1].blk = f /\ calls[2].op = "future"
    <3>1. Call("add", f) \in Frames /\ CallAt("future", Top.blk, Top.pos + 1) \in Frames
      BY <1>1, CallTyped, CallAtTyped DEF Ops
    <3> QED
      BY <2>1, <3>1 DEF Call, CallAt
  <2>3. \A i \in 1..Len(calls) : i = 1 \/ i = 2
    BY <2>2
  <2>4. Plain(calls)
    BY <2>2, <2>3 DEF Plain, MergeOps
  <2>5. \A t \in Blocks : Alive(t, side, orphans, future) =>
          \A i \in 1..Len(calls) : Spares(calls[i], t)
    BY <2>2, <2>3 DEF Spares, Alive
  <2>6. Replace(calls)
    BY <1>4, <2>1
  <2> QED
    BY <1>1, <1>2, <1>4, <2>2, <2>4, <2>5, <2>6, CallStep
<1> QED
  BY <1>3, <1>4 DEF ApplyFuture

\* addBlock returns what a check may wait for.
LEMMA FinishKeepsMInv ==
  ASSUME IInv, MInv, Finish
  PROVE  MInv'
<1>1. /\ stack # << >> /\ Top.op \in {"added", "sideChain"}
      /\ Top.op = "sideChain" => ret' # "Added"
      /\ UNCHANGED <<chain, side, evaluating, orphans, future>>
      /\ stack' = Tail(stack) /\ stack \in Seq(Frames)
  BY DEF Finish, Running, Return, Top, forkVars, poolVars, IInv, TypeOK
<1>2. /\ Replace(<< >>)
      /\ Keeps(orphans, orphans', {}) /\ Top.op \notin MergeOps \union {"cleanup"}
  BY <1>1 DEF Replace, Keeps, MergeOps
<1>3. Replies(Top, << >>, chain, chain', side, side', orphans, future, ret')
  BY <1>1 DEF Replies, Answers
<1> QED
  BY <1>1, <1>2, <1>3, PopStep

\* reattachOrphans runs outside any merge.
LEMMA ReattachNextKeepsMInv ==
  ASSUME IInv, MInv, ReattachNext
  PROVE  MInv'
<1>1. /\ stack # << >> /\ Top.op \in {"reattach", "reattached"}
      /\ Top.kids \in [Blocks -> Nat] /\ Len(chain) \in Nat
      /\ UNCHANGED <<chain, side, evaluating, orphans, future>>
      /\ Keeps(orphans, orphans', {})
  BY TopTyped
     DEF ReattachNext, Running, Top, forkVars, poolVars, Keeps, IInv, TypeOK
<1>2. Top.op \notin MergeOps \union {"cleanup"} /\ \A t : ~ Spares(Top, t)
  BY <1>1 DEF MergeOps, Spares
<1>3. PICK calls \in Seq(Frames) : Replace(calls) /\ Plain(calls)
  <2>1. CASE Replace(<< >>)
    <3>1. << >> \in Seq(Frames) /\ Plain(<< >>)
      BY DEF Plain
    <3> QED
      BY <2>1, <3>1
  <2>2. CASE Replace(<<Call("eval", Genesis)>>)
    <3>1. PICK calls : calls = <<Call("eval", Genesis)>>
      OBVIOUS
    <3>2. calls \in Seq(Frames) /\ Len(calls) = 1 /\ calls[1].op = "eval"
      <4>1. Call("eval", Genesis) \in Frames
        BY CallTyped, BlocksAssumption DEF Ops
      <4> QED
        BY <3>1, <4>1 DEF Call
    <3>3. Plain(calls)
      BY <3>2 DEF Plain, MergeOps
    <3> QED
      BY <2>2, <3>1, <3>2, <3>3
  <2>3. ASSUME NEW p \in Pooled(Top.kids), NEW op \in {"reattach", "reattached"},
               Replace(<<Call("attach", p),
                         CallAll(op, [Top.kids EXCEPT ![p] = 0], Len(chain))>>)
        PROVE  \E calls \in Seq(Frames) : Replace(calls) /\ Plain(calls)
    <3>1. p \in Blocks /\ op \in Ops
      BY DEF Pooled, Ops
    <3>2. PICK calls : calls = <<Call("attach", p),
                                 CallAll(op, [Top.kids EXCEPT ![p] = 0], Len(chain))>>
      OBVIOUS
    <3>3. /\ calls \in Seq(Frames) /\ Len(calls) = 2
          /\ calls[1].op = "attach" /\ calls[2].op = op
      <4>1. Call("attach", p) \in Frames
        BY <3>1, CallTyped DEF Ops
      <4>2. CallAll(op, [Top.kids EXCEPT ![p] = 0], Len(chain)) \in Frames
        BY <1>1, <3>1, KidRemoved, CallAllTyped
      <4> QED
        BY <3>2, <4>1, <4>2 DEF Call, CallAll
    <3>4. \A i \in 1..Len(calls) : i = 1 \/ i = 2
      BY <3>3
    <3>5. Plain(calls)
      BY <3>3, <3>4 DEF Plain, MergeOps
    <3> QED
      BY <2>3, <3>2, <3>3, <3>5
  <2> QED
    BY <2>1, <2>2, <2>3 DEF ReattachNext
<1> QED
  BY <1>1, <1>2, <1>3, CallStep

-----------------------------------------------------------------------------
(* evaluatePendingForksLocked. *)

\* Whoever is buffered cannot move the heaviest candidate on.
LEMMA HeaviestApart ==
  ASSUME NEW ch, NEW reg, Straight(ch), Paths(ch, reg),
         NEW buf \in SUBSET Blocks, BufferInv(buf, ch, reg), NEW t \in Blocks,
         reg[t] # << >>,
         AccumulatedWork[t] > AccumulatedWork[Last(ch)],
         \A u \in Blocks : reg[u] # << >> => AccumulatedWork[u] <= AccumulatedWork[t]
  PROVE  \A g \in buf : Apart(g, t)
<1>1. Last(ch) \in Blocks /\ \A u \in Blocks : AccumulatedWork[u] \in Nat
  BY StraightEnd, WorkTyped
<1>2. ~ Outweighed(t, ch, reg)
  BY <1>1 DEF Outweighed
<1> QED
  BY <1>2 DEF BufferInv, Apart

\* An evaluation cleans the registry, and starts a merge if none is running.
LEMMA EvaluateKeepsMInv ==
  ASSUME IInv, MInv, Evaluate
  PROVE  MInv'
<1>1. /\ stack # << >> /\ Top.op = "eval" /\ Top = Head(stack)
      /\ UNCHANGED <<chain, orphans, future>> /\ Keeps(orphans, orphans', {})
      /\ Straight(chain) /\ Paths(chain, side) /\ stack \in Seq(Frames)
      /\ StackInv(stack, chain, side, orphans, future, evaluating)
      /\ BufferInv(future, chain, side) /\ future \in SUBSET Blocks /\ evaluating \in BOOLEAN
  BY DEF Evaluate, Running, Top, poolVars, Keeps, MInv, Paths, IInv, TypeOK
<1>2. \A t \in Blocks : side[t] # << >> /\ Children(t, orphans) # {} => InChain(t, chain)
  BY <1>1 DEF MInv, Waiting
<1>3. CASE evaluating
  <2>1. Replace(<< >>) /\ UNCHANGED <<side, evaluating>>
    BY <1>3 DEF Evaluate, forkVars
  <2> QED
    BY <1>1, <2>1, PopStep DEF MergeOps
<1>4. CASE ~ evaluating
  <2>1. /\ Paths(chain, Cleaned)
        /\ \A t \in Blocks : Cleaned[t] # << >> => ~ InChain(t, chain) /\ Cleaned[t] = side[t]
        /\ NoLess(chain, chain, side, Cleaned) /\ side' = Cleaned
    BY <1>1, <1>4, CleanedIs DEF Evaluate
  <2>2. BufferInv(future, chain, Cleaned)
    BY <1>1, <2>1, BufferKept
  <2>3. \A t \in Blocks : side'[t] # << >> => Children(t, orphans') = {}
    BY <1>1, <1>2, <2>1
  <2>4. /\ Waiting(stack', chain', side', orphans') /\ Quiet(stack', side', orphans')
        /\ Paths(chain', side') /\ BufferInv(future', chain', side')
    BY <1>1, <2>1, <2>2, <2>3 DEF Waiting, Quiet
  <2>5. CASE Replace(<< >>) /\ UNCHANGED evaluating
    <3>1. PICK calls : calls = << >>
      OBVIOUS
    <3>2. calls \in Seq(Frames) /\ Len(calls) = 0 /\ stack' = calls \o Tail(stack)
      BY <2>5, <3>1 DEF Replace
    <3>3. Replaced(stack, calls, stack')
      BY <1>1, <3>2, Heights
    <3>4. /\ StackInv(stack', chain', side', orphans', future', evaluating')
          /\ ReturnInv(stack', ret', chain', side')
      BY <1>1, <1>4, <2>5, <3>2, <3>3, MergeEnds
    <3> QED
      BY <2>4, <3>4 DEF MInv
  <2>6. ASSUME NEW t \in Heaviest(Cleaned), evaluating' = TRUE,
               Replace(<<Call("merge", t), Call("cleanup", t)>>)
        PROVE  MInv'
    <3>1. t \in Blocks /\ Cleaned[t] # << >>
      BY DEF Heaviest
    <3>2. \A u \in Blocks : Cleaned[u] # << >> => CumulativeDifficulty(Cleaned[u]) = AccumulatedWork[u]
      BY <2>1 DEF Paths, CumulativeDifficulty
    <3>3. /\ AccumulatedWork[t] > AccumulatedWork[Last(chain)]
          /\ \A u \in Blocks : Cleaned[u] # << >> => AccumulatedWork[u] <= AccumulatedWork[t]
      BY <3>1, <3>2 DEF Heaviest, CumulativeDifficulty
    <3>4. \A g \in future : Apart(g, t)
      BY <1>1, <2>1, <2>2, <3>1, <3>3, HeaviestApart
    <3>5. t # Genesis
      BY <1>1, <2>1, <3>1, OnChain
    <3>6. Alive(t, side', orphans', future')
      BY <1>1, <2>1, <2>3, <3>1, <3>4, <3>5 DEF Alive
    <3>7. PICK m, c : m = Call("merge", t) /\ c = Call("cleanup", t)
      OBVIOUS
    <3>8. /\ m \in Frames /\ m.op = "merge" /\ m.blk = t
          /\ c \in Frames /\ c.op = "cleanup"
      BY <3>1, <3>7, CallTyped DEF Ops, Call
    <3>9. PICK calls : calls = <<m, c>>
      OBVIOUS
    <3>10. /\ calls \in Seq(Frames) /\ Len(calls) = 2 /\ calls[1] = m /\ calls[2] = c
           /\ stack' = calls \o Tail(stack)
      <4>1. Replace(calls)
        BY <2>6, <3>7, <3>9
      <4>2. calls \in Seq(Frames) /\ Len(calls) = 2 /\ calls[1] = m /\ calls[2] = c
        BY <3>8, <3>9
      <4> QED
        BY <4>1, <4>2 DEF Replace
    <3>11. Replaced(stack, calls, stack')
      BY <1>1, <3>10, Heights
    <3>12. Target(m, chain', side', orphans', future')
      BY <3>6, <3>8 DEF Target
    <3>13. evaluating' = TRUE /\ evaluating = FALSE
      BY <1>1, <1>4, <2>6
    <3>14. /\ StackInv(stack', chain', side', orphans', future', evaluating')
           /\ ReturnInv(stack', ret', chain', side')
      <4>1. /\ Len(calls) = 2 /\ calls[1].op = "merge" /\ calls[2].op = "cleanup"
            /\ Target(calls[1], chain', side', orphans', future')
        BY <3>8, <3>10, <3>12
      <4> QED
        BY <1>1, <3>11, <3>13, <4>1, MergeStarts
    <3> QED
      BY <2>4, <3>14 DEF MInv
  <2> QED
    BY <1>4, <2>5, <2>6 DEF Evaluate
<1> QED
  BY <1>3, <1>4

\* After the merge the flag falls and the registry is cleaned again.
LEMMA CleanupKeepsMInv ==
  ASSUME IInv, MInv, Cleanup
  PROVE  MInv'
<1>1. /\ stack # << >> /\ Head(stack).op = "cleanup"
      /\ UNCHANGED <<chain, orphans, future>> /\ side' = Cleaned
      /\ Straight(chain) /\ Paths(chain, side) /\ stack \in Seq(Frames)
      /\ StackInv(stack, chain, side, orphans, future, evaluating)
      /\ BufferInv(future, chain, side) /\ future \in SUBSET Blocks
  BY DEF Cleanup, Running, poolVars, MInv, Paths, IInv, TypeOK
<1>2. \A t \in Blocks : side[t] # << >> /\ Children(t, orphans) # {} => InChain(t, chain)
  BY <1>1 DEF MInv, Waiting
<1>3. /\ Paths(chain, Cleaned)
      /\ \A t \in Blocks : Cleaned[t] # << >> => ~ InChain(t, chain) /\ Cleaned[t] = side[t]
      /\ NoLess(chain, chain, side, Cleaned)
  BY <1>1, CleanedIs
<1>4. BufferInv(future, chain, Cleaned)
  BY <1>1, <1>3, BufferKept
<1>5. \A t \in Blocks : side'[t] # << >> => Children(t, orphans') = {}
  BY <1>1, <1>2, <1>3
<1>6. /\ Waiting(stack', chain', side', orphans') /\ Quiet(stack', side', orphans')
      /\ Paths(chain', side') /\ BufferInv(future', chain', side')
  BY <1>1, <1>3, <1>4, <1>5 DEF Waiting, Quiet
<1>7. PICK calls : calls = << >>
  OBVIOUS
<1>8. calls \in Seq(Frames) /\ Len(calls) = 0 /\ stack' = calls \o Tail(stack)
  BY <1>7 DEF Cleanup, Replace
<1>9. Replaced(stack, calls, stack')
  BY <1>1, <1>8, Heights
<1>10. /\ StackInv(stack', chain', side', orphans', future', evaluating')
       /\ ReturnInv(stack', ret', chain', side')
  BY <1>1, <1>8, <1>9, MergeEnds
<1> QED
  BY <1>6, <1>10 DEF MInv

-----------------------------------------------------------------------------
(* compareAndMergeChains. *)

\* The running merge reads a candidate that is there.
LEMMA MergeReads ==
  ASSUME IInv, MInv, stack # << >>, Top.op \in MergeOps
  PROVE  /\ Top.blk \in Blocks /\ Top.pos \in Nat
         /\ stack \in Seq(Frames) /\ Head(stack).op \in MergeOps
         /\ StackInv(stack, chain, side, orphans, future, evaluating)
         /\ Target(Top, chain, side, orphans, future)
         /\ Straight(chain) /\ Straight(side[Top.blk]) /\ Last(side[Top.blk]) = Top.blk
         /\ Paths(chain, side) /\ BufferInv(future, chain, side)
         /\ future \in SUBSET Blocks
<1>1. stack \in Seq(Frames) /\ Top = Head(stack) /\ future \in SUBSET Blocks
  BY DEF IInv, TypeOK, Top
<1>2. /\ StackInv(stack, chain, side, orphans, future, evaluating)
      /\ Paths(chain, side) /\ BufferInv(future, chain, side)
  BY DEF MInv
<1>3. Len(stack) \in 1..Len(stack) /\ At(stack, Len(stack)) = Top
  BY <1>1 DEF At
<1>4. Target(Top, chain, side, orphans, future)
  BY <1>2, <1>3 DEF StackInv
<1>5. Top.blk \in Blocks /\ Top.pos \in Nat
  BY TopTyped
<1> QED
  BY <1>1, <1>2, <1>4, <1>5 DEF Target, Alive, Paths

\* It returns.
LEMMA MergeReturns ==
  ASSUME IInv, MInv, stack # << >>, Top.op \in MergeOps, Replace(<< >>),
         UNCHANGED <<side, orphans, future, evaluating>>,
         Paths(chain', side), BufferInv(future, chain', side),
         Waiting(stack', chain', side, orphans)
  PROVE  MInv'
<1>1. /\ stack \in Seq(Frames) /\ Head(stack).op \in MergeOps
      /\ StackInv(stack, chain, side, orphans, future, evaluating)
  BY MergeReads
<1>2. PICK calls : calls = << >>
  OBVIOUS
<1>3. calls \in Seq(Frames) /\ Len(calls) = 0 /\ stack' = calls \o Tail(stack)
  BY <1>2 DEF Replace
<1>4. Replaced(stack, calls, stack')
  BY <1>1, <1>3, Heights
<1>5. /\ StackInv(stack', chain', side', orphans', future', evaluating')
      /\ ReturnInv(stack', ret', chain', side')
      /\ stack' # << >> => Head(stack').op # "merge"
  BY <1>1, <1>3, <1>4, MergeEnds
<1>6. Quiet(stack', side', orphans')
  BY <1>5 DEF Quiet
<1>7. /\ Paths(chain', side') /\ BufferInv(future', chain', side')
      /\ Waiting(stack', chain', side', orphans')
  OBVIOUS
<1> QED
  BY <1>5, <1>6, <1>7 DEF MInv

\* It goes on.
LEMMA MergeContinues ==
  ASSUME IInv, MInv, stack # << >>, Top.op \in MergeOps,
         NEW calls \in Seq(Frames), Replace(calls),
         UNCHANGED <<side, orphans, future, evaluating>>,
         Paths(chain', side), BufferInv(future, chain', side),
         Waiting(stack', chain', side, orphans),
         NEW f, f \in Frames, Target(f, chain', side, orphans, future),
         \/ Len(calls) = 1 /\ calls[1] = f /\ f.op = "append"
         \/ /\ Len(calls) = 2 /\ calls[2] = f /\ f.op = "check" /\ calls[1].op = "add"
            /\ Spares(calls[1], f.blk) /\ Answers(calls[1], f, chain', side)
  PROVE  MInv'
<1>1. /\ stack \in Seq(Frames) /\ Head(stack).op \in MergeOps
      /\ StackInv(stack, chain, side, orphans, future, evaluating)
  BY MergeReads
<1>2. Replaced(stack, calls, stack')
  BY <1>1, Heights DEF Replace
<1>3. /\ StackInv(stack', chain', side, orphans, future, evaluating)
      /\ ReturnInv(stack', ret', chain', side)
      /\ stack' # << >> /\ Head(stack').op \in {"append", "add"}
  BY <1>1, <1>2, MergeMoves
<1>4. /\ StackInv(stack', chain', side', orphans', future', evaluating')
      /\ ReturnInv(stack', ret', chain', side')
  BY <1>3
<1>5. Quiet(stack', side', orphans')
  BY <1>3 DEF Quiet
<1>6. /\ Paths(chain', side') /\ BufferInv(future', chain', side')
      /\ Waiting(stack', chain', side', orphans')
  OBVIOUS
<1> QED
  BY <1>4, <1>5, <1>6 DEF MInv

\* compareAndMergeChains up to its append loop.
LEMMA MergeKeepsMInv ==
  ASSUME IInv, MInv, Merge
  PROVE  MInv'
<1>1. PICK t : t = Top.blk
  OBVIOUS
<1>2. /\ stack # << >> /\ Top.op = "merge" /\ Top.op \in MergeOps
      /\ UNCHANGED <<side, orphans, future, evaluating>>
  BY DEF Merge, Running, Top, forkVars, poolVars, MergeOps
<1>3. /\ t \in Blocks /\ Alive(t, side, orphans, future) /\ side[t] # << >>
      /\ Straight(chain) /\ Straight(side[t]) /\ Last(side[t]) = t
      /\ Paths(chain, side) /\ BufferInv(future, chain, side) /\ future \in SUBSET Blocks
  BY <1>1, <1>2, MergeReads DEF Target, Alive
<1>4. Waiting(stack', chain', side, orphans)
  BY <1>2 DEF MInv, Quiet, Waiting, Top
<1>5. \A u \in Blocks : AccumulatedWork[u] \in Nat
  BY WorkTyped
<1>6. Mergeable(t) => AccumulatedWork[t] > AccumulatedWork[Last(chain)]
  BY <1>3 DEF Mergeable, CumulativeDifficulty
<1>7. /\ chain \in Seq(Blocks) /\ side[t] \in Seq(Blocks) /\ chain # << >>
      /\ side[t][1] = chain[1] /\ Len(chain) \in Nat \ {0}
  BY <1>3 DEF Straight, Linked
<1>8. PICK c : c = CommonLength(chain, side[t])
  OBVIOUS
<1>9. c \in 1..Len(chain) /\ c <= Len(side[t]) /\ \A i \in 1..c : chain[i] = side[t][i]
  BY <1>3, <1>7, <1>8, CommonLengthBounds, CommonPrefix
<1>10. c \in Nat /\ Len(side[t]) \in Nat
  BY <1>7, <1>9
<1>11. CASE MergeRefuse(t)
  <2>1. Replace(<< >>) /\ Paths(chain', side) /\ BufferInv(future, chain', side)
    BY <1>3, <1>11 DEF MergeRefuse
  <2> QED
    BY <1>2, <1>4, <2>1, MergeReturns
<1>12. CASE MergeSameLength(t)
  <2>1. Replace(<< >>) /\ chain' = side[t] /\ Mergeable(t)
    BY <1>12 DEF MergeSameLength
  <2>2. Paths(chain', side) /\ Straight(chain')
    BY <1>3, <2>1 DEF Paths
  <2>3. NoLess(chain, chain', side, side)
    <3>1. AccumulatedWork[Last(chain)] <= AccumulatedWork[Last(chain')]
      <4>1. Last(chain) \in Blocks
        BY <1>3, StraightEnd
      <4> QED
        BY <1>3, <1>5, <1>6, <2>1, <4>1
    <3>2. \A u \in Blocks : AccumulatedWork[u] >= AccumulatedWork[u]
      BY <1>5
    <3> QED
      BY <3>1, <3>2 DEF NoLess
  <2>4. BufferInv(future, chain', side)
    BY <1>3, <2>2, <2>3, BufferKept
  <2> QED
    BY <1>2, <1>4, <2>1, <2>2, <2>4, MergeReturns
<1>13. ASSUME NEW n \in 1..c, Replace(<<CallAt("append", t, n)>>), chain' = Prefix(chain, n) \/ chain' = chain,
              Mergeable(t)
       PROVE  MInv'
  <2>1. n \in Nat /\ n \in 1..Len(chain) /\ n \in 1..Len(side[t])
    BY <1>7, <1>9, <1>10
  <2>2. /\ Straight(chain') /\ n <= Len(chain') /\ \A k \in 1..n : chain'[k] = chain[k]
    <3>1. CASE chain' = chain
      BY <1>3, <1>7, <2>1, <3>1
    <3>2. CASE chain' = Prefix(chain, n)
      BY <1>3, <2>1, <3>2, StraightPrefix
    <3> QED
      BY <1>13, <3>1, <3>2
  <2>3. Paths(chain', side)
    BY <1>3, <2>2 DEF Paths
  <2>4. NoLess(chain, chain', side, side)
    <3>1. \E v \in Blocks : side[v] # << >> /\ AccumulatedWork[v] > AccumulatedWork[Last(chain)]
      BY <1>3, <1>6, <1>13
    <3>2. \A u \in Blocks : AccumulatedWork[u] >= AccumulatedWork[u]
      BY <1>5
    <3> QED
      BY <3>1, <3>2 DEF NoLess
  <2>5. BufferInv(future, chain', side)
    BY <1>3, <2>2, <2>4, BufferKept
  <2>6. PICK f : f = CallAt("append", t, n)
    OBVIOUS
  <2>7. f \in Frames /\ f.op = "append" /\ f.blk = t /\ f.pos = n
    BY <1>3, <2>1, <2>6, CallAtTyped DEF Ops, CallAt
  <2>8. Follows(chain', side[t], n)
    <3>1. \A k \in 1..n : k \in 1..c
      BY <1>10
    <3> QED
      BY <1>9, <2>1, <2>2, <3>1 DEF Follows
  <2>9. Target(f, chain', side, orphans, future)
    BY <1>3, <2>7, <2>8 DEF Target
  <2>10. PICK calls : calls = <<f>>
    OBVIOUS
  <2>11. calls \in Seq(Frames) /\ Len(calls) = 1 /\ calls[1] = f /\ Replace(calls)
    BY <1>13, <2>6, <2>7, <2>10
  <2> QED
    BY <1>2, <1>4, <2>3, <2>5, <2>7, <2>9, <2>11, MergeContinues
<1>14. CASE MergeAppend(t)
  <2>1. /\ c = Len(chain) /\ c \in 1..c /\ chain' = chain /\ Mergeable(t)
        /\ Replace(<<CallAt("append", t, Len(chain))>>)
    BY <1>8, <1>9, <1>10, <1>14 DEF MergeAppend, ExtendsMain
  <2> QED
    BY <1>13, <2>1
<1>15. CASE MergeReorganise(t)
  <2>1. /\ c \in 1..c /\ chain' = Prefix(chain, c) /\ Mergeable(t)
        /\ Replace(<<CallAt("append", t, c)>>)
    BY <1>8, <1>9, <1>10, <1>15 DEF MergeReorganise
  <2> QED
    BY <1>13, <2>1
<1> QED
  BY <1>1, <1>11, <1>12, <1>14, <1>15 DEF Merge

\* The append loop takes the next block of the candidate, which is neither the
\* last block's child nor its grandchild.
LEMMA MergeNextKeepsMInv ==
  ASSUME IInv, MInv, MergeNext
  PROVE  MInv'
<1>1. PICK t, s, i : t = Top.blk /\ s = side[Top.blk] /\ i = Top.pos + 1
  OBVIOUS
<1>2. /\ stack # << >> /\ Top.op = "append" /\ Top.op \in MergeOps
      /\ UNCHANGED <<chain, side, orphans, future, evaluating>>
      /\ IF i > Len(s) THEN Replace(<< >>)
         ELSE Replace(<<Call("add", s[i]), CallAt("check", t, i)>>)
  BY <1>1 DEF MergeNext, Running, Top, forkVars, poolVars, MergeOps
<1>3. /\ t \in Blocks /\ Alive(t, side, orphans, future) /\ Follows(chain, s, i - 1)
      /\ i \in Nat /\ Straight(s) /\ Last(s) = t
      /\ Paths(chain', side) /\ BufferInv(future, chain', side)
  BY <1>1, <1>2, MergeReads DEF Target
<1>4. Waiting(stack', chain', side, orphans)
  <2>1. ~ (stack # << >> /\ Head(stack).op = "attach") /\ Waiting(stack, chain, side, orphans)
    BY <1>2 DEF Top, MInv
  <2> QED
    BY <1>2, <2>1, StillWaiting
<1>5. CASE i > Len(s)
  BY <1>2, <1>3, <1>4, <1>5, MergeReturns
<1>6. CASE ~ (i > Len(s))
  <2>1. i \in 2..Len(s) /\ Len(s) \in Nat /\ s \in Seq(Blocks)
    BY <1>3, <1>6 DEF Follows, Straight
  <2>2. PICK b : b = s[i]
    OBVIOUS
  <2>3. b \in Blocks /\ Parent[b] = s[i - 1]
    BY <1>3, <2>1, <2>2 DEF Straight, Linked
  <2>4. Apart(b, t)
    <3>1. \A j \in 1..(Len(s) - 1) : s[j] # t
      <4> SUFFICES ASSUME NEW j \in 1..(Len(s) - 1), s[j] = s[Len(s)] PROVE FALSE
        BY <1>3 DEF Last
      <4>1. j \in 1..Len(s) /\ Len(s) \in 1..Len(s) /\ j # Len(s)
        BY <2>1
      <4> QED
        BY <1>3, <4>1, StraightDistinct
    <3>2. i - 1 \in 1..(Len(s) - 1)
      BY <2>1
    <3>3. CASE i - 1 = 1
      <4>1. Parent[b] = Genesis
        BY <1>3, <2>3, <3>3 DEF Straight, Linked
      <4> QED
        BY <2>3, <3>1, <3>2, <4>1 DEF Apart
    <3>4. CASE i - 1 # 1
      <4>1. i - 1 \in 2..Len(s) /\ i - 2 \in 1..(Len(s) - 1) /\ (i - 1) - 1 = i - 2
        BY <2>1, <3>4
      <4>2. Parent[s[i - 1]] = s[i - 2]
        BY <1>3, <4>1 DEF Straight, Linked
      <4> QED
        BY <2>3, <3>1, <3>2, <4>1, <4>2 DEF Apart
    <3> QED
      BY <3>3, <3>4
  <2>5. PICK a, f : a = Call("add", b) /\ f = CallAt("check", t, i)
    OBVIOUS
  <2>6. /\ a \in Frames /\ a.op = "add" /\ a.blk = b
        /\ f \in Frames /\ f.op = "check" /\ f.blk = t /\ f.pos = i
    BY <1>3, <2>3, <2>5, CallTyped, CallAtTyped DEF Ops, Call, CallAt
  <2>7. PICK calls : calls = <<a, f>>
    OBVIOUS
  <2>8. Replace(calls)
    BY <1>2, <1>6, <2>2, <2>5, <2>7
  <2>9. calls \in Seq(Frames) /\ Len(calls) = 2 /\ calls[1] = a /\ calls[2] = f
    BY <2>6, <2>7
  <2>10. Target(f, chain', side, orphans, future)
    BY <1>1, <1>2, <1>3, <2>1, <2>6 DEF Target
  <2>11. Spares(a, f.blk) /\ Answers(a, f, chain', side)
    BY <1>1, <2>2, <2>4, <2>6 DEF Spares, Answers
  <2> QED
    BY <1>2, <1>3, <1>4, <2>6, <2>8, <2>9, <2>10, <2>11, MergeContinues
<1> QED
  BY <1>5, <1>6

\* The loop goes on when the block was added, and the block is in its place.
LEMMA MergeCheckKeepsMInv ==
  ASSUME IInv, MInv, MergeCheck
  PROVE  MInv'
<1>1. PICK t, s, i : t = Top.blk /\ s = side[Top.blk] /\ i = Top.pos
  OBVIOUS
<1>2. /\ stack # << >> /\ Top.op = "check" /\ Top.op \in MergeOps
      /\ UNCHANGED <<chain, side, orphans, future, evaluating, ret>>
      /\ IF ret = "Added" THEN Replace(<<CallAt("append", t, i)>>) ELSE Replace(<< >>)
  BY <1>1 DEF MergeCheck, Running, Top, forkVars, poolVars, MergeOps
<1>3. /\ t \in Blocks /\ Alive(t, side, orphans, future) /\ Follows(chain, s, i - 1)
      /\ i \in 2..Len(s) /\ i \in Nat
      /\ Paths(chain', side) /\ BufferInv(future, chain', side)
  BY <1>1, <1>2, MergeReads DEF Target
<1>4. Waiting(stack', chain', side, orphans)
  <2>1. ~ (stack # << >> /\ Head(stack).op = "attach") /\ Waiting(stack, chain, side, orphans)
    BY <1>2 DEF Top, MInv
  <2> QED
    BY <1>2, <2>1, StillWaiting
<1>5. CASE ret # "Added"
  BY <1>2, <1>3, <1>4, <1>5, MergeReturns
<1>6. CASE ret = "Added"
  <2>1. Done(chain, s, i)
    BY <1>1, <1>2, <1>6 DEF MInv, ReturnInv, Top
  <2>2. Follows(chain, s, i)
    <3>1. \A k \in 1..i : k \in 1..(i - 1) \/ k = i
      BY <1>3
    <3>2. i \in 1..Len(s)
      BY <1>3
    <3> QED
      BY <1>3, <2>1, <3>1, <3>2 DEF Follows, Done
  <2>3. PICK f : f = CallAt("append", t, i)
    OBVIOUS
  <2>4. f \in Frames /\ f.op = "append" /\ f.blk = t /\ f.pos = i
    BY <1>3, <2>3, CallAtTyped DEF Ops, CallAt
  <2>5. PICK calls : calls = <<f>>
    OBVIOUS
  <2>6. calls \in Seq(Frames) /\ Len(calls) = 1 /\ calls[1] = f /\ Replace(calls)
    BY <1>2, <1>6, <2>3, <2>4, <2>5
  <2>7. Target(f, chain', side, orphans, future)
    BY <1>1, <1>2, <1>3, <2>2, <2>4 DEF Target
  <2> QED
    BY <1>2, <1>3, <1>4, <2>4, <2>6, <2>7, MergeContinues
<1> QED
  BY <1>5, <1>6

-----------------------------------------------------------------------------
(* New input, a restart and the initial state: no merge is running. *)

\* A stack with no merge and no promotion on it
LEMMA NoMerge ==
  ASSUME NEW stk \in Seq(Frames),
         \A i \in 1..Len(stk) : stk[i].op \notin MergeOps \union {"cleanup", "route"},
         NEW ch, NEW reg, NEW pool, NEW buf, NEW ev, NEW r
  PROVE  /\ StackInv(stk, ch, reg, pool, buf, ev) /\ ReturnInv(stk, r, ch, reg)
         /\ Quiet(stk, reg, pool)
<1>1. \A h \in 1..Len(stk) : At(stk, h).op \notin MergeOps \union {"cleanup", "route"}
  <2>1. Len(stk) \in Nat
    OBVIOUS
  <2>2. \A h \in 1..Len(stk) : Len(stk) + 1 - h \in 1..Len(stk)
    BY <2>1
  <2> QED
    BY <2>2 DEF At
<1>2. stk # << >> => Head(stk).op \notin MergeOps
  <2> SUFFICES ASSUME stk # << >> PROVE Head(stk).op \notin MergeOps
    OBVIOUS
  <2>1. Head(stk) = stk[1] /\ 1 \in 1..Len(stk)
    OBVIOUS
  <2> QED
    BY <2>1
<1> QED
  BY <1>1, <1>2 DEF StackInv, ReturnInv, Quiet, MergeOps

\* New input starts a call that is no part of a merge.
LEMMA InputKeepsMInv ==
  ASSUME IInv, MInv, Input
  PROVE  MInv'
<1>1. /\ stack = << >> /\ UNCHANGED <<chain, evaluating, orphans, future>>
  BY DEF Input, Deliver, SubmitFork, Reattach, Tick, Idle, forkVars, poolVars
<1>2. /\ Straight(chain) /\ Paths(chain, side) /\ BufferInv(future, chain, side)
      /\ future \in SUBSET Blocks
      /\ \A t \in Blocks : side[t] # << >> /\ Children(t, orphans) # {} => InChain(t, chain)
  BY <1>1 DEF MInv, Paths, Waiting, IInv, TypeOK
<1>3. ASSUME NEW stk \in Seq(Frames), stack' = stk, UNCHANGED side,
             \A i \in 1..Len(stk) : stk[i].op \notin MergeOps \union {"cleanup", "route"}
      PROVE  MInv'
  <2>1. /\ StackInv(stack', chain', side', orphans', future', evaluating')
        /\ ReturnInv(stack', ret', chain', side') /\ Quiet(stack', side', orphans')
    BY <1>3, NoMerge
  <2>2. /\ Paths(chain', side') /\ BufferInv(future', chain', side')
        /\ Waiting(stack', chain', side', orphans')
    BY <1>1, <1>2, <1>3 DEF Waiting
  <2> QED
    BY <2>1, <2>2 DEF MInv
<1>4. ASSUME NEW b \in Blocks, Deliver(b) PROVE MInv'
  <2>1. PICK stk : stk = <<Call("add", b)>>
    OBVIOUS
  <2>2. stk \in Seq(Frames) /\ Len(stk) = 1 /\ stk[1].op = "add"
    <3>1. Call("add", b) \in Frames
      BY CallTyped DEF Ops
    <3> QED
      BY <2>1, <3>1 DEF Call
  <2>3. \A i \in 1..Len(stk) : stk[i].op \notin MergeOps \union {"cleanup", "route"}
    BY <2>2 DEF MergeOps
  <2>4. stack' = stk /\ UNCHANGED side
    BY <1>4, <2>1 DEF Deliver, forkVars
  <2> QED
    BY <1>3, <2>2, <2>3, <2>4
<1>5. ASSUME NEW b \in Blocks \ {Genesis}, SubmitFork(b) PROVE MInv'
  <2>1. ParentInMain(b)
    BY <1>2, <1>5, OnChain DEF SubmitFork, Tip, ParentInMain
  <2>2. /\ Paths(chain, Registered(b)) /\ NoLess(chain, chain, side, Registered(b))
        /\ \A t \in Blocks : t # b /\ Registered(b)[t] # << >> => side[t] # << >>
        /\ side' = Registered(b)
    BY <1>2, <1>5, <2>1, RegisteredIs DEF SubmitFork
  <2>3. BufferInv(future, chain, Registered(b))
    BY <1>2, <2>2, BufferKept
  <2>4. PICK stk : stk = <<Call("attach", b), Call("eval", b)>>
    OBVIOUS
  <2>5. /\ stk \in Seq(Frames) /\ Len(stk) = 2 /\ stk # << >>
        /\ stk[1].op = "attach" /\ stk[2].op = "eval" /\ Head(stk).op = "attach" /\ Head(stk).blk = b
    <3>1. Call("attach", b) \in Frames /\ Call("eval", b) \in Frames
      BY CallTyped DEF Ops
    <3> QED
      BY <2>4, <3>1 DEF Call
  <2>6. \A i \in 1..Len(stk) : i = 1 \/ i = 2
    BY <2>5
  <2>7. \A i \in 1..Len(stk) : stk[i].op \notin MergeOps \union {"cleanup", "route"}
    BY <2>5, <2>6 DEF MergeOps
  <2>8. stack' = stk
    BY <1>5, <2>4 DEF SubmitFork
  <2>9. /\ StackInv(stack', chain', side', orphans', future', evaluating')
        /\ ReturnInv(stack', ret', chain', side') /\ Quiet(stack', side', orphans')
    BY <2>5, <2>7, <2>8, NoMerge
  <2>10. Waiting(stack', chain', side', orphans')
    BY <1>1, <1>2, <2>2, <2>5, <2>8 DEF Waiting
  <2>11. Paths(chain', side') /\ BufferInv(future', chain', side')
    BY <1>1, <2>2, <2>3
  <2> QED
    BY <2>9, <2>10, <2>11 DEF MInv
<1>6. CASE Reattach
  <2>1. PICK kids : stack' = <<CallAll("reattach", kids, Len(chain))>> /\ kids \in [Blocks -> Nat]
    <3>1. [p \in Blocks |-> IF p \in {q \in Elems(chain) : Children(q, orphans) # {}} THEN 1 ELSE 0]
            \in [Blocks -> Nat]
      OBVIOUS
    <3> QED
      BY <1>6, <3>1 DEF Reattach
  <2>2. PICK stk : stk = <<CallAll("reattach", kids, Len(chain))>>
    OBVIOUS
  <2>3. stk \in Seq(Frames) /\ Len(stk) = 1 /\ stk[1].op = "reattach"
    <3>1. CallAll("reattach", kids, Len(chain)) \in Frames
      BY <1>2, <2>1, StraightEnd, CallAllTyped DEF Ops
    <3> QED
      BY <2>2, <3>1 DEF CallAll
  <2>4. \A i \in 1..Len(stk) : stk[i].op \notin MergeOps \union {"cleanup", "route"}
    BY <2>3 DEF MergeOps
  <2>5. stack' = stk /\ UNCHANGED side
    BY <1>6, <2>1, <2>2 DEF Reattach, forkVars
  <2> QED
    BY <1>3, <2>3, <2>4, <2>5
<1>7. CASE Tick
  <2>1. PICK stk : stk = << >>
    OBVIOUS
  <2>2. stk \in Seq(Frames) /\ Len(stk) = 0
    BY <2>1
  <2>3. \A i \in 1..Len(stk) : stk[i].op \notin MergeOps \union {"cleanup", "route"}
    BY <2>2
  <2>4. stack' = stk /\ UNCHANGED side
    BY <1>1, <1>7, <2>1 DEF Tick, forkVars
  <2> QED
    BY <1>3, <2>2, <2>3, <2>4
<1> QED
  BY <1>4, <1>5, <1>6, <1>7 DEF Input

\* With nothing but a main chain there is nothing to go wrong.
LEMMA NothingHeld ==
  ASSUME NEW stk, stk = << >>, NEW ch, Straight(ch), NEW reg, \A t \in Blocks : reg[t] = << >>,
         NEW pool, NEW buf, buf = {}, NEW ev, NEW r
  PROVE  /\ StackInv(stk, ch, reg, pool, buf, ev) /\ ReturnInv(stk, r, ch, reg)
         /\ Quiet(stk, reg, pool) /\ Paths(ch, reg)
         /\ Waiting(stk, ch, reg, pool) /\ BufferInv(buf, ch, reg)
<1>1. stk \in Seq(Frames) /\ \A i \in 1..Len(stk) : stk[i].op \notin MergeOps \union {"cleanup", "route"}
  <2>1. stk \in Seq(Frames) /\ Len(stk) = 0
    OBVIOUS
  <2> QED
    BY <2>1
<1>2. /\ StackInv(stk, ch, reg, pool, buf, ev) /\ ReturnInv(stk, r, ch, reg)
      /\ Quiet(stk, reg, pool)
  BY <1>1, NoMerge
<1> QED
  BY <1>2 DEF Paths, Waiting, BufferInv

\* A restart forgets candidates, buffered blocks and calls.
LEMMA RestartKeepsMInv ==
  ASSUME IInv, MInv, Restart
  PROVE  MInv'
<1>1. Straight(chain')
  <2>0. Straight(chain)
    BY DEF MInv, Paths
  <2>1. ASSUME NEW b \in Blocks, KilledUnmarked(b)
        PROVE  Straight(chain')
    <3>1. b # Genesis
      BY <2>0, <2>1, KilledIs DEF Straight, Linked, InChain, Elems
    <3> QED
      BY <2>0, <2>1, <3>1, KilledIs, StraightAppend
  <2> QED
    BY <2>0, <2>1 DEF Restart
<1>2. /\ stack' = << >> /\ future' = {}
      /\ \A t \in Blocks : side'[t] = << >>
  BY DEF Restart
<1> QED
  BY <1>1, <1>2, NothingHeld DEF MInv

\* The initial state satisfies the merge invariant.
LEMMA InitMInv == Init => MInv
<1> SUFFICES ASSUME Init PROVE MInv
  OBVIOUS
<1>1. Straight(chain)
  <2>1. <<Genesis>> \in Seq(Blocks) /\ Len(<<Genesis>>) = 1 /\ <<Genesis>>[1] = Genesis
    BY BlocksAssumption
  <2> QED
    BY <2>1 DEF Init, Straight, Linked
<1>2. stack = << >> /\ future = {} /\ \A t \in Blocks : side[t] = << >>
  BY DEF Init
<1> QED
  BY <1>1, <1>2, NothingHeld DEF MInv

\* Every step keeps the invariant.
LEMMA NextMInv == IInv /\ MInv /\ [Next]_vars => MInv'
<1> SUFFICES ASSUME IInv, MInv, [Next]_vars PROVE MInv'
  OBVIOUS
<1>1. CASE UNCHANGED vars
  BY <1>1 DEF vars, MInv
<1>2. CASE Step
  BY <1>2, AddBlockKeepsMInv, RouteKeepsMInv, AttachKeepsMInv, AttachChildKeepsMInv,
     ApplyFutureKeepsMInv, EvaluateKeepsMInv, CleanupKeepsMInv, MergeKeepsMInv,
     MergeNextKeepsMInv, MergeCheckKeepsMInv, FinishKeepsMInv, ReattachNextKeepsMInv
     DEF Step
<1>3. CASE Input
  BY <1>3, InputKeepsMInv
<1>4. CASE Restart
  BY <1>4, RestartKeepsMInv
<1> QED
  BY <1>1, <1>2, <1>3, <1>4 DEF Next

\* The merge invariant, on every behaviour.
THEOREM MergeInvariant == Spec => []MInv
<1>1. Init => MInv
  BY InitMInv
<1>2. IInv /\ MInv /\ [Next]_vars => MInv'
  BY NextMInv
<1> QED
  BY <1>1, <1>2, Invariant, PTL DEF Spec

\* The i-th call from the top is one whose target is known.
LEMMA TargetOfCall ==
  ASSUME IInv, MInv, NEW i \in 1..Len(stack), stack[i].op \in MergeOps
  PROVE  Target(stack[i], chain, side, orphans, future)
<1>1. Len(stack) \in Nat
  BY DEF IInv, TypeOK
<1>2. PICK h : h = Len(stack) + 1 - i
  OBVIOUS
<1>3. h \in 1..Len(stack) /\ Len(stack) + 1 - h = i
  BY <1>1, <1>2
<1>4. At(stack, h) = stack[i]
  BY <1>3 DEF At
<1> QED
  BY <1>3, <1>4 DEF MInv, StackInv

\* The candidate compareAndMergeChains reads by reference stays in
\* pendingForkChains until it returns, whatever the blocks it adds set off.
THEOREM MergedCandidateLives == Spec => []CandidateAlive
<1>1. IInv /\ MInv => CandidateAlive
  <2> SUFFICES ASSUME IInv, MInv, NEW i \in 1..Len(stack), stack[i].op \in MergeOps
               PROVE  side[stack[i].blk] # << >>
    BY DEF CandidateAlive, MergeOps
  <2> QED
    BY TargetOfCall DEF Target, Alive
<1> QED
  BY <1>1, Invariant, MergeInvariant, PTL

\* While a merge appends its candidate, the main chain starts with the part
\* appended so far.
THEOREM MergeKeepsPace == Spec => []MergeProgress
<1>1. IInv /\ MInv => MergeProgress
  <2> SUFFICES ASSUME IInv, MInv, NEW i \in 1..Len(stack), stack[i].op = "append"
               PROVE  LET other == side[stack[i].blk]
                          done == stack[i].pos
                      IN /\ done <= Len(chain) /\ done <= Len(other)
                         /\ \A k \in 1..done : chain[k] = other[k]
    BY DEF MergeProgress
  <2>1. PICK other, done : other = side[stack[i].blk] /\ done = stack[i].pos
    OBVIOUS
  <2>2. Follows(chain, other, done) /\ stack[i].blk \in Blocks
    <3>1. Target(stack[i], chain, side, orphans, future)
      BY TargetOfCall DEF MergeOps
    <3>2. stack[i] \in Frames
      BY DEF IInv, TypeOK
    <3> QED
      BY <2>1, <3>1, <3>2 DEF Target, Frames
  <2>3. Len(other) \in Nat
    BY <2>1, <2>2 DEF IInv, TypeOK
  <2> QED
    BY <2>1, <2>2, <2>3 DEF Follows
<1> QED
  BY <1>1, Invariant, MergeInvariant, PTL

-----------------------------------------------------------------------------
(* What orphanHashes lists.  A hash whose block is not in the pool belongs to a *)
(* block some loop of tryAttachOrphans has taken and not yet handed on.         *)

\* Some running loop still has h to attach.
Held(h, stk) ==
  \E i \in 1..Len(stk) : stk[i].op = "kids" /\ h \in Pooled(stk[i].kids)

ListedInv ==
  /\ \A h \in orphanHashes : h \in Pooled(orphans) \/ Held(h, stack)
  /\ orphanHashes = {b \in Blocks : orphanAt[b] # Never}

\* Replacing the running call takes from the loops only what that call held.
LEMMA HeldKept ==
  ASSUME TypeOK, stack # << >>, NEW S, NEW calls \in Seq(S), Replace(calls),
         NEW h, Held(h, stack)
  PROVE  Held(h, stack') \/ (Top.op = "kids" /\ h \in Pooled(Top.kids))
<1>1. PICK i \in 1..Len(stack) : stack[i].op = "kids" /\ h \in Pooled(stack[i].kids)
  BY DEF Held
<1>2. stack \in Seq(Frames) /\ stack' = calls \o Tail(stack) /\ Top = stack[1]
  BY DEF TypeOK, Replace, Top
<1>3. CASE i = 1
  BY <1>1, <1>2, <1>3
<1>4. CASE i # 1
  <2>1. PICK r : r = Tail(stack)
    OBVIOUS
  <2>2. /\ r \in Seq(Frames) /\ Len(r) = Len(stack) - 1 /\ Len(stack) \in Nat
        /\ i - 1 \in 1..Len(r) /\ r[i - 1] = stack[i]
    <3>1. /\ Tail(stack) \in Seq(Frames) /\ Len(Tail(stack)) = Len(stack) - 1
          /\ Len(stack) \in Nat
          /\ \A j \in 1..(Len(stack) - 1) : Tail(stack)[j] = stack[j + 1]
      BY <1>2
    <3>2. i - 1 \in 1..(Len(stack) - 1) /\ (i - 1) + 1 = i
      BY <1>4, <3>1
    <3> QED
      BY <2>1, <3>1, <3>2
  <2>3. /\ Len(calls \o r) = Len(calls) + Len(r) /\ Len(calls) \in Nat
        /\ Len(calls) + (i - 1) \in 1..Len(calls \o r)
        /\ (calls \o r)[Len(calls) + (i - 1)] = r[i - 1]
    BY <2>2
  <2>4. PICK u : u = calls \o r
    OBVIOUS
  <2>5. /\ Len(calls) + (i - 1) \in 1..Len(u) /\ u[Len(calls) + (i - 1)] = stack[i]
        /\ stack' = u
    BY <1>2, <2>1, <2>2, <2>3, <2>4
  <2>6. Held(h, u)
    BY <1>1, <2>5 DEF Held
  <2> QED
    BY <2>5, <2>6
<1> QED
  BY <1>3, <1>4

\* The calls that replace the running one are held too.
LEMMA HeldNew ==
  ASSUME TypeOK, stack # << >>, NEW calls \in Seq(Frames), Replace(calls),
         NEW h, Held(h, calls)
  PROVE  Held(h, stack')
<1>1. PICK i \in 1..Len(calls) : calls[i].op = "kids" /\ h \in Pooled(calls[i].kids)
  BY DEF Held
<1>2. PICK r : r = Tail(stack)
  OBVIOUS
<1>3. r \in Seq(Frames) /\ stack' = calls \o r
  BY <1>2 DEF TypeOK, Replace
<1>4. PICK u : u = calls \o r
  OBVIOUS
<1>5. i \in 1..Len(u) /\ u[i] = calls[i] /\ stack' = u
  BY <1>3, <1>4
<1>6. Held(h, u)
  BY <1>1, <1>5 DEF Held
<1> QED
  BY <1>5, <1>6

\* Closing the gaps in the vectors loses no block that is kept.
LEMMA RankedKept ==
  ASSUME NEW pool \in [Blocks -> Nat], NEW keep \in SUBSET Blocks, NEW h \in keep
  PROVE  h \in Pooled(Ranked(keep, pool))
<1>1. PICK T : T = {y \in keep : Parent[y] = Parent[h] /\ pool[y] <= pool[h]}
  OBVIOUS
<1>2. IsFiniteSet(T) /\ h \in T
  <2>1. T \subseteq Blocks /\ IsFiniteSet(Blocks)
    BY <1>1, BlocksAssumption
  <2>2. pool[h] \in Nat
    OBVIOUS
  <2> QED
    BY <1>1, <2>1, <2>2, FS_Subset
<1>3. Cardinality(T) > 0
  BY <1>2, FS_CardinalityType, FS_EmptySet
<1> QED
  BY <1>1, <1>3 DEF Ranked, Pooled

\* The sweep of addBlock.
LEMMA SweepListed ==
  ASSUME TypeOK, orphanHashes = {b \in Blocks : orphanAt[b] # Never}, NEW b \in Blocks
  PROVE  /\ HashesAfterSweep(b) = {h \in Blocks : AtAfterSweep(b)[h] # Never}
         /\ \A h \in HashesAfterSweep(b) : h \in Pooled(orphans) => h \in Pooled(PoolAfterSweep(b))
<1>1. HashesAfterSweep(b) = {h \in Blocks : AtAfterSweep(b)[h] # Never}
  BY DEF HashesAfterSweep, AtAfterSweep, Swept, TypeOK
<1>2. ASSUME NEW h \in HashesAfterSweep(b), h \in Pooled(orphans)
      PROVE  h \in Pooled(PoolAfterSweep(b))
  <2>1. h \in Pooled(orphans) \ Swept(b) /\ Pooled(orphans) \ Swept(b) \in SUBSET Blocks
    BY <1>2 DEF HashesAfterSweep, Pooled
  <2> QED
    BY <2>1, RankedKept DEF PoolAfterSweep, TypeOK
<1> QED
  BY <1>1, <1>2

\* A step that keeps the waiting blocks and the loops keeps the invariant.
LEMMA ListedStep ==
  ASSUME TypeOK, ListedInv, stack # << >>, NEW calls \in Seq(Frames), Replace(calls),
         \A h \in orphanHashes' :
           \/ h \in Pooled(orphans') \/ Held(h, calls)
           \/ /\ h \in orphanHashes
              /\ h \in Pooled(orphans) => h \in Pooled(orphans')
              /\ Top.op # "kids" \/ h \notin Pooled(Top.kids),
         orphanHashes' = {b \in Blocks : orphanAt'[b] # Never}
  PROVE  ListedInv'
<1>1. ASSUME NEW h \in orphanHashes'
      PROVE  h \in Pooled(orphans') \/ Held(h, stack')
  <2>1. Held(h, calls) => Held(h, stack')
    BY HeldNew
  <2>2. Held(h, stack) => Held(h, stack') \/ (Top.op = "kids" /\ h \in Pooled(Top.kids))
    BY HeldKept
  <2>3. h \in orphanHashes => h \in Pooled(orphans) \/ Held(h, stack)
    BY DEF ListedInv
  <2> QED
    BY <1>1, <2>1, <2>2, <2>3
<1> QED
  BY <1>1 DEF ListedInv

\* What is listed afterwards waited before and still does, or is new.
Lists(new) ==
  /\ \A h \in orphanHashes' :
       \/ h \in new /\ h \in Pooled(orphans')
       \/ /\ h \in orphanHashes
          /\ h \in Pooled(orphans) => h \in Pooled(orphans')
  /\ orphanHashes' = {b \in Blocks : orphanAt'[b] # Never}

\* A call that is not a loop lists what it stores.
LEMMA ListedAdd ==
  ASSUME TypeOK, ListedInv, stack # << >>, Top.op # "kids",
         NEW calls \in Seq(Frames), Replace(calls), NEW new, Lists(new)
  PROVE  ListedInv'
<1>1. \A h \in orphanHashes' :
        \/ h \in Pooled(orphans') \/ Held(h, calls)
        \/ /\ h \in orphanHashes
           /\ h \in Pooled(orphans) => h \in Pooled(orphans')
           /\ Top.op # "kids" \/ h \notin Pooled(Top.kids)
  BY DEF Lists
<1> QED
  BY <1>1, ListedStep DEF Lists

\* Registration makes calls.
LEMMA RegisterCalls ==
  ASSUME NEW b \in Blocks, NEW rest \in Seq(Frames), RegisterThen(b, rest)
  PROVE  \E calls \in Seq(Frames) : Replace(calls)
<1>1. Call("attach", b) \in Frames
  <2>1. "attach" \in Ops
    BY DEF Ops
  <2> QED
    BY <2>1, CallTyped
<1>2. <<Call("attach", b)>> \o rest \in Seq(Frames)
  BY <1>1
<1> QED
  BY <1>2 DEF RegisterThen

\* A return replaces the call by nothing.
LEMMA ReturnReplaces ==
  ASSUME TypeOK, stack # << >>, NEW r, Return(r)
  PROVE  << >> \in Seq(Frames) /\ Replace(<< >>)
<1>1. Tail(stack) \in Seq(Frames) /\ << >> \o Tail(stack) = Tail(stack)
  BY StackTyped DEF TypeOK
<1> QED
  BY <1>1 DEF Return, Replace

\* addBlock's outcomes keep the invariant.
LEMMA AddBlockListed ==
  ASSUME IInv, ListedInv, AddBlock
  PROVE  ListedInv'
<1>1. TypeOK /\ stack # << >> /\ Top.op = "add"
  BY DEF IInv, AddBlock, Running, Top
<1>2. PICK b \in Blocks : b = Top.blk
  BY <1>1, TopTyped
<1>3. orphanHashes = {c \in Blocks : orphanAt[c] # Never}
  BY DEF ListedInv
<1>4. /\ HashesAfterSweep(b) = {h \in Blocks : AtAfterSweep(b)[h] # Never}
      /\ \A h \in HashesAfterSweep(b) : h \in Pooled(orphans) => h \in Pooled(PoolAfterSweep(b))
      /\ HashesAfterSweep(b) \subseteq orphanHashes
  BY <1>1, <1>3, SweepListed DEF HashesAfterSweep
<1>5. ASSUME NEW p \in Blocks
      PROVE  /\ p \in Pooled(Pushed(p, PoolAfterSweep(b)))
             /\ \A h \in Pooled(PoolAfterSweep(b)) : h \in Pooled(Pushed(p, PoolAfterSweep(b)))
             /\ HashesAfterSweep(b) \union {p} =
                  {h \in Blocks : [AtAfterSweep(b) EXCEPT ![p] = clock][h] # Never}
  <2>1. PoolAfterSweep(b) \in [Blocks -> Nat] /\ AtAfterSweep(b) \in [Blocks -> Nat \union {Never}]
    BY <1>1, SweepTyped
  <2>2. clock \in Nat
    BY <1>1, LimitsAssumption DEF TypeOK
  <2>3. 1 + Cardinality(Children(Parent[p], PoolAfterSweep(b))) > 0
    <3>1. Children(Parent[p], PoolAfterSweep(b)) \in SUBSET Blocks
      BY DEF Children, Pooled
    <3> QED
      BY <3>1, CountTyped
  <2> QED
    BY <1>4, <2>1, <2>2, <2>3 DEF Pushed, Pooled, Never
<1>6. SweepOnly(b) => Lists({})
  BY <1>4 DEF SweepOnly, Lists
<1>7. SweepAndStore(b) => Lists({b})
  BY <1>4, <1>5 DEF SweepAndStore, Lists
<1>8. \A calls \in Seq(Frames) : Replace(calls) /\ Lists({}) => ListedInv'
  BY <1>1, ListedAdd
<1>9. \A calls \in Seq(Frames) : Replace(calls) /\ Lists({b}) => ListedInv'
  BY <1>1, <1>2, ListedAdd
<1>10. << >> \in Seq(Frames) /\ \A r : Return(r) => Replace(<< >>)
  BY <1>1, ReturnReplaces
<1>11. CASE AddRefuse(b)
  <2>1. Lists({})
    BY <1>3, <1>11 DEF AddRefuse, poolVars, Lists
  <2> QED
    BY <1>8, <1>10, <1>11, <2>1 DEF AddRefuse
<1>12. CASE AddTipStale(b) \/ AddBadTime(b) \/ AddRejectOnTip(b)
  <2>1. SweepOnly(b) /\ \E r : Return(r)
    BY <1>12 DEF AddTipStale, AddBadTime, AddRejectOnTip
  <2> QED
    BY <1>6, <1>8, <1>10, <2>1
<1>13. CASE AddSide(b)
  <2>1. CASE SweepOnly(b) /\ Return("Dropped")
    BY <1>6, <1>8, <1>10, <2>1
  <2>2. CASE SweepAndStore(b) /\ RegisterThen(b, <<Call("eval", b), Call("sideChain", b)>>)
    <3>1. <<Call("eval", b), Call("sideChain", b)>> \in Seq(Frames)
      <4>1. "eval" \in Ops /\ "sideChain" \in Ops
        BY DEF Ops
      <4> QED
        BY <4>1, CallTyped
    <3>2. PICK calls \in Seq(Frames) : Replace(calls)
      BY <1>2, <2>2, <3>1, RegisterCalls
    <3> QED
      BY <1>7, <1>9, <2>2, <3>2
  <2> QED
    BY <1>13, <2>1, <2>2 DEF AddSide
<1>14. CASE AddPromote(b)
  <2>1. PICK p \in Blocks : p = Parent[b]
    BY <1>2, BlocksAssumption
  <2>2. Lists({p})
    <3>1. CASE SweepOnly(b)
      BY <1>6, <3>1 DEF Lists
    <3>2. CASE /\ orphans' = Pushed(p, PoolAfterSweep(b))
               /\ orphanHashes' = HashesAfterSweep(b) \union {p}
               /\ orphanAt' = [AtAfterSweep(b) EXCEPT ![p] = clock]
      BY <1>4, <1>5, <3>2 DEF Lists
    <3> QED
      BY <1>14, <2>1, <3>1, <3>2 DEF AddPromote
  <2>3. PICK calls \in Seq(Frames) : Replace(calls)
    <3>1. <<Call("route", b)>> \in Seq(Frames)
      <4>1. "route" \in Ops
        BY DEF Ops
      <4> QED
        BY <1>2, <4>1, CallTyped
    <3>2. RegisterThen(p, <<Call("route", b)>>)
      BY <1>14, <2>1 DEF AddPromote
    <3> QED
      BY <3>1, <3>2, RegisterCalls
  <2> QED
    BY <1>1, <2>1, <2>2, <2>3, ListedAdd
<1>15. CASE AddOrphan(b)
  <2>1. \E r : Return(r)
    BY <1>15 DEF AddOrphan
  <2>2. SweepOnly(b) \/ SweepAndStore(b)
    BY <1>15 DEF AddOrphan
  <2>3. Replace(<< >>)
    BY <1>10, <2>1
  <2>4. SweepOnly(b) => ListedInv'
    BY <1>6, <1>8, <1>10, <2>3
  <2>5. SweepAndStore(b) => ListedInv'
    BY <1>7, <1>9, <1>10, <2>3
  <2> QED
    BY <2>2, <2>4, <2>5
<1>16. CASE AddExtend(b)
  <2>1. PICK calls \in Seq(Frames) : Replace(calls)
    <3>1. Index[b] + 1 \in Nat
      BY <1>2, BlocksAssumption
    <3>2. /\ CallAt("future", b, Index[b] + 1) \in Frames /\ Call("attach", b) \in Frames
          /\ Call("eval", b) \in Frames /\ Call("added", b) \in Frames
      <4>1. {"future", "attach", "eval", "added"} \subseteq Ops
        BY DEF Ops
      <4> QED
        BY <1>2, <3>1, <4>1, CallTyped, CallAtTyped
    <3>3. <<CallAt("future", b, Index[b] + 1), Call("attach", b),
            Call("eval", b), Call("added", b)>> \in Seq(Frames)
      BY <3>2
    <3>4. Replace(<<CallAt("future", b, Index[b] + 1), Call("attach", b),
                    Call("eval", b), Call("added", b)>>)
      BY <1>16 DEF AddExtend
    <3> QED
      BY <3>3, <3>4
  <2> QED
    BY <1>6, <1>8, <1>16, <2>1 DEF AddExtend
<1> QED
  BY <1>1, <1>2, <1>11, <1>12, <1>13, <1>14, <1>15, <1>16 DEF AddBlock
\* addBlock after the cached parent was promoted.
LEMMA RouteListed ==
  ASSUME IInv, ListedInv, Route
  PROVE  ListedInv'
<1>1. TypeOK /\ stack # << >> /\ Top.op # "kids"
  BY DEF IInv, Route, Running, Top
<1>2. PICK b \in Blocks : b = Top.blk
  BY <1>1, TopTyped
<1>3. Lists({b})
  <2>1. /\ b \in Pooled(Pushed(b, orphans))
        /\ \A h \in Pooled(orphans) : h \in Pooled(Pushed(b, orphans))
        /\ orphanHashes \union {b} = {h \in Blocks : [orphanAt EXCEPT ![b] = clock][h] # Never}
    <3>1. clock \in Nat /\ orphans \in [Blocks -> Nat] /\ orphanAt \in [Blocks -> Nat \union {Never}]
      BY <1>1, LimitsAssumption DEF TypeOK
    <3>2. 1 + Cardinality(Children(Parent[b], orphans)) > 0
      <4>1. Children(Parent[b], orphans) \in SUBSET Blocks
        BY DEF Children, Pooled
      <4> QED
        BY <4>1, CountTyped
    <3> QED
      BY <1>2, <3>1, <3>2 DEF Pushed, Pooled, Never, ListedInv
  <2>2. CASE /\ orphans' = Pushed(b, orphans)
             /\ orphanHashes' = orphanHashes \union {b}
             /\ orphanAt' = [orphanAt EXCEPT ![b] = clock]
    BY <2>1, <2>2 DEF Lists
  <2>3. CASE UNCHANGED poolVars
    BY <2>3 DEF Lists, ListedInv, poolVars
  <2> QED
    BY <1>2, <2>2, <2>3 DEF Route, poolVars
<1>4. CASE RegisterThen(b, <<Call("eval", b), Call("sideChain", b)>>)
  <2>1. <<Call("eval", b), Call("sideChain", b)>> \in Seq(Frames)
    <3>1. "eval" \in Ops /\ "sideChain" \in Ops
      BY DEF Ops
    <3> QED
      BY <3>1, CallTyped
  <2>2. PICK calls \in Seq(Frames) : Replace(calls)
    BY <1>4, <2>1, RegisterCalls
  <2> QED
    BY <1>1, <1>3, <2>2, ListedAdd
<1>5. CASE \E r : Return(r)
  <2>1. << >> \in Seq(Frames) /\ Replace(<< >>)
    BY <1>1, <1>5, ReturnReplaces
  <2> QED
    BY <1>1, <1>3, <2>1, ListedAdd
<1> QED
  BY <1>2, <1>4, <1>5 DEF Route

\* tryAttachOrphans moves a vector from the pool to its loop.
LEMMA AttachListed ==
  ASSUME IInv, ListedInv, Attach
  PROVE  ListedInv'
<1>1. TypeOK /\ stack # << >> /\ Top.op # "kids"
  BY DEF IInv, Attach, Running, Top
<1>2. PICK waiting : waiting = Children(Top.blk, orphans)
  OBVIOUS
<1>3. waiting \in SUBSET Blocks
  BY <1>2 DEF Children, Pooled
<1>4. /\ orphans' = [b \in Blocks |-> IF b \in waiting THEN 0 ELSE orphans[b]]
      /\ orphanHashes' = orphanHashes /\ orphanAt' = orphanAt
      /\ Replace(IF waiting = {} THEN << >>
                 ELSE <<CallAll("kids", Ranked(waiting, orphans), 0)>>)
  BY <1>2 DEF Attach
<1>5. orphanHashes' = {b \in Blocks : orphanAt'[b] # Never}
  BY <1>4 DEF ListedInv
<1>6. \A h \in orphanHashes' \ waiting : h \in Pooled(orphans) => h \in Pooled(orphans')
  BY <1>4 DEF Pooled
<1>7. CASE waiting = {}
  <2>1. << >> \in Seq(Frames) /\ Replace(<< >>)
    BY <1>4, <1>7
  <2> QED
    BY <1>1, <1>4, <1>5, <1>6, <1>7, <2>1, ListedStep
<1>8. CASE waiting # {}
  <2>1. PICK f : f = CallAll("kids", Ranked(waiting, orphans), 0)
    OBVIOUS
  <2>2. f \in Frames /\ f.op = "kids" /\ f.kids = Ranked(waiting, orphans)
    <3>1. "kids" \in Ops /\ Ranked(waiting, orphans) \in [Blocks -> Nat]
      BY <1>1, <1>3, PoolTyped, BlocksAssumption DEF Ops, TypeOK
    <3> QED
      BY <2>1, <3>1, CallAllTyped DEF CallAll
  <2>3. <<f>> \in Seq(Frames) /\ Replace(<<f>>)
    BY <1>4, <1>8, <2>1, <2>2
  <2>4. \A h \in waiting : Held(h, <<f>>)
    <3>1. \A h \in waiting : h \in Pooled(f.kids)
      BY <1>1, <1>3, <2>2, RankedKept DEF TypeOK
    <3>2. 1 \in 1..Len(<<f>>) /\ <<f>>[1] = f
      OBVIOUS
    <3> QED
      BY <2>2, <3>1, <3>2 DEF Held
  <2>5. \A h \in orphanHashes' :
          \/ h \in Pooled(orphans') \/ Held(h, <<f>>)
          \/ /\ h \in orphanHashes
             /\ h \in Pooled(orphans) => h \in Pooled(orphans')
             /\ Top.op # "kids" \/ h \notin Pooled(Top.kids)
    BY <1>1, <1>4, <1>6, <2>4
  <2> QED
    BY <1>1, <1>5, <2>3, <2>5, ListedStep
<1> QED
  BY <1>7, <1>8

\* Its loop takes one block off the lists and hands it to addBlock.
LEMMA AttachChildListed ==
  ASSUME IInv, ListedInv, AttachChild
  PROVE  ListedInv'
<1>1. TypeOK /\ stack # << >>
  BY DEF IInv, AttachChild, Running
<1>2. PICK kids \in [Blocks -> Nat] : kids = Top.kids
  BY <1>1, TopTyped
<1>3. CASE Pooled(kids) = {} /\ Replace(<< >>) /\ UNCHANGED <<orphanHashes, orphanAt>>
  <2>1. << >> \in Seq(Frames) /\ Replace(<< >>)
    BY <1>3
  <2>2. orphanHashes' = {b \in Blocks : orphanAt'[b] # Never}
    BY <1>3 DEF ListedInv
  <2>3. \A h \in orphanHashes' :
          /\ h \in orphanHashes
          /\ h \in Pooled(orphans) => h \in Pooled(orphans')
          /\ h \notin Pooled(Top.kids)
    BY <1>2, <1>3 DEF AttachChild
  <2> QED
    BY <1>1, <2>1, <2>2, <2>3, ListedStep
<1>4. ASSUME NEW c \in Pooled(kids),
             orphanHashes' = orphanHashes \ {c},
             orphanAt' = [orphanAt EXCEPT ![c] = Never],
             Replace(<<Call("add", c), CallAll("kids", [kids EXCEPT ![c] = 0], 0)>>)
      PROVE  ListedInv'
  <2>1. c \in Blocks
    BY DEF Pooled
  <2>2. PICK f : f = CallAll("kids", [kids EXCEPT ![c] = 0], 0)
    OBVIOUS
  <2>3. f \in Frames /\ f.op = "kids" /\ f.kids = [kids EXCEPT ![c] = 0]
    BY <2>1, <2>2, KidRemoved, CallAllTyped DEF CallAll, Ops
  <2>4. PICK g : g = Call("add", c)
    OBVIOUS
  <2>5. g \in Frames
    BY <2>1, <2>4, CallTyped DEF Ops
  <2>6. PICK calls : calls = <<g, f>>
    OBVIOUS
  <2>7. calls \in Seq(Frames) /\ Replace(calls) /\ 2 \in 1..Len(calls) /\ calls[2] = f
    BY <1>4, <2>2, <2>3, <2>4, <2>5, <2>6
  <2>8. \A h \in Pooled(kids) : h # c => Held(h, calls)
    <3>1. \A h \in Pooled(kids) : h # c => h \in Pooled(f.kids)
      BY <2>3 DEF Pooled
    <3> QED
      BY <2>3, <2>7, <3>1 DEF Held
  <2>9. orphanHashes' = {b \in Blocks : orphanAt'[b] # Never}
    BY <1>1, <1>4, <2>1 DEF ListedInv, TypeOK
  <2>10. \A h \in orphanHashes' :
           \/ Held(h, calls)
           \/ /\ h \in orphanHashes
              /\ h \in Pooled(orphans) => h \in Pooled(orphans')
              /\ h \notin Pooled(Top.kids)
    BY <1>2, <1>4, <2>8 DEF AttachChild
  <2> QED
    BY <1>1, <2>7, <2>9, <2>10, ListedStep
<1> QED
  BY <1>2, <1>3, <1>4 DEF AttachChild

\* The other calls leave the pool alone and are no loops over waiting blocks.
LEMMA OthersListed ==
  ASSUME IInv, ListedInv,
         \/ ApplyFuture \/ Evaluate \/ Cleanup \/ Merge \/ MergeNext \/ MergeCheck
         \/ Finish \/ ReattachNext
  PROVE  ListedInv'
<1>1. TypeOK /\ stack # << >> /\ Top.op # "kids" /\ UNCHANGED poolVars
  BY DEF IInv, Running, Top, poolVars, ApplyFuture, Evaluate, Cleanup, Merge,
         MergeNext, MergeCheck, Finish, ReattachNext
<1>2. \/ Replace(<< >>)
      \/ \E f : Replace(<<f>>)
      \/ \E f, g : Replace(<<f, g>>)
      \/ \E r : Return(r)
  BY Zenon DEF ApplyFuture, Evaluate, Cleanup, Merge, MergeRefuse, MergeAppend,
     MergeSameLength, MergeReorganise, MergeNext, MergeCheck, Finish, ReattachNext
<1>3. \E S : \E calls \in Seq(S) : Replace(calls)
  <2>1. CASE Replace(<< >>)
    <3>1. << >> \in Seq({})
      OBVIOUS
    <3> QED
      BY <2>1, <3>1
  <2>2. ASSUME NEW f, Replace(<<f>>)
        PROVE  \E S : \E calls \in Seq(S) : Replace(calls)
    <3>1. <<f>> \in Seq({f})
      OBVIOUS
    <3> QED
      BY <2>2, <3>1
  <2>3. ASSUME NEW f, NEW g, Replace(<<f, g>>)
        PROVE  \E S : \E calls \in Seq(S) : Replace(calls)
    <3>1. <<f, g>> \in Seq({f, g})
      OBVIOUS
    <3> QED
      BY <2>3, <3>1
  <2>4. CASE \E r : Return(r)
    BY <1>1, <2>4, ReturnReplaces
  <2> QED
    BY <1>2, <2>1, <2>2, <2>3, <2>4
<1>4. PICK S : \E calls \in Seq(S) : Replace(calls)
  BY <1>3
<1>5. PICK calls \in Seq(S) : Replace(calls)
  BY <1>4
<1>6. \A h : Held(h, stack) => Held(h, stack')
  BY <1>1, <1>5, HeldKept
<1> QED
  BY <1>1, <1>6 DEF ListedInv, poolVars

\* Between calls no loop holds a block; a restart forgets every block.
LEMMA InputListed ==
  ASSUME ListedInv, Input \/ Restart
  PROVE  ListedInv'
<1>1. CASE Input
  <2>1. Idle /\ UNCHANGED poolVars
    BY <1>1 DEF Input, Deliver, SubmitFork, Reattach, Tick, poolVars
  <2>2. \A h : ~ Held(h, stack)
    BY <2>1 DEF Idle, Held
  <2> QED
    BY <2>1, <2>2 DEF ListedInv, poolVars
<1>2. CASE Restart
  BY <1>2 DEF Restart, ListedInv
<1> QED
  BY <1>1, <1>2

\* The initial state satisfies the invariant.
LEMMA InitListed == Init => ListedInv
  BY DEF Init, ListedInv

\* Every step keeps it.
LEMMA NextListed == IInv /\ ListedInv /\ [Next]_vars => ListedInv'
<1> SUFFICES ASSUME IInv, ListedInv, [Next]_vars PROVE ListedInv'
  OBVIOUS
<1>1. CASE Step
  BY <1>1, AddBlockListed, RouteListed, AttachListed, AttachChildListed, OthersListed
     DEF Step
<1>2. CASE Input \/ Restart
  BY <1>2, InputListed
<1>3. CASE UNCHANGED vars
  BY <1>3 DEF vars, poolVars, ListedInv, Held
<1> QED
  BY <1>1, <1>2, <1>3 DEF Next

\* orphanHashes lists between calls only blocks that do wait, with their times,
\* for every block tree, every limit and every order of arrival: a hash is never
\* left behind to turn its block away.
THEOREM HashesAlwaysWait == Spec => []HashesWait
<1>1. ListedInv => HashesWait
  BY DEF ListedInv, HashesWait, Idle, Held
<1>2. Spec => []ListedInv
  BY InitListed, NextListed, Invariant, PTL DEF Spec
<1> QED
  BY <1>1, <1>2, PTL

=============================================================================
