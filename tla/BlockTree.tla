----------------------------- MODULE BlockTree -----------------------------
(***************************************************************************)
(* The static data of AlynCoin's chain selection: a universe of blocks,    *)
(* each identified by its hash, with the fields that addBlock, the side-   *)
(* chain registry and compareAndMergeChains read.  Block contents          *)
(* (transactions, signatures, proofs) matter to chain selection only       *)
(* through the verdict of the validity checks, so they are sets here.      *)
(***************************************************************************)
EXTENDS Naturals, Integers, Sequences, FiniteSets

CONSTANTS
  Blocks,        \* block hashes
  Genesis,       \* the genesis block
  Parent,        \* Parent[b] = Block::getPreviousHash
  Index,         \* Index[b]  = Block::getIndex
  Work,          \* Work[b]   = difficultyToWork(Block::getDifficulty)
  NoProof,       \* blocks with an empty zkProof
  BadTime,       \* blocks outside the parent's median-time-past window
  BadBody        \* blocks that fail PoW, isValidNewBlock, signature or coinbase

ASSUME BlocksAssumption ==
  /\ IsFiniteSet(Blocks)
  /\ Genesis \in Blocks
  /\ Parent \in [Blocks -> Blocks]
  /\ Index \in [Blocks -> Nat]
  /\ Work \in [Blocks -> Nat \ {0}]
  /\ NoProof \subseteq Blocks
  /\ BadTime \subseteq Blocks
  /\ BadBody \subseteq Blocks

\* A hash is computed over the previousHash (Block::calculateHash, mineBlock),
\* so no block is its own ancestor: in every set of blocks one has its parent
\* outside the set.  A block whose hash field is not the hash of its content is
\* not modelled.
ASSUME TreeAssumption ==
  \A S \in SUBSET (Blocks \ {Genesis}) :
    S # {} => \E b \in S : Parent[b] \notin S

Last(s) == s[Len(s)]
Elems(s) == {s[i] : i \in 1..Len(s)}
Prefix(s, n) == SubSeq(s, 1, n)

\* Accumulated work of a block: the work of its path from genesis.  addBlock,
\* registerSideChainBlockLocked and recomputeChainWork all set a block's value
\* to its predecessor's plus its own, so on a linked chain it is this number.
AccumulatedWork[b \in Blocks] ==
  IF b = Genesis THEN Work[b] ELSE AccumulatedWork[Parent[b]] + Work[b]

\* computeCumulativeDifficulty: the accumulated work of a chain's last block.
CumulativeDifficulty(s) == AccumulatedWork[Last(s)]

\* What verifyForkSafety demands: genesis first, every block on its parent.
Linked(s) ==
  /\ s # << >>
  /\ s[1] = Genesis
  /\ \A i \in 2..Len(s) : Parent[s[i]] = s[i - 1]

\* findForkCommonAncestor, as the length of the longest common prefix.
Agreements(s, t) ==
  {n \in 1..Len(s) : n <= Len(t) /\ \A i \in 1..n : s[i] = t[i]}
CommonLength(s, t) == Cardinality(Agreements(s, t))

\* hasBlockHash
InChain(b, s) == b \in Elems(s)

=============================================================================
