------------------------------ MODULE Mempool ------------------------------
(***************************************************************************)
(* The pool of pending transactions between the wallets that fill it, the  *)
(* miner that empties it and the main chain.  addTransaction checks nonce  *)
(* and balance against chain and pool with blockchainMutex held and saves  *)
(* the pool under tx_ keys; RPC and mining threads load it again from      *)
(* those keys, read and saved without the mutex; mining copies the pool,   *)
(* searches for a nonce without the mutex and then adds the block.         *)
(*                                                                         *)
(* Abstracted: signatures and proofs (every transaction is well signed),   *)
(* vesting, the coinbase and the fee, which the balances of the chain      *)
(* never subtract.  The pool is a set: the miner, the only one to whom its *)
(* order matters, takes it in any order.  Blocks are accepted as the tip   *)
(* or cut off; ForkChoice models how, BlockStore how they are kept.        *)
(***************************************************************************)
EXTENDS Integers, Sequences, SequencesExt, FiniteSetsExt

CONSTANTS
  Threads,    \* peers' threads, RPC handlers and miners
  Txs,        \* transactions, numbered by their timestamps
  Accounts,
  Sender, Recipient, Nonce, Amount,  \* functions on Txs
  L2,         \* transactions tagged "L2:"
  Funds,      \* balance of each account in the genesis block
  MaxBlocks,  \* bound of the model: blocks ever made
  MaxFailures \* bound of the model: writes and deletions that fail

ASSUME PoolAssumption ==
  /\ Txs \subseteq Nat /\ L2 \subseteq Txs
  /\ Sender \in [Txs -> Accounts] /\ Recipient \in [Txs -> Accounts]
  /\ Nonce \in [Txs -> Nat] /\ Amount \in [Txs -> Nat \ {0}]
  /\ Funds \in [Accounts -> Nat]
  /\ MaxBlocks \in Nat /\ MaxFailures \in Nat

\* Transactions are told apart by a hash of fixed length.
ASSUME FiniteAssumption == IsFiniteSet(Txs)

VARIABLES
  chain,    \* blocks above genesis: [id, txs]
  made,     \* number of blocks made by anyone
  pending,  \* pendingTransactions
  kept,     \* transactions under tx_ keys on disk
  seen,     \* seenTxHashes of the network
  task,     \* what each thread is doing
  failures, \* writes and deletions that failed
  unsaved   \* history: transactions a write failed to store since the pool was
            \*   last copied for a save

vars == <<chain, made, pending, kept, seen, task, failures, unsaved>>
faultVars == <<failures, unsaved>>

-----------------------------------------------------------------------------
(* What the chain says, as recalculateBalancesFromChain derives it after     *)
(* every change.                                                             *)

Confirmed(c) == UNION {c[i].txs : i \in DOMAIN c}

Total(txs) == SumFunctionOnSet(Amount, txs)
Net(acc, txs) == Total({tx \in txs : Recipient[tx] = acc}) - Total({tx \in txs : Sender[tx] = acc})
Balance(acc) == Funds[acc] + Net(acc, Confirmed(chain))

\* nextNonceByAddress
NextNonce(acc) == Max({0} \union {Nonce[tx] + 1 : tx \in {x \in Confirmed(chain) : Sender[x] = acc}})

TipId == IF chain = << >> THEN 0 ELSE Last(chain).id

-----------------------------------------------------------------------------
(* Threads.  A save of the pool deletes all keys, copies the pool into a     *)
(* batch and writes it; "locked" says whether the mutex is held meanwhile,   *)
(* "again" whether a second save follows without it.                         *)

Idle == [pc |-> "idle"]
Locked(t) ==
  \/ task[t].pc = "clear"
  \/ task[t].pc \in {"wipe", "build", "write"} /\ task[t].locked
Free == \A t \in Threads : ~ Locked(t)

Become(t, job) == task' = [task EXCEPT ![t] = job]

SaveJob(locked, again) == [pc |-> "wipe", locked |-> locked, again |-> again]

\* The database may refuse: no caller looks at the answer.
Counted(failed) ==
  failures' = failures + (IF failed THEN 1 ELSE 0) /\ failures' <= MaxFailures

\* each key is deleted on its own
Wipe(t) ==
  /\ task[t].pc = "wipe"
  /\ \E left \in SUBSET kept : kept' = left /\ Counted(left # {})
  /\ Become(t, [pc |-> "build", locked |-> task[t].locked, again |-> task[t].again])
  /\ UNCHANGED <<chain, made, pending, seen, unsaved>>

Build(t) ==
  /\ task[t].pc = "build"
  /\ Become(t, [pc |-> "write", locked |-> task[t].locked, again |-> task[t].again,
                batch |-> pending])
  /\ unsaved' = {}
  /\ UNCHANGED <<chain, made, pending, kept, seen, failures>>

\* Mutant: the batch also deletes what it does not hold.
Write_Replaces(t) ==
  /\ task[t].pc = "write"
  /\ \E stored \in SUBSET task[t].batch :
       /\ kept' = stored
       /\ unsaved' = (unsaved \union task[t].batch) \ stored
       /\ Counted(stored # task[t].batch)
  /\ Become(t, IF task[t].again THEN SaveJob(FALSE, FALSE) ELSE Idle)
  /\ UNCHANGED <<chain, made, pending, seen>>

\* The batch is written as a whole or not at all, without the transactions that
\* could not be serialised; the save goes on as if it had been.
Write(t) ==
  /\ task[t].pc = "write"
  /\ \E stored \in SUBSET task[t].batch :
       /\ kept' = kept \union stored
       /\ unsaved' = (unsaved \union task[t].batch) \ stored
       /\ Counted(stored # task[t].batch)
  /\ Become(t, IF task[t].again THEN SaveJob(FALSE, FALSE) ELSE Idle)
  /\ UNCHANGED <<chain, made, pending, seen>>

-----------------------------------------------------------------------------
(* Transactions come in. *)

\* expectedNonceForSender
ExpectedNonce(acc) ==
  Max({NextNonce(acc)} \union {Nonce[tx] + 1 : tx \in {x \in pending : Sender[x] = acc}})

Spendable(acc) == Balance(acc) - Total({tx \in pending : Sender[tx] = acc})

Acceptable(tx) ==
  /\ tx \notin Confirmed(chain) /\ tx \notin pending
  /\ Nonce[tx] = ExpectedNonce(Sender[tx])
  /\ Spendable(Sender[tx]) >= Amount[tx]

\* receiveTransaction remembers the transaction before addTransaction judges it
Receive(t, tx) ==
  /\ task[t] = Idle /\ Free
  /\ tx \notin seen
  /\ seen' = seen \union {tx}
  /\ IF Acceptable(tx)
     THEN pending' = pending \union {tx} /\ Become(t, SaveJob(TRUE, FALSE))
     ELSE UNCHANGED <<pending, task>>
  /\ UNCHANGED <<chain, made, kept, faultVars>>

\* A wallet's "send", by RPC or command line: the transaction is made with
\* the constructor's nonce, 0, and the pool is saved a second time.
Send(t, tx) ==
  /\ task[t] = Idle /\ Free
  /\ Nonce[tx] = 0
  /\ IF Acceptable(tx)
     THEN pending' = pending \union {tx} /\ Become(t, SaveJob(TRUE, TRUE))
     ELSE UNCHANGED pending /\ Become(t, SaveJob(FALSE, FALSE))
  /\ UNCHANGED <<chain, made, kept, seen, faultVars>>

-----------------------------------------------------------------------------
(* Loading the pool from disk. *)

LoadRead(t) ==
  /\ task[t] = Idle
  /\ Become(t, [pc |-> "set", loaded |-> kept])
  /\ UNCHANGED <<chain, made, pending, kept, seen, faultVars>>

\* Among the loaded transactions of a sender that are not confirmed, the first
\* of each nonce is taken from the next nonce on, up to the first gap.
Unbroken(tx, loaded) ==
  LET same(n) == {x \in loaded \ L2 : Sender[x] = Sender[tx] /\ Nonce[x] = n} IN
  /\ Nonce[tx] >= NextNonce(Sender[tx])
  /\ \A x \in same(Nonce[tx]) : tx <= x
  /\ \A n \in NextNonce(Sender[tx])..Nonce[tx] : same(n) # {}

\* Mutant: confirmed transactions are taken up again.
Restored_Confirmed(loaded) == loaded

Restored(loaded) ==
  LET open == loaded \ Confirmed(chain) IN
  {tx \in open : tx \in L2 \/ Unbroken(tx, open)}

\* setPendingTransactions, then a save without the mutex
LoadSet(t) ==
  /\ task[t].pc = "set" /\ Free
  /\ pending' = Restored(task[t].loaded)
  /\ Become(t, SaveJob(FALSE, FALSE))
  /\ UNCHANGED <<chain, made, kept, seen, faultVars>>

-----------------------------------------------------------------------------
(* Mining. *)

\* Mutant: what the block already spends is not counted.
Mineable_OneByOne(p) ==
  {p[i] : i \in {k \in DOMAIN p : p[k] \notin L2 /\ Balance(Sender[p[k]]) >= Amount[p[k]]}}

\* The transactions of the new block: of the pool in the order p, those the
\* sender can pay after the ones already taken.
Mineable(p) ==
  LET taken[i \in DOMAIN p] ==
        LET before == {p[j] : j \in {k \in 1..(i - 1) : taken[k]}} IN
        /\ p[i] \notin L2
        /\ Balance(Sender[p[i]]) + Net(Sender[p[i]], before) >= Amount[p[i]]
  IN {p[i] : i \in {k \in DOMAIN p : taken[k]}}

MineStart(t) ==
  /\ task[t] = Idle /\ Free
  /\ \E p \in SetToSeqs(pending) :
       Become(t, [pc |-> "pow", base |-> TipId, txs |-> Mineable(p)])
  /\ UNCHANGED <<chain, made, pending, kept, seen, faultVars>>

Extend(txs) ==
  /\ made < MaxBlocks
  /\ made' = made + 1
  /\ chain' = Append(chain, [id |-> made + 1, txs |-> txs])
  /\ pending' = pending \ txs

\* Mutant: the mutex is not taken again after the search.
MineEnd_NoLock(t) ==
  /\ task[t].pc = "pow"
  /\ task[t].base = TipId
  /\ Extend(task[t].txs)
  /\ Become(t, [pc |-> "clear"])
  /\ UNCHANGED <<kept, seen, faultVars>>

\* The search may fail.  addBlock adds the block if the tip is still its
\* parent; otherwise it is a side block and mining gives up.
MineEnd(t) ==
  /\ task[t].pc = "pow"
  /\ \/ /\ Free /\ task[t].base = TipId
        /\ Extend(task[t].txs)
        /\ Become(t, [pc |-> "clear"])
     \/ Become(t, Idle) /\ UNCHANGED <<chain, made, pending>>
  /\ UNCHANGED <<kept, seen, faultVars>>

\* clearPendingTransactions, with the mutex still held; the keys go in one batch
ClearPool(t) ==
  /\ task[t].pc = "clear"
  /\ pending' = {}
  /\ kept' \in {{}, kept} /\ Counted(kept' # {})
  /\ Become(t, Idle)
  /\ UNCHANGED <<chain, made, seen, unsaved>>

-----------------------------------------------------------------------------
(* The chain changes, and the process stops. *)

\* A block of a peer that runs the same program: its transactions were in no
\* block below it and its senders can pay.
PeerBlock(txs) ==
  /\ Free
  /\ txs \subseteq (Txs \ L2) \ Confirmed(chain)
  /\ \A acc \in Accounts : Balance(acc) + Net(acc, txs) >= 0
  /\ Extend(txs)
  /\ UNCHANGED <<kept, seen, task, faultVars>>

\* rollbackToIndex and rollbackToHeight; the cut transactions are dropped
Rollback(n) ==
  /\ Free
  /\ n < Len(chain)
  /\ chain' = SubSeq(chain, 1, n)
  /\ UNCHANGED <<made, pending, kept, seen, task, faultVars>>

\* the new process loads the pool
Restart(t) ==
  /\ pending' = {}
  /\ seen' = {} /\ unsaved' = {}
  /\ task' = [[u \in Threads |-> Idle] EXCEPT ![t] = [pc |-> "set", loaded |-> kept]]
  /\ UNCHANGED <<chain, made, kept, failures>>

Init ==
  /\ chain = << >> /\ made = 0
  /\ pending = {} /\ kept = {} /\ seen = {}
  /\ task = [t \in Threads |-> Idle]
  /\ failures = 0 /\ unsaved = {}

Next ==
  \/ \E t \in Threads :
       \/ \E tx \in Txs : Receive(t, tx) \/ Send(t, tx)
       \/ LoadRead(t) \/ LoadSet(t)
       \/ Wipe(t) \/ Build(t) \/ Write(t)
       \/ MineStart(t) \/ MineEnd(t) \/ ClearPool(t)
       \/ Restart(t)
  \/ \E txs \in SUBSET Txs : PeerBlock(txs)
  \/ \E n \in 0..MaxBlocks : Rollback(n)

Spec == Init /\ [][Next]_vars
-----------------------------------------------------------------------------

Tasks ==
  {Idle, [pc |-> "clear"]}
    \union [pc : {"wipe", "build"}, locked : BOOLEAN, again : BOOLEAN]
    \union [pc : {"write"}, locked : BOOLEAN, again : BOOLEAN, batch : SUBSET Txs]
    \union [pc : {"set"}, loaded : SUBSET Txs]
    \union [pc : {"pow"}, base : 0..MaxBlocks, txs : SUBSET Txs]

TypeOK ==
  /\ chain \in Seq([id : 1..MaxBlocks, txs : SUBSET Txs]) /\ made \in 0..MaxBlocks
  /\ pending \subseteq Txs /\ kept \subseteq Txs /\ seen \subseteq Txs
  /\ task \in [Threads -> Tasks]
  /\ failures \in 0..MaxFailures /\ unsaved \subseteq Txs
  /\ \A t, u \in Threads : Locked(t) /\ Locked(u) => t = u

\* No transaction is in two blocks of the main chain, although loads bring
\* back keys of transactions that were confirmed since and mining works on a
\* copy of a pool that changes meanwhile.
ConfirmedOnce ==
  \A i, j \in DOMAIN chain : i # j => chain[i].txs \cap chain[j].txs = {}

\* The chain pays nobody out of nothing: after a reorganisation the pool may
\* promise more than its senders have, but no block takes it.
NoOverdraft == \A acc \in Accounts : Balance(acc) >= 0

\* Unless a save is running, what the pool holds is on disk, however the saves
\* of several threads interleaved, except for transactions whose last write
\* failed: savePendingTransactionsToDB has deleted their keys by then and only
\* logs the error.  The next save that copies the pool answers for all of it.
PoolOnDisk ==
  (\A t \in Threads : task[t].pc \notin {"wipe", "build", "write", "clear"})
    => pending \subseteq kept \union unsaved
=============================================================================
