----------------------------- MODULE MCMempool -----------------------------
(* An instance of Mempool: alice pays bob, who spends what he had and what   *)
(* he received.                                                              *)
EXTENDS Mempool, TLC

CONSTANTS t1, t2

MCThreads == {t1, t2}
MCSymmetry == Permutations(MCThreads)

MCAccounts == {"alice", "bob"}
MCTxs == 1..3
MCSender == [tx \in MCTxs |-> IF tx = 1 THEN "alice" ELSE "bob"]
MCRecipient == [tx \in MCTxs |-> IF tx = 1 THEN "bob" ELSE "alice"]
MCNonce == [tx \in MCTxs |-> IF tx = 3 THEN 1 ELSE 0]
MCAmount == [tx \in MCTxs |-> 1]
MCFunds == [acc \in MCAccounts |-> 1]
MCNone == {}

\* Bound: a failure takes the place of a block and of a transaction.
FewerAfterFailure ==
  failures > 0 =>
    /\ made + failures <= MaxBlocks
    /\ Txs \ (seen \union pending \union kept \union Confirmed(chain)) # {}
=============================================================================
