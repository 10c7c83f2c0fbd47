----------------------------- MODULE MainChain -----------------------------
(***************************************************************************)
(* What block acceptance promises to the rest of the node (wallet, miner,  *)
(* RPC, peers), which see nothing but the main chain and its checkpoint:   *)
(* the chain grows by valid children of its tip; it gives way to a heavier *)
(* chain of its own length; or it is cut back at the start of a            *)
(* reorganisation.  Neither a replacement nor a cut reaches more than      *)
(* MaxReorgDepth blocks down, or below the checkpoint in force.            *)
(*                                                                         *)
(* It does not promise that a checkpoint stays in force.  A block of a     *)
(* lower height sets it back after a cut, and a restart takes up any       *)
(* height ever marked, which may be lower than the last one, or skips the  *)
(* mark of the block that was being added.                                 *)
(***************************************************************************)
EXTENDS BlockTree

CONSTANTS MaxReorgDepth, CheckpointEvery

VARIABLES
  chain,       \* the main chain
  checkpoint,  \* the height below which it is not reorganised
  marked       \* the heights checkpointed so far

\* Blocks that a node may adopt one by one
Valid == Blocks \ (NoProof \union BadTime \union BadBody)

\* The first n blocks of the main chain may stay when the others go.
MayKeep(n) ==
  /\ n \in 1..Len(chain)
  /\ Len(chain) - n <= MaxReorgDepth
  /\ checkpoint > 0 => n >= checkpoint - 1

Appended(b) ==
  /\ Parent[b] = Last(chain)
  /\ Index[b] = Index[Last(chain)] + 1
  /\ chain' = Append(chain, b)

Due(b) == Index[b] % CheckpointEvery = 0

Extend(b) ==
  /\ Appended(b)
  /\ IF Due(b)
     THEN checkpoint' = Index[b] /\ marked' = marked \union {Index[b]}
     ELSE UNCHANGED <<checkpoint, marked>>

Cut(n) ==
  /\ MayKeep(n)
  /\ chain' = Prefix(chain, n)
  /\ UNCHANGED <<checkpoint, marked>>

Replace ==
  /\ Linked(chain')
  /\ Len(chain') = Len(chain)
  /\ CumulativeDifficulty(chain') > CumulativeDifficulty(chain)
  /\ MayKeep(CommonLength(chain, chain'))
  /\ UNCHANGED <<checkpoint, marked>>

Restart ==
  /\ UNCHANGED chain \/ \E b \in Valid : Appended(b) /\ Due(b)
  /\ checkpoint' \in marked
  /\ UNCHANGED marked

Init == chain = <<Genesis>> /\ checkpoint = 0 /\ marked = {0}
Next ==
  \/ \E b \in Valid : Extend(b)
  \/ \E n \in 1..Len(chain) : Cut(n)
  \/ Replace
  \/ Restart
Spec == Init /\ [][Next]_<<chain, checkpoint, marked>>
=============================================================================
