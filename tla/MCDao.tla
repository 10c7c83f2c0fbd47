-------------------------------- MODULE MCDao --------------------------------
(* An instance of Dao: two clients, one proposal and two voters.             *)
EXTENDS Dao, TLC

CONSTANTS c1, c2, v1, v2

MCClients == {c1, c2}
MCVoters == {v1, v2}
MCWeight == [v \in MCVoters |-> 1]
MCSymmetry == Permutations(MCClients) \union Permutations(MCVoters)
=============================================================================
