--------------------------------- MODULE Dao ---------------------------------
(***************************************************************************)
(* Proposals and votes (governance/dao.cpp over dao_storage.cpp).  RPC     *)
(* threads of the node and command-line processes make calls at the same   *)
(* time and share only the governance database.  No call takes a lock: it  *)
(* opens the database for one read or one write, closes it, works on its   *)
(* own copy of the proposal and opens it again.  RocksDB refuses a second  *)
(* handle, and then RocksDBWrapper answers false, which reads as "there is *)
(* no such key".  Votes weigh what the voter owns; balances do not change  *)
(* here.  DevFund is left out: nothing credits it (see the README).        *)
(***************************************************************************)
EXTENDS Integers, FiniteSets, Functions

CONSTANTS
  Clients,        \* RPC threads and command-line processes
  Proposals,      \* proposal ids
  Voters,
  Weight,         \* Weight[v]: the balance of v, its voting weight
  Garbage,        \* a tally dao-submit may start with: it never sets the votes
  Quorum,         \* MIN_TOTAL_VOTES
  MaxCollisions,  \* bound: opens refused because another handle is open
  MaxCrashes      \* bound: processes killed in the middle of a call

ASSUME DaoAssumption ==
  /\ IsFiniteSet(Voters) /\ Weight \in [Voters -> Nat]
  /\ {Garbage, Quorum, MaxCollisions, MaxCrashes} \subseteq Nat

VARIABLES
  proposal,  \* keys "proposal:<id>", NotFound when there is none
  votes,     \* keys "vote:<id>:<voter>"
  late,      \* proposals whose deadline has passed
  task,      \* what each client is doing
  faults     \* history: collisions and crashes so far, and whether calls overlapped

vars == <<proposal, votes, late, task, faults>>

NotFound == [status |-> "none"]
Idle == [at |-> "idle"]

\* opened is history: the tally the proposal was created with.
NewProposal(tally) ==
  [yes |-> tally, no |-> 0, status |-> "PENDING", opened |-> tally]

Init ==
  /\ proposal = [p \in Proposals |-> NotFound]
  /\ votes = {}
  /\ late = {}
  /\ task = [c \in Clients |-> Idle]
  /\ faults = [collisions |-> 0, crashes |-> 0, overlap |-> FALSE]

Busy(c) == \E d \in Clients \ {c} : task[d] # Idle

\* The calls; each works on a copy of one proposal.
Call(c, t) ==
  /\ task[c] = Idle
  /\ task' = [task EXCEPT ![c] = t]
  /\ faults' = [faults EXCEPT !.overlap = @ \/ Busy(c)]
  /\ UNCHANGED <<proposal, votes, late>>

CreateProposal(c) ==
  \E p \in Proposals, tally \in {0, Garbage} :
    Call(c, [at |-> "exists", id |-> p, copy |-> NewProposal(tally)])

CastVote(c) ==
  \E p \in Proposals, v \in Voters, yes \in BOOLEAN :
    Call(c, [at |-> "load", id |-> p, voter |-> v, yes |-> yes, copy |-> NotFound])

FinalizeProposal(c) ==
  \E p \in Proposals : Call(c, [at |-> "finalize", id |-> p, copy |-> NotFound])

CheckProposalStatus(c) ==
  \E p \in Proposals : Call(c, [at |-> "check", id |-> p, copy |-> NotFound])

\* An operation of dao_storage: "opened" whether it got its handle.
Open(c, opened) ==
  IF opened THEN UNCHANGED faults
  ELSE /\ Busy(c) /\ faults.collisions < MaxCollisions
       /\ faults' = [faults EXCEPT !.collisions = @ + 1]

Return(c) == task' = [task EXCEPT ![c] = Idle]
GoOn(c, at, copy) == task' = [task EXCEPT ![c].at = at, ![c].copy = copy]

Found(c) == proposal[task[c].id] # NotFound

\* proposalExists, in createProposal
CheckExists(c) ==
  /\ task[c].at = "exists"
  /\ \E opened \in BOOLEAN :
       /\ Open(c, opened)
       /\ IF opened /\ Found(c) THEN Return(c) ELSE GoOn(c, "store", task[c].copy)
  /\ UNCHANGED <<proposal, votes, late>>

\* Mutant: castVote goes on with what loadProposal left, found or not.
LoadToVote_Unchecked(c) ==
  /\ task[c].at = "load"
  /\ GoOn(c, "hasVoted", proposal[task[c].id])
  /\ UNCHANGED <<proposal, votes, late, faults>>

\* loadProposal, in castVote
LoadToVote(c) ==
  /\ task[c].at = "load"
  /\ \E opened \in BOOLEAN :
       /\ Open(c, opened)
       /\ IF opened /\ Found(c) THEN GoOn(c, "hasVoted", proposal[task[c].id])
          ELSE Return(c)
  /\ UNCHANGED <<proposal, votes, late>>

\* The copy with the vote added; neither the status nor a balance of 0 is looked at.
Tallied(t, copy) ==
  IF t.yes THEN [copy EXCEPT !.yes = @ + Weight[t.voter]]
  ELSE [copy EXCEPT !.no = @ + Weight[t.voter]]

\* hasVoted and the deadline, in castVote
HasVoted(c) ==
  /\ task[c].at = "hasVoted"
  /\ \E opened \in BOOLEAN :
       /\ Open(c, opened)
       /\ IF (opened /\ <<task[c].id, task[c].voter>> \in votes) \/ task[c].id \in late
            THEN Return(c)
            ELSE GoOn(c, "record", Tallied(task[c], task[c].copy))
  /\ UNCHANGED <<proposal, votes, late>>

\* Mutant: the proposal is loaded again and the vote added to what it is now.
RecordVote_Reload(c) ==
  /\ task[c].at = "record"
  /\ votes' = votes \cup {<<task[c].id, task[c].voter>>}
  /\ GoOn(c, "store", Tallied(task[c], proposal[task[c].id]))
  /\ UNCHANGED <<proposal, late, faults>>

\* recordVote, whose result castVote does not read
RecordVote(c) ==
  /\ task[c].at = "record"
  /\ \E opened \in BOOLEAN :
       /\ Open(c, opened)
       /\ votes' = IF opened THEN votes \cup {<<task[c].id, task[c].voter>>} ELSE votes
  /\ GoOn(c, "store", task[c].copy)
  /\ UNCHANGED <<proposal, late>>

\* Mutant: a vote for a proposal decided in between is dropped after it was recorded.
StoreProposal_IfPending(c) ==
  /\ task[c].at = "store"
  /\ proposal' = IF Found(c) /\ proposal[task[c].id].status # "PENDING" THEN proposal
                 ELSE [proposal EXCEPT ![task[c].id] = task[c].copy]
  /\ Return(c)
  /\ UNCHANGED <<votes, late, faults>>

\* storeProposal, the last step of every call that writes
StoreProposal(c) ==
  /\ task[c].at = "store"
  /\ \E opened \in BOOLEAN :
       /\ Open(c, opened)
       /\ proposal' = IF opened THEN [proposal EXCEPT ![task[c].id] = task[c].copy]
                      ELSE proposal
  /\ Return(c)
  /\ UNCHANGED <<votes, late>>

\* A quorum and 60% yes.
Decide(copy) ==
  LET total == copy.yes + copy.no
      approved == total >= Quorum /\ total > 0 /\ 10 * copy.yes >= 6 * total
  IN [copy EXCEPT !.status = IF approved THEN "APPROVED" ELSE "REJECTED"]

\* Mutant: a decided proposal is decided again.
Finalize_Again(c) ==
  /\ task[c].at = "finalize"
  /\ \E opened \in BOOLEAN :
       /\ Open(c, opened)
       /\ IF opened /\ Found(c) THEN GoOn(c, "store", Decide(proposal[task[c].id]))
          ELSE Return(c)
  /\ UNCHANGED <<proposal, votes, late>>

\* loadProposal in finalizeProposal; the deadline is not looked at.
Finalize(c) ==
  /\ task[c].at = "finalize"
  /\ \E opened \in BOOLEAN :
       /\ Open(c, opened)
       /\ IF opened /\ Found(c) /\ proposal[task[c].id].status = "PENDING"
            THEN GoOn(c, "store", Decide(proposal[task[c].id]))
            ELSE Return(c)
  /\ UNCHANGED <<proposal, votes, late>>

\* loadProposal in checkProposalStatus
CheckStatus(c) ==
  /\ task[c].at = "check"
  /\ \E opened \in BOOLEAN :
       /\ Open(c, opened)
       /\ IF opened /\ Found(c) /\ task[c].id \in late
             /\ proposal[task[c].id].status = "PENDING"
            THEN task' = [task EXCEPT ![c].at = "finalize"]
            ELSE Return(c)
  /\ UNCHANGED <<proposal, votes, late>>

\* The deadline of a proposal passes.
Expire(p) ==
  /\ proposal[p] # NotFound /\ p \notin late
  /\ late' = late \cup {p}
  /\ UNCHANGED <<proposal, votes, task, faults>>

\* The process is killed between two operations.
Crash(c) ==
  /\ task[c] # Idle /\ faults.crashes < MaxCrashes
  /\ Return(c)
  /\ faults' = [faults EXCEPT !.crashes = @ + 1]
  /\ UNCHANGED <<proposal, votes, late>>

Next ==
  \/ \E c \in Clients :
       \/ CreateProposal(c) \/ CastVote(c) \/ FinalizeProposal(c) \/ CheckProposalStatus(c)
       \/ CheckExists(c) \/ LoadToVote(c) \/ HasVoted(c) \/ RecordVote(c)
       \/ StoreProposal(c) \/ Finalize(c) \/ CheckStatus(c) \/ Crash(c)
  \/ \E p \in Proposals : Expire(p)

Spec == Init /\ [][Next]_vars
(***************************************************************************)
(* Properties                                                              *)
(***************************************************************************)
Stored == [yes : Nat, no : Nat, status : {"PENDING", "APPROVED", "REJECTED"},
           opened : {0, Garbage}]

Decided(p) == proposal[p].status \in {"APPROVED", "REJECTED"}

\* TypeOK: a call that is to store has a whole proposal to store.
TypeOK ==
  /\ proposal \in [Proposals -> Stored \cup {NotFound}]
  /\ votes \subseteq Proposals \X Voters
  /\ late \subseteq {p \in Proposals : proposal[p] # NotFound}
  /\ \A c \in Clients : task[c].at \in {"hasVoted", "record", "store"} =>
       task[c].id \in Proposals /\ task[c].copy \in Stored

Recorded(p) ==
  SumFunctionOnSet(Weight, {v \in Voters : <<p, v>> \in votes})

Counted(p) == proposal[p].yes + proposal[p].no - proposal[p].opened

\* NoVoterCountedTwice: as long as every open got its handle, the tally counts no
\* voter twice, however the calls of threads and processes overlap and wherever they
\* are killed: castVote reads the tally before the mark of the vote and writes it
\* after, so a tally that holds a voter's vote is only ever read with its mark.
NoVoterCountedTwice ==
  faults.collisions = 0 =>
    \A p \in Proposals : proposal[p] # NotFound => Counted(p) <= Recorded(p)

\* TallyMatchesVotes: when calls never overlapped and none was killed, the tally of
\* a proposal is what its recorded voters weigh, before and after its decision.
TallyMatchesVotes ==
  (~faults.overlap /\ faults.crashes = 0 /\ \A c \in Clients : task[c] = Idle) =>
    \A p \in Proposals : proposal[p] # NotFound => Counted(p) = Recorded(p)

\* DecisionFinal: when calls never overlapped, a decision is never changed, not even
\* by the votes that are still accepted before the deadline.
DecisionFinal ==
  [][~faults'.overlap =>
       \A p \in Proposals : Decided(p) => proposal'[p].status = proposal[p].status]_vars
=============================================================================
