------------------------------ MODULE DaoProof ------------------------------
(* Theorems about Dao, for any number of clients, proposals and voters, any *)
(* weights and any number of collisions and crashes.                       *)
EXTENDS Dao, SumTheorems, FiniteSetTheorems, TLAPS

Copies == Stored \cup {NotFound}
VoteCalls == [at : {"load", "hasVoted", "record", "store"}, id : Proposals, voter : Voters,
              yes : BOOLEAN, copy : Copies]
OtherCalls == [at : {"exists", "finalize", "check", "store"}, id : Proposals, copy : Copies]
Calls == {Idle} \cup VoteCalls \cup OtherCalls

\* The steps at which a call has a proposal in hand
Holds(t) == t.at \in {"exists", "hasVoted", "record", "store"}

Typed ==
  /\ proposal \in [Proposals -> Copies]
  /\ votes \subseteq Proposals \X Voters
  /\ late \subseteq {p \in Proposals : proposal[p] # NotFound}
  /\ task \in [Clients -> Calls]
  /\ \A c \in Clients : Holds(task[c]) => task[c].copy \in Stored
  /\ faults \in [collisions : Nat, crashes : Nat, overlap : BOOLEAN]

LEMMA Kinds ==
  ASSUME NEW t \in Calls
  PROVE  /\ t.at \in {"load", "hasVoted", "record"} => t \in VoteCalls
         /\ t.at \in {"exists", "finalize", "check"} => t \in OtherCalls
         /\ t # Idle => t \in VoteCalls \cup OtherCalls /\ t.id \in Proposals
         /\ t.at # "idle" => t # Idle
  BY DEF Calls, VoteCalls, OtherCalls, Idle

\* What a call goes on with
Onward(t, at, copy) == [t EXCEPT !.at = at, !.copy = copy]

LEMMA OnwardFields ==
  ASSUME NEW t \in VoteCalls \cup OtherCalls, NEW at, NEW copy
  PROVE  /\ Onward(t, at, copy).at = at /\ Onward(t, at, copy).copy = copy
         /\ Onward(t, at, copy).id = t.id
         /\ t \in VoteCalls => /\ Onward(t, at, copy).voter = t.voter
                               /\ Onward(t, at, copy).yes = t.yes
  BY DEF Onward, VoteCalls, OtherCalls

LEMMA OnwardTyped ==
  ASSUME NEW t \in VoteCalls \cup OtherCalls, NEW at, NEW copy \in Copies,
         t \in VoteCalls => at \in {"hasVoted", "record", "store"},
         t \in OtherCalls => at \in {"finalize", "store"}
  PROVE  Onward(t, at, copy) \in VoteCalls \cup OtherCalls
  BY DEF Onward, VoteCalls, OtherCalls

LEMMA GoOnIs ==
  ASSUME Typed, NEW c \in Clients, task[c] # Idle, NEW at, NEW copy, GoOn(c, at, copy)
  PROVE  task' = [task EXCEPT ![c] = Onward(task[c], at, copy)]
<1>1. task[c] \in VoteCalls \cup OtherCalls
  BY Kinds DEF Typed
<1> QED
  BY <1>1 DEF GoOn, Onward, Typed

LEMMA StoredFacts ==
  /\ NotFound \notin Stored
  /\ \A x \in Stored : /\ x.yes \in Nat /\ x.no \in Nat /\ x.opened \in {0, Garbage}
                       /\ x.opened \in Nat
                       /\ x.status \in {"PENDING", "APPROVED", "REJECTED"}
  BY DaoAssumption DEF NotFound, Stored

\* The functions that make one proposal of another
CountOf(x) == x.yes + x.no - x.opened

LEMMA NewFacts ==
  ASSUME NEW tally \in {0, Garbage}
  PROVE  NewProposal(tally) \in Stored /\ CountOf(NewProposal(tally)) = 0
  BY DaoAssumption DEF NewProposal, Stored, CountOf

LEMMA TalliedFacts ==
  ASSUME NEW t \in VoteCalls, NEW x \in Stored
  PROVE  /\ Tallied(t, x) \in Stored
         /\ CountOf(Tallied(t, x)) = CountOf(x) + Weight[t.voter]
         /\ Tallied(t, x).status = x.status
<1>1. Weight[t.voter] \in Nat
  BY DaoAssumption DEF VoteCalls
<1>2. t.yes \in BOOLEAN
  BY DEF VoteCalls
<1> QED
  BY <1>1, <1>2, StoredFacts DEF Tallied, Stored, CountOf

LEMMA DecideFacts ==
  ASSUME NEW x \in Stored
  PROVE  Decide(x) \in Stored /\ CountOf(Decide(x)) = CountOf(x)
<1>1. \E z \in {"APPROVED", "REJECTED"} : Decide(x) = [x EXCEPT !.status = z]
  BY DEF Decide
<1> QED
  BY <1>1 DEF Stored, CountOf

-----------------------------------------------------------------------------
(* Types                                                                   *)

LEMMA TaskTyped ==
  ASSUME Typed, NEW c \in Clients, NEW u \in Calls, Holds(u) => u.copy \in Stored,
         task' = [task EXCEPT ![c] = u]
  PROVE  task' \in [Clients -> Calls] /\ \A d \in Clients : Holds(task'[d]) => task'[d].copy \in Stored
  BY DEF Typed

LEMMA ReturnTyped ==
  ASSUME Typed, NEW c \in Clients, Return(c)
  PROVE  task' \in [Clients -> Calls] /\ \A d \in Clients : Holds(task'[d]) => task'[d].copy \in Stored
<1>1. Idle \in Calls /\ ~ Holds(Idle)
  BY DEF Calls, Idle, Holds
<1> QED
  BY <1>1, TaskTyped DEF Return

LEMMA GoOnTyped ==
  ASSUME Typed, NEW c \in Clients, task[c] # Idle, NEW at, NEW copy \in Copies, GoOn(c, at, copy),
         at \in {"hasVoted", "record", "store"} => copy \in Stored,
         task[c] \in VoteCalls => at \in {"hasVoted", "record", "store"},
         task[c] \in OtherCalls => at \in {"finalize", "store"}
  PROVE  task' \in [Clients -> Calls] /\ \A d \in Clients : Holds(task'[d]) => task'[d].copy \in Stored
<1>1. task[c] \in VoteCalls \cup OtherCalls
  BY Kinds DEF Typed
<1>2. PICK u : u = Onward(task[c], at, copy)
  OBVIOUS
<1>3. u \in Calls /\ u.at = at /\ u.copy = copy
  BY <1>1, <1>2, OnwardTyped, OnwardFields DEF Calls
<1>4. Holds(u) => u.copy \in Stored
  BY <1>1, <1>3 DEF Holds
<1> QED
  BY <1>2, <1>3, <1>4, TaskTyped, GoOnIs

TaskOK == task \in [Clients -> Calls] /\ \A d \in Clients : Holds(task[d]) => task[d].copy \in Stored
FaultsOK == faults \in [collisions : Nat, crashes : Nat, overlap : BOOLEAN]

LEMMA OpenTyped ==
  ASSUME Typed, NEW c, NEW opened, Open(c, opened)
  PROVE  FaultsOK'
  BY DEF Open, Typed, FaultsOK

\* What a call has in hand at each of its steps
LEMMA InHand ==
  ASSUME Typed, NEW c \in Clients
  PROVE  /\ task[c].at \in {"load", "hasVoted", "record"} =>
              task[c] \in VoteCalls /\ task[c] \notin OtherCalls
         /\ task[c].at \in {"exists", "finalize", "check"} =>
              task[c] \in OtherCalls /\ task[c] \notin VoteCalls
         /\ task[c].at \in {"load", "hasVoted", "record", "exists", "finalize", "check", "store"} =>
              task[c] # Idle /\ task[c].id \in Proposals /\ proposal[task[c].id] \in Copies
         /\ task[c].at \in {"exists", "hasVoted", "record", "store"} => task[c].copy \in Stored
<1>1. task[c] \in Calls /\ (Holds(task[c]) => task[c].copy \in Stored)
  BY DEF Typed
<1>2. \A t \in VoteCalls : t.at \in {"load", "hasVoted", "record", "store"}
  BY DEF VoteCalls
<1>3. \A t \in OtherCalls : t.at \in {"exists", "finalize", "check", "store"}
  BY DEF OtherCalls
<1>4. Idle.at = "idle"
  BY DEF Idle
<1>5. task[c].at \in {"load", "hasVoted", "record", "exists", "finalize", "check", "store"} =>
        task[c] # Idle /\ task[c].id \in Proposals
  BY <1>1, <1>4, Kinds
<1> QED
  BY <1>1, <1>2, <1>3, <1>5, Kinds DEF Holds, Typed

LEMMA CallTyped ==
  ASSUME Typed, NEW c \in Clients, NEW u \in Calls, Holds(u) => u.copy \in Stored, Call(c, u)
  PROVE  Typed'
<1>1. TaskOK'
  BY TaskTyped DEF Call, TaskOK
<1>2. FaultsOK'
  BY DEF Call, Typed, FaultsOK, Busy
<1> QED
  BY <1>1, <1>2 DEF Call, Typed, TaskOK, FaultsOK

LEMMA CallsTyped ==
  ASSUME Typed, NEW c \in Clients,
         CreateProposal(c) \/ CastVote(c) \/ FinalizeProposal(c) \/ CheckProposalStatus(c)
  PROVE  Typed'
<1>1. ASSUME NEW p \in Proposals, NEW tally \in {0, Garbage}
      PROVE  LET u == [at |-> "exists", id |-> p, copy |-> NewProposal(tally)]
             IN u \in Calls /\ u.copy \in Stored
  BY NewFacts DEF Calls, OtherCalls, Copies
<1>2. ASSUME NEW p \in Proposals, NEW v \in Voters, NEW yes \in BOOLEAN
      PROVE  LET u == [at |-> "load", id |-> p, voter |-> v, yes |-> yes, copy |-> NotFound]
             IN u \in Calls /\ ~ Holds(u)
  BY DEF Calls, VoteCalls, Copies, Holds
<1>3. ASSUME NEW p \in Proposals, NEW at \in {"finalize", "check"}
      PROVE  LET u == [at |-> at, id |-> p, copy |-> NotFound] IN u \in Calls /\ ~ Holds(u)
  BY DEF Calls, OtherCalls, Copies, Holds
<1> QED
  BY <1>1, <1>2, <1>3, CallTyped DEF CreateProposal, CastVote, FinalizeProposal, CheckProposalStatus

\* A step that leaves proposals, votes and deadlines alone.
LEMMA AsideTyped ==
  ASSUME Typed, TaskOK', FaultsOK', UNCHANGED <<proposal, votes, late>>
  PROVE  Typed'
  BY DEF Typed, TaskOK, FaultsOK

LEMMA ReadsTyped ==
  ASSUME Typed, NEW c \in Clients,
         CheckExists(c) \/ LoadToVote(c) \/ HasVoted(c) \/ Finalize(c) \/ CheckStatus(c) \/ Crash(c)
  PROVE  Typed'
<1>1. UNCHANGED <<proposal, votes, late>>
  BY DEF CheckExists, LoadToVote, HasVoted, Finalize, CheckStatus, Crash
<1>2. FaultsOK'
  <2>1. (\E opened \in BOOLEAN : Open(c, opened)) \/ faults' = [faults EXCEPT !.crashes = @ + 1]
    BY DEF CheckExists, LoadToVote, HasVoted, Finalize, CheckStatus, Crash
  <2>2. FaultsOK
    BY DEF Typed, FaultsOK
  <2> QED
    BY <2>1, <2>2, OpenTyped DEF FaultsOK
<1>3. ASSUME Return(c) PROVE TaskOK'
  BY <1>3, ReturnTyped DEF TaskOK
<1>4. CASE CheckExists(c)
  <2>1. task[c].at = "exists" /\ (Return(c) \/ GoOn(c, "store", task[c].copy))
    BY <1>4 DEF CheckExists
  <2>2. GoOn(c, "store", task[c].copy) => TaskOK'
    BY <2>1, InHand, GoOnTyped DEF TaskOK, Copies
  <2> QED
    BY <1>1, <1>2, <1>3, <2>1, <2>2, AsideTyped
<1>5. CASE LoadToVote(c)
  <2>1. task[c].at = "load"
        /\ (Return(c) \/ (Found(c) /\ GoOn(c, "hasVoted", proposal[task[c].id])))
    BY <1>5 DEF LoadToVote
  <2>2. Found(c) /\ GoOn(c, "hasVoted", proposal[task[c].id]) => TaskOK'
    BY <2>1, InHand, GoOnTyped DEF TaskOK, Copies, Found
  <2> QED
    BY <1>1, <1>2, <1>3, <2>1, <2>2, AsideTyped
<1>6. CASE HasVoted(c)
  <2>1. task[c].at = "hasVoted"
        /\ (Return(c) \/ GoOn(c, "record", Tallied(task[c], task[c].copy)))
    BY <1>6 DEF HasVoted
  <2>2. Tallied(task[c], task[c].copy) \in Stored
    BY <2>1, InHand, TalliedFacts
  <2>3. GoOn(c, "record", Tallied(task[c], task[c].copy)) => TaskOK'
    BY <2>1, <2>2, InHand, GoOnTyped DEF TaskOK, Copies
  <2> QED
    BY <1>1, <1>2, <1>3, <2>1, <2>3, AsideTyped
<1>7. CASE Finalize(c)
  <2>1. task[c].at = "finalize"
        /\ (Return(c) \/ (Found(c) /\ GoOn(c, "store", Decide(proposal[task[c].id]))))
    BY <1>7 DEF Finalize
  <2>2. Found(c) => Decide(proposal[task[c].id]) \in Stored
    BY <2>1, InHand, DecideFacts DEF Found, Copies
  <2>3. Found(c) /\ GoOn(c, "store", Decide(proposal[task[c].id])) => TaskOK'
    BY <2>1, <2>2, InHand, GoOnTyped DEF TaskOK, Copies
  <2> QED
    BY <1>1, <1>2, <1>3, <2>1, <2>3, AsideTyped
<1>8. CASE CheckStatus(c)
  <2>1. task[c].at = "check" /\ (Return(c) \/ task' = [task EXCEPT ![c].at = "finalize"])
    BY <1>8 DEF CheckStatus
  <2>2. task[c] \in OtherCalls
    BY <2>1, InHand
  <2>3. PICK u : u = [task[c] EXCEPT !.at = "finalize"]
    OBVIOUS
  <2>4. u \in Calls /\ ~ Holds(u)
    BY <2>2, <2>3 DEF Calls, OtherCalls, Holds
  <2>5. task' = [task EXCEPT ![c].at = "finalize"] => TaskOK'
    BY <2>3, <2>4, TaskTyped DEF TaskOK
  <2> QED
    BY <1>1, <1>2, <1>3, <2>1, <2>5, AsideTyped
<1>9. CASE Crash(c)
  BY <1>1, <1>2, <1>3, <1>9, AsideTyped DEF Crash
<1> QED
  BY <1>4, <1>5, <1>6, <1>7, <1>8, <1>9

LEMMA RecordTyped ==
  ASSUME Typed, NEW c \in Clients, RecordVote(c)
  PROVE  Typed'
<1>1. task[c].at = "record" /\ GoOn(c, "store", task[c].copy)
  BY DEF RecordVote
<1>2. TaskOK'
  BY <1>1, InHand, GoOnTyped DEF TaskOK, Copies
<1>3. FaultsOK'
  BY OpenTyped DEF RecordVote
<1>4. <<task[c].id, task[c].voter>> \in Proposals \X Voters
  BY <1>1, InHand DEF VoteCalls
<1> QED
  BY <1>2, <1>3, <1>4 DEF RecordVote, Typed, TaskOK, FaultsOK

LEMMA StoreTyped ==
  ASSUME Typed, NEW c \in Clients, StoreProposal(c)
  PROVE  Typed'
<1>1. task[c].copy \in Stored /\ task[c].id \in Proposals
  BY InHand DEF StoreProposal
<1>2. TaskOK'
  BY ReturnTyped DEF StoreProposal, TaskOK
<1>3. FaultsOK'
  BY OpenTyped DEF StoreProposal
<1>4. proposal' = proposal \/ proposal' = [proposal EXCEPT ![task[c].id] = task[c].copy]
  BY DEF StoreProposal
<1>5. /\ proposal' \in [Proposals -> Copies]
      /\ \A p \in Proposals : proposal[p] # NotFound => proposal'[p] # NotFound
  BY <1>1, <1>4, StoredFacts DEF Typed, Copies
<1> QED
  BY <1>2, <1>3, <1>5 DEF StoreProposal, Typed, TaskOK, FaultsOK

LEMMA StepTyped ==
  ASSUME Typed, [Next]_vars
  PROVE  Typed'
<1>1. ASSUME NEW p \in Proposals, Expire(p) PROVE Typed'
  BY <1>1 DEF Expire, Typed
<1>2. CASE UNCHANGED vars
  BY <1>2 DEF vars, Typed
<1> QED
  BY <1>1, <1>2, CallsTyped, ReadsTyped, RecordTyped, StoreTyped DEF Next

LEMMA InitTyped == Init => Typed
  BY DEF Init, Typed, Copies, Calls, Holds, Idle

LEMMA TypedMeansTypeOK == Typed => TypeOK
<1> SUFFICES ASSUME Typed PROVE TypeOK
  OBVIOUS
<1>1. \A c \in Clients : task[c].at \in {"hasVoted", "record", "store"} =>
        task[c].id \in Proposals /\ task[c].copy \in Stored
  BY InHand
<1> QED
  BY <1>1 DEF Typed, TypeOK, Copies

\* Whatever calls overlap and wherever one is killed, what is stored under a proposal
\* is a whole proposal, and a deadline passes only for one that exists.
THEOREM TypeCorrect == Spec => []TypeOK
<1>1. Init => Typed
  BY InitTyped
<1>2. Typed /\ [Next]_vars => Typed'
  BY StepTyped
<1>3. Typed => TypeOK
  BY TypedMeansTypeOK
<1> QED
  BY <1>1, <1>2, <1>3, PTL DEF Spec

-----------------------------------------------------------------------------
(* No voter is counted twice                                               *)

MarkedIn(vs, p) == {v \in Voters : <<p, v>> \in vs}

\* A tally is what some of the voters in T weigh.
CountsIn(x, T) == \E S \in SUBSET T : CountOf(x) = SumFunctionOnSet(Weight, S)

\* Whoever is counted in a tally a call has in hand has its vote marked; only the
\* voter a call has just added is not marked yet.
Safe(t, vs) ==
  /\ t.at \in {"exists", "hasVoted", "store"} => CountsIn(t.copy, MarkedIn(vs, t.id))
  /\ t.at = "record" => CountsIn(t.copy, MarkedIn(vs, t.id) \cup {t.voter})

OnceInv ==
  faults.collisions = 0 =>
    /\ \A p \in Proposals : proposal[p] # NotFound => CountsIn(proposal[p], MarkedIn(votes, p))
    /\ \A c \in Clients : Safe(task[c], votes)

LEMMA WeightFacts ==
  /\ \A S \in SUBSET Voters : /\ IsFiniteSet(S) /\ \A v \in S : Weight[v] \in Nat
                              /\ SumFunctionOnSet(Weight, S) \in Nat
  /\ \A v \in Voters : Weight[v] \in Nat
<1>1. \A S \in SUBSET Voters : IsFiniteSet(S) /\ \A v \in S : Weight[v] \in Nat
  BY DaoAssumption, FS_Subset
<1>2. \A S \in SUBSET Voters : SumFunctionOnSet(Weight, S) \in Nat
  BY <1>1, SumNat
<1> QED
  BY <1>1, <1>2, DaoAssumption

LEMMA CountsInMore ==
  ASSUME NEW x, NEW S, NEW T, S \subseteq T, CountsIn(x, S)
  PROVE  CountsIn(x, T)
  BY DEF CountsIn

LEMMA CountsInSame ==
  ASSUME NEW x, NEW y, NEW T, CountOf(y) = CountOf(x), CountsIn(x, T)
  PROVE  CountsIn(y, T)
  BY DEF CountsIn

LEMMA CountsNobody ==
  ASSUME NEW x, NEW T, CountOf(x) = 0
  PROVE  CountsIn(x, T)
  BY SumEmpty DEF CountsIn

\* A voter who is not marked is not in the tally yet, so it can be added.
LEMMA CountsOneMore ==
  ASSUME NEW x, NEW y, NEW T \in SUBSET Voters, CountsIn(x, T), NEW v \in Voters, v \notin T,
         CountOf(y) = CountOf(x) + Weight[v]
  PROVE  CountsIn(y, T \cup {v})
<1>1. PICK S \in SUBSET T : CountOf(x) = SumFunctionOnSet(Weight, S)
  BY DEF CountsIn
<1>2. SumFunctionOnSet(Weight, S \cup {v}) = SumFunctionOnSet(Weight, S) + Weight[v]
  BY WeightFacts, SumAdd
<1> QED
  BY <1>1, <1>2 DEF CountsIn

LEMMA SafeMore ==
  ASSUME NEW t, NEW vs, NEW ws, vs \subseteq ws, Safe(t, vs)
  PROVE  Safe(t, ws)
<1>1. MarkedIn(vs, t.id) \subseteq MarkedIn(ws, t.id)
  BY DEF MarkedIn
<1>2. t.at \in {"exists", "hasVoted", "store"} => CountsIn(t.copy, MarkedIn(ws, t.id))
  BY <1>1, CountsInMore DEF Safe
<1>3. t.at = "record" => CountsIn(t.copy, MarkedIn(ws, t.id) \cup {t.voter})
  <2> SUFFICES ASSUME t.at = "record"
               PROVE  CountsIn(t.copy, MarkedIn(ws, t.id) \cup {t.voter})
    OBVIOUS
  <2>1. MarkedIn(vs, t.id) \cup {t.voter} \subseteq MarkedIn(ws, t.id) \cup {t.voter}
    BY <1>1
  <2> QED
    BY <2>1, CountsInMore DEF Safe
<1> QED
  BY <1>2, <1>3 DEF Safe

\* It is enough to look at the client that takes the step.
LEMMA OnceKept ==
  ASSUME OnceInv, NEW c \in Clients, NEW u, task' = [task EXCEPT ![c] = u], Typed,
         votes \subseteq votes',
         faults'.collisions = 0 =>
           /\ faults.collisions = 0 /\ Safe(u, votes')
           /\ \A p \in Proposals : proposal'[p] # NotFound =>
                proposal'[p] = proposal[p] \/ CountsIn(proposal'[p], MarkedIn(votes', p))
  PROVE  OnceInv'
<1> SUFFICES ASSUME faults'.collisions = 0
             PROVE  /\ \A p \in Proposals : proposal'[p] # NotFound =>
                                              CountsIn(proposal'[p], MarkedIn(votes', p))
                    /\ \A d \in Clients : Safe(task'[d], votes')
  BY DEF OnceInv
<1>1. ASSUME NEW d \in Clients PROVE Safe(task'[d], votes')
  <2>1. CASE d = c
    BY <2>1 DEF Typed
  <2>2. CASE d # c
    BY <2>2, SafeMore DEF Typed, OnceInv
  <2> QED
    BY <2>1, <2>2
<1>2. ASSUME NEW p \in Proposals, proposal'[p] # NotFound
      PROVE  CountsIn(proposal'[p], MarkedIn(votes', p))
  <2>1. CASE proposal'[p] = proposal[p]
    <3>1. CountsIn(proposal[p], MarkedIn(votes, p))
      BY <1>2, <2>1 DEF OnceInv
    <3>2. MarkedIn(votes, p) \subseteq MarkedIn(votes', p)
      BY DEF MarkedIn
    <3> QED
      BY <2>1, <3>1, <3>2, CountsInMore
  <2> QED
    BY <1>2, <2>1
<1> QED
  BY <1>1, <1>2

LEMMA OpenOnce ==
  ASSUME Typed, NEW c, NEW opened \in BOOLEAN, Open(c, opened), faults'.collisions = 0
  PROVE  opened /\ faults.collisions = 0
  BY DEF Open, Typed

\* A call begins with no proposal in hand but a new one.
Begins(c, u) ==
  /\ Call(c, u)
  /\ \/ u.at = "exists" /\ \E tally \in {0, Garbage} : u.copy = NewProposal(tally)
     \/ u.at \in {"load", "finalize", "check"}

LEMMA CallForms ==
  ASSUME NEW c, CreateProposal(c) \/ CastVote(c) \/ FinalizeProposal(c) \/ CheckProposalStatus(c)
  PROVE  \E u : Begins(c, u)
<1>1. CASE CreateProposal(c)
  <2>1. PICK p \in Proposals, tally \in {0, Garbage} :
          Call(c, [at |-> "exists", id |-> p, copy |-> NewProposal(tally)])
    BY <1>1 DEF CreateProposal
  <2>2. PICK u : u = [at |-> "exists", id |-> p, copy |-> NewProposal(tally)]
    OBVIOUS
  <2>3. u.at = "exists" /\ u.copy = NewProposal(tally) /\ Call(c, u)
    BY <2>1, <2>2
  <2> QED
    BY <2>3 DEF Begins
<1>2. CASE CastVote(c)
  <2>1. PICK p \in Proposals, v \in Voters, yes \in BOOLEAN :
          Call(c, [at |-> "load", id |-> p, voter |-> v, yes |-> yes, copy |-> NotFound])
    BY <1>2 DEF CastVote
  <2>2. PICK u : u = [at |-> "load", id |-> p, voter |-> v, yes |-> yes, copy |-> NotFound]
    OBVIOUS
  <2>3. u.at = "load" /\ Call(c, u)
    BY <2>1, <2>2
  <2> QED
    BY <2>3 DEF Begins
<1>3. CASE FinalizeProposal(c) \/ CheckProposalStatus(c)
  <2>1. PICK p \in Proposals, at \in {"finalize", "check"} :
          Call(c, [at |-> at, id |-> p, copy |-> NotFound])
    BY <1>3 DEF FinalizeProposal, CheckProposalStatus
  <2>2. PICK u : u = [at |-> at, id |-> p, copy |-> NotFound]
    OBVIOUS
  <2>3. u.at = at /\ Call(c, u)
    BY <2>1, <2>2
  <2> QED
    BY <2>3 DEF Begins
<1> QED
  BY <1>1, <1>2, <1>3

LEMMA CallsOnce ==
  ASSUME Typed, OnceInv, NEW c \in Clients,
         CreateProposal(c) \/ CastVote(c) \/ FinalizeProposal(c) \/ CheckProposalStatus(c)
  PROVE  OnceInv'
<1>1. PICK u : Begins(c, u)
  BY CallForms
<1>2. Safe(u, votes')
  <2>1. u.at = "exists" => CountOf(u.copy) = 0
    BY <1>1, NewFacts DEF Begins
  <2> QED
    BY <1>1, <2>1, CountsNobody DEF Safe, Begins
<1> QED
  BY <1>1, <1>2, OnceKept DEF Call, Typed, Begins

LEMMA IdleSafe == \A vs : Safe(Idle, vs)
  BY DEF Safe, Idle

LEMMA ReadsOnce ==
  ASSUME Typed, OnceInv, NEW c \in Clients,
         CheckExists(c) \/ LoadToVote(c) \/ HasVoted(c) \/ Finalize(c) \/ CheckStatus(c) \/ Crash(c)
  PROVE  OnceInv'
<1>1. proposal' = proposal /\ votes' = votes
  BY DEF CheckExists, LoadToVote, HasVoted, Finalize, CheckStatus, Crash
<1>2. faults'.collisions = 0 => faults.collisions = 0
  BY OpenOnce DEF CheckExists, LoadToVote, HasVoted, Finalize, CheckStatus, Crash, Typed
<1>3. ASSUME Return(c) PROVE OnceInv'
  BY <1>1, <1>2, <1>3, IdleSafe, OnceKept DEF Return
<1>4. ASSUME NEW u, task' = [task EXCEPT ![c] = u], faults'.collisions = 0 => Safe(u, votes)
      PROVE  OnceInv'
  BY <1>1, <1>2, <1>4, OnceKept
<1>5. CASE CheckExists(c)
  <2>1. task[c].at = "exists" /\ (Return(c) \/ GoOn(c, "store", task[c].copy))
    BY <1>5 DEF CheckExists
  <2>2. CASE GoOn(c, "store", task[c].copy)
    <3>1. PICK u : u = Onward(task[c], "store", task[c].copy)
      OBVIOUS
    <3>2. task' = [task EXCEPT ![c] = u]
      BY <2>1, <2>2, <3>1, InHand, GoOnIs
    <3>3. u.at = "store" /\ u.copy = task[c].copy /\ u.id = task[c].id
      BY <2>1, <3>1, InHand, OnwardFields
    <3>4. faults'.collisions = 0 => Safe(u, votes)
      BY <1>2, <2>1, <3>3 DEF OnceInv, Safe
    <3> QED
      BY <1>4, <3>2, <3>4
  <2> QED
    BY <1>3, <2>1, <2>2
<1>6. CASE LoadToVote(c)
  <2>1. task[c].at = "load"
        /\ (Return(c) \/ (Found(c) /\ GoOn(c, "hasVoted", proposal[task[c].id])))
    BY <1>6 DEF LoadToVote
  <2>2. CASE Found(c) /\ GoOn(c, "hasVoted", proposal[task[c].id])
    <3>1. PICK u : u = Onward(task[c], "hasVoted", proposal[task[c].id])
      OBVIOUS
    <3>2. task' = [task EXCEPT ![c] = u] /\ task[c].id \in Proposals
      BY <2>1, <2>2, <3>1, InHand, GoOnIs
    <3>3. u.at = "hasVoted" /\ u.copy = proposal[task[c].id] /\ u.id = task[c].id
      BY <2>1, <3>1, InHand, OnwardFields
    <3>4. faults'.collisions = 0 => Safe(u, votes)
      BY <1>2, <2>2, <3>2, <3>3 DEF OnceInv, Safe, Found
    <3> QED
      BY <1>4, <3>2, <3>4
  <2> QED
    BY <1>3, <2>1, <2>2
<1>7. CASE HasVoted(c)
  <2>0. PICK opened \in BOOLEAN :
          /\ task[c].at = "hasVoted" /\ Open(c, opened)
          /\ \/ Return(c)
             \/ /\ ~ (opened /\ <<task[c].id, task[c].voter>> \in votes)
                /\ GoOn(c, "record", Tallied(task[c], task[c].copy))
    BY <1>7 DEF HasVoted
  <2>2. CASE /\ ~ (opened /\ <<task[c].id, task[c].voter>> \in votes)
             /\ GoOn(c, "record", Tallied(task[c], task[c].copy))
    <3>1. PICK t, y, u : t = task[c] /\ y = Tallied(t, t.copy) /\ u = Onward(t, "record", y)
      OBVIOUS
    <3>2. t \in VoteCalls /\ t.copy \in Stored /\ t # Idle
      BY <2>0, <3>1, InHand
    <3>3. task' = [task EXCEPT ![c] = u]
      BY <2>2, <3>1, <3>2, GoOnIs
    <3>4. u.at = "record" /\ u.copy = y /\ u.id = t.id /\ u.voter = t.voter
      BY <3>1, <3>2, OnwardFields
    <3>5. ASSUME faults'.collisions = 0 PROVE Safe(u, votes)
      <4>1. opened /\ faults.collisions = 0
        BY <2>0, <3>5, OpenOnce
      <4>2. CountsIn(t.copy, MarkedIn(votes, t.id))
        BY <2>0, <3>1, <4>1 DEF OnceInv, Safe
      <4>3. t.voter \in Voters /\ t.voter \notin MarkedIn(votes, t.id)
            /\ MarkedIn(votes, t.id) \in SUBSET Voters
        BY <2>2, <3>1, <3>2, <4>1 DEF MarkedIn, VoteCalls
      <4>4. CountOf(y) = CountOf(t.copy) + Weight[t.voter]
        BY <3>1, <3>2, TalliedFacts
      <4>5. CountsIn(y, MarkedIn(votes, t.id) \cup {t.voter})
        BY <4>2, <4>3, <4>4, CountsOneMore
      <4> QED
        BY <3>4, <4>5 DEF Safe
    <3> QED
      BY <1>4, <3>3, <3>5
  <2> QED
    BY <1>3, <2>0, <2>2
<1>8. CASE Finalize(c)
  <2>1. task[c].at = "finalize"
        /\ (Return(c) \/ (Found(c) /\ GoOn(c, "store", Decide(proposal[task[c].id]))))
    BY <1>8 DEF Finalize
  <2>2. CASE Found(c) /\ GoOn(c, "store", Decide(proposal[task[c].id]))
    <3>1. PICK x, u : x = proposal[task[c].id] /\ u = Onward(task[c], "store", Decide(x))
      OBVIOUS
    <3>2. task' = [task EXCEPT ![c] = u] /\ task[c].id \in Proposals /\ x \in Stored
      BY <2>1, <2>2, <3>1, InHand, GoOnIs DEF Found, Copies
    <3>3. u.at = "store" /\ u.copy = Decide(x) /\ u.id = task[c].id
      BY <2>1, <3>1, InHand, OnwardFields
    <3>4. ASSUME faults'.collisions = 0 PROVE Safe(u, votes)
      <4>1. CountsIn(x, MarkedIn(votes, u.id))
        BY <1>2, <2>2, <3>1, <3>2, <3>3, <3>4 DEF OnceInv, Found
      <4>2. CountOf(Decide(x)) = CountOf(x)
        BY <3>2, DecideFacts
      <4>3. CountsIn(Decide(x), MarkedIn(votes, u.id))
        BY <4>1, <4>2, CountsInSame
      <4> QED
        BY <3>3, <4>3 DEF Safe
    <3> QED
      BY <1>4, <3>2, <3>4
  <2> QED
    BY <1>3, <2>1, <2>2
<1>9. CASE CheckStatus(c)
  <2>1. task[c].at = "check" /\ (Return(c) \/ task' = [task EXCEPT ![c].at = "finalize"])
    BY <1>9 DEF CheckStatus
  <2>2. task[c] \in OtherCalls
    BY <2>1, InHand
  <2>3. PICK u : u = [task[c] EXCEPT !.at = "finalize"]
    OBVIOUS
  <2>4. u.at = "finalize"
    BY <2>2, <2>3 DEF OtherCalls
  <2>5. Safe(u, votes)
    BY <2>4 DEF Safe
  <2> QED
    BY <1>3, <1>4, <2>1, <2>3, <2>5
<1>10. CASE Crash(c)
  BY <1>3, <1>10 DEF Crash
<1> QED
  BY <1>5, <1>6, <1>7, <1>8, <1>9, <1>10

LEMMA RecordOnce ==
  ASSUME Typed, OnceInv, NEW c \in Clients, RecordVote(c)
  PROVE  OnceInv'
<1>1. PICK opened \in BOOLEAN :
        /\ task[c].at = "record" /\ Open(c, opened)
        /\ votes' = IF opened THEN votes \cup {<<task[c].id, task[c].voter>>} ELSE votes
        /\ GoOn(c, "store", task[c].copy) /\ proposal' = proposal
  BY DEF RecordVote
<1>2. PICK t, u : t = task[c] /\ u = Onward(t, "store", t.copy)
  OBVIOUS
<1>3. t \in VoteCalls /\ t # Idle
  BY <1>1, <1>2, InHand
<1>4. task' = [task EXCEPT ![c] = u]
  BY <1>1, <1>2, <1>3, GoOnIs
<1>5. u.at = "store" /\ u.copy = t.copy /\ u.id = t.id
  BY <1>2, <1>3, OnwardFields
<1>6. ASSUME faults'.collisions = 0 PROVE faults.collisions = 0 /\ Safe(u, votes')
  <2>1. opened /\ faults.collisions = 0
    BY <1>1, <1>6, OpenOnce
  <2>2. CountsIn(t.copy, MarkedIn(votes, t.id) \cup {t.voter})
    BY <1>1, <1>2, <2>1 DEF OnceInv, Safe
  <2>3. MarkedIn(votes, t.id) \cup {t.voter} \subseteq MarkedIn(votes', t.id)
    BY <1>1, <1>2, <1>3, <2>1 DEF MarkedIn, VoteCalls
  <2>4. CountsIn(t.copy, MarkedIn(votes', t.id))
    BY <2>2, <2>3, CountsInMore
  <2> QED
    BY <1>5, <2>1, <2>4 DEF Safe
<1> QED
  BY <1>1, <1>4, <1>6, OnceKept

LEMMA StoreOnce ==
  ASSUME Typed, OnceInv, NEW c \in Clients, StoreProposal(c)
  PROVE  OnceInv'
<1>1. PICK opened \in BOOLEAN :
        /\ task[c].at = "store" /\ Open(c, opened) /\ Return(c) /\ votes' = votes
        /\ proposal' = IF opened THEN [proposal EXCEPT ![task[c].id] = task[c].copy] ELSE proposal
  BY DEF StoreProposal
<1>2. ASSUME faults'.collisions = 0
      PROVE  /\ faults.collisions = 0
             /\ \A p \in Proposals : proposal'[p] # NotFound =>
                  proposal'[p] = proposal[p] \/ CountsIn(proposal'[p], MarkedIn(votes', p))
  <2>1. faults.collisions = 0
    BY <1>1, <1>2, OpenOnce
  <2>2. CountsIn(task[c].copy, MarkedIn(votes, task[c].id))
    BY <1>1, <2>1 DEF OnceInv, Safe
  <2>3. \A p \in Proposals :
          proposal'[p] = proposal[p] \/ (p = task[c].id /\ proposal'[p] = task[c].copy)
    BY <1>1 DEF Typed
  <2> QED
    BY <1>1, <2>1, <2>2, <2>3
<1> QED
  BY <1>1, <1>2, IdleSafe, OnceKept DEF Return

LEMMA StepOnce ==
  ASSUME Typed, OnceInv, [Next]_vars
  PROVE  OnceInv'
<1>1. ASSUME NEW p \in Proposals, Expire(p) PROVE OnceInv'
  BY <1>1 DEF Expire, OnceInv
<1>2. CASE UNCHANGED vars
  BY <1>2 DEF vars, OnceInv
<1> QED
  BY <1>1, <1>2, CallsOnce, ReadsOnce, RecordOnce, StoreOnce DEF Next

LEMMA InitOnce == Init => OnceInv
  BY IdleSafe DEF Init, OnceInv

LEMMA OnceMeansNoneTwice == Typed /\ OnceInv => NoVoterCountedTwice
<1> SUFFICES ASSUME Typed, OnceInv, faults.collisions = 0, NEW p \in Proposals,
                    proposal[p] # NotFound
             PROVE  Counted(p) <= Recorded(p)
  BY DEF NoVoterCountedTwice
<1>1. PICK S \in SUBSET MarkedIn(votes, p) : CountOf(proposal[p]) = SumFunctionOnSet(Weight, S)
  BY DEF OnceInv, CountsIn
<1>2. IsFiniteSet(MarkedIn(votes, p)) /\ \A v \in MarkedIn(votes, p) : Weight[v] \in Nat
  BY WeightFacts DEF MarkedIn
<1>3. SumFunctionOnSet(Weight, S) <= SumFunctionOnSet(Weight, MarkedIn(votes, p))
  BY <1>2, SumMonotone
<1> QED
  BY <1>1, <1>3 DEF Counted, CountOf, Recorded, MarkedIn

\* As long as no open is refused, no voter is counted twice in a tally, whatever
\* the calls of threads and processes overlap and wherever they are killed.
THEOREM NoneCountedTwice == Spec => []NoVoterCountedTwice
<1>1. Init => Typed /\ OnceInv
  BY InitTyped, InitOnce
<1>2. Typed /\ OnceInv /\ [Next]_vars => Typed' /\ OnceInv'
  BY StepTyped, StepOnce
<1>3. Typed /\ OnceInv => NoVoterCountedTwice
  BY OnceMeansNoneTwice
<1> QED
  BY <1>1, <1>2, <1>3, PTL DEF Spec

-----------------------------------------------------------------------------
(* Calls that never overlap                                                *)

\* What a call has in hand agrees with what is stored.
Fits(t, stored, vs) ==
  /\ t.at = "hasVoted" => stored[t.id] # NotFound /\ t.copy = stored[t.id]
  /\ t.at = "record" => /\ stored[t.id] # NotFound /\ t.copy = Tallied(t, stored[t.id])
                        /\ <<t.id, t.voter>> \notin vs
  /\ t.at = "store" => (stored[t.id].status \in {"APPROVED", "REJECTED"} =>
                          t.copy.status = stored[t.id].status)

SoloInv ==
  ~ faults.overlap =>
    /\ faults.collisions = 0
    /\ \A c, d \in Clients : task[c] # Idle /\ task[d] # Idle => c = d
    /\ \A c \in Clients : Fits(task[c], proposal, votes)

LEMMA IdleFits == \A stored, vs : Fits(Idle, stored, vs)
  BY DEF Fits, Idle

\* The one client that is busy takes a step.
LEMMA SoloKept ==
  ASSUME Typed, SoloInv, NEW c \in Clients, task[c] # Idle, NEW u, task' = [task EXCEPT ![c] = u],
         faults'.overlap = faults.overlap,
         ~ faults.overlap => faults'.collisions = 0 /\ Fits(u, proposal', votes')
  PROVE  SoloInv'
<1> SUFFICES ASSUME ~ faults.overlap
             PROVE  /\ \A d, e \in Clients : task'[d] # Idle /\ task'[e] # Idle => d = e
                    /\ \A d \in Clients : Fits(task'[d], proposal', votes')
  BY DEF SoloInv
<1>1. \A d \in Clients : d # c => task'[d] = Idle
  BY DEF SoloInv, Typed
<1>2. task'[c] = u
  BY DEF Typed
<1>3. ASSUME NEW d \in Clients PROVE Fits(task'[d], proposal', votes')
  <2>1. d = c \/ task'[d] = Idle
    BY <1>1
  <2> QED
    BY <1>2, <2>1, IdleFits
<1> QED
  BY <1>1, <1>3

LEMMA OpenSolo ==
  ASSUME Typed, SoloInv, ~ faults.overlap, NEW c \in Clients, task[c] # Idle,
         NEW opened \in BOOLEAN, Open(c, opened)
  PROVE  opened /\ faults' = faults
<1>1. ~ Busy(c)
  BY DEF Busy, SoloInv
<1> QED
  BY <1>1 DEF Open

LEMMA OpenKeepsOverlap ==
  ASSUME Typed, NEW c, NEW opened \in BOOLEAN, Open(c, opened)
  PROVE  faults'.overlap = faults.overlap /\ faults'.crashes = faults.crashes
  BY DEF Open, Typed

LEMMA CallsSolo ==
  ASSUME Typed, SoloInv, NEW c \in Clients, NEW u, Begins(c, u)
  PROVE  SoloInv'
<1>1. Call(c, u) /\ u.at \notin {"hasVoted", "record", "store"}
  BY DEF Begins
<1> SUFFICES ASSUME ~ faults'.overlap
             PROVE  /\ faults'.collisions = 0
                    /\ \A d, e \in Clients : task'[d] # Idle /\ task'[e] # Idle => d = e
                    /\ \A d \in Clients : Fits(task'[d], proposal', votes')
  BY DEF SoloInv
<1>2. ~ faults.overlap /\ ~ Busy(c) /\ faults'.collisions = faults.collisions
  BY <1>1 DEF Call, Typed
<1>3. \A d \in Clients : d # c => task'[d] = Idle
  BY <1>1, <1>2 DEF Call, Busy, Typed
<1>4. task'[c] = u /\ Fits(u, proposal', votes')
  <2>1. task'[c] = u
    BY <1>1 DEF Call, Typed
  <2>2. Fits(u, proposal', votes')
    BY <1>1 DEF Fits
  <2> QED
    BY <2>1, <2>2
<1>5. ASSUME NEW d \in Clients PROVE Fits(task'[d], proposal', votes')
  <2>1. d = c \/ task'[d] = Idle
    BY <1>3
  <2> QED
    BY <1>4, <2>1, IdleFits
<1> QED
  BY <1>2, <1>3, <1>5 DEF SoloInv

\* What the busy client reads or works out next
LEMMA ReadForms ==
  ASSUME Typed, SoloInv, NEW c \in Clients,
         CheckExists(c) \/ LoadToVote(c) \/ HasVoted(c) \/ Finalize(c) \/ CheckStatus(c) \/ Crash(c)
  PROVE  /\ task[c] # Idle /\ proposal' = proposal /\ votes' = votes
         /\ faults'.overlap = faults.overlap
         /\ ~ faults.overlap => faults'.collisions = 0
         /\ faults'.crashes = 0 => faults.crashes = 0 /\ (task[c].at = "store" => faults.crashes # 0)
         /\ \E u : /\ task' = [task EXCEPT ![c] = u]
                   /\ ~ faults.overlap => Fits(u, proposal, votes)
                   /\ u.at # "exists"
                   /\ ~ faults.overlap /\ u.at = "store" =>
                        /\ u.id \in Proposals
                        /\ \/ /\ proposal[u.id] = NotFound
                              /\ task[c].at = "exists" /\ u.copy = task[c].copy
                           \/ /\ proposal[u.id] \in Stored /\ u.copy = Decide(proposal[u.id])
<1>1. proposal' = proposal /\ votes' = votes
  BY DEF CheckExists, LoadToVote, HasVoted, Finalize, CheckStatus, Crash
<1>2. CASE Crash(c)
  <2>1. task[c] # Idle /\ Return(c) /\ faults' = [faults EXCEPT !.crashes = @ + 1]
    BY <1>2 DEF Crash
  <2>2. /\ faults'.overlap = faults.overlap /\ faults'.collisions = faults.collisions
        /\ faults'.crashes # 0
    BY <2>1 DEF Typed
  <2>3. ~ faults.overlap => faults.collisions = 0
    BY DEF SoloInv
  <2>4. Idle.at = "idle"
    BY DEF Idle
  <2> QED
    BY <1>1, <2>1, <2>2, <2>3, <2>4, IdleFits DEF Return
<1>3. CASE ~ Crash(c)
  <2>1. PICK opened \in BOOLEAN :
          /\ Open(c, opened)
          /\ \/ Return(c)
             \/ /\ task[c].at = "exists" /\ ~ (opened /\ Found(c))
                /\ GoOn(c, "store", task[c].copy)
             \/ /\ task[c].at = "load" /\ Found(c)
                /\ GoOn(c, "hasVoted", proposal[task[c].id])
             \/ /\ task[c].at = "hasVoted" /\ ~ (opened /\ <<task[c].id, task[c].voter>> \in votes)
                /\ GoOn(c, "record", Tallied(task[c], task[c].copy))
             \/ /\ task[c].at = "finalize" /\ Found(c) /\ proposal[task[c].id].status = "PENDING"
                /\ GoOn(c, "store", Decide(proposal[task[c].id]))
             \/ /\ task[c].at = "check" /\ task' = [task EXCEPT ![c].at = "finalize"]
    BY <1>3 DEF CheckExists, LoadToVote, HasVoted, Finalize, CheckStatus
  <2>2. task[c].at \in {"exists", "load", "hasVoted", "finalize", "check"}
    BY <1>3 DEF CheckExists, LoadToVote, HasVoted, Finalize, CheckStatus
  <2>3. /\ task[c] # Idle /\ task[c].id \in Proposals /\ proposal[task[c].id] \in Copies
        /\ task[c] \in VoteCalls \cup OtherCalls
    BY <2>2, InHand
  <2>4. /\ faults'.overlap = faults.overlap /\ faults'.crashes = faults.crashes
        /\ ~ faults.overlap => opened /\ faults'.collisions = 0
    <3>1. faults'.overlap = faults.overlap /\ faults'.crashes = faults.crashes
      BY <2>1, OpenKeepsOverlap
    <3>2. ~ faults.overlap => opened /\ faults' = faults
      BY <2>1, <2>3, OpenSolo
    <3> QED
      BY <3>1, <3>2 DEF SoloInv
  <2> DEFINE Good(u) ==
        /\ task' = [task EXCEPT ![c] = u]
        /\ ~ faults.overlap => Fits(u, proposal, votes)
        /\ u.at # "exists"
        /\ ~ faults.overlap /\ u.at = "store" =>
             /\ u.id \in Proposals
             /\ \/ /\ proposal[u.id] = NotFound
                   /\ task[c].at = "exists" /\ u.copy = task[c].copy
                \/ /\ proposal[u.id] \in Stored /\ u.copy = Decide(proposal[u.id])
  <2>5. CASE Return(c)
    <3>1. Good(Idle)
      BY <2>5, IdleFits DEF Return, Idle
    <3> QED
      BY <1>1, <2>2, <2>3, <2>4, <3>1
  <2>6. ASSUME NEW at, NEW copy, GoOn(c, at, copy),
               at \in {"store", "hasVoted", "record"},
               ~ faults.overlap => Fits(Onward(task[c], at, copy), proposal, votes),
               ~ faults.overlap /\ at = "store" =>
                 \/ proposal[task[c].id] = NotFound /\ task[c].at = "exists" /\ copy = task[c].copy
                 \/ proposal[task[c].id] \in Stored /\ copy = Decide(proposal[task[c].id])
        PROVE  \E u : Good(u)
    <3>1. PICK u : u = Onward(task[c], at, copy)
      OBVIOUS
    <3>2. u.at = at /\ u.copy = copy /\ u.id = task[c].id
      BY <2>3, <3>1, OnwardFields
    <3>3. task' = [task EXCEPT ![c] = u]
      BY <2>3, <2>6, <3>1, GoOnIs
    <3>4. Good(u)
      BY <2>3, <2>6, <3>1, <3>2, <3>3
    <3> QED
      BY <3>4
  <2>7. CASE task[c].at = "exists" /\ ~ (opened /\ Found(c)) /\ GoOn(c, "store", task[c].copy)
    <3>1. PICK u : u = Onward(task[c], "store", task[c].copy)
      OBVIOUS
    <3>2. u.at = "store" /\ u.id = task[c].id
      BY <2>3, <3>1, OnwardFields
    <3>3. ~ faults.overlap => proposal[u.id] = NotFound
      BY <2>4, <2>7, <3>2 DEF Found
    <3>4. ~ faults.overlap => Fits(u, proposal, votes)
      BY <3>2, <3>3 DEF Fits, NotFound
    <3>5. \E z : Good(z)
      BY <2>6, <2>7, <3>1, <3>2, <3>3, <3>4
    <3> QED
      BY <1>1, <2>2, <2>3, <2>4, <3>5
  <2>8. CASE task[c].at = "load" /\ Found(c) /\ GoOn(c, "hasVoted", proposal[task[c].id])
    <3>1. PICK u : u = Onward(task[c], "hasVoted", proposal[task[c].id])
      OBVIOUS
    <3>2. u.at = "hasVoted" /\ u.id = task[c].id /\ u.copy = proposal[task[c].id]
      BY <2>3, <3>1, OnwardFields
    <3>3. Fits(u, proposal, votes)
      BY <2>8, <3>2 DEF Fits, Found
    <3>4. \E z : Good(z)
      BY <2>6, <2>8, <3>1, <3>3
    <3> QED
      BY <1>1, <2>2, <2>3, <2>4, <3>4
  <2>9. CASE /\ task[c].at = "hasVoted" /\ ~ (opened /\ <<task[c].id, task[c].voter>> \in votes)
             /\ GoOn(c, "record", Tallied(task[c], task[c].copy))
    <3>1. PICK t, u : t = task[c] /\ u = Onward(t, "record", Tallied(t, t.copy))
      OBVIOUS
    <3>2. t \in VoteCalls
      BY <2>9, <3>1, InHand
    <3>3. /\ u.at = "record" /\ u.id = t.id /\ u.copy = Tallied(t, t.copy)
          /\ u.voter = t.voter /\ u.yes = t.yes
      BY <3>1, <3>2, OnwardFields
    <3>4. \A x : Tallied(u, x) = Tallied(t, x)
      BY <3>3 DEF Tallied
    <3>5. ~ faults.overlap => Fits(u, proposal, votes)
      <4> SUFFICES ASSUME ~ faults.overlap PROVE Fits(u, proposal, votes)
        OBVIOUS
      <4>1. proposal[t.id] # NotFound /\ t.copy = proposal[t.id]
        BY <2>9, <3>1 DEF SoloInv, Fits
      <4>2. <<t.id, t.voter>> \notin votes
        BY <2>4, <2>9, <3>1
      <4> QED
        BY <3>3, <3>4, <4>1, <4>2 DEF Fits
    <3>6. \E z : Good(z)
      BY <2>6, <2>9, <3>1, <3>5
    <3> QED
      BY <1>1, <2>2, <2>3, <2>4, <3>6
  <2>10. CASE /\ task[c].at = "finalize" /\ Found(c) /\ proposal[task[c].id].status = "PENDING"
              /\ GoOn(c, "store", Decide(proposal[task[c].id]))
    <3>1. PICK x, u : x = proposal[task[c].id] /\ u = Onward(task[c], "store", Decide(x))
      OBVIOUS
    <3>2. u.at = "store" /\ u.id = task[c].id
      BY <2>3, <3>1, OnwardFields
    <3>3. x \in Stored /\ x.status = "PENDING"
      BY <2>3, <2>10, <3>1 DEF Found, Copies
    <3>4. Fits(u, proposal, votes)
      BY <3>1, <3>2, <3>3 DEF Fits
    <3>5. \E z : Good(z)
      BY <2>6, <2>10, <3>1, <3>3, <3>4
    <3> QED
      BY <1>1, <2>2, <2>3, <2>4, <3>5
  <2>11. CASE task[c].at = "check" /\ task' = [task EXCEPT ![c].at = "finalize"]
    <3>1. task[c] \in OtherCalls
      BY <2>11, InHand
    <3>2. PICK u : u = [task[c] EXCEPT !.at = "finalize"]
      OBVIOUS
    <3>3. u.at = "finalize"
      BY <3>1, <3>2 DEF OtherCalls
    <3>4. Fits(u, proposal, votes)
      BY <3>3 DEF Fits
    <3>5. Good(u)
      BY <2>11, <3>2, <3>3, <3>4
    <3> QED
      BY <1>1, <2>2, <2>3, <2>4, <3>5
  <2> QED
    BY <2>1, <2>5, <2>7, <2>8, <2>9, <2>10, <2>11
<1> QED
  BY <1>2, <1>3

LEMMA RecordForm ==
  ASSUME Typed, SoloInv, NEW c \in Clients, RecordVote(c)
  PROVE  \E u : /\ task[c] \in VoteCalls /\ task[c].at = "record" /\ task[c] # Idle
                /\ task' = [task EXCEPT ![c] = u]
                /\ u.at = "store" /\ u.id = task[c].id /\ u.copy = task[c].copy
                /\ proposal' = proposal
                /\ faults'.overlap = faults.overlap /\ faults'.crashes = faults.crashes
                /\ ~ faults.overlap =>
                     faults' = faults /\ votes' = votes \cup {<<task[c].id, task[c].voter>>}
<1>1. PICK opened \in BOOLEAN :
        /\ task[c].at = "record" /\ Open(c, opened)
        /\ votes' = IF opened THEN votes \cup {<<task[c].id, task[c].voter>>} ELSE votes
        /\ GoOn(c, "store", task[c].copy) /\ proposal' = proposal
  BY DEF RecordVote
<1>2. task[c] \in VoteCalls /\ task[c] # Idle
  BY <1>1, InHand
<1>3. PICK u : u = Onward(task[c], "store", task[c].copy)
  OBVIOUS
<1>4. task' = [task EXCEPT ![c] = u]
  BY <1>1, <1>2, <1>3, GoOnIs
<1>5. u.at = "store" /\ u.id = task[c].id /\ u.copy = task[c].copy
  BY <1>2, <1>3, OnwardFields
<1>6. faults'.overlap = faults.overlap /\ faults'.crashes = faults.crashes
  BY <1>1, OpenKeepsOverlap
<1>7. ~ faults.overlap => opened /\ faults' = faults
  BY <1>1, <1>2, OpenSolo
<1> QED
  BY <1>1, <1>2, <1>4, <1>5, <1>6, <1>7

LEMMA RecordSolo ==
  ASSUME Typed, SoloInv, NEW c \in Clients, RecordVote(c)
  PROVE  SoloInv'
<1>1. PICK u : /\ task[c] \in VoteCalls /\ task[c].at = "record" /\ task[c] # Idle
               /\ task' = [task EXCEPT ![c] = u]
               /\ u.at = "store" /\ u.id = task[c].id /\ u.copy = task[c].copy
               /\ proposal' = proposal
               /\ faults'.overlap = faults.overlap
               /\ ~ faults.overlap => faults' = faults
  BY RecordForm
<1>2. ~ faults.overlap => Fits(u, proposal', votes')
  <2> SUFFICES ASSUME ~ faults.overlap PROVE Fits(u, proposal', votes')
    OBVIOUS
  <2>1. PICK t, x : t = task[c] /\ x = proposal[t.id]
    OBVIOUS
  <2>2. t.copy = Tallied(t, x) /\ x # NotFound
    BY <1>1, <2>1 DEF SoloInv, Fits
  <2>3. x \in Stored
    BY <1>1, <2>1, <2>2, InHand DEF Copies
  <2>4. Tallied(t, x).status = x.status
    BY <1>1, <2>1, <2>3, TalliedFacts
  <2> QED
    BY <1>1, <2>1, <2>2, <2>4 DEF Fits
<1> QED
  BY <1>1, <1>2, SoloKept DEF SoloInv

LEMMA StoreForm ==
  ASSUME Typed, SoloInv, NEW c \in Clients, StoreProposal(c)
  PROVE  /\ task[c].at = "store" /\ task[c] # Idle /\ task[c].id \in Proposals
         /\ task[c].copy \in Stored
         /\ task' = [task EXCEPT ![c] = Idle] /\ votes' = votes
         /\ faults'.overlap = faults.overlap /\ faults'.crashes = faults.crashes
         /\ ~ faults.overlap =>
              /\ faults' = faults
              /\ proposal' = [proposal EXCEPT ![task[c].id] = task[c].copy]
<1>1. PICK opened \in BOOLEAN :
        /\ task[c].at = "store" /\ Open(c, opened) /\ Return(c) /\ votes' = votes
        /\ proposal' = IF opened THEN [proposal EXCEPT ![task[c].id] = task[c].copy] ELSE proposal
  BY DEF StoreProposal
<1>2. task[c] # Idle /\ task[c].id \in Proposals /\ task[c].copy \in Stored
  BY <1>1, InHand
<1>3. faults'.overlap = faults.overlap /\ faults'.crashes = faults.crashes
  BY <1>1, OpenKeepsOverlap
<1>4. ~ faults.overlap => opened /\ faults' = faults
  BY <1>1, <1>2, OpenSolo
<1> QED
  BY <1>1, <1>2, <1>3, <1>4 DEF Return

LEMMA StoreSolo ==
  ASSUME Typed, SoloInv, NEW c \in Clients, StoreProposal(c)
  PROVE  SoloInv'
  BY StoreForm, SoloKept, IdleFits DEF SoloInv

LEMMA StepSolo ==
  ASSUME Typed, SoloInv, [Next]_vars
  PROVE  SoloInv'
<1>1. ASSUME NEW p \in Proposals, Expire(p) PROVE SoloInv'
  BY <1>1 DEF Expire, SoloInv
<1>2. CASE UNCHANGED vars
  BY <1>2 DEF vars, SoloInv
<1>3. ASSUME NEW c \in Clients,
             CreateProposal(c) \/ CastVote(c) \/ FinalizeProposal(c) \/ CheckProposalStatus(c)
      PROVE  SoloInv'
  BY <1>3, CallForms, CallsSolo
<1>4. ASSUME NEW c \in Clients,
             CheckExists(c) \/ LoadToVote(c) \/ HasVoted(c) \/ Finalize(c) \/ CheckStatus(c) \/ Crash(c)
      PROVE  SoloInv'
  <2>1. PICK u : task' = [task EXCEPT ![c] = u] /\ (~ faults.overlap => Fits(u, proposal, votes))
    BY <1>4, ReadForms
  <2>2. /\ task[c] # Idle /\ proposal' = proposal /\ votes' = votes
        /\ faults'.overlap = faults.overlap /\ (~ faults.overlap => faults'.collisions = 0)
    BY <1>4, ReadForms
  <2> QED
    BY <2>1, <2>2, SoloKept
<1> QED
  BY <1>1, <1>2, <1>3, <1>4, RecordSolo, StoreSolo DEF Next

LEMMA InitSolo == Init => SoloInv
<1>1. \A stored, vs : Fits(Idle, stored, vs)
  BY IdleFits
<1> QED
  BY <1>1 DEF Init, SoloInv

\* Once decided, a proposal is only written again with the decision it has.
LEMMA StepKeepsDecision ==
  ASSUME Typed, SoloInv, [Next]_vars, ~ faults'.overlap,
         NEW p \in Proposals, Decided(p)
  PROVE  proposal'[p].status = proposal[p].status
<1>1. CASE proposal' = proposal
  BY <1>1
<1>2. CASE proposal' # proposal
  <2>1. PICK c \in Clients : StoreProposal(c)
    BY <1>2 DEF Next, vars, CreateProposal, CastVote, FinalizeProposal, CheckProposalStatus, Call,
                CheckExists, LoadToVote, HasVoted, RecordVote, Finalize, CheckStatus, Crash, Expire
  <2>2. /\ ~ faults.overlap /\ task[c].at = "store"
        /\ proposal' = [proposal EXCEPT ![task[c].id] = task[c].copy]
    BY <2>1, StoreForm
  <2>3. Fits(task[c], proposal, votes)
    BY <2>2 DEF SoloInv
  <2>4. CASE p = task[c].id
    <3>1. task[c].copy.status = proposal[p].status
      BY <2>2, <2>3, <2>4 DEF Fits, Decided
    <3> QED
      BY <2>2, <2>4, <3>1 DEF Typed
  <2>5. CASE p # task[c].id
    BY <2>2, <2>5
  <2> QED
    BY <2>4, <2>5
<1> QED
  BY <1>1, <1>2

\* When calls never overlap, no call changes a decision that was stored: neither
\* finalizeProposal nor a vote that is still accepted before the deadline.
THEOREM DecisionsStand == Spec => DecisionFinal
<1>1. Init => Typed /\ SoloInv
  BY InitTyped, InitSolo
<1>2. Typed /\ SoloInv /\ [Next]_vars => Typed' /\ SoloInv'
  BY StepTyped, StepSolo
<1>3. Typed /\ SoloInv /\ [Next]_vars =>
        [~ faults'.overlap =>
           \A p \in Proposals : Decided(p) => proposal'[p].status = proposal[p].status]_vars
  BY StepKeepsDecision
<1> QED
  BY <1>1, <1>2, <1>3, PTL DEF Spec, DecisionFinal

-----------------------------------------------------------------------------
(* The tally of calls that never overlap and are never killed              *)

Weighs(p, vs) == SumFunctionOnSet(Weight, MarkedIn(vs, p))
AtStore(c, p) == task[c].at = "store" /\ task[c].id = p

TallyInv ==
  ~ faults.overlap /\ faults.crashes = 0 =>
    /\ \A p \in Proposals : proposal[p] = NotFound => MarkedIn(votes, p) = {}
    /\ \A p \in Proposals :
         proposal[p] # NotFound /\ (\A c \in Clients : ~ AtStore(c, p)) =>
           CountOf(proposal[p]) = Weighs(p, votes)
    /\ \A c \in Clients : task[c].at = "exists" => CountOf(task[c].copy) = 0
    /\ \A c \in Clients : task[c].at = "store" =>
         CountOf(task[c].copy) = Weighs(task[c].id, votes)

\* A step that leaves proposals and votes alone
LEMMA AsideTally ==
  ASSUME Typed, SoloInv, TallyInv, NEW c \in Clients, NEW u, task' = [task EXCEPT ![c] = u],
         proposal' = proposal, votes' = votes,
         ~ faults'.overlap /\ faults'.crashes = 0 =>
           /\ ~ faults.overlap /\ faults.crashes = 0 /\ task[c].at # "store"
           /\ u.at = "exists" => CountOf(u.copy) = 0
           /\ u.at = "store" => CountOf(u.copy) = Weighs(u.id, votes)
  PROVE  TallyInv'
<1> SUFFICES ASSUME ~ faults'.overlap, faults'.crashes = 0
             PROVE  /\ \A p \in Proposals : proposal'[p] = NotFound => MarkedIn(votes', p) = {}
                    /\ \A p \in Proposals :
                         proposal'[p] # NotFound /\ (\A d \in Clients : ~ AtStore(d, p)') =>
                           CountOf(proposal'[p]) = Weighs(p, votes')
                    /\ \A d \in Clients : task'[d].at = "exists" => CountOf(task'[d].copy) = 0
                    /\ \A d \in Clients : task'[d].at = "store" =>
                         CountOf(task'[d].copy) = Weighs(task'[d].id, votes')
  BY DEF TallyInv
<1>1. ~ faults.overlap /\ faults.crashes = 0 /\ task[c].at # "store"
  OBVIOUS
<1>2. task'[c] = u /\ \A d \in Clients : d # c => task'[d] = task[d]
  BY DEF Typed
<1>3. \A d \in Clients : \A p : AtStore(d, p) => AtStore(d, p)'
  BY <1>1, <1>2 DEF AtStore
<1>4. \A p \in Proposals :
        proposal'[p] # NotFound /\ (\A d \in Clients : ~ AtStore(d, p)') =>
          CountOf(proposal'[p]) = Weighs(p, votes')
  BY <1>1, <1>3 DEF TallyInv
<1>5. ASSUME NEW d \in Clients
      PROVE  /\ task'[d].at = "exists" => CountOf(task'[d].copy) = 0
             /\ task'[d].at = "store" => CountOf(task'[d].copy) = Weighs(task'[d].id, votes')
  <2>1. CASE d = c
    BY <1>2, <2>1
  <2>2. CASE d # c
    BY <1>1, <1>2, <2>2 DEF TallyInv
  <2> QED
    BY <2>1, <2>2
<1> QED
  BY <1>1, <1>4, <1>5 DEF TallyInv

LEMMA CallsTally ==
  ASSUME Typed, SoloInv, TallyInv, NEW c \in Clients, NEW u, Begins(c, u)
  PROVE  TallyInv'
<1>1. Call(c, u) /\ u.at # "store" /\ (u.at = "exists" => CountOf(u.copy) = 0)
  BY NewFacts DEF Begins
<1>2. ~ faults'.overlap /\ faults'.crashes = 0 => ~ faults.overlap /\ faults.crashes = 0
  BY <1>1 DEF Call, Typed
<1>3. task[c].at # "store"
  BY <1>1 DEF Call, Idle
<1> QED
  BY <1>1, <1>2, <1>3, AsideTally DEF Call

LEMMA ReadsTally ==
  ASSUME Typed, SoloInv, TallyInv, NEW c \in Clients,
         CheckExists(c) \/ LoadToVote(c) \/ HasVoted(c) \/ Finalize(c) \/ CheckStatus(c) \/ Crash(c)
  PROVE  TallyInv'
<1>1. /\ task[c] # Idle /\ proposal' = proposal /\ votes' = votes
      /\ faults'.overlap = faults.overlap
      /\ faults'.crashes = 0 => faults.crashes = 0 /\ (task[c].at = "store" => faults.crashes # 0)
  BY ReadForms
<1>2. PICK u : /\ task' = [task EXCEPT ![c] = u]
               /\ u.at # "exists"
               /\ ~ faults.overlap /\ u.at = "store" =>
                    /\ u.id \in Proposals
                    /\ \/ /\ proposal[u.id] = NotFound
                          /\ task[c].at = "exists" /\ u.copy = task[c].copy
                       \/ /\ proposal[u.id] \in Stored /\ u.copy = Decide(proposal[u.id])
  BY ReadForms
<1>3. ASSUME ~ faults'.overlap, faults'.crashes = 0, u.at = "store"
      PROVE  CountOf(u.copy) = Weighs(u.id, votes)
  <2>1. ~ faults.overlap /\ faults.crashes = 0 /\ task[c].at # "store" /\ u.id \in Proposals
    BY <1>1, <1>2, <1>3
  <2>2. CASE proposal[u.id] = NotFound /\ task[c].at = "exists" /\ u.copy = task[c].copy
    <3>1. MarkedIn(votes, u.id) = {} /\ CountOf(u.copy) = 0
      BY <2>1, <2>2 DEF TallyInv
    <3> QED
      BY <3>1, SumEmpty DEF Weighs
  <2>3. CASE proposal[u.id] \in Stored /\ u.copy = Decide(proposal[u.id])
    <3>1. \A d \in Clients : ~ AtStore(d, u.id)
      <4> SUFFICES ASSUME NEW d \in Clients, AtStore(d, u.id) PROVE FALSE
        OBVIOUS
      <4>1. task[d] # Idle
        BY DEF AtStore, Idle
      <4>2. d = c
        BY <1>1, <2>1, <4>1 DEF SoloInv
      <4> QED
        BY <2>1, <4>2 DEF AtStore
    <3>2. CountOf(proposal[u.id]) = Weighs(u.id, votes)
      BY <2>1, <2>3, <3>1, StoredFacts DEF TallyInv
    <3> QED
      BY <2>3, <3>2, DecideFacts
  <2> QED
    BY <1>2, <1>3, <2>1, <2>2, <2>3
<1> QED
  BY <1>1, <1>2, <1>3, AsideTally

\* The vote is marked before the tally that has it is stored.
LEMMA RecordTally ==
  ASSUME Typed, SoloInv, TallyInv, NEW c \in Clients, RecordVote(c)
  PROVE  TallyInv'
<1>1. PICK u : /\ task[c] \in VoteCalls /\ task[c].at = "record" /\ task[c] # Idle
               /\ task' = [task EXCEPT ![c] = u]
               /\ u.at = "store" /\ u.id = task[c].id /\ u.copy = task[c].copy
               /\ proposal' = proposal
               /\ faults'.overlap = faults.overlap /\ faults'.crashes = faults.crashes
               /\ ~ faults.overlap => votes' = votes \cup {<<task[c].id, task[c].voter>>}
  BY RecordForm
<1> SUFFICES ASSUME ~ faults'.overlap, faults'.crashes = 0
             PROVE  /\ \A p \in Proposals : proposal'[p] = NotFound => MarkedIn(votes', p) = {}
                    /\ \A p \in Proposals :
                         proposal'[p] # NotFound /\ (\A d \in Clients : ~ AtStore(d, p)') =>
                           CountOf(proposal'[p]) = Weighs(p, votes')
                    /\ \A d \in Clients : task'[d].at = "exists" => CountOf(task'[d].copy) = 0
                    /\ \A d \in Clients : task'[d].at = "store" =>
                         CountOf(task'[d].copy) = Weighs(task'[d].id, votes')
  BY DEF TallyInv
<1>2. PICK t, x : t = task[c] /\ x = proposal[t.id]
  OBVIOUS
<1>3. /\ ~ faults.overlap /\ faults.crashes = 0 /\ votes' = votes \cup {<<t.id, t.voter>>}
      /\ t \in VoteCalls /\ t.id \in Proposals /\ t.voter \in Voters
  BY <1>1, <1>2 DEF VoteCalls
<1>4. x # NotFound /\ t.copy = Tallied(t, x) /\ <<t.id, t.voter>> \notin votes
  BY <1>1, <1>2, <1>3 DEF SoloInv, Fits
<1>5. x \in Stored
  BY <1>2, <1>3, <1>4 DEF Typed, Copies
<1>6. \A d \in Clients : d # c => task[d] = Idle
  BY <1>1, <1>3 DEF SoloInv
<1>7. \A d \in Clients : \A p : ~ AtStore(d, p)
  <2> SUFFICES ASSUME NEW d \in Clients, NEW p, AtStore(d, p) PROVE FALSE
    OBVIOUS
  <2>1. task[d].at = "store" /\ task[d] # Idle
    BY DEF AtStore, Idle
  <2> QED
    BY <1>1, <1>6, <2>1
<1>8. CountOf(x) = Weighs(t.id, votes)
  BY <1>2, <1>3, <1>4, <1>7 DEF TallyInv
<1>9. \A p \in Proposals : p # t.id => MarkedIn(votes', p) = MarkedIn(votes, p)
  BY <1>3 DEF MarkedIn
<1>10. /\ MarkedIn(votes', t.id) = MarkedIn(votes, t.id) \cup {t.voter}
       /\ MarkedIn(votes, t.id) \in SUBSET Voters /\ t.voter \notin MarkedIn(votes, t.id)
  BY <1>3, <1>4 DEF MarkedIn
<1>11. CountOf(t.copy) = Weighs(t.id, votes')
  <2>1. CountOf(t.copy) = CountOf(x) + Weight[t.voter]
    BY <1>3, <1>4, <1>5, TalliedFacts
  <2>2. Weighs(t.id, votes') = Weighs(t.id, votes) + Weight[t.voter]
    BY <1>3, <1>10, WeightFacts, SumAdd DEF Weighs
  <2> QED
    BY <1>8, <2>1, <2>2
<1>12. task'[c] = u /\ \A d \in Clients : d # c => task'[d] = Idle
  BY <1>1, <1>6 DEF Typed
<1>13. ASSUME NEW p \in Proposals, proposal'[p] = NotFound PROVE MarkedIn(votes', p) = {}
  BY <1>1, <1>2, <1>3, <1>4, <1>9, <1>13 DEF TallyInv
<1>14. ASSUME NEW p \in Proposals, proposal'[p] # NotFound, \A d \in Clients : ~ AtStore(d, p)'
       PROVE  CountOf(proposal'[p]) = Weighs(p, votes')
  <2>1. p # t.id
    <3>1. AtStore(c, t.id)'
      BY <1>1, <1>2, <1>12 DEF AtStore
    <3> QED
      BY <1>14, <3>1
  <2>2. CountOf(proposal[p]) = Weighs(p, votes)
    BY <1>1, <1>3, <1>7, <1>14 DEF TallyInv
  <2> QED
    BY <1>1, <1>9, <2>1, <2>2 DEF Weighs
<1>15. ASSUME NEW d \in Clients
       PROVE  /\ task'[d].at = "exists" => CountOf(task'[d].copy) = 0
              /\ task'[d].at = "store" => CountOf(task'[d].copy) = Weighs(task'[d].id, votes')
  <2>1. CASE d = c
    BY <1>1, <1>2, <1>11, <1>12, <2>1
  <2>2. CASE d # c
    BY <1>12, <2>2 DEF Idle
  <2> QED
    BY <2>1, <2>2
<1> QED
  BY <1>13, <1>14, <1>15

LEMMA StoreTally ==
  ASSUME Typed, SoloInv, TallyInv, NEW c \in Clients, StoreProposal(c)
  PROVE  TallyInv'
<1>1. /\ task[c].at = "store" /\ task[c] # Idle /\ task[c].id \in Proposals
      /\ task[c].copy \in Stored
      /\ task' = [task EXCEPT ![c] = Idle] /\ votes' = votes
      /\ faults'.overlap = faults.overlap /\ faults'.crashes = faults.crashes
      /\ ~ faults.overlap => proposal' = [proposal EXCEPT ![task[c].id] = task[c].copy]
  BY StoreForm
<1> SUFFICES ASSUME ~ faults'.overlap, faults'.crashes = 0
             PROVE  /\ \A p \in Proposals : proposal'[p] = NotFound => MarkedIn(votes', p) = {}
                    /\ \A p \in Proposals : proposal'[p] # NotFound =>
                         CountOf(proposal'[p]) = Weighs(p, votes')
                    /\ \A d \in Clients : task'[d].at \notin {"exists", "store"}
  BY DEF TallyInv
<1>2. PICK q, x : q = task[c].id /\ x = task[c].copy
  OBVIOUS
<1>3. ~ faults.overlap /\ faults.crashes = 0 /\ proposal' = [proposal EXCEPT ![q] = x]
  BY <1>1, <1>2
<1>4. \A d \in Clients : d # c => task[d] = Idle
  BY <1>1, <1>3 DEF SoloInv
<1>5. \A d \in Clients : task'[d] = Idle
  BY <1>1, <1>4 DEF Typed
<1>6. \A p \in Proposals : p # q => \A d \in Clients : ~ AtStore(d, p)
  <2> SUFFICES ASSUME NEW p \in Proposals, p # q, NEW d \in Clients, AtStore(d, p) PROVE FALSE
    OBVIOUS
  <2>1. task[d].at = "store" /\ task[d].id = p /\ task[d] # Idle
    BY DEF AtStore, Idle
  <2> QED
    BY <1>2, <1>4, <2>1
<1>7. /\ proposal'[q] = x /\ x # NotFound /\ q \in Proposals
      /\ \A p \in Proposals : p # q => proposal'[p] = proposal[p]
  BY <1>1, <1>2, <1>3, StoredFacts DEF Typed
<1>8. CountOf(x) = Weighs(q, votes)
  BY <1>1, <1>2, <1>3 DEF TallyInv
<1>9. ASSUME NEW p \in Proposals, proposal'[p] = NotFound PROVE MarkedIn(votes', p) = {}
  BY <1>1, <1>3, <1>7, <1>9 DEF TallyInv
<1>10. ASSUME NEW p \in Proposals, proposal'[p] # NotFound
       PROVE  CountOf(proposal'[p]) = Weighs(p, votes')
  <2>1. CASE p = q
    BY <1>1, <1>7, <1>8, <2>1
  <2>2. CASE p # q
    BY <1>1, <1>3, <1>6, <1>7, <1>10, <2>2 DEF TallyInv
  <2> QED
    BY <2>1, <2>2
<1>11. \A d \in Clients : task'[d].at \notin {"exists", "store"}
  BY <1>5 DEF Idle
<1> QED
  BY <1>9, <1>10, <1>11

LEMMA StepTally ==
  ASSUME Typed, SoloInv, TallyInv, [Next]_vars
  PROVE  TallyInv'
<1>1. ASSUME NEW p \in Proposals, Expire(p) PROVE TallyInv'
  BY <1>1 DEF Expire, TallyInv, AtStore
<1>2. CASE UNCHANGED vars
  BY <1>2 DEF vars, TallyInv, AtStore
<1> QED
  BY <1>1, <1>2, CallForms, CallsTally, ReadsTally, RecordTally, StoreTally DEF Next

LEMMA InitTally == Init => TallyInv
<1> SUFFICES ASSUME Init PROVE TallyInv
  OBVIOUS
<1>1. \A p \in Proposals : proposal[p] = NotFound /\ MarkedIn(votes, p) = {}
  BY DEF Init, MarkedIn
<1>2. \A c \in Clients : task[c].at = "idle"
  BY DEF Init, Idle
<1> QED
  BY <1>1, <1>2 DEF TallyInv

LEMMA TallyMeansMatch == TallyInv => TallyMatchesVotes
<1> SUFFICES ASSUME TallyInv, ~ faults.overlap, faults.crashes = 0,
                    \A c \in Clients : task[c] = Idle,
                    NEW p \in Proposals, proposal[p] # NotFound
             PROVE  Counted(p) = Recorded(p)
  BY DEF TallyMatchesVotes
<1>1. \A c \in Clients : ~ AtStore(c, p)
  BY DEF AtStore, Idle
<1>2. CountOf(proposal[p]) = Weighs(p, votes)
  BY <1>1 DEF TallyInv
<1> QED
  BY <1>2 DEF Counted, CountOf, Recorded, Weighs, MarkedIn

\* When no calls overlapped and none was killed, the tally of a proposal is between
\* calls exactly what its recorded voters weigh.
THEOREM TalliesMatch == Spec => []TallyMatchesVotes
<1>1. Init => Typed /\ SoloInv /\ TallyInv
  BY InitTyped, InitSolo, InitTally
<1>2. Typed /\ SoloInv /\ TallyInv /\ [Next]_vars => Typed' /\ SoloInv' /\ TallyInv'
  BY StepTyped, StepSolo, StepTally
<1>3. TallyInv => TallyMatchesVotes
  BY TallyMeansMatch
<1> QED
  BY <1>1, <1>2, <1>3, PTL DEF Spec
=============================================================================
