-------------------------- MODULE AtomicSwapProof --------------------------
(* Theorems about AtomicSwap, for any number of threads, swaps and secrets. *)
EXTENDS AtomicSwap, TLAPS

\* Every copy on its way to the store already shows its preimage, or none.
CopiesShowPreimage ==
  \A c \in Callers :
    /\ calls[c].pc = "decide" => calls[c].swap.secret = NoSecret
    /\ calls[c].pc = "save" =>
         /\ calls[c].swap.state = Done(calls[c].op)
         /\ calls[c].swap.state = "REDEEMED" =>
              /\ calls[c].swap.secret \in Secrets
              /\ HashOf[calls[c].swap.secret] = calls[c].swap.hash
         /\ calls[c].swap.state = "REFUNDED" => calls[c].swap.secret = NoSecret
    /\ In(c, "decide", "redeem") => calls[c].secret \in Secrets

\* Until two calls meet on a swap, at most one holds a copy of it, and after
\* its answer the stored state is the answered one and nobody holds a copy.
Alone(u) ==
  u \notin met =>
    /\ \A c, d \in Callers : Holds(c, u) /\ Holds(d, u) => c = d
    /\ \A op \in Ops : <<u, op>> \in answered =>
         swaps[u].state = Done(op) /\ \A c \in Callers : ~ Holds(c, u)

IInv ==
  /\ TypeOK
  /\ RedeemedShowsPreimage
  /\ CopiesShowPreimage
  /\ \A u \in Swaps : Alone(u)

-----------------------------------------------------------------------------

LEMMA InitIInv == Init => IInv
<1> SUFFICES ASSUME Init PROVE IInv
  OBVIOUS
<1>1. TypeOK
  BY SwapAssumption DEF Init, TypeOK
<1>2. RedeemedShowsPreimage
  BY DEF Init, RedeemedShowsPreimage, NoSwap
<1>3. \A c \in Callers : calls[c].pc = "idle"
  BY DEF Init, Idle
<1>4. CopiesShowPreimage
  BY <1>3 DEF CopiesShowPreimage, In
<1>5. \A u \in Swaps : Alone(u)
  BY <1>3 DEF Init, Alone, Holds
<1> QED
  BY <1>1, <1>2, <1>4, <1>5 DEF IInv

\* What the type invariant says of one call.
LEMMA CallTyped ==
  ASSUME TypeOK, NEW c \in Callers
  PROVE  /\ calls[c].pc \in {"idle", "load", "decide", "save"}
         /\ calls[c].pc = "load" => calls[c] \in Loading
         /\ calls[c].pc = "decide" => calls[c] \in Deciding
         /\ calls[c].pc = "save" => calls[c] \in Saving
  BY DEF TypeOK, Calls, Loading, Deciding, Saving, Idle

LEMMA InitiateKeepsIInv ==
  ASSUME IInv, NEW u \in Swaps, NEW h \in Hashes, NEW d \in Durations,
         InitiateSwap(u, h, d)
  PROVE  IInv'
<1> DEFINE r == [state |-> "INITIATED", hash |-> h, secret |-> NoSecret,
                 expiresAt |-> Wrap(clock + d)]
<1>1. Wrap(clock + d) \in Int
  <2>1. clock \in Int /\ d \in Int /\ TimeMax \in Int
    BY SwapAssumption DEF IInv, TypeOK
  <2> QED
    BY <2>1 DEF Wrap
<1>2. r \in Records
  BY <1>1 DEF Records, States
<1>3. swaps' = [swaps EXCEPT ![u] = r] /\ UNCHANGED <<calls, clock, answered, met>>
  BY DEF InitiateSwap
<1>4. swaps[u].state = "INVALID"
  BY DEF InitiateSwap, NoSwap
<1>5. TypeOK'
  BY <1>2, <1>3 DEF IInv, TypeOK
<1>6. RedeemedShowsPreimage'
  BY <1>3 DEF IInv, TypeOK, RedeemedShowsPreimage
<1>7. CopiesShowPreimage'
  BY <1>3 DEF IInv, CopiesShowPreimage, In
<1>8. ASSUME NEW v \in Swaps PROVE Alone(v)'
  <2>1. Alone(v) /\ Alone(u)
    BY DEF IInv
  <2>2. CASE v = u
    BY <1>3, <1>4, <2>1, <2>2 DEF Alone, Holds, Done
  <2>3. CASE v # u
    BY <1>3, <2>1, <2>3 DEF Alone, Holds, IInv, TypeOK
  <2> QED
    BY <2>2, <2>3
<1> QED
  BY <1>5, <1>6, <1>7, <1>8 DEF IInv

\* A thread takes up a new call, or ends one without saving.
LEMMA EnterKeepsIInv ==
  ASSUME IInv, NEW c \in Callers, NEW f \in Loading \union {Idle},
         calls' = [calls EXCEPT ![c] = f],
         UNCHANGED <<swaps, clock, answered, met>>
  PROVE  IInv'
<1>1. TypeOK'
  BY DEF IInv, TypeOK, Calls
<1>2. RedeemedShowsPreimage'
  BY DEF IInv, RedeemedShowsPreimage
<1>3. f.pc \in {"load", "idle"}
  BY DEF Loading, Idle
<1>4. CopiesShowPreimage'
  BY <1>3 DEF IInv, CopiesShowPreimage, In, TypeOK
<1>5. ASSUME NEW v \in Swaps PROVE Alone(v)'
  BY <1>3 DEF IInv, TypeOK, Alone, Holds
<1> QED
  BY <1>1, <1>2, <1>4, <1>5 DEF IInv

LEMMA LoadKeepsIInv ==
  ASSUME IInv, NEW c \in Callers, Load(c)
  PROVE  IInv'
<1> DEFINE u == calls[c].uuid
           f == [pc |-> "decide", op |-> calls[c].op, uuid |-> u,
                 secret |-> calls[c].secret, swap |-> swaps[u]]
<1>1. CASE Leave(c) /\ UNCHANGED met
  BY <1>1, EnterKeepsIInv DEF Load, Leave
<1>2. CASE ~ (Leave(c) /\ UNCHANGED met)
  <2>1. /\ swaps[u].state = "INITIATED"
        /\ calls[c].op = "redeem" => calls[c].secret # NoSecret
        /\ calls' = [calls EXCEPT ![c] = f]
        /\ met' = IF \E d \in Callers : Holds(d, u) THEN met \union {u} ELSE met
        /\ UNCHANGED <<swaps, clock, answered>>
    BY <1>2 DEF Load
  <2>2. calls[c] \in Loading /\ u \in Swaps
    BY CallTyped DEF Load, Loading, IInv
  <2>3. swaps[u] \in Records
    BY <2>1, <2>2 DEF IInv, TypeOK, NoSwap
  <2>4. f \in Deciding
    BY <2>1, <2>2, <2>3 DEF Deciding, Loading
  <2>5. TypeOK'
    <3>1. calls' \in [Callers -> Calls \union {Idle}]
      BY <2>1, <2>4 DEF IInv, TypeOK, Calls
    <3>2. met' \subseteq Swaps
      BY <2>1, <2>2 DEF IInv, TypeOK
    <3> QED
      BY <2>1, <3>1, <3>2 DEF IInv, TypeOK
  <2>6. RedeemedShowsPreimage'
    BY <2>1 DEF IInv, RedeemedShowsPreimage
  <2>7. swaps[u].secret = NoSecret
    BY <2>1, <2>2 DEF IInv, RedeemedShowsPreimage
  <2>8. calls[c].op = "redeem" => calls[c].secret \in Secrets
    BY <2>1, <2>2 DEF Loading, Offers
  <2>9. CopiesShowPreimage'
    <3> SUFFICES ASSUME NEW e \in Callers
                 PROVE  /\ calls'[e].pc = "decide" => calls'[e].swap.secret = NoSecret
                        /\ calls'[e].pc = "save" =>
                             /\ calls'[e].swap.state = Done(calls'[e].op)
                             /\ calls'[e].swap.state = "REDEEMED" =>
                                  /\ calls'[e].swap.secret \in Secrets
                                  /\ HashOf[calls'[e].swap.secret] = calls'[e].swap.hash
                             /\ calls'[e].swap.state = "REFUNDED" =>
                                  calls'[e].swap.secret = NoSecret
                        /\ calls'[e].pc = "decide" /\ calls'[e].op = "redeem" =>
                             calls'[e].secret \in Secrets
      BY DEF CopiesShowPreimage, In
    <3>1. CASE e = c
      BY <2>1, <2>7, <2>8, <3>1 DEF IInv, TypeOK
    <3>2. CASE e # c
      BY <2>1, <3>2 DEF IInv, TypeOK, CopiesShowPreimage, In
    <3> QED
      BY <3>1, <3>2
  <2>10. ASSUME NEW v \in Swaps PROVE Alone(v)'
    <3>1. CASE v = u
      <4> SUFFICES ASSUME u \notin met' PROVE Alone(v)'
        BY <3>1 DEF Alone
      <4>1. u \notin met /\ \A d \in Callers : ~ Holds(d, u)
        BY <2>1
      <4>2. \A op \in Ops : <<u, op>> \notin answered
        BY <2>1, <2>2, <4>1 DEF IInv, Alone, Done, Ops
      <4> QED
        BY <2>1, <3>1, <4>1, <4>2 DEF Alone, Holds, IInv, TypeOK
    <3>2. CASE v # u
      BY <2>1, <3>2 DEF Alone, Holds, IInv, TypeOK
    <3> QED
      BY <3>1, <3>2
  <2> QED
    BY <2>5, <2>6, <2>9, <2>10 DEF IInv
<1> QED
  BY <1>1, <1>2

\* A decision to settle turns the copy into a settled one of the same swap.
LEMMA DecideKeepsIInv ==
  ASSUME IInv, NEW c \in Callers, calls[c].pc = "decide",
         NEW f \in Saving,
         f.op = calls[c].op, f.uuid = calls[c].uuid,
         f.swap.state = Done(f.op),
         f.swap.state = "REDEEMED" =>
           f.swap.secret \in Secrets /\ HashOf[f.swap.secret] = f.swap.hash,
         f.swap.state = "REFUNDED" => f.swap.secret = NoSecret,
         calls' = [calls EXCEPT ![c] = f],
         UNCHANGED <<swaps, clock, answered, met>>
  PROVE  IInv'
<1>1. TypeOK'
  BY DEF IInv, TypeOK, Calls
<1>2. RedeemedShowsPreimage'
  BY DEF IInv, RedeemedShowsPreimage
<1>3. f.pc = "save"
  BY DEF Saving
<1>4. CopiesShowPreimage'
  <2> SUFFICES ASSUME NEW e \in Callers
               PROVE  /\ calls'[e].pc = "decide" => calls'[e].swap.secret = NoSecret
                      /\ calls'[e].pc = "save" =>
                           /\ calls'[e].swap.state = Done(calls'[e].op)
                           /\ calls'[e].swap.state = "REDEEMED" =>
                                /\ calls'[e].swap.secret \in Secrets
                                /\ HashOf[calls'[e].swap.secret] = calls'[e].swap.hash
                           /\ calls'[e].swap.state = "REFUNDED" =>
                                calls'[e].swap.secret = NoSecret
                      /\ calls'[e].pc = "decide" /\ calls'[e].op = "redeem" =>
                           calls'[e].secret \in Secrets
    BY DEF CopiesShowPreimage, In
  <2>1. CASE e = c
    BY <1>3, <2>1 DEF IInv, TypeOK
  <2>2. CASE e # c
    BY <2>2 DEF IInv, TypeOK, CopiesShowPreimage, In
  <2> QED
    BY <2>1, <2>2
<1>5. ASSUME NEW v \in Swaps PROVE Alone(v)'
  <2>1. \A e \in Callers : Holds(e, v)' <=> Holds(e, v)
    BY <1>3 DEF Holds, IInv, TypeOK
  <2> QED
    BY <2>1 DEF IInv, Alone
<1> QED
  BY <1>1, <1>2, <1>4, <1>5 DEF IInv

LEMMA RedeemDecideKeepsIInv ==
  ASSUME IInv, NEW c \in Callers, RedeemDecide(c)
  PROVE  IInv'
<1> DEFINE k == calls[c]
<1>1. CASE Leave(c)
  BY <1>1, EnterKeepsIInv DEF RedeemDecide, Leave
<1>2. CASE ~ Leave(c)
  <2>1. /\ HashOf[k.secret] = k.swap.hash
        /\ calls' = [calls EXCEPT ![c].pc = "save", ![c].swap.state = "REDEEMED",
                                  ![c].swap.secret = k.secret]
    BY <1>2 DEF RedeemDecide
  <2>2. k \in Deciding /\ k.op = "redeem" /\ k.secret \in Secrets
    BY CallTyped DEF RedeemDecide, IInv, In, CopiesShowPreimage
  <2>3. PICK f : f = [k EXCEPT !.pc = "save", !.swap.state = "REDEEMED",
                               !.swap.secret = k.secret]
    OBVIOUS
  <2>4. calls' = [calls EXCEPT ![c] = f]
    BY <2>1, <2>3 DEF IInv, TypeOK
  <2>5. /\ k.swap \in Records
        /\ f.swap = [k.swap EXCEPT !.state = "REDEEMED", !.secret = k.secret]
    BY <2>2, <2>3 DEF Deciding
  <2>6. f.swap \in Records /\ f.swap.state = "REDEEMED" /\ f.swap.secret = k.secret
        /\ f.swap.hash = k.swap.hash
    BY <2>2, <2>5 DEF Records, States
  <2>7. f \in Saving /\ f.op = k.op /\ f.uuid = k.uuid
    BY <2>2, <2>3, <2>6 DEF Deciding, Saving
  <2>8. f.swap.state = Done(f.op)
    BY <2>2, <2>6, <2>7 DEF Done
  <2> QED
    BY <2>1, <2>2, <2>4, <2>6, <2>7, <2>8, DecideKeepsIInv DEF RedeemDecide, In
<1> QED
  BY <1>1, <1>2

LEMMA RefundDecideKeepsIInv ==
  ASSUME IInv, NEW c \in Callers, RefundDecide(c)
  PROVE  IInv'
<1> DEFINE k == calls[c]
<1>1. CASE Leave(c)
  BY <1>1, EnterKeepsIInv DEF RefundDecide, Leave
<1>2. CASE ~ Leave(c)
  <2>1. calls' = [calls EXCEPT ![c].pc = "save", ![c].swap.state = "REFUNDED"]
    BY <1>2 DEF RefundDecide
  <2>2. k \in Deciding /\ k.op = "refund" /\ k.swap.secret = NoSecret
    BY CallTyped DEF RefundDecide, IInv, In, CopiesShowPreimage
  <2>3. PICK f : f = [k EXCEPT !.pc = "save", !.swap.state = "REFUNDED"]
    OBVIOUS
  <2>4. calls' = [calls EXCEPT ![c] = f]
    BY <2>1, <2>3 DEF IInv, TypeOK
  <2>5. /\ k.swap \in Records
        /\ f.swap = [k.swap EXCEPT !.state = "REFUNDED"]
    BY <2>2, <2>3 DEF Deciding
  <2>6. f.swap \in Records /\ f.swap.state = "REFUNDED" /\ f.swap.secret = NoSecret
    BY <2>2, <2>5 DEF Records, States
  <2>7. f \in Saving /\ f.op = k.op /\ f.uuid = k.uuid
    BY <2>2, <2>3, <2>6 DEF Deciding, Saving
  <2>8. f.swap.state = Done(f.op)
    BY <2>2, <2>6, <2>7 DEF Done
  <2> QED
    BY <2>2, <2>4, <2>6, <2>7, <2>8, DecideKeepsIInv DEF RefundDecide, In
<1> QED
  BY <1>1, <1>2

LEMMA SaveKeepsIInv ==
  ASSUME IInv, NEW c \in Callers, Save(c)
  PROVE  IInv'
<1> DEFINE k == calls[c]
           u == k.uuid
<1>1. CASE UNCHANGED <<swaps, answered>>
  BY <1>1, EnterKeepsIInv DEF Save, Leave
<1>2. CASE ~ UNCHANGED <<swaps, answered>>
  <2>1. /\ calls' = [calls EXCEPT ![c] = Idle]
        /\ swaps' = [swaps EXCEPT ![u] = k.swap]
        /\ answered' = answered \union {<<u, k.op>>}
        /\ UNCHANGED <<clock, met>>
    BY <1>2 DEF Save, Leave
  <2>2. k \in Saving
    BY CallTyped DEF Save, IInv
  <2>3. u \in Swaps /\ k.op \in Ops /\ k.swap \in Records
    BY <2>2 DEF Saving
  <2>4. /\ k.swap.state = Done(k.op)
        /\ k.swap.state = "REDEEMED" =>
             k.swap.secret \in Secrets /\ HashOf[k.swap.secret] = k.swap.hash
        /\ k.swap.state = "REFUNDED" => k.swap.secret = NoSecret
    BY DEF Save, IInv, CopiesShowPreimage
  <2>5. k.swap.state # "INITIATED"
    BY <2>2 DEF Saving
  <2>6. TypeOK'
    BY <2>1, <2>3 DEF IInv, TypeOK
  <2>7. RedeemedShowsPreimage'
    <3> SUFFICES ASSUME NEW v \in Swaps
                 PROVE  /\ swaps'[v].state = "REDEEMED" =>
                             /\ swaps'[v].secret \in Secrets
                             /\ HashOf[swaps'[v].secret] = swaps'[v].hash
                        /\ swaps'[v].state \in {"INITIATED", "REFUNDED"} =>
                             swaps'[v].secret = NoSecret
      BY DEF RedeemedShowsPreimage
    <3>1. CASE v = u
      BY <2>1, <2>4, <2>5, <3>1 DEF IInv, TypeOK
    <3>2. CASE v # u
      BY <2>1, <3>2 DEF IInv, TypeOK, RedeemedShowsPreimage
    <3> QED
      BY <3>1, <3>2
  <2>8. Idle.pc = "idle"
    BY DEF Idle
  <2>9. CopiesShowPreimage'
    BY <2>1, <2>8 DEF IInv, TypeOK, CopiesShowPreimage, In
  <2>10. ASSUME NEW v \in Swaps PROVE Alone(v)'
    <3>1. \A e \in Callers : Holds(e, v)' <=> e # c /\ Holds(e, v)
      BY <2>1, <2>8 DEF Holds, IInv, TypeOK
    <3>2. CASE v = u
      <4> SUFFICES ASSUME u \notin met PROVE Alone(v)'
        BY <2>1, <3>2 DEF Alone
      <4>1. Holds(c, u)
        BY DEF Save, Holds
      <4>2. \A e \in Callers : ~ Holds(e, v)'
        BY <2>3, <3>1, <3>2, <4>1 DEF IInv, Alone
      <4>3. \A op \in Ops : <<u, op>> \notin answered
        BY <2>3, <4>1 DEF IInv, Alone
      <4>4. swaps'[u].state = Done(k.op)
        BY <2>1, <2>3, <2>4 DEF IInv, TypeOK
      <4> QED
        BY <2>1, <2>3, <3>2, <4>2, <4>3, <4>4 DEF Alone
    <3>3. CASE v # u
      BY <2>1, <3>1, <3>3 DEF IInv, TypeOK, Alone
    <3> QED
      BY <3>2, <3>3
  <2> QED
    BY <2>6, <2>7, <2>9, <2>10 DEF IInv
<1> QED
  BY <1>1, <1>2

LEMMA RestKeepsIInv ==
  IInv /\ (Tick \/ Restart \/ UNCHANGED vars) => IInv'
<1> SUFFICES ASSUME IInv, Tick \/ Restart \/ UNCHANGED vars PROVE IInv'
  OBVIOUS
<1>1. CASE Tick \/ UNCHANGED vars
  <2>1. clock' \in 0..MaxClock
    BY <1>1, SwapAssumption DEF Tick, vars, IInv, TypeOK
  <2>2. UNCHANGED <<swaps, calls, answered, met>>
    BY <1>1 DEF Tick, vars
  <2>3. TypeOK'
    BY <2>1, <2>2 DEF IInv, TypeOK
  <2>4. RedeemedShowsPreimage' /\ CopiesShowPreimage'
    BY <2>2 DEF IInv, RedeemedShowsPreimage, CopiesShowPreimage, In
  <2>5. \A u \in Swaps : Alone(u)'
    BY <2>2 DEF IInv, Alone, Holds
  <2> QED
    BY <2>3, <2>4, <2>5 DEF IInv
<1>2. CASE Restart
  <2>1. \A c \in Callers : calls'[c].pc = "idle"
    BY <1>2 DEF Restart, Idle
  <2>2. UNCHANGED <<swaps, clock, answered, met>> /\ calls' = [c \in Callers |-> Idle]
    BY <1>2 DEF Restart
  <2>3. TypeOK'
    BY <2>2 DEF IInv, TypeOK
  <2>4. RedeemedShowsPreimage' /\ CopiesShowPreimage'
    BY <2>1, <2>2 DEF IInv, RedeemedShowsPreimage, CopiesShowPreimage, In
  <2>5. \A u \in Swaps : Alone(u)'
    BY <2>1, <2>2 DEF IInv, Alone, Holds
  <2> QED
    BY <2>3, <2>4, <2>5 DEF IInv
<1> QED
  BY <1>1, <1>2

LEMMA NextIInv == IInv /\ [Next]_vars => IInv'
<1> SUFFICES ASSUME IInv, [Next]_vars PROVE IInv'
  OBVIOUS
<1>1. ASSUME NEW u \in Swaps, NEW h \in Hashes, NEW d \in Durations, InitiateSwap(u, h, d)
      PROVE  IInv'
  BY <1>1, InitiateKeepsIInv
<1>2. ASSUME NEW c \in Callers, NEW u \in Swaps, NEW s \in Offers, NEW op \in Ops,
             Enter(c, op, u, s)
      PROVE  IInv'
  <2>1. [pc |-> "load", op |-> op, uuid |-> u, secret |-> s] \in Loading
    BY DEF Loading
  <2> QED
    BY <1>2, <2>1, EnterKeepsIInv DEF Enter
<1>3. ASSUME NEW c \in Callers,
             Load(c) \/ RedeemDecide(c) \/ RefundDecide(c) \/ Save(c)
      PROVE  IInv'
  BY <1>3, LoadKeepsIInv, RedeemDecideKeepsIInv, RefundDecideKeepsIInv, SaveKeepsIInv
<1>4. CASE Tick \/ Restart \/ UNCHANGED vars
  BY <1>4, RestKeepsIInv
<1> QED
  BY <1>1, <1>2, <1>3, <1>4 DEF Next, RedeemSwap, RefundSwap, Offers, Ops

-----------------------------------------------------------------------------

\* The inductive invariant holds throughout.
THEOREM Invariant == Spec => []IInv
  BY InitIInv, NextIInv, PTL DEF Spec

\* Every record and every copy of one keeps its type; a copy on its way to the
\* store is settled, one that waits for its decision is open.
THEOREM TypeCorrect == Spec => []TypeOK
<1>1. IInv => TypeOK
  BY DEF IInv
<1> QED
  BY <1>1, Invariant, PTL

\* A redeemed swap shows the preimage of its hash and no other swap shows one,
\* whatever the interleaving of loads and saves.
THEOREM PreimageAlwaysShown == Spec => []RedeemedShowsPreimage
<1>1. IInv => RedeemedShowsPreimage
  BY DEF IInv
<1> QED
  BY <1>1, Invariant, PTL

\* Calls that never hold copies of a swap at once settle it only once.
THEOREM BothAnsweredOnlyIfMet == Spec => []BothOnlyIfMet
<1>1. IInv => BothOnlyIfMet
  BY DEF IInv, BothOnlyIfMet, Alone, Done, Ops
<1> QED
  BY <1>1, Invariant, PTL

\* A settled swap that nobody holds a copy of never changes again.
THEOREM SettledIsFinal == Spec => SettledFinal
<1> DEFINE Final == \A u \in Swaps : Settled(u) => Settled(u)' /\ UNCHANGED swaps[u]
<1>1. IInv /\ [Next]_vars => [Final]_vars
  <2> SUFFICES ASSUME IInv, [Next]_vars, NEW u \in Swaps, Settled(u)
               PROVE  Settled(u)' /\ UNCHANGED swaps[u]
    OBVIOUS
  <2>1. UNCHANGED swaps[u]
    <3>1. ASSUME NEW v \in Swaps, NEW h \in Hashes, NEW d \in Durations,
                 InitiateSwap(v, h, d)
          PROVE  UNCHANGED swaps[u]
      <4>1. v # u
        BY <3>1 DEF InitiateSwap, Settled, NoSwap
      <4> QED
        BY <3>1, <4>1 DEF InitiateSwap, IInv, TypeOK
    <3>2. ASSUME NEW c \in Callers, Save(c)
          PROVE  UNCHANGED swaps[u]
      <4>1. calls[c].uuid # u
        BY <3>2 DEF Save, Settled, Holds
      <4> QED
        BY <3>2, <4>1 DEF Save, IInv, TypeOK
    <3> QED
      BY <3>1, <3>2 DEF Next, RedeemSwap, RefundSwap, Enter, Load, RedeemDecide,
                        RefundDecide, Tick, Restart, vars
  <2>2. ASSUME NEW c \in Callers PROVE ~ Holds(c, u)'
    <3>1. ASSUME NEW d \in Callers, NEW v \in Swaps, NEW s \in Offers, NEW op \in Ops,
                 Enter(d, op, v, s)
          PROVE  ~ Holds(c, u)'
      BY <3>1 DEF Enter, Holds, Settled, IInv, TypeOK
    <3>2. ASSUME NEW d \in Callers, Load(d)
          PROVE  ~ Holds(c, u)'
      <4>1. CASE Leave(d)
        BY <4>1 DEF Leave, Idle, Holds, Settled, IInv, TypeOK
      <4>2. CASE ~ Leave(d)
        <5>1. calls[d].uuid # u
          BY <3>2, <4>2 DEF Load, Settled
        <5> QED
          BY <3>2, <4>2, <5>1 DEF Load, Holds, Settled, IInv, TypeOK
      <4> QED
        BY <4>1, <4>2
    <3>3. ASSUME NEW d \in Callers, RedeemDecide(d) \/ RefundDecide(d) \/ Save(d)
          PROVE  ~ Holds(c, u)'
      <4>1. calls[d].pc \in {"decide", "save"}
        BY <3>3 DEF RedeemDecide, RefundDecide, Save, In
      <4>2. calls[d].uuid # u
        BY <4>1 DEF Settled, Holds
      <4>3. CASE c # d
        <5>1. calls'[c] = calls[c]
          BY <3>3, <4>3 DEF RedeemDecide, RefundDecide, Save, Leave, IInv, TypeOK
        <5> QED
          BY <5>1 DEF Settled, Holds
      <4>4. CASE c = d
        <5>1. CASE Leave(d)
          BY <4>4, <5>1 DEF Leave, Idle, Holds, IInv, TypeOK
        <5>2. CASE ~ Leave(d)
          <6>1. calls[d] \in Deciding
            BY <3>3, <5>2, CallTyped DEF RedeemDecide, RefundDecide, Save, In, IInv
          <6>2. calls'[d].uuid = calls[d].uuid
            BY <3>3, <5>2, <6>1 DEF RedeemDecide, RefundDecide, Save, IInv, TypeOK, Deciding
          <6> QED
            BY <4>2, <4>4, <6>2 DEF Holds
        <5> QED
          BY <5>1, <5>2
      <4> QED
        BY <4>3, <4>4
    <3>4. CASE Restart
      BY <3>4 DEF Restart, Holds, Idle
    <3>5. CASE UNCHANGED calls
      BY <3>5 DEF Holds, Settled
    <3> QED
      BY <3>1, <3>2, <3>3, <3>4, <3>5
         DEF Next, InitiateSwap, RedeemSwap, RefundSwap, Offers, Ops, Tick, vars
  <2> QED
    BY <2>1, <2>2 DEF Settled
<1> QED
  BY <1>1, Invariant, PTL DEF Spec, SettledFinal
-----------------------------------------------------------------------------
(* A refund is answered only after the expiry.                             *)

Copying(c) == calls[c].pc \in {"decide", "save"}
Initiated(u) == swaps[u].state \in States

\* RefundOnlyExpired speaks of the stored record, the refund looked at its copy:
\* no record or copy of a swap ever changes the time the swap was initiated with,
\* and a copy that a refund saves had expired when the refund looked at the clock.
ExpiryInv ==
  /\ \A c \in Callers : Copying(c) =>
       /\ Initiated(calls[c].uuid)
       /\ calls[c].swap.expiresAt = swaps[calls[c].uuid].expiresAt
  /\ \A c \in Callers : In(c, "save", "refund") => clock >= calls[c].swap.expiresAt
  /\ \A u \in Swaps : <<u, "refund">> \in answered =>
       Initiated(u) /\ clock >= swaps[u].expiresAt

LEMMA InitExpiryInv == Init => ExpiryInv
  BY DEF Init, ExpiryInv, Copying, In, Idle

\* What a call that holds a copy is made of.
LEMMA CopyTyped ==
  ASSUME IInv, NEW c \in Callers, Copying(c)
  PROVE  calls[c].uuid \in Swaps /\ calls[c].swap \in Records
  BY CallTyped DEF IInv, Copying, Deciding, Saving

LEMMA InitiateKeepsExpiry ==
  ASSUME IInv, ExpiryInv, NEW u \in Swaps, NEW h \in Hashes, NEW d \in Durations,
         InitiateSwap(u, h, d)
  PROVE  ExpiryInv'
<1>1. ~ Initiated(u)
  BY DEF InitiateSwap, Initiated, NoSwap, States
<1>2. /\ \A v \in Swaps : v # u => swaps'[v] = swaps[v]
      /\ UNCHANGED <<calls, clock, answered>>
  BY DEF InitiateSwap, IInv, TypeOK
<1> QED
  BY <1>1, <1>2, CopyTyped DEF ExpiryInv, Copying, Initiated, In

\* A step of one thread that leaves the store alone.
LEMMA CallKeepsExpiry ==
  ASSUME IInv, ExpiryInv, NEW c \in Callers,
         \A d \in Callers : d # c => calls'[d] = calls[d],
         UNCHANGED <<swaps, clock, answered>>,
         Copying(c)' => /\ Initiated(calls'[c].uuid)
                        /\ calls'[c].swap.expiresAt = swaps[calls'[c].uuid].expiresAt,
         In(c, "save", "refund")' => clock >= calls'[c].swap.expiresAt
  PROVE  ExpiryInv'
  BY DEF ExpiryInv, Copying, Initiated, In

LEMMA LeaveKeepsExpiry ==
  ASSUME IInv, ExpiryInv, NEW c \in Callers, NEW f \in Loading \union {Idle},
         calls' = [calls EXCEPT ![c] = f],
         UNCHANGED <<swaps, clock, answered>>
  PROVE  ExpiryInv'
<1>1. f.pc \in {"load", "idle"}
  BY DEF Loading, Idle
<1>2. calls'[c] = f /\ \A d \in Callers : d # c => calls'[d] = calls[d]
  BY DEF IInv, TypeOK
<1> QED
  BY <1>1, <1>2, CallKeepsExpiry DEF Copying, In

LEMMA LoadKeepsExpiry ==
  ASSUME IInv, ExpiryInv, NEW c \in Callers, Load(c)
  PROVE  ExpiryInv'
<1>1. CASE Leave(c)
  BY <1>1, LeaveKeepsExpiry DEF Load, Leave
<1>2. CASE ~ Leave(c)
  <2> DEFINE u == calls[c].uuid
  <2>1. u \in Swaps
    BY CallTyped DEF Load, Loading, IInv
  <2>2. /\ Initiated(u)
        /\ \A d \in Callers : d # c => calls'[d] = calls[d]
        /\ calls'[c].pc = "decide" /\ calls'[c].uuid = u /\ calls'[c].swap = swaps[u]
        /\ UNCHANGED <<swaps, clock, answered>>
    BY <1>2, <2>1 DEF Load, Initiated, States, IInv, TypeOK
  <2> QED
    BY <2>2, CallKeepsExpiry DEF In
<1> QED
  BY <1>1, <1>2

LEMMA DecideKeepsExpiry ==
  ASSUME IInv, ExpiryInv, NEW c \in Callers, RedeemDecide(c) \/ RefundDecide(c)
  PROVE  ExpiryInv'
<1>1. CASE Leave(c)
  BY <1>1, LeaveKeepsExpiry DEF RedeemDecide, RefundDecide, Leave
<1>2. CASE ~ Leave(c)
  <2>1. Copying(c) /\ calls[c] \in Deciding /\ calls[c].swap \in Records
    BY CallTyped DEF RedeemDecide, RefundDecide, In, Copying, Deciding, IInv
  <2>2. /\ \A d \in Callers : d # c => calls'[d] = calls[d]
        /\ UNCHANGED <<swaps, clock, answered>>
    BY <1>2 DEF RedeemDecide, RefundDecide, IInv, TypeOK
  <2>3. /\ calls'[c].uuid = calls[c].uuid
        /\ calls'[c].op = calls[c].op
        /\ calls'[c].swap.expiresAt = calls[c].swap.expiresAt
    BY <1>2, <2>1 DEF RedeemDecide, RefundDecide, IInv, TypeOK, Deciding, Records
  <2>4. calls[c].op = "refund" => clock >= calls[c].swap.expiresAt
    BY <1>2 DEF RedeemDecide, RefundDecide, In
  <2> QED
    BY <2>1, <2>2, <2>3, <2>4, CallKeepsExpiry DEF ExpiryInv, In
<1> QED
  BY <1>1, <1>2

LEMMA SaveKeepsExpiry ==
  ASSUME IInv, ExpiryInv, NEW c \in Callers, Save(c)
  PROVE  ExpiryInv'
<1>1. CASE UNCHANGED <<swaps, answered>>
  BY <1>1, LeaveKeepsExpiry DEF Save, Leave
<1>2. CASE ~ UNCHANGED <<swaps, answered>>
  <2>0. PICK k, u : k = calls[c] /\ u = calls[c].uuid
    OBVIOUS
  <2>1. /\ calls' = [calls EXCEPT ![c] = Idle]
        /\ swaps' = [swaps EXCEPT ![u] = k.swap]
        /\ answered' = answered \union {<<u, k.op>>}
        /\ UNCHANGED clock
    BY <1>2, <2>0 DEF Save, Leave
  <2>2. Copying(c) /\ u \in Swaps /\ k.swap \in Records
    BY <2>0, CopyTyped DEF Save, Copying
  <2>3. \A v \in Swaps : Initiated(v) =>
          Initiated(v)' /\ swaps'[v].expiresAt = swaps[v].expiresAt
    BY <2>0, <2>1, <2>2 DEF ExpiryInv, Initiated, Records, IInv, TypeOK
  <2>4. \A d \in Callers : Copying(d)' => Copying(d) /\ calls'[d] = calls[d]
    BY <2>1 DEF Copying, Idle, IInv, TypeOK
  <2>5. k.op = "refund" =>
          Initiated(u)' /\ clock' >= swaps'[u].expiresAt
    <3>1. Initiated(u) /\ k.swap.expiresAt = swaps[u].expiresAt
      BY <2>0, <2>2 DEF ExpiryInv
    <3>2. k.op = "refund" => clock >= k.swap.expiresAt
      BY <2>0 DEF ExpiryInv, Save, In
    <3> QED
      BY <2>1, <2>2, <2>3, <3>1, <3>2
  <2>6. \A d \in Callers : In(d, "save", "refund")' => In(d, "save", "refund")
                                                       /\ calls'[d] = calls[d]
    BY <2>4 DEF In, Copying
  <2>7. \A v \in Swaps : <<v, "refund">> \in answered' =>
          <<v, "refund">> \in answered \/ (v = u /\ k.op = "refund")
    BY <2>1
  <2>8. \A d \in Callers : Copying(d) => calls[d].uuid \in Swaps
    BY CopyTyped
  <2>9. \A d \in Callers : Copying(d)' =>
          /\ Initiated(calls[d].uuid)'
          /\ calls'[d].swap.expiresAt = swaps'[calls'[d].uuid].expiresAt
    BY <2>3, <2>4, <2>8 DEF ExpiryInv
  <2>10. \A v \in Swaps : <<v, "refund">> \in answered' =>
           Initiated(v)' /\ clock' >= swaps'[v].expiresAt
    BY <2>1, <2>3, <2>5, <2>7 DEF ExpiryInv
  <2>11. \A d \in Callers : In(d, "save", "refund")' =>
           clock' >= calls'[d].swap.expiresAt
    BY <2>1, <2>6 DEF ExpiryInv
  <2> QED
    BY <2>4, <2>9, <2>10, <2>11 DEF ExpiryInv, Initiated
<1> QED
  BY <1>1, <1>2

LEMMA NextExpiryInv == IInv /\ ExpiryInv /\ [Next]_vars => ExpiryInv'
<1> SUFFICES ASSUME IInv, ExpiryInv, [Next]_vars PROVE ExpiryInv'
  OBVIOUS
<1>1. ASSUME NEW u \in Swaps, NEW h \in Hashes, NEW d \in Durations, InitiateSwap(u, h, d)
      PROVE  ExpiryInv'
  BY <1>1, InitiateKeepsExpiry
<1>2. ASSUME NEW c \in Callers, NEW u \in Swaps, NEW s \in Offers, NEW op \in Ops,
             Enter(c, op, u, s)
      PROVE  ExpiryInv'
  <2>1. [pc |-> "load", op |-> op, uuid |-> u, secret |-> s] \in Loading
    BY DEF Loading
  <2> QED
    BY <1>2, <2>1, LeaveKeepsExpiry DEF Enter
<1>3. ASSUME NEW c \in Callers,
             Load(c) \/ RedeemDecide(c) \/ RefundDecide(c) \/ Save(c)
      PROVE  ExpiryInv'
  BY <1>3, LoadKeepsExpiry, DecideKeepsExpiry, SaveKeepsExpiry
<1>4. CASE Tick
  <2>1. clock' >= clock /\ clock \in Int /\ clock' \in Int
    BY <1>4, SwapAssumption DEF Tick, IInv, TypeOK
  <2>2. UNCHANGED <<swaps, calls, answered>>
    BY <1>4 DEF Tick
  <2>3. \A c \in Callers : Copying(c) => calls[c].swap.expiresAt \in Int
    BY CopyTyped DEF Records
  <2>4. \A u \in Swaps : Initiated(u) => swaps[u].expiresAt \in Int
    BY DEF Initiated, States, IInv, TypeOK, Records, NoSwap
  <2>5. \A c \in Callers : In(c, "save", "refund") => clock' >= calls[c].swap.expiresAt
    BY <2>1, <2>3 DEF ExpiryInv, In, Copying
  <2>6. \A u \in Swaps : <<u, "refund">> \in answered =>
          Initiated(u) /\ clock' >= swaps[u].expiresAt
    BY <2>1, <2>4 DEF ExpiryInv
  <2> QED
    BY <2>2, <2>5, <2>6 DEF ExpiryInv, Copying, Initiated, In
<1>5. CASE Restart
  BY <1>5 DEF Restart, ExpiryInv, Copying, Initiated, In, Idle
<1>6. CASE UNCHANGED vars
  BY <1>6 DEF vars, ExpiryInv, Copying, Initiated, In
<1> QED
  BY <1>1, <1>2, <1>3, <1>4, <1>5, <1>6 DEF Next, RedeemSwap, RefundSwap, Offers, Ops

\* No refund is answered before its swap expired, however old the copy that the
\* refund worked on and whoever wrote the record in between.
THEOREM RefundOnlyAfterExpiry == Spec => []RefundOnlyExpired
<1>1. ExpiryInv => RefundOnlyExpired
  BY DEF ExpiryInv, RefundOnlyExpired
<1> QED
  BY <1>1, Invariant, InitExpiryInv, NextExpiryInv, PTL DEF Spec
=============================================================================
