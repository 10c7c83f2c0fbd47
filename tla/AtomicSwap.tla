----------------------------- MODULE AtomicSwap -----------------------------
(***************************************************************************)
(* AtomicSwapManager over RocksDBAtomicSwapStore.  The RPC server answers  *)
(* each request on a thread of its pool, and all threads share one manager *)
(* (main.cpp:316).  The store locks one load or one save; redeemSwap and   *)
(* refundSwap hold no lock between the load, the look at the clock and the *)
(* save of their whole copy, so each of the three is a step.               *)
(***************************************************************************)
EXTENDS Integers, FiniteSets

CONSTANTS
  Callers,      \* threads of the RPC server
  Swaps,        \* swap uuids
  Secrets,      \* preimages callers may offer
  NoSecret,     \* the empty string
  Hashes,       \* secret hashes callers may ask for
  HashOf,       \* HashOf[s] = Crypto::hybridHash(s)
  Durations,    \* durationSeconds callers may ask for
  TimeMax,      \* largest time_t
  MaxClock      \* bound of the model: the last second of the clock

ASSUME SwapAssumption ==
  /\ HashOf \in [Secrets -> Hashes] /\ NoSecret \notin Secrets
  /\ Durations \subseteq Int /\ TimeMax \in Nat
  /\ MaxClock \in Nat /\ MaxClock <= TimeMax

VARIABLES
  swaps,     \* the stored record of each swap, NoSwap before it is initiated
  calls,     \* the call each thread is in, with its copy of the record
  clock,     \* std::time
  answered,  \* history: the redeem and refund calls that answered true
  met        \* history: swaps that two calls held copies of at once

vars == <<swaps, calls, clock, answered, met>>

States == {"INITIATED", "REDEEMED", "REFUNDED"}
NoSwap == [state |-> "INVALID"]
Records == [state : States, hash : Hashes, secret : Secrets \union {NoSecret},
            expiresAt : Int]

Idle == [pc |-> "idle"]
Ops == {"redeem", "refund"}
Done(op) == IF op = "redeem" THEN "REDEEMED" ELSE "REFUNDED"
Offers == Secrets \union {NoSecret}
Loading == [pc : {"load"}, op : Ops, uuid : Swaps, secret : Offers]
Deciding == [pc : {"decide"}, op : Ops, uuid : Swaps, secret : Offers,
             swap : {r \in Records : r.state = "INITIATED"}]
Saving == [pc : {"save"}, op : Ops, uuid : Swaps, secret : Offers,
           swap : {r \in Records : r.state # "INITIATED"}]
Calls == Loading \union Deciding \union Saving

In(c, pc, op) == calls[c].pc = pc /\ calls[c].op = op
Holds(c, u) == calls[c].pc \in {"decide", "save"} /\ calls[c].uuid = u

\* time_t arithmetic: the sum of createdAt and a requested duration wraps
Wrap(t) == IF t > TimeMax THEN t - 2 * (TimeMax + 1) ELSE t

-----------------------------------------------------------------------------

\* initiateSwap: one save under a fresh uuid, whose failure leaves nothing
InitiateSwap(u, h, d) ==
  /\ swaps[u] = NoSwap
  /\ swaps' = [swaps EXCEPT ![u] =
                 [state |-> "INITIATED", hash |-> h, secret |-> NoSecret,
                  expiresAt |-> Wrap(clock + d)]]
  /\ UNCHANGED <<calls, clock, answered, met>>

Enter(c, op, u, s) ==
  /\ calls[c] = Idle
  /\ calls' = [calls EXCEPT ![c] =
                 [pc |-> "load", op |-> op, uuid |-> u, secret |-> s]]
  /\ UNCHANGED <<swaps, clock, answered, met>>

RedeemSwap(c, u, s) == Enter(c, "redeem", u, s)
RefundSwap(c, u) == Enter(c, "refund", u, NoSecret)

Leave(c) == calls' = [calls EXCEPT ![c] = Idle]

\* Mutant: a settled swap is loaded like an open one.
Load_AnyState(c) ==
  LET u == calls[c].uuid IN
  /\ calls[c].pc = "load"
  /\ swaps[u] # NoSwap
  /\ calls[c].op = "redeem" => calls[c].secret # NoSecret
  /\ calls' = [calls EXCEPT ![c] =
                 [pc |-> "decide", op |-> calls[c].op, uuid |-> u,
                  secret |-> calls[c].secret, swap |-> swaps[u]]]
  /\ met' = IF \E d \in Callers : Holds(d, u) THEN met \union {u} ELSE met
  /\ UNCHANGED <<swaps, clock, answered>>

\* loadSwap, and the refusals that depend on the copy alone.  refundSwap looks
\* at the clock before it looks at the state, which changes no answer.
Load(c) ==
  LET u == calls[c].uuid IN
  /\ calls[c].pc = "load"
  /\ \/ /\ \/ swaps[u].state # "INITIATED"
           \/ calls[c].op = "redeem" /\ calls[c].secret = NoSecret
        /\ Leave(c)
        /\ UNCHANGED met
     \/ /\ swaps[u].state = "INITIATED"
        /\ calls[c].op = "redeem" => calls[c].secret # NoSecret
        /\ calls' = [calls EXCEPT ![c] =
                       [pc |-> "decide", op |-> calls[c].op, uuid |-> u,
                        secret |-> calls[c].secret, swap |-> swaps[u]]]
        /\ met' = IF \E d \in Callers : Holds(d, u) THEN met \union {u} ELSE met
  /\ UNCHANGED <<swaps, clock, answered>>

\* Mutant: the preimage is not compared with the hash.
RedeemDecide_AnySecret(c) ==
  LET copy == calls[c].swap
      s == calls[c].secret IN
  /\ In(c, "decide", "redeem")
  /\ IF clock < copy.expiresAt
     THEN calls' = [calls EXCEPT ![c].pc = "save",
                                 ![c].swap.state = "REDEEMED",
                                 ![c].swap.secret = s]
     ELSE Leave(c)
  /\ UNCHANGED <<swaps, clock, answered, met>>

\* redeemSwap 116-129: not expired now, and the preimage matches
RedeemDecide(c) ==
  LET copy == calls[c].swap
      s == calls[c].secret IN
  /\ In(c, "decide", "redeem")
  /\ IF clock < copy.expiresAt /\ HashOf[s] = copy.hash
     THEN calls' = [calls EXCEPT ![c].pc = "save",
                                 ![c].swap.state = "REDEEMED",
                                 ![c].swap.secret = s]
     ELSE Leave(c)
  /\ UNCHANGED <<swaps, clock, answered, met>>

\* Mutant: a swap may be refunded at any time.
RefundDecide_Early(c) ==
  /\ In(c, "decide", "refund")
  /\ calls' = [calls EXCEPT ![c].pc = "save", ![c].swap.state = "REFUNDED"]
  /\ UNCHANGED <<swaps, clock, answered, met>>

\* Mutant: the copy is saved in the state it was loaded in.
RefundDecide_KeepsState(c) ==
  /\ In(c, "decide", "refund")
  /\ IF clock >= calls[c].swap.expiresAt
     THEN calls' = [calls EXCEPT ![c].pc = "save"]
     ELSE Leave(c)
  /\ UNCHANGED <<swaps, clock, answered, met>>

\* refundSwap 145-157: expired now
RefundDecide(c) ==
  /\ In(c, "decide", "refund")
  /\ IF clock >= calls[c].swap.expiresAt
     THEN calls' = [calls EXCEPT ![c].pc = "save", ![c].swap.state = "REFUNDED"]
     ELSE Leave(c)
  /\ UNCHANGED <<swaps, clock, answered, met>>

\* updateSwap writes the whole copy; a failed Put answers false
Save(c) ==
  LET u == calls[c].uuid IN
  /\ calls[c].pc = "save"
  /\ Leave(c)
  /\ \/ /\ swaps' = [swaps EXCEPT ![u] = calls[c].swap]
        /\ answered' = answered \union {<<u, calls[c].op>>}
     \/ UNCHANGED <<swaps, answered>>
  /\ UNCHANGED <<clock, met>>

Tick ==
  /\ clock < MaxClock
  /\ clock' = clock + 1
  /\ UNCHANGED <<swaps, calls, answered, met>>

\* the process stops and starts again: calls are gone, the store is not
Restart ==
  /\ calls' = [c \in Callers |-> Idle]
  /\ UNCHANGED <<swaps, clock, answered, met>>

Init ==
  /\ swaps = [u \in Swaps |-> NoSwap]
  /\ calls = [c \in Callers |-> Idle]
  /\ clock = 0
  /\ answered = {}
  /\ met = {}

Next ==
  \/ \E u \in Swaps, h \in Hashes, d \in Durations : InitiateSwap(u, h, d)
  \/ \E c \in Callers :
       \/ \E u \in Swaps : \E s \in Secrets \union {NoSecret} : RedeemSwap(c, u, s)
       \/ \E u \in Swaps : RefundSwap(c, u)
       \/ Load(c) \/ RedeemDecide(c) \/ RefundDecide(c) \/ Save(c)
  \/ Tick
  \/ Restart

Spec == Init /\ [][Next]_vars

-----------------------------------------------------------------------------

TypeOK ==
  /\ swaps \in [Swaps -> Records \union {NoSwap}]
  /\ calls \in [Callers -> Calls \union {Idle}]
  /\ clock \in 0..MaxClock
  /\ answered \subseteq Swaps \X Ops
  /\ met \subseteq Swaps

\* A swap stored as redeemed carries the preimage of its hash, and no other
\* swap shows a preimage: a refund that overwrites a redemption from an old
\* copy takes the preimage away with it.
RedeemedShowsPreimage ==
  \A u \in Swaps :
    /\ swaps[u].state = "REDEEMED" =>
         swaps[u].secret \in Secrets /\ HashOf[swaps[u].secret] = swaps[u].hash
    /\ swaps[u].state \in {"INITIATED", "REFUNDED"} => swaps[u].secret = NoSecret

\* No refund is answered before the swap expired, however old the copy that the
\* refund worked on.
RefundOnlyExpired ==
  \A u \in Swaps : <<u, "refund">> \in answered => clock >= swaps[u].expiresAt

\* A swap is answered both redeemed and refunded only if two calls held copies
\* of it at once: calls that do not overlap settle it once.
BothOnlyIfMet ==
  \A u \in Swaps :
    <<u, "redeem">> \in answered /\ <<u, "refund">> \in answered => u \in met

\* Once a swap is settled and the last copy of its open state is gone, nothing
\* changes it any more.
Settled(u) ==
  /\ swaps[u].state \in {"REDEEMED", "REFUNDED"}
  /\ \A c \in Callers : ~ Holds(c, u)
SettledFinal == [][\A u \in Swaps : Settled(u) => Settled(u)' /\ UNCHANGED swaps[u]]_vars
=============================================================================
