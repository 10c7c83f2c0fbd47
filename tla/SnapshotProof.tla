--------------------------- MODULE SnapshotProof ---------------------------
(* Theorems about Snapshot, for any number of peers, workers, sessions and *)
(* pieces in a stream, and any limits.                                     *)
EXTENDS Snapshot, SumTheorems, FunctionTheorems, FiniteSetTheorems, TLAPS

\* The pieces of a session from offset n up to m.
Span(s, n, m) == {<<s, o>> : o \in n..(m - 1)}

LEMMA SpanSize ==
  ASSUME NEW s, NEW n \in Nat, NEW m \in Nat, n <= m
  PROVE  IsFiniteSet(Span(s, n, m)) /\ Cardinality(Span(s, n, m)) = m - n
<1> DEFINE f == [o \in n..(m - 1) |-> <<s, o>>]
<1>1. f \in Bijection(n..(m - 1), Span(s, n, m))
  <2>1. f \in [n..(m - 1) -> Span(s, n, m)]
    BY DEF Span
  <2>2. \A a, b \in n..(m - 1) : f[a] = f[b] => a = b
    OBVIOUS
  <2>3. \A c \in Span(s, n, m) : \E o \in n..(m - 1) : f[o] = c
    BY DEF Span
  <2> HIDE DEF f
  <2> QED
    BY <2>1, <2>2, <2>3, Fun_IsBij
<1>2. IsFiniteSet(n..(m - 1)) /\ Cardinality(n..(m - 1)) = m - n
  <2>1. n \in Int /\ m - 1 \in Int
    OBVIOUS
  <2>2. /\ IsFiniteSet(n..(m - 1))
        /\ Cardinality(n..(m - 1)) = IF n > m - 1 THEN 0 ELSE (m - 1) - n + 1
    BY <2>1, FS_Interval
  <2> QED
    BY <2>2
<1> HIDE DEF f
<1>3. ExistsBijection(n..(m - 1), Span(s, n, m))
  BY <1>1 DEF ExistsBijection
<1> QED
  BY <1>2, <1>3, FS_Bijection

\* The chunks in line right after the first n are those up to the first gap.
LEMMA RunIsSpan ==
  ASSUME NEW s, NEW n \in Nat, n <= Chunks,
         NEW D, \A d \in D : d = <<s, d[2]>> /\ d[2] \in n..(Chunks - 1)
  PROVE  \E m \in n..Chunks :
           /\ RunFrom(D, n) = Span(s, n, m)
           /\ \A d \in D \ RunFrom(D, n) : d[2] > m
<1>1. Chunks \in Nat
  BY SnapshotConstants
<1> DEFINE Gaps == {o \in n..Chunks : \A d \in D : d[2] # o}
<1>2. PICK m \in Gaps : \A o \in Gaps : m <= o
  <2>1. Chunks \in Gaps
    BY <1>1
  <2>2. Gaps \subseteq Nat
    BY <1>1
  <2> HIDE DEF Gaps
  <2> QED
    BY <2>1, <2>2, LeastElement
<1>3. m \in n..Chunks /\ \A d \in D : d[2] # m
  OBVIOUS
<1>4. \A o \in n..(m - 1) : \E d \in D : d[2] = o
  BY <1>1, <1>2, <1>3
<1>5. \A o \in n..(m - 1) : <<s, o>> \in D
  BY <1>4
<1>6. ASSUME NEW c \in D
      PROVE  c \in RunFrom(D, n) <=> c[2] < m
  <2>1. c[2] \in Nat /\ m \in Nat
    BY <1>1, <1>3
  <2>2. c[2] < m => \A o \in n..c[2] : \E d \in D : d[2] = o
    BY <1>3, <1>4, <2>1
  <2>3. ~ (c[2] < m) => m \in n..c[2]
    BY <1>3, <2>1
  <2> QED
    BY <1>3, <2>2, <2>3 DEF RunFrom
<1>7. RunFrom(D, n) = Span(s, n, m)
  <2>1. \A c \in RunFrom(D, n) : c \in Span(s, n, m)
    <3> SUFFICES ASSUME NEW c \in RunFrom(D, n) PROVE c \in Span(s, n, m)
      OBVIOUS
    <3>1. c \in D /\ c[2] < m
      BY <1>6 DEF RunFrom
    <3>2. c = <<s, c[2]>> /\ c[2] \in n..(m - 1)
      BY <1>1, <1>3, <3>1
    <3> QED
      BY <3>2 DEF Span
  <2>2. \A c \in Span(s, n, m) : c \in RunFrom(D, n)
    <3> SUFFICES ASSUME NEW o \in n..(m - 1) PROVE <<s, o>> \in RunFrom(D, n)
      BY DEF Span
    <3>1. <<s, o>> \in D /\ <<s, o>>[2] = o /\ o < m
      BY <1>1, <1>3, <1>5
    <3> QED
      BY <1>6, <3>1
  <2> QED
    BY <2>1, <2>2
<1>8. \A d \in D \ RunFrom(D, n) : d[2] > m
  BY <1>1, <1>3, <1>6
<1> HIDE DEF Gaps
<1> QED
  BY <1>3, <1>7, <1>8

-----------------------------------------------------------------------------
(* What a worker is at                                                     *)

Frames == [peer : Peers, session : Sessions, k : 0..EndFrame]
SessionIds == Sessions \union {NoSession}
Sections ==
  [op : {"release", "ask", "request", "match"}, peer : Peers, session : SessionIds]
    \union [op : {"claim"}, peer : Peers, session : Sessions]
    \union [op : {"finish"}, peer : Peers, session : {0, 1}]

\* A worker has a frame in hand and locked nothing yet, or is about to hand the
\* session of an end marker to the chain, or has other sections to run.
InHand(f, op) == [frame |-> f, todo |-> <<Op(op, f.peer, f.session)>>]
Handling == {InHand(f, "handle") : f \in Frames}
Applying == {InHand(f, "apply") : f \in Frames}
Continuing == [frame : Frames \union {NoFrame}, todo : Seq(Sections)]
Tasks == Handling \union Applying \union Continuing

LEMMA InHandFields ==
  ASSUME NEW f, NEW op
  PROVE  /\ InHand(f, op).frame = f /\ InHand(f, op).todo # <<>>
         /\ Head(InHand(f, op).todo) = Op(op, f.peer, f.session)
         /\ Tail(InHand(f, op).todo) = <<>>
  BY DEF InHand

\* The first section tells which of the three it is.
LEMMA TaskForms ==
  ASSUME NEW t \in Tasks, t.todo # <<>>
  PROVE  /\ Head(t.todo).op = "handle" => t \in Handling
         /\ Head(t.todo).op = "apply" => t \in Applying
         /\ Head(t.todo).op \notin {"handle", "apply"} =>
              t \in Continuing /\ Head(t.todo) \in Sections
         /\ Tail(t.todo) \in Seq(Sections)
         /\ t.frame \in Frames \union {NoFrame}
         /\ Head(t.todo).peer \in Peers
<1>1. CASE t \in Handling
  <2>1. PICK f \in Frames : t = InHand(f, "handle")
    BY <1>1 DEF Handling
  <2>2. Tail(t.todo) = <<>> /\ <<>> \in Seq(Sections)
    BY <2>1, InHandFields
  <2>3. Head(t.todo) = Op("handle", f.peer, f.session) /\ t.frame = f /\ f.peer \in Peers
    BY <2>1, InHandFields DEF Frames
  <2>4. Head(t.todo).op = "handle" /\ Head(t.todo).peer \in Peers
    BY <2>3 DEF Op
  <2> QED
    BY <1>1, <2>2, <2>3, <2>4
<1>2. CASE t \in Applying
  <2>1. PICK f \in Frames : t = InHand(f, "apply")
    BY <1>2 DEF Applying
  <2>2. Tail(t.todo) = <<>> /\ <<>> \in Seq(Sections)
    BY <2>1, InHandFields
  <2>3. Head(t.todo) = Op("apply", f.peer, f.session) /\ t.frame = f /\ f.peer \in Peers
    BY <2>1, InHandFields DEF Frames
  <2>4. Head(t.todo).op = "apply" /\ Head(t.todo).peer \in Peers
    BY <2>3 DEF Op
  <2> QED
    BY <1>2, <2>2, <2>3, <2>4
<1>3. CASE t \in Continuing
  <2>1. t.todo \in Seq(Sections) /\ t.frame \in Frames \union {NoFrame}
    BY <1>3 DEF Continuing
  <2>2. Head(t.todo) \in Sections /\ Tail(t.todo) \in Seq(Sections)
    BY <2>1
  <2>3. Head(t.todo).op \notin {"handle", "apply"} /\ Head(t.todo).peer \in Peers
    BY <2>2 DEF Sections
  <2> QED
    BY <1>3, <2>1, <2>2, <2>3
<1> QED
  BY <1>1, <1>2, <1>3 DEF Tasks

\* What is left after a section is a task that has nothing in hand.
LEMMA ThenContinues ==
  ASSUME NEW w \in Workers, task[w] \in Tasks, task[w].todo # <<>>,
         NEW rest \in Seq(Sections), Then(w, rest)
  PROVE  \E t \in Continuing :
           /\ task' = [task EXCEPT ![w] = t]
           /\ t.frame \in {task[w].frame, NoFrame}
<1> DEFINE left == rest \o Tail(task[w].todo)
<1>1. left \in Seq(Sections) /\ task[w].frame \in Frames \union {NoFrame}
  BY TaskForms
<1>2. Idle \in Continuing /\ Idle.frame = NoFrame
  BY DEF Idle, Continuing
<1>3. [frame |-> task[w].frame, todo |-> left] \in Continuing
  BY <1>1 DEF Continuing
<1> QED
  BY <1>2, <1>3 DEF Then

LEMMA ThenApplies ==
  ASSUME NEW w \in Workers, NEW f \in Frames, task[w] = InHand(f, "handle"),
         Then(w, <<Op("apply", f.peer, f.session)>>)
  PROVE  task' = [task EXCEPT ![w] = InHand(f, "apply")]
  BY DEF Then, InHand

\* The lists of sections that the handlers leave behind
LEMMA RestTyped ==
  ASSUME NEW p \in Peers, NEW s \in SessionIds
  PROVE  /\ <<>> \in Seq(Sections)
         /\ <<Op("ask", p, NoSession)>> \in Seq(Sections)
         /\ <<Release(p, s)>> \in Seq(Sections)
         /\ <<Release(p, s)>> \o <<>> \in Seq(Sections)
         /\ <<Release(p, s), Op("ask", p, NoSession)>> \in Seq(Sections)
         /\ <<Release(p, s)>> \o <<Op("ask", p, NoSession)>> \in Seq(Sections)
         /\ \A flag : AskUnless(flag, p) \in Seq(Sections)
         /\ \A flag : <<Release(p, s)>> \o AskUnless(flag, p) \in Seq(Sections)
         /\ s \in Sessions => /\ <<Op("claim", p, s)>> \in Seq(Sections)
                              /\ \A q \in SessionIds :
                                   <<Release(p, q), Op("claim", p, s)>> \in Seq(Sections)
         /\ <<Op("match", p, s)>> \in Seq(Sections)
         /\ <<Op("request", p, s)>> \in Seq(Sections)
         /\ \A b : <<Op("finish", p, IF b THEN 1 ELSE 0)>> \in Seq(Sections)
<1>1. /\ Op("ask", p, NoSession) \in Sections /\ Release(p, s) \in Sections
      /\ Op("match", p, s) \in Sections /\ Op("request", p, s) \in Sections
      /\ \A q \in SessionIds : Release(p, q) \in Sections
      /\ s \in Sessions => Op("claim", p, s) \in Sections
      /\ Op("finish", p, 0) \in Sections /\ Op("finish", p, 1) \in Sections
  BY DEF Op, Release, Sections, SessionIds
<1>2. \A flag : AskUnless(flag, p) \in Seq(Sections)
  BY <1>1 DEF AskUnless
<1> HIDE DEF AskUnless
<1>3. <<Release(p, s)>> \in Seq(Sections)
  BY <1>1
<1>4. \A flag : <<Release(p, s)>> \o AskUnless(flag, p) \in Seq(Sections)
  BY <1>2, <1>3
<1>5. \A b : <<Op("finish", p, IF b THEN 1 ELSE 0)>> \in Seq(Sections)
  BY <1>1
<1> QED
  BY <1>1, <1>2, <1>3, <1>4, <1>5

-----------------------------------------------------------------------------
(* What is kept of a reception                                             *)

Receptions ==
  [state : States, session : SessionIds, meta : BOOLEAN, implicit : BOOLEAN,
   expect : {0, Chunks}, received : 0..Chunks, pending : SUBSET Pieces,
   deferred : SUBSET Pieces, sink : [of : SessionIds, data : SUBSET Pieces],
   restart : BOOLEAN]

\* Before its metadata a stream is kept in memory, afterwards in the temporary
\* file, and in both cases what is kept is its first "received" pieces: the chunks
\* deferred come after a gap.
Well(r) ==
  /\ r \in Receptions
  /\ r.state \in {"Idle", "WaitMeta"} => r = Fresh(r.state, r.restart)
  /\ r.state \notin {"Idle", "WaitMeta"} =>
       /\ r.session \in Sessions
       /\ Cardinality(r.deferred) <= MaxDeferred
       /\ r.meta => /\ ~ r.implicit /\ r.expect = Chunks /\ r.pending = {}
                    /\ \A c \in r.deferred : c = <<r.session, c[2]>> /\ c[2] > r.received
                    /\ r.sink.of = r.session
                    /\ r.sink.data = Span(r.session, 0, r.received)
                    /\ r.state # "WaitChunks" => r.received = Chunks
       /\ ~ r.meta => /\ r.state = "WaitChunks" /\ r.sink = NoSink
                      /\ r.pending = Span(r.session, 0, r.received)
                      /\ r.received <= MaxPending

\* How one section of a handler may change a reception: it keeps the session and
\* what it received of it, or throws that away, or begins the session s; only the
\* metadata of s opens its file.
Grows(r, r2) == r2.session = r.session /\ r2.received >= r.received
Evolves(r, r2, s, opens) ==
  /\ Well(r2)
  /\ r2.session \in {NoSession, r.session, s}
  /\ Grows(r, r2) \/ r2.received = 0 \/ r.session = NoSession
  /\ \/ r2.sink.of = NoSession
     \/ Grows(r, r2) /\ r2.sink.of = r.sink.of
     \/ opens /\ r2.sink.of = s

\* A handler of worker w leaves the reception from p like this.
Leaves(w, p, s, opens) ==
  \E r2 : \E rest \in Seq(Sections) :
    ps' = [ps EXCEPT ![p] = r2] /\ Then(w, rest) /\ Evolves(ps[p], r2, s, opens)

LEMMA Numbers ==
  /\ Chunks \in Nat /\ Chunks > 0 /\ EndFrame = Chunks + 1
  /\ MaxDeferred \in Nat /\ MaxPending \in Nat /\ MaxSessions \in Nat /\ MaxEvents \in Nat
  /\ NoSession = 0 /\ MetaFrame = 0 /\ NoSession \notin Sessions
  BY SnapshotConstants DEF EndFrame, NoSession, MetaFrame, Sessions

LEMMA FinitePieces == \A D \in SUBSET Pieces : IsFiniteSet(D)
<1>1. IsFiniteSet(Sessions) /\ IsFiniteSet(0..(Chunks - 1))
  BY Numbers, FS_Interval DEF Sessions
<1>2. IsFiniteSet(Pieces)
  BY <1>1, FS_Product DEF Pieces
<1> QED
  BY <1>2, FS_Subset

LEMMA SpanFacts ==
  ASSUME NEW s \in Sessions
  PROVE  /\ Span(s, 0, 0) = {}
         /\ \A n \in 0..Chunks : Span(s, 0, n) \in SUBSET Pieces
         /\ \A n \in Nat : Span(s, 0, n) \union {<<s, n>>} = Span(s, 0, n + 1)
         /\ \A n, m \in Nat : n <= m => Span(s, 0, n) \union Span(s, n, m) = Span(s, 0, m)
<1>1. \A n \in Nat : Span(s, 0, n) \union {<<s, n>>} = Span(s, 0, n + 1)
  <2> SUFFICES ASSUME NEW n \in Nat
               PROVE  Span(s, 0, n) \union {<<s, n>>} = Span(s, 0, n + 1)
    OBVIOUS
  <2>1. 0..((n + 1) - 1) = 0..(n - 1) \union {n}
    OBVIOUS
  <2> QED
    BY <2>1 DEF Span
<1>2. \A n, m \in Nat : n <= m => Span(s, 0, n) \union Span(s, n, m) = Span(s, 0, m)
  <2> SUFFICES ASSUME NEW n \in Nat, NEW m \in Nat, n <= m
               PROVE  Span(s, 0, n) \union Span(s, n, m) = Span(s, 0, m)
    OBVIOUS
  <2>1. 0..(m - 1) = 0..(n - 1) \union n..(m - 1)
    OBVIOUS
  <2> QED
    BY <2>1 DEF Span
<1>3. Span(s, 0, 0) = {}
  BY DEF Span
<1>4. \A n \in 0..Chunks : Span(s, 0, n) \in SUBSET Pieces
  BY Numbers DEF Span, Pieces
<1> QED
  BY <1>1, <1>2, <1>3, <1>4

LEMMA NoPieces ==
  Cardinality({}) = 0 /\ IsFiniteSet({})
  BY FS_EmptySet

\* resetSnapshotReceptionLocked forgets everything.
LEMMA FreshEvolves ==
  ASSUME NEW state \in {"Idle", "WaitMeta"}, NEW restart \in BOOLEAN,
         NEW r, NEW s, NEW opens
  PROVE  Evolves(r, Fresh(state, restart), s, opens)
<1>1. Fresh(state, restart) \in Receptions
  BY Numbers DEF Fresh, Receptions, States, SessionIds, NoSink
<1>2. Well(Fresh(state, restart))
  BY <1>1 DEF Well, Fresh
<1> QED
  BY <1>2 DEF Evolves, Fresh, NoSink

\* What Well says, field by field
LEMMA WellFields ==
  ASSUME NEW r, Well(r)
  PROVE  /\ r.session \in SessionIds /\ r.received \in 0..Chunks
         /\ r.state \in States /\ r.meta \in BOOLEAN /\ r.restart \in BOOLEAN
         /\ r.pending \in SUBSET Pieces /\ r.deferred \in SUBSET Pieces
         /\ r.sink.of \in SessionIds /\ r.sink.data \in SUBSET Pieces
         /\ r.sink = [of |-> r.sink.of, data |-> r.sink.data]
         /\ r.state \in {"Idle", "WaitMeta"} =>
              /\ r.session = NoSession /\ r.received = 0 /\ r.sink = NoSink
              /\ r.pending = {} /\ r.deferred = {} /\ ~ r.meta /\ ~ r.implicit
         /\ r.sink.of # NoSession => r.sink.of = r.session
<1>1. r \in Receptions
  BY DEF Well
<1>2. r.sink = [of |-> r.sink.of, data |-> r.sink.data]
  BY <1>1 DEF Receptions
<1>3. r.state \in {"Idle", "WaitMeta"} =>
              /\ r.session = NoSession /\ r.received = 0 /\ r.sink = NoSink
              /\ r.pending = {} /\ r.deferred = {} /\ ~ r.meta /\ ~ r.implicit
  BY DEF Well, Fresh
<1>4. r.sink.of # NoSession => r.sink.of = r.session
  BY <1>3 DEF Well, NoSink
<1> QED
  BY <1>1, <1>2, <1>3, <1>4 DEF Receptions

-----------------------------------------------------------------------------
(* The handlers                                                            *)

LEMMA ResetLeaves ==
  ASSUME NEW w, NEW p \in Peers, Well(ps[p]), NEW s, NEW opens,
         NEW state \in {"Idle", "WaitMeta"}, NEW restart \in BOOLEAN,
         NEW rest, rest \in {<<>>, <<Op("ask", p, NoSession)>>},
         ResetAndRelease(w, p, state, restart, rest)
  PROVE  Leaves(w, p, s, opens)
<1>1. <<Release(p, ps[p].session)>> \o rest \in Seq(Sections)
  BY RestTyped, WellFields
<1>2. Evolves(ps[p], Fresh(state, restart), s, opens)
  BY FreshEvolves
<1> QED
  BY <1>1, <1>2 DEF ResetAndRelease, Locked, Leaves

LEMMA RestartLeaves ==
  ASSUME NEW w, NEW p \in Peers, Well(ps[p]), NEW s, NEW opens, Restart(w, p)
  PROVE  Leaves(w, p, s, opens)
  BY ResetLeaves DEF Restart, AskUnless

\* The file is opened for the session: with what came before the metadata when
\* that is of the same session, and empty otherwise.
LEMMA ReceivingWell ==
  ASSUME NEW s \in Sessions, NEW n \in 0..Chunks
  PROVE  Well(Receiving(s, n, Span(s, 0, n)))
<1>1. Receiving(s, n, Span(s, 0, n)) \in Receptions
  BY Numbers, SpanFacts DEF Receiving, Receptions, States, SessionIds
<1> QED
  BY <1>1, Numbers, NoPieces DEF Well, Receiving

LEMMA MetaLeaves ==
  ASSUME NEW w, NEW p \in Peers, Well(ps[p]), NEW s \in Sessions, HandleMeta(w, p, s)
  PROVE  Leaves(w, p, s, TRUE)
<1>0. PICK r : r = ps[p]
  OBVIOUS
<1>1. CASE SinkFails(w, p, s)
  <2>1. Evolves(ps[p], Fresh("WaitMeta", TRUE), s, TRUE)
    BY FreshEvolves
  <2>2. <<Release(p, IF Resumes(p, s) THEN s ELSE NoSession), Op("ask", p, NoSession)>>
          \in Seq(Sections)
    BY RestTyped DEF SessionIds
  <2> QED
    BY <1>1, <2>1, <2>2 DEF SinkFails, Locked, Leaves
<1>2. CASE OpenSink(w, p, s) /\ Resumes(p, s)
  <2>1. r.state = "WaitChunks" /\ r.session = s /\ r.implicit
    BY <1>0, <1>2 DEF Resumes
  <2>2. /\ ~ r.meta /\ r.received \in 0..Chunks
        /\ r.pending = Span(s, 0, r.received)
    <3>1. Well(r)
      BY <1>0
    <3>2. r.received \in 0..Chunks
      BY <3>1, WellFields
    <3> QED
      BY <2>1, <3>1, <3>2 DEF Well
  <2>3. PICK r2 : r2 = Receiving(s, r.received, Span(s, 0, r.received))
    OBVIOUS
  <2>4. /\ ps' = [ps EXCEPT ![p] = r2]
        /\ Then(w, <<Op("claim", p, s)>>)
    BY <1>0, <1>2, <2>2, <2>3 DEF OpenSink, Locked
  <2>5. r2.session = s /\ r2.received = r.received /\ r2.sink.of = s /\ Well(r2)
    BY <2>2, <2>3, ReceivingWell DEF Receiving
  <2>6. Evolves(r, r2, s, TRUE)
    BY <2>1, <2>2, <2>5 DEF Evolves, Grows
  <2>7. <<Op("claim", p, s)>> \in Seq(Sections)
    BY RestTyped DEF SessionIds
  <2> QED
    BY <1>0, <2>4, <2>6, <2>7 DEF Leaves
<1>3. CASE OpenSink(w, p, s) /\ ~ Resumes(p, s)
  <2>1. PICK r2 : r2 = Receiving(s, 0, {})
    OBVIOUS
  <2>2. /\ ps' = [ps EXCEPT ![p] = r2]
        /\ Then(w, <<Release(p, r.session), Op("claim", p, s)>>)
    BY <1>0, <1>3, <2>1 DEF OpenSink, Locked
  <2>3. r2.session = s /\ r2.received = 0 /\ r2.sink.of = s /\ Well(r2)
    <3>1. 0 \in 0..Chunks /\ Span(s, 0, 0) = {}
      BY Numbers, SpanFacts
    <3>2. Well(r2)
      BY <2>1, <3>1, ReceivingWell
    <3> QED
      BY <2>1, <3>2 DEF Receiving
  <2>4. Evolves(r, r2, s, TRUE)
    BY <2>3 DEF Evolves
  <2>5. <<Release(p, r.session), Op("claim", p, s)>> \in Seq(Sections)
    BY <1>0, RestTyped, WellFields DEF SessionIds
  <2> QED
    BY <1>0, <2>2, <2>4, <2>5 DEF Leaves
<1> QED
  BY <1>1, <1>2, <1>3 DEF HandleMeta

\* A chunk that comes in line before the metadata is kept in memory.
LEMMA BufferLeaves ==
  ASSUME NEW w, NEW p \in Peers, Well(ps[p]), NEW s \in Sessions,
         NEW r, Well(r), r.state = "WaitChunks", r.session = s, ~ r.meta,
         r = ps[p] \/ (ps[p].session = NoSession /\ ps[p].received = 0),
         r.received < Chunks,
         Buffer(w, p, r, <<s, r.received>>)
  PROVE  Leaves(w, p, s, FALSE)
<1> DEFINE c == <<s, r.received>>
<1>1. /\ r.received \in Nat /\ r.received <= MaxPending
      /\ r.pending = Span(s, 0, r.received) /\ r.sink = NoSink
      /\ r \in Receptions
      /\ Cardinality(r.pending) = r.received
  <2>1. r.received \in Nat
    <3>1. r.received \in 0..Chunks
      BY WellFields
    <3> QED
      BY <3>1
  <2>2. /\ r.pending = Span(s, 0, r.received) /\ r.received <= MaxPending
        /\ r.sink = NoSink /\ r \in Receptions
    BY DEF Well
  <2>3. Cardinality(Span(s, 0, r.received)) = r.received - 0
    BY <2>1, SpanSize
  <2> QED
    BY <2>1, <2>2, <2>3
<1>2. CASE Cardinality(r.pending) >= MaxPending
  <2>1. Evolves(ps[p], Fresh("WaitMeta", TRUE), s, FALSE)
    BY FreshEvolves
  <2>2. <<Release(p, r.session)>> \o AskUnless(r.restart, p) \in Seq(Sections)
    BY RestTyped, WellFields
  <2> QED
    BY <1>2, <2>1, <2>2 DEF Buffer, Locked, Leaves
<1>3. CASE ~ (Cardinality(r.pending) >= MaxPending)
  <2>1. PICK kept : kept = [r EXCEPT !.pending = @ \union {c}, !.received = @ + 1]
    OBVIOUS
  <2>2. Span(s, 0, r.received) \union {c} = Span(s, 0, r.received + 1)
    BY <1>1, SpanFacts
  <2>3. Span(s, 0, r.received + 1) \in SUBSET Pieces /\ r.received + 1 \in 0..Chunks
    BY <1>1, Numbers, SpanFacts
  <2>4. /\ kept.received = r.received + 1 /\ kept.session = s /\ kept.sink = NoSink
        /\ kept.pending = Span(s, 0, r.received + 1)
        /\ kept.state = "WaitChunks" /\ ~ kept.meta
        /\ kept.deferred = r.deferred
        /\ kept \in Receptions
    BY <1>1, <2>1, <2>2, <2>3 DEF Receptions
  <2>5. r.received + 1 <= MaxPending /\ Cardinality(r.deferred) <= MaxDeferred
    BY <1>1, <1>3, Numbers DEF Well
  <2>6. \A b \in BOOLEAN : Evolves(ps[p], [kept EXCEPT !.restart = b], s, FALSE)
    <3> SUFFICES ASSUME NEW b \in BOOLEAN
                 PROVE  Evolves(ps[p], [kept EXCEPT !.restart = b], s, FALSE)
      OBVIOUS
    <3>1. PICK r2 : r2 = [kept EXCEPT !.restart = b]
      OBVIOUS
    <3>2. /\ r2.received = r.received + 1 /\ r2.session = s /\ r2.sink = NoSink
          /\ r2.pending = Span(s, 0, r.received + 1)
          /\ r2.state = "WaitChunks" /\ ~ r2.meta
          /\ r2.deferred = r.deferred
          /\ r2 \in Receptions
      BY <2>4, <3>1 DEF Receptions
    <3>3. Well(r2)
      BY <2>5, <3>2 DEF Well
    <3>4. Grows(ps[p], r2) \/ ps[p].session = NoSession
      BY <1>1, <3>2 DEF Grows
    <3> QED
      BY <3>1, <3>2, <3>3, <3>4 DEF Evolves, NoSink
  <2>7. \E b \in BOOLEAN : kept = [kept EXCEPT !.restart = b]
    BY <2>4 DEF Receptions
  <2>8. CASE Locked(w, p, kept, <<>>)
    BY <2>6, <2>7, <2>8, RestTyped DEF Locked, Leaves, SessionIds
  <2>9. CASE Locked(w, p, [kept EXCEPT !.restart = TRUE], <<Op("ask", p, NoSession)>>)
    <3>1. <<Op("ask", p, NoSession)>> \in Seq(Sections)
      BY RestTyped DEF SessionIds
    <3> QED
      BY <2>6, <2>9, <3>1 DEF Locked, Leaves
  <2> QED
    BY <1>3, <2>1, <2>8, <2>9 DEF Buffer
<1> QED
  BY <1>2, <1>3

\* A chunk that comes in line is written, with the deferred ones that follow it.
LEMMA PersistLeaves ==
  ASSUME NEW w, NEW p \in Peers, NEW r, r = ps[p], Well(r), NEW s \in Sessions,
         r.state = "WaitChunks", r.session = s, r.meta, r.received < Chunks,
         Persist(w, p, r, <<s, r.received>>)
  PROVE  Leaves(w, p, s, FALSE)
<1>1. /\ r \in Receptions /\ r.expect = Chunks /\ r.pending = {}
      /\ r.sink = [of |-> s, data |-> Span(s, 0, r.received)]
      /\ \A d \in r.deferred : d = <<s, d[2]>> /\ d[2] > r.received
      /\ Cardinality(r.deferred) <= MaxDeferred
      /\ ~ r.implicit
  <2>1. r.sink = [of |-> r.sink.of, data |-> r.sink.data]
    BY WellFields
  <2> QED
    BY <2>1 DEF Well
<1>2. r.received \in Nat /\ r.deferred \in SUBSET Pieces
  <2>1. r.received \in 0..Chunks /\ r.deferred \in SUBSET Pieces
    BY WellFields
  <2> QED
    BY <2>1
<1>3. PICK n, run, c : /\ n = r.received + 1 /\ run = RunFrom(r.deferred, n)
                       /\ c = <<s, r.received>>
  OBVIOUS
<1>4. PICK m \in n..Chunks :
        run = Span(s, n, m) /\ \A d \in r.deferred \ run : d[2] > m
  <2>1. n \in Nat /\ n <= Chunks
    BY <1>2, <1>3, Numbers
  <2>2. \A d \in r.deferred : d = <<s, d[2]>> /\ d[2] \in n..(Chunks - 1)
    <3> SUFFICES ASSUME NEW d \in r.deferred PROVE d[2] \in n..(Chunks - 1)
      BY <1>1
    <3>1. d[2] \in 0..(Chunks - 1) /\ d[2] > r.received
      BY <1>1, <1>2 DEF Pieces
    <3> QED
      BY <1>2, <1>3, <3>1, Numbers
  <2> QED
    <3>1. \E m \in n..Chunks :
            /\ RunFrom(r.deferred, n) = Span(s, n, m)
            /\ \A d \in r.deferred \ RunFrom(r.deferred, n) : d[2] > m
      BY <2>1, <2>2, RunIsSpan
    <3> QED
      BY <1>3, <3>1
<1>5. m \in Nat /\ n \in Nat /\ n <= m /\ m <= Chunks
  BY <1>2, <1>3, <1>4, Numbers
<1>6. r.received + 1 + Cardinality(run) = m
  <2>1. Cardinality(run) = m - n
    BY <1>4, <1>5, SpanSize
  <2> QED
    BY <1>2, <1>3, <1>5, <2>1
<1>7. Span(s, 0, r.received) \union {c} \union run = Span(s, 0, m)
  BY <1>2, <1>3, <1>4, <1>5, SpanFacts
<1>8. CASE Restart(w, p)
  BY <1>8, RestartLeaves
<1>9. CASE ~ Restart(w, p)
  <2>1. PICK r2 : r2 = [r EXCEPT
                     !.sink = [of |-> r.sink.of, data |-> @.data \union {c} \union run],
                     !.received = m, !.deferred = @ \ run,
                     !.state = IF m >= r.expect THEN "Verifying" ELSE @]
    OBVIOUS
  <2>2. c[2] + 1 = n
    BY <1>3
  <2>3. Locked(w, p, r2, <<>>)
    BY <1>3, <1>6, <1>9, <2>1, <2>2 DEF Persist
  <2>4. Span(s, 0, m) \in SUBSET Pieces
    BY <1>5, SpanFacts
  <2>5. /\ r2.session = s /\ r2.received = m /\ r2.meta /\ ~ r2.implicit
        /\ r2.expect = Chunks /\ r2.pending = {}
        /\ r2.sink = [of |-> s, data |-> Span(s, 0, m)]
        /\ r2.deferred = r.deferred \ run
        /\ r2.state \in {"WaitChunks", "Verifying"}
        /\ r2.state = "Verifying" => m = Chunks
        /\ r2 \in Receptions
    <3>1. [of |-> s, data |-> Span(s, 0, m)] \in [of : SessionIds, data : SUBSET Pieces]
      BY <2>4 DEF SessionIds
    <3>2. r2.sink = [of |-> s, data |-> Span(s, 0, m)]
      BY <1>1, <1>7, <2>1 DEF Receptions
    <3>3. /\ r2.received = m /\ r2.deferred = r.deferred \ run
          /\ r2.state = IF m >= Chunks THEN "Verifying" ELSE "WaitChunks"
          /\ r2.session = s /\ r2.meta /\ ~ r2.implicit
          /\ r2.expect = Chunks /\ r2.pending = {}
      BY <1>1, <2>1 DEF Receptions
    <3>4. m \in 0..Chunks
      BY <1>5
    <3>5. r2 = [r EXCEPT !.sink = r2.sink, !.received = m, !.deferred = r.deferred \ run,
                         !.state = r2.state]
      BY <1>1, <2>1, <3>3 DEF Receptions
    <3>6. r2 \in Receptions
      BY <1>1, <3>1, <3>2, <3>3, <3>4, <3>5 DEF Receptions, States
    <3> QED
      BY <1>5, <3>2, <3>3, <3>6, Numbers
  <2>6. Cardinality(r2.deferred) <= MaxDeferred
    <3>1. IsFiniteSet(r.deferred) /\ r2.deferred \in SUBSET r.deferred
      BY <1>2, <2>5, FinitePieces
    <3>2. IsFiniteSet(r2.deferred) /\ Cardinality(r2.deferred) <= Cardinality(r.deferred)
      BY <3>1, FS_Subset
    <3> QED
      BY <1>1, <3>1, <3>2, Numbers, FS_CardinalityType
  <2>7. \A d \in r2.deferred : d = <<s, d[2]>> /\ d[2] > m
    BY <1>1, <1>4, <2>5
  <2>8. Well(r2)
    BY <2>5, <2>6, <2>7 DEF Well
  <2>9. Grows(ps[p], r2) /\ r2.sink.of = ps[p].sink.of
    BY <1>1, <1>2, <1>3, <1>5, <2>5 DEF Grows
  <2> QED
    BY <2>3, <2>5, <2>8, <2>9, RestTyped DEF Locked, Leaves, Evolves, SessionIds
<1> QED
  BY <1>8, <1>9

LEMMA ChunkLeaves ==
  ASSUME NEW w, NEW p \in Peers, Well(ps[p]), NEW s \in Sessions,
         NEW o \in 0..(Chunks - 1), HandleChunk(w, p, s, o)
  PROVE  Leaves(w, p, s, FALSE)
<1>1. PICK r : r = Implicit(p, s, o)
  OBVIOUS
<1>2. \/ r = ps[p]
      \/ /\ ps[p].session = NoSession /\ ps[p].received = 0 /\ o = 0
         /\ r.session = s /\ r.received = 0 /\ r.state = "WaitChunks" /\ ~ r.meta
         /\ Well(r)
  <2>1. CASE ps[p].state = "WaitMeta" /\ ps[p].received = 0 /\ o = 0
    <3>1. r = [Fresh("WaitChunks", FALSE) EXCEPT !.session = s, !.implicit = TRUE]
      BY <1>1, <2>1 DEF Implicit
    <3>2. /\ r.session = s /\ r.received = 0 /\ r.state = "WaitChunks" /\ ~ r.meta
          /\ r.sink = NoSink /\ r.pending = {} /\ r.deferred = {}
          /\ r \in Receptions
      <4>1. 0 \in 0..Chunks
        BY Numbers
      <4>2. r = [state |-> "WaitChunks", session |-> s, meta |-> FALSE, implicit |-> TRUE,
                 expect |-> 0, received |-> 0, pending |-> {}, deferred |-> {},
                 sink |-> NoSink, restart |-> FALSE]
        BY <3>1 DEF Fresh
      <4>3. NoSink \in [of : SessionIds, data : SUBSET Pieces]
        BY DEF NoSink, SessionIds
      <4> QED
        BY <4>1, <4>2, <4>3 DEF Receptions, States, SessionIds
    <3>3. Well(r)
      BY <3>2, SpanFacts, NoPieces, Numbers DEF Well
    <3>4. ps[p].session = NoSession
      BY <2>1, WellFields
    <3> QED
      BY <2>1, <3>2, <3>3, <3>4
  <2>2. CASE ~ (ps[p].state = "WaitMeta" /\ ps[p].received = 0 /\ o = 0)
    BY <1>1, <2>2 DEF Implicit
  <2> QED
    BY <2>1, <2>2
<1>3. Well(r) /\ r.received \in 0..Chunks /\ o \in Nat /\ o < Chunks
  <2>1. Well(r)
    BY <1>2
  <2>2. r.received \in 0..Chunks
    BY <2>1, WellFields
  <2> QED
    BY <2>1, <2>2, Numbers
<1>4. CASE Restart(w, p)
  BY <1>4, RestartLeaves
<1>5. CASE r.state = "WaitChunks" /\ r.session = s /\ o < r.received /\ Locked(w, p, r, <<>>)
  <2>1. r = ps[p]
    BY <1>2, <1>3, <1>5
  <2>2. Evolves(ps[p], r, s, FALSE)
    BY <1>3, <2>1 DEF Evolves, Grows
  <2> QED
    BY <1>5, <2>2, RestTyped DEF Locked, Leaves, SessionIds
<1>6. CASE /\ r.state = "WaitChunks" /\ r.session = s /\ o > r.received
           /\ ~ (Cardinality(r.deferred) >= MaxDeferred)
           /\ Locked(w, p, [r EXCEPT !.deferred = @ \union {<<s, o>>}], <<>>)
  <2>1. r = ps[p]
    BY <1>2, <1>3, <1>6
  <2>2. PICK r2 : r2 = [r EXCEPT !.deferred = @ \union {<<s, o>>}]
    OBVIOUS
  <2>3. r \in Receptions
    BY <1>3 DEF Well
  <2>4. /\ r2.deferred = r.deferred \union {<<s, o>>}
        /\ r2 = [r EXCEPT !.deferred = r2.deferred]
    BY <2>2, <2>3 DEF Receptions
  <2>5. <<s, o>> \in Pieces
    BY DEF Pieces
  <2>6. Cardinality(r2.deferred) <= MaxDeferred
    <3>1. IsFiniteSet(r.deferred)
      BY <1>3, WellFields, FinitePieces
    <3>2. Cardinality(r.deferred) \in Nat
      BY <3>1, FS_CardinalityType
    <3>3. Cardinality(r.deferred \union {<<s, o>>})
            = IF <<s, o>> \in r.deferred THEN Cardinality(r.deferred)
              ELSE Cardinality(r.deferred) + 1
      BY <3>1, FS_AddElement
    <3> QED
      BY <1>6, <2>4, <3>2, <3>3, Numbers
  <2>7. r2 \in Receptions
    BY <2>3, <2>4, <2>5 DEF Receptions
  <2>8. /\ r2.state = r.state /\ r2.session = r.session /\ r2.meta = r.meta
        /\ r2.implicit = r.implicit /\ r2.expect = r.expect /\ r2.received = r.received
        /\ r2.pending = r.pending /\ r2.sink = r.sink
    BY <2>2, <2>3 DEF Receptions
  <2>9. Well(r2)
    <3>1. r.meta => \A d \in r2.deferred : d = <<s, d[2]>> /\ d[2] > r.received
      BY <1>3, <1>6, <2>4 DEF Well
    <3> QED
      BY <1>3, <1>6, <2>6, <2>7, <2>8, <3>1 DEF Well
  <2>10. Evolves(ps[p], r2, s, FALSE)
    BY <1>3, <2>1, <2>8, <2>9 DEF Evolves, Grows
  <2> QED
    BY <1>6, <2>2, <2>10, RestTyped DEF Locked, Leaves, SessionIds
<1>7. CASE /\ r.state = "WaitChunks" /\ r.session = s /\ o = r.received /\ r.meta
           /\ Persist(w, p, r, <<s, o>>)
  BY <1>2, <1>3, <1>7, PersistLeaves
<1>8. CASE /\ r.state = "WaitChunks" /\ r.session = s /\ o = r.received /\ ~ r.meta
           /\ Buffer(w, p, r, <<s, o>>)
  BY <1>2, <1>3, <1>8, BufferLeaves
<1> QED
  BY <1>1, <1>4, <1>5, <1>6, <1>7, <1>8 DEF HandleChunk

\* The end marker is believed only when the whole stream is in the file.
HandsOver(w, p, s) ==
  \E r2 : /\ ps' = [ps EXCEPT ![p] = r2]
         /\ Then(w, <<Op("apply", p, s)>>)
         /\ Evolves(ps[p], r2, s, FALSE)
         /\ r2.received = Chunks /\ r2.session = s /\ r2.sink.of = s

LEMMA EndLeaves ==
  ASSUME NEW w, NEW p \in Peers, Well(ps[p]), NEW s \in Sessions, HandleEnd(w, p, s)
  PROVE  Leaves(w, p, s, FALSE) \/ HandsOver(w, p, s)
<1>1. PICK r : r = ps[p]
  OBVIOUS
<1>2. CASE ResetAndRelease(w, p, "WaitMeta", FALSE, <<>>)
  BY <1>2, ResetLeaves
<1>3. CASE ~ ResetAndRelease(w, p, "WaitMeta", FALSE, <<>>)
  <2>1. /\ MayVerify(r) /\ r.session = s
        /\ r.expect > 0 => r.received = r.expect
        /\ r.sink # NoSink
        /\ Locked(w, p, [r EXCEPT !.state = "Applying"], <<Op("apply", p, s)>>)
    BY <1>1, <1>3 DEF HandleEnd
  <2>2. r.state \notin {"Idle", "WaitMeta"} /\ Well(r) /\ r \in Receptions
    BY <1>1, <2>1 DEF MayVerify, Well
  <2>3. r.meta /\ r.expect = Chunks /\ r.received = Chunks /\ r.sink.of = s
    <3>1. r.meta
      BY <2>1, <2>2 DEF Well
    <3> QED
      BY <2>1, <2>2, <3>1, Numbers DEF Well
  <2>4. PICK r2 : r2 = [r EXCEPT !.state = "Applying"]
    OBVIOUS
  <2>5. /\ r2.session = s /\ r2.meta = r.meta /\ r2.deferred = r.deferred
        /\ r2.implicit = r.implicit /\ r2.expect = r.expect /\ r2.received = r.received
        /\ r2.pending = r.pending /\ r2.sink = r.sink /\ r2.state = "Applying"
        /\ r2 \in Receptions
    BY <2>1, <2>2, <2>4 DEF Receptions, States
  <2>6. Well(r2)
    BY <2>1, <2>2, <2>3, <2>5 DEF Well
  <2>7. Evolves(r, r2, s, FALSE)
    BY <2>1, <2>3, <2>5, <2>6, Numbers DEF Evolves, Grows
  <2> QED
    BY <1>1, <2>1, <2>3, <2>4, <2>5, <2>7 DEF Locked, HandsOver
<1> QED
  BY <1>2, <1>3

-----------------------------------------------------------------------------
(* Whose session it is, and that its metadata comes once                   *)

Servers == [asked : BOOLEAN, session : SessionIds, next : 0..EndFrame]

Typed ==
  /\ ps \in [Peers -> Receptions] /\ \A p \in Peers : Well(ps[p])
  /\ task \in [Workers -> Tasks]
  /\ server \in [Peers -> Servers]
  /\ active = None \/ (active.peer \in Peers /\ active.session \in Sessions)
  /\ sessions \in 0..MaxSessions
  /\ online \subseteq Peers
  /\ shuffled \subseteq Sessions

\* Session s is somewhere in the reception from p: kept, under way, or in hand.
Carries(p, s) ==
  \/ ps[p].session = s
  \/ server[p].session = s
  \/ \E w \in Workers : /\ task[w] \in Handling \union Applying
                        /\ task[w].frame.peer = p /\ task[w].frame.session = s

Offered(p, s) == server[p].session = s /\ server[p].next = MetaFrame
MetaInHand(w, p, s) == task[w] = InHand(FrameOf(p, s, MetaFrame), "handle")
MetaDue(p, s) == Offered(p, s) \/ \E w \in Workers : MetaInHand(w, p, s)

\* A session comes from one peer, its metadata once: so a file that was open when
\* the end marker found the stream whole is never begun again, and the handler
\* that reads it outside the lock reads the whole stream or a closed file.
StreamInv ==
  /\ \A p, q \in Peers : \A s \in Sessions :
       Carries(p, s) => s <= sessions /\ (Carries(q, s) => q = p)
  /\ \A v, w \in Workers : \A p \in Peers : \A s \in Sessions :
       MetaInHand(w, p, s) => ~ Offered(p, s) /\ (MetaInHand(v, p, s) => v = w)
  /\ \A p \in Peers : \A s \in Sessions : ps[p].sink.of = s => ~ MetaDue(p, s)
  /\ \A w \in Workers : \A f \in Frames : task[w] = InHand(f, "apply") =>
       /\ ~ MetaDue(f.peer, f.session)
       /\ ps[f.peer].sink.of = f.session => ps[f.peer].received = Chunks

LEMMA InHandKinds ==
  /\ \A f, g : InHand(f, "handle") # InHand(g, "apply")
  /\ \A f, g : \A op \in {"handle", "apply"} : InHand(f, op) = InHand(g, op) => f = g
  /\ \A f : \A op \in {"handle", "apply"} : InHand(f, op) \notin Continuing
<1>1. \A f, op : InHand(f, op).todo[1].op = op /\ InHand(f, op).frame = f
  BY DEF InHand, Op
<1>2. \A t \in Continuing : t.todo # <<>> => t.todo[1].op \notin {"handle", "apply"}
  <2> SUFFICES ASSUME NEW t \in Continuing, t.todo # <<>>
               PROVE  t.todo[1].op \notin {"handle", "apply"}
    OBVIOUS
  <2>1. t.todo[1] \in Sections
    BY DEF Continuing
  <2> QED
    BY <2>1 DEF Sections
<1>3. \A f, op : InHand(f, op).todo # <<>>
  BY InHandFields
<1> QED
  BY <1>1, <1>2, <1>3

\* What a step of worker w, which keeps its frame's peer and session, does to them.
WorkerStep(w, t) ==
  /\ task' = [task EXCEPT ![w] = t]
  /\ \A p \in Peers : server'[p].session = server[p].session /\ server'[p].next = server[p].next
  /\ sessions' = sessions

\* A section that leaves nothing in hand, or passes from an end marker to the
\* chain, and changes the reception from p as a section may.
LEMMA WorkerKeepsStreams ==
  ASSUME Typed, StreamInv, NEW w \in Workers, NEW t \in Continuing \union Applying,
         WorkerStep(w, t),
         NEW p \in Peers, NEW r2, NEW s \in SessionIds, NEW opens \in BOOLEAN,
         ps' = [ps EXCEPT ![p] = r2], Evolves(ps[p], r2, s, opens),
         s # NoSession =>
           \E f \in Frames : /\ task[w] = InHand(f, "handle")
                             /\ f.peer = p /\ f.session = s
                             /\ opens => f.k = MetaFrame,
         opens => s # NoSession,
         t \in Applying =>
           \E f \in Frames : /\ task[w] = InHand(f, "handle") /\ t = InHand(f, "apply")
                             /\ f.peer = p /\ r2.sink.of = f.session /\ r2.received = Chunks
  PROVE  StreamInv'
<1>1. /\ task'[w] = t /\ \A v \in Workers : v # w => task'[v] = task[v]
      /\ ps'[p] = r2 /\ \A q \in Peers : q # p => ps'[q] = ps[q]
  BY DEF WorkerStep, Typed
<1>2. \A q \in Peers, z \in Sessions : Offered(q, z)' <=> Offered(q, z)
  BY DEF Offered, WorkerStep
<1>3. \A v \in Workers : \A q \in Peers, z \in Sessions :
        MetaInHand(v, q, z)' => v # w /\ MetaInHand(v, q, z)
  BY <1>1, InHandKinds DEF MetaInHand, Applying
<1>4. \A q \in Peers, z \in Sessions : MetaDue(q, z)' => MetaDue(q, z)
  BY <1>2, <1>3 DEF MetaDue
<1>5. s # NoSession => Carries(p, s)
  BY InHandFields DEF Carries, Handling
<1>6. \A q \in Peers, z \in Sessions : Carries(q, z)' => Carries(q, z)
  <2> SUFFICES ASSUME NEW q \in Peers, NEW z \in Sessions, Carries(q, z)'
               PROVE  Carries(q, z)
    OBVIOUS
  <2>1. CASE ps'[q].session = z
    BY <1>1, <1>5, <2>1, Numbers DEF Evolves, Carries
  <2>2. CASE server'[q].session = z
    BY <2>2 DEF WorkerStep, Carries
  <2>3. ASSUME NEW v \in Workers, task'[v] \in Handling \union Applying,
               task'[v].frame.peer = q, task'[v].frame.session = z
        PROVE  Carries(q, z)
    <3>1. CASE v # w
      BY <1>1, <2>3, <3>1 DEF Carries
    <3>2. CASE v = w
      <4>1. t \in Applying
        BY <1>1, <2>3, <3>2, InHandKinds DEF Handling, Applying
      <4>2. PICK f \in Frames : task[w] = InHand(f, "handle") /\ t = InHand(f, "apply")
        BY <4>1
      <4>3. t.frame = f /\ task[w].frame = f
        BY <4>2, InHandFields
      <4> QED
        BY <1>1, <2>3, <3>2, <4>2, <4>3 DEF Carries, Handling
    <3> QED
      BY <3>1, <3>2
  <2> QED
    BY <2>1, <2>2, <2>3 DEF Carries
<1>7. \A q \in Peers : \A z \in Sessions : ps'[q].sink.of = z => ~ MetaDue(q, z)'
  <2> SUFFICES ASSUME NEW q \in Peers, NEW z \in Sessions, ps'[q].sink.of = z
               PROVE  ~ MetaDue(q, z)'
    OBVIOUS
  <2>1. CASE ps[q].sink.of = z
    BY <1>4, <2>1 DEF StreamInv
  <2>2. CASE ps[q].sink.of # z
    <3>1. q = p /\ opens /\ z = s
      BY <1>1, <2>2, Numbers DEF Evolves
    <3>2. MetaInHand(w, p, s)
      <4>1. PICK f \in Frames : /\ task[w] = InHand(f, "handle")
                                /\ f.peer = p /\ f.session = s /\ f.k = MetaFrame
        BY <3>1
      <4>2. f = FrameOf(p, s, MetaFrame)
        BY <4>1 DEF Frames, FrameOf
      <4> QED
        BY <4>1, <4>2 DEF MetaInHand
    <3>3. s \in Sessions
      BY <3>1
    <3> QED
      BY <1>2, <1>3, <3>1, <3>2, <3>3 DEF StreamInv, MetaDue
  <2> QED
    BY <2>1, <2>2
<1>8. ASSUME NEW v \in Workers, NEW f \in Frames, task'[v] = InHand(f, "apply")
      PROVE  /\ ~ MetaDue(f.peer, f.session)'
             /\ ps'[f.peer].sink.of = f.session => ps'[f.peer].received = Chunks
  <2>0. f.peer \in Peers /\ f.session \in Sessions
    BY DEF Frames
  <2>1. CASE v = w
    <3>1. t = InHand(f, "apply")
      BY <1>1, <1>8, <2>1
    <3>2. t \in Applying
      BY <3>1 DEF Applying
    <3>3. PICK g \in Frames : /\ t = InHand(g, "apply")
                              /\ g.peer = p /\ r2.sink.of = g.session /\ r2.received = Chunks
      BY <3>2
    <3>4. f = g
      BY <3>1, <3>3, InHandKinds
    <3> QED
      BY <1>1, <1>7, <2>0, <3>3, <3>4
  <2>2. CASE v # w
    <3>1. task[v] = InHand(f, "apply")
      BY <1>1, <1>8, <2>2
    <3>2. ~ MetaDue(f.peer, f.session)
      BY <3>1 DEF StreamInv
    <3>3. CASE f.peer = p /\ r2.sink.of = f.session
      <4>1. ~ (opens /\ f.session = s)
        <5> SUFFICES ASSUME opens, f.session = s PROVE FALSE
          OBVIOUS
        <5>1. PICK g \in Frames : /\ task[w] = InHand(g, "handle")
                                  /\ g.peer = p /\ g.session = s /\ g.k = MetaFrame
          OBVIOUS
        <5>2. g = FrameOf(p, s, MetaFrame)
          BY <5>1 DEF Frames, FrameOf
        <5> QED
          BY <3>2, <3>3, <5>1, <5>2 DEF MetaDue, MetaInHand
      <4>2. Grows(ps[p], r2) /\ r2.sink.of = ps[p].sink.of
        BY <2>0, <3>3, <4>1, Numbers DEF Evolves
      <4>3. ps[p].received = Chunks
        BY <3>1, <3>3, <4>2 DEF StreamInv
      <4>4. r2.received \in 0..Chunks /\ r2.received >= Chunks
        BY <4>2, <4>3, WellFields DEF Evolves, Grows
      <4> QED
        BY <1>1, <1>4, <2>0, <3>2, <3>3, <4>4, Numbers
    <3>4. CASE ~ (f.peer = p /\ r2.sink.of = f.session)
      BY <1>1, <1>4, <2>0, <3>1, <3>2, <3>4 DEF StreamInv
    <3> QED
      BY <3>3, <3>4
  <2> QED
    BY <2>1, <2>2
<1>9. \A q1, q2 \in Peers : \A z \in Sessions :
        Carries(q1, z)' => z <= sessions' /\ (Carries(q2, z)' => q2 = q1)
  BY <1>6 DEF StreamInv, WorkerStep
<1>10. \A v1, v2 \in Workers : \A q \in Peers : \A z \in Sessions :
         MetaInHand(v2, q, z)' => ~ Offered(q, z)' /\ (MetaInHand(v1, q, z)' => v1 = v2)
  BY <1>2, <1>3 DEF StreamInv
<1> QED
  BY <1>7, <1>8, <1>9, <1>10 DEF StreamInv

\* One section of worker w, and what it leaves of the reception from p
Works(w, p, r2, s, opens, t) ==
  /\ WorkerStep(w, t)
  /\ ps' = [ps EXCEPT ![p] = r2] /\ Evolves(ps[p], r2, s, opens)
  /\ s # NoSession =>
       \E f \in Frames : /\ task[w] = InHand(f, "handle")
                         /\ f.peer = p /\ f.session = s
                         /\ opens => f.k = MetaFrame
  /\ opens => s # NoSession
  /\ t \in Applying =>
       \E f \in Frames : /\ task[w] = InHand(f, "handle") /\ t = InHand(f, "apply")
                         /\ f.peer = p /\ r2.sink.of = f.session /\ r2.received = Chunks

WorkDone(w) ==
  \E p \in Peers, r2 \in Receptions, s \in SessionIds, opens \in BOOLEAN,
     t \in Continuing \union Applying : Works(w, p, r2, s, opens, t)

StreamsAlone ==
  /\ \A p \in Peers : server'[p].session = server[p].session /\ server'[p].next = server[p].next
  /\ sessions' = sessions

LEMMA LeavesWorks ==
  ASSUME Typed, NEW w \in Workers, task[w].todo # <<>>, StreamsAlone,
         NEW p \in Peers, NEW s \in SessionIds, NEW opens \in BOOLEAN,
         Leaves(w, p, s, opens),
         s # NoSession =>
           \E f \in Frames : /\ task[w] = InHand(f, "handle")
                             /\ f.peer = p /\ f.session = s
                             /\ opens => f.k = MetaFrame,
         opens => s # NoSession
  PROVE  WorkDone(w)
<1>1. PICK r2 : \E rest \in Seq(Sections) :
        ps' = [ps EXCEPT ![p] = r2] /\ Then(w, rest) /\ Evolves(ps[p], r2, s, opens)
  BY DEF Leaves
<1>2. PICK t \in Continuing : task' = [task EXCEPT ![w] = t]
  BY <1>1, ThenContinues DEF Typed
<1>3. t \notin Applying
  BY InHandKinds DEF Applying
<1>4. r2 \in Receptions
  BY <1>1 DEF Evolves, Well
<1>5. Works(w, p, r2, s, opens, t)
  BY <1>1, <1>2, <1>3 DEF Works, WorkerStep, StreamsAlone
<1> QED
  BY <1>4, <1>5 DEF WorkDone

\* A section that does not touch a reception.
LEMMA AsideWorks ==
  ASSUME Typed, NEW w \in Workers, task[w].todo # <<>>, StreamsAlone,
         ps' = ps, NEW rest \in Seq(Sections), Then(w, rest)
  PROVE  WorkDone(w)
<1>1. PICK p \in Peers : p = Head(task[w].todo).peer
  BY TaskForms DEF Typed
<1>2. ps' = [ps EXCEPT ![p] = ps[p]] /\ Well(ps[p])
  BY DEF Typed
<1>3. ps[p].received \in 0..Chunks
  BY <1>2, WellFields
<1>4. Evolves(ps[p], ps[p], NoSession, FALSE)
  BY <1>2, <1>3 DEF Evolves, Grows
<1>5. Leaves(w, p, NoSession, FALSE)
  BY <1>2, <1>4 DEF Leaves
<1> QED
  BY <1>5, LeavesWorks DEF SessionIds

LEMMA HandleWorks ==
  ASSUME Typed, NEW w \in Workers, Handle(w)
  PROVE  WorkDone(w)
<1>1. StreamsAlone /\ task[w].todo # <<>> /\ Head(task[w].todo).op = "handle"
  BY DEF Handle, StreamsAlone, Running
<1>2. task[w] \in Handling
  BY <1>1, TaskForms DEF Typed
<1>3. PICK f \in Frames : task[w] = InHand(f, "handle")
  BY <1>2 DEF Handling
<1>4. task[w].frame = f
  BY <1>3, InHandFields
<1>5. /\ f.peer \in Peers /\ f.session \in Sessions /\ f.session # NoSession
      /\ f.session \in SessionIds /\ f.k \in 0..EndFrame /\ Well(ps[f.peer])
  BY Numbers DEF Frames, Typed, SessionIds
<1>6. CASE ps' = ps /\ Step(w)
  BY <1>1, <1>6, <1>5, RestTyped, AsideWorks DEF Step
<1>7. CASE f.k = MetaFrame /\ HandleMeta(w, f.peer, f.session)
  <2>1. Leaves(w, f.peer, f.session, TRUE)
    BY <1>5, <1>7, MetaLeaves
  <2> QED
    BY <1>1, <1>3, <1>5, <1>7, <2>1, LeavesWorks
<1>8. CASE f.k \in 1..Chunks /\ HandleChunk(w, f.peer, f.session, f.k - 1)
  <2>1. f.k - 1 \in 0..(Chunks - 1)
    BY <1>8, Numbers
  <2>2. Leaves(w, f.peer, f.session, FALSE)
    BY <1>5, <1>8, <2>1, ChunkLeaves
  <2> QED
    BY <1>1, <1>3, <1>5, <2>2, LeavesWorks
<1>9. CASE f.k = EndFrame /\ HandleEnd(w, f.peer, f.session)
  <2>1. CASE Leaves(w, f.peer, f.session, FALSE)
    BY <1>1, <1>3, <1>5, <2>1, LeavesWorks
  <2>2. ASSUME NEW r2, ps' = [ps EXCEPT ![f.peer] = r2],
               Then(w, <<Op("apply", f.peer, f.session)>>),
               Evolves(ps[f.peer], r2, f.session, FALSE),
               r2.received = Chunks, r2.sink.of = f.session
        PROVE  WorkDone(w)
    <3>1. task' = [task EXCEPT ![w] = InHand(f, "apply")]
      BY <1>3, <2>2, ThenApplies
    <3>2. InHand(f, "apply") \in Applying /\ r2 \in Receptions
      BY <2>2 DEF Applying, Evolves, Well
    <3>3. Works(w, f.peer, r2, f.session, FALSE, InHand(f, "apply"))
      BY <1>1, <1>3, <2>2, <3>1 DEF Works, WorkerStep, StreamsAlone
    <3> QED
      BY <1>5, <3>2, <3>3 DEF WorkDone
  <2>3. CASE HandsOver(w, f.peer, f.session)
    BY <2>2, <2>3 DEF HandsOver
  <2> QED
    BY <1>5, <1>9, <2>1, <2>3, EndLeaves
<1> QED
  BY <1>4, <1>6, <1>7, <1>8, <1>9 DEF Handle

LEMMA SectionWorks ==
  ASSUME Typed, NEW w \in Workers, Section(w)
  PROVE  WorkDone(w)
<1>1. StreamsAlone
  <2>1. CASE Ask(w)
    <3>1. \/ server' = server
          \/ server' = [server EXCEPT ![This(w).peer].asked = TRUE]
      BY <2>1 DEF Ask
    <3>2. server \in [Peers -> Servers]
      BY DEF Typed
    <3>3. \A q \in Peers : server'[q].session = server[q].session /\ server'[q].next = server[q].next
      BY <3>1, <3>2 DEF Servers
    <3> QED
      BY <2>1, <3>3 DEF Ask, StreamsAlone
  <2>2. CASE ~ Ask(w)
    <3>1. server' = server /\ sessions' = sessions
      BY <2>2 DEF Section, Handle, ReleaseSession, BeginSession, ApplySnapshot, FinishSnapshot,
                  PrepareRequest, AskIfUnclaimed
    <3> QED
      BY <3>1 DEF StreamsAlone
  <2> QED
    BY <2>1, <2>2
<1>2. task[w].todo # <<>>
  BY DEF Section, Handle, ReleaseSession, BeginSession, ApplySnapshot, FinishSnapshot, Ask,
         PrepareRequest, AskIfUnclaimed, Running
<1>3. PICK p \in Peers : p = This(w).peer
  BY <1>2, TaskForms DEF Typed, This
<1>4. Well(ps[p]) /\ ps[p].session \in SessionIds
  BY WellFields DEF Typed
<1>5. /\ NoSession \in SessionIds /\ <<>> \in Seq(Sections)
      /\ <<Op("ask", p, NoSession)>> \in Seq(Sections)
      /\ <<Op("match", p, ps[p].session)>> \in Seq(Sections)
      /\ \A b : <<Op("finish", p, IF b THEN 1 ELSE 0)>> \in Seq(Sections)
  BY <1>4, RestTyped DEF SessionIds
<1>6. ASSUME NEW state \in {"Idle", "WaitMeta"}, NEW rest,
             rest \in {<<>>, <<Op("ask", p, NoSession)>>},
             ResetAndRelease(w, p, state, FALSE, rest)
      PROVE  WorkDone(w)
  <2>1. Leaves(w, p, NoSession, FALSE)
    BY <1>4, <1>6, ResetLeaves
  <2> QED
    BY <1>1, <1>2, <1>5, <2>1, LeavesWorks
<1>7. CASE Handle(w)
  BY <1>7, HandleWorks
<1>8. CASE ReleaseSession(w)
  BY <1>1, <1>2, <1>5, <1>8, AsideWorks DEF ReleaseSession, Step
<1>9. CASE BeginSession(w)
  BY <1>1, <1>2, <1>3, <1>5, <1>6, <1>9, AsideWorks DEF BeginSession, Step
<1>10. CASE ApplySnapshot(w)
  BY <1>1, <1>2, <1>3, <1>5, <1>10, AsideWorks DEF ApplySnapshot
<1>11. CASE FinishSnapshot(w)
  BY <1>3, <1>6, <1>11 DEF FinishSnapshot
<1>12. CASE Ask(w)
  BY <1>1, <1>2, <1>5, <1>12, AsideWorks DEF Ask, Step
<1>13. CASE PrepareRequest(w)
  <2>1. CASE ps[p].state \in {"WaitChunks", "Verifying", "Applying"}
    <3>1. ps' = ps /\ Then(w, <<Op("match", p, ps[p].session)>>)
      BY <1>3, <1>13, <2>1 DEF PrepareRequest, Locked, Typed
    <3> QED
      BY <1>1, <1>2, <1>5, <3>1, AsideWorks
  <2>2. CASE ps[p].state \notin {"WaitChunks", "Verifying", "Applying"}
    BY <1>3, <1>6, <1>13, <2>2 DEF PrepareRequest
  <2> QED
    BY <2>1, <2>2
<1>14. CASE AskIfUnclaimed(w)
  <2>1. PICK rest \in Seq(Sections) : Then(w, rest)
    BY <1>3, <1>5, <1>14 DEF AskIfUnclaimed, Step
  <2> QED
    BY <1>1, <1>2, <1>14, <2>1, AsideWorks DEF AskIfUnclaimed
<1> QED
  BY <1>7, <1>8, <1>9, <1>10, <1>11, <1>12, <1>13, <1>14 DEF Section

\* The node drops a reception: not a section of a handler, but it leaves as much.
LEMMA TailBlocksWorks ==
  ASSUME Typed, NEW w \in Workers, NEW p \in Peers, TailBlocks(w, p)
  PROVE  WorkDone(w)
<1>1. Well(ps[p]) /\ ps[p].session \in SessionIds
  BY WellFields DEF Typed
<1>2. PICK t : t = [frame |-> NoFrame, todo |-> <<Release(p, ps[p].session)>>]
  OBVIOUS
<1>3. t \in Continuing
  BY <1>1, <1>2, RestTyped DEF Continuing
<1>4. t \notin Applying
  BY <1>3, InHandKinds DEF Applying
<1>5. PICK r2 : r2 = Fresh("Idle", FALSE)
  OBVIOUS
<1>6. Evolves(ps[p], r2, NoSession, FALSE) /\ r2 \in Receptions
  <2>1. Evolves(ps[p], r2, NoSession, FALSE)
    BY <1>5, FreshEvolves
  <2> QED
    BY <2>1 DEF Evolves, Well
<1>7. Works(w, p, r2, NoSession, FALSE, t)
  BY <1>2, <1>4, <1>5, <1>6 DEF TailBlocks, Works, WorkerStep
<1> QED
  BY <1>3, <1>6, <1>7 DEF WorkDone, SessionIds

LEMMA RequestWorks ==
  ASSUME Typed, NEW w \in Workers, NEW p \in Peers, RequestSync(w, p)
  PROVE  WorkDone(w)
<1>1. Well(ps[p]) /\ ps[p].received \in 0..Chunks /\ ps[p] \in Receptions
  BY WellFields DEF Typed
<1>2. PICK t : t = [frame |-> NoFrame, todo |-> <<Op("request", p, NoSession)>>]
  OBVIOUS
<1>3. t \in Continuing
  BY <1>2, RestTyped DEF Continuing, SessionIds
<1>4. t \notin Applying
  BY <1>3, InHandKinds DEF Applying
<1>5. Evolves(ps[p], ps[p], NoSession, FALSE)
  BY <1>1 DEF Evolves, Grows
<1>6. ps' = [ps EXCEPT ![p] = ps[p]]
  BY DEF RequestSync, Typed
<1>7. Works(w, p, ps[p], NoSession, FALSE, t)
  BY <1>2, <1>4, <1>5, <1>6 DEF RequestSync, Works, WorkerStep
<1> QED
  BY <1>1, <1>3, <1>7 DEF WorkDone, SessionIds

-----------------------------------------------------------------------------
(* Types                                                                   *)

LEMMA InitTyped == Init => Typed
<1> SUFFICES ASSUME Init PROVE Typed
  OBVIOUS
<1>1. \A p \in Peers : Well(ps[p]) /\ ps[p] \in Receptions
  <2> SUFFICES ASSUME NEW p \in Peers PROVE Well(ps[p])
    BY DEF Well
  <2>1. PICK state \in {"Idle", "WaitMeta"} : ps[p] = Fresh(state, FALSE)
    BY DEF Init
  <2>2. Evolves(ps[p], Fresh(state, FALSE), NoSession, FALSE)
    BY FreshEvolves
  <2> QED
    BY <2>1, <2>2 DEF Evolves
<1>2. Idle \in Tasks
  BY DEF Idle, Tasks, Continuing
<1>3. ps \in [Peers -> Receptions]
  BY <1>1 DEF Init
<1>4. server \in [Peers -> Servers]
  <2>1. 0 \in 0..EndFrame
    BY Numbers
  <2> QED
    BY <2>1, Numbers DEF Init, Servers, SessionIds
<1>5. task \in [Workers -> Tasks]
  BY <1>2 DEF Init
<1>6. sessions \in 0..MaxSessions
  BY Numbers DEF Init
<1> QED
  BY <1>1, <1>3, <1>4, <1>5, <1>6 DEF Init, Typed

LEMMA WorkTyped ==
  ASSUME Typed, NEW w \in Workers, WorkDone(w)
  PROVE  /\ ps' \in [Peers -> Receptions] /\ \A p \in Peers : Well(ps'[p])
         /\ task' \in [Workers -> Tasks]
<1>1. PICK p \in Peers, r2 \in Receptions, s \in SessionIds, opens \in BOOLEAN,
           t \in Continuing \union Applying : Works(w, p, r2, s, opens, t)
  BY DEF WorkDone
<1>2. Well(r2) /\ ps' = [ps EXCEPT ![p] = r2] /\ task' = [task EXCEPT ![w] = t]
  BY <1>1 DEF Works, WorkerStep, Evolves
<1>3. t \in Tasks
  BY DEF Tasks
<1> QED
  BY <1>2, <1>3 DEF Typed

\* Only a frame, whose session is real, can overtake another.
LEMMA NotedTyped ==
  ASSUME Typed, NEW w \in Workers, Noted(w)
  PROVE  shuffled' \subseteq Sessions
<1>1. ASSUME Overtakes(w) PROVE task[w].frame.session \in Sessions
  <2>1. PICK v \in Workers \ {w} : task[v].todo # <<>> /\ task[v].frame.k < task[w].frame.k
    BY <1>1 DEF Overtakes
  <2>2. \A u \in Workers : task[u].frame \in Frames \union {NoFrame}
    <3> SUFFICES ASSUME NEW u \in Workers PROVE task[u].frame \in Frames \union {NoFrame}
      OBVIOUS
    <3>1. task[u] \in Tasks
      BY DEF Typed
    <3> QED
      BY <3>1, InHandFields DEF Tasks, Handling, Applying, Continuing
  <2>3. task[v].frame.k \in Nat
    BY <2>2, Numbers DEF Frames, NoFrame, FrameOf
  <2>4. task[w].frame # NoFrame
    BY <2>1, <2>3, Numbers DEF NoFrame, FrameOf
  <2> QED
    BY <2>2, <2>4 DEF Frames
<1> QED
  BY <1>1 DEF Noted, Typed

ActiveTyped == active = None \/ (active.peer \in Peers /\ active.session \in Sessions)

LEMMA SectionTyped ==
  ASSUME Typed, NEW w \in Workers, Section(w)
  PROVE  Typed'
<1>1. WorkDone(w)
  BY SectionWorks
<1>2. sessions' = sessions /\ online' = online
  BY DEF Section, Handle, ReleaseSession, BeginSession, ApplySnapshot, FinishSnapshot, Ask,
         PrepareRequest, AskIfUnclaimed
<1>3. shuffled' \subseteq Sessions
  <2>1. Noted(w) \/ shuffled' = shuffled
    BY DEF Section, Handle, ReleaseSession, BeginSession, ApplySnapshot, FinishSnapshot, Ask,
           PrepareRequest, AskIfUnclaimed
  <2> QED
    BY <2>1, NotedTyped DEF Typed
<1>4. server' \in [Peers -> Servers]
  <2>1. \/ server' = server
        \/ server' = [server EXCEPT ![This(w).peer].asked = TRUE]
    BY DEF Section, Handle, ReleaseSession, BeginSession, ApplySnapshot, FinishSnapshot, Ask,
           PrepareRequest, AskIfUnclaimed
  <2>2. server \in [Peers -> Servers]
    BY DEF Typed
  <2> QED
    BY <2>1, <2>2 DEF Servers
<1>5. ActiveTyped'
  <2>1. CASE BeginSession(w)
    <3>1. Head(task[w].todo) \in Sections /\ Head(task[w].todo).op = "claim"
      <4>1. task[w] \in Tasks /\ task[w].todo # <<>> /\ Head(task[w].todo).op = "claim"
        BY <2>1 DEF BeginSession, Running, Typed
      <4> QED
        BY <4>1, TaskForms
    <3>2. This(w).peer \in Peers /\ This(w).session \in Sessions
      BY <3>1 DEF Sections, This
    <3>3. active' = active \/ active' = [peer |-> This(w).peer, session |-> This(w).session]
      BY <2>1 DEF BeginSession
    <3> QED
      BY <3>2, <3>3 DEF Typed, ActiveTyped
  <2>2. CASE ~ BeginSession(w)
    <3>1. active' \in {active, None}
      BY <2>2 DEF Section, Handle, ReleaseSession, ApplySnapshot, FinishSnapshot, Ask,
                  PrepareRequest, AskIfUnclaimed
    <3> QED
      BY <3>1 DEF Typed, ActiveTyped
  <2> QED
    BY <2>1, <2>2
<1> QED
  BY <1>1, <1>2, <1>3, <1>4, <1>5, WorkTyped DEF Typed, ActiveTyped

LEMMA PopTyped ==
  ASSUME Typed, NEW w \in Workers, NEW p \in Peers, Pop(w, p)
  PROVE  Typed'
<1> DEFINE f == FrameOf(p, server[p].session, server[p].next)
<1>1. server[p].session \in Sessions /\ server[p].next \in 0..EndFrame /\ server[p] \in Servers
  BY DEF Pop, Typed, Servers, SessionIds
<1>2. f \in Frames /\ InHand(f, "handle") \in Tasks
  BY <1>1 DEF Frames, FrameOf, Tasks, Handling
<1>3. task' = [task EXCEPT ![w] = InHand(f, "handle")]
  BY DEF Pop, InHand, FrameOf
<1>4. f.k = server[p].next
  BY DEF FrameOf
<1>5. server' \in [Peers -> Servers]
  <2>1. server \in [Peers -> Servers]
    BY DEF Typed
  <2>2. CASE f.k = EndFrame
    <3>1. server' = [server EXCEPT ![p].session = NoSession, ![p].next = MetaFrame]
      BY <2>2 DEF Pop
    <3>2. NoSession \in SessionIds /\ MetaFrame \in 0..EndFrame
      BY Numbers DEF SessionIds
    <3> QED
      BY <2>1, <3>1, <3>2 DEF Servers
  <2>3. CASE f.k # EndFrame
    <3>1. server' = [server EXCEPT ![p].next = server[p].next + 1]
      BY <2>3 DEF Pop
    <3>2. server[p].next + 1 \in 0..EndFrame
      BY <1>1, <1>4, <2>3, Numbers
    <3> QED
      BY <2>1, <3>1, <3>2 DEF Servers
  <2> QED
    BY <2>2, <2>3
<1> HIDE DEF f
<1> QED
  BY <1>2, <1>3, <1>5 DEF Pop, Typed

LEMMA ServeTyped ==
  ASSUME Typed, NEW p \in Peers, Serve(p)
  PROVE  Typed'
<1>1. sessions + 1 \in Sessions /\ sessions + 1 \in 0..MaxSessions
  BY Numbers DEF Serve, Typed, Sessions
<1>2. [asked |-> FALSE, session |-> sessions + 1, next |-> MetaFrame] \in Servers
  BY <1>1, Numbers DEF Servers, SessionIds
<1> QED
  BY <1>1, <1>2 DEF Serve, Typed

LEMMA DisconnectTyped ==
  ASSUME Typed, NEW p \in Peers, Disconnect(p)
  PROVE  Typed'
<1>1. [asked |-> FALSE, session |-> NoSession, next |-> MetaFrame] \in Servers
  BY Numbers DEF Servers, SessionIds
<1>2. active' \in {active, None}
  BY DEF Disconnect
<1> QED
  BY <1>1, <1>2 DEF Disconnect, Typed

LEMMA StepTyped ==
  ASSUME Typed, [Next]_vars
  PROVE  Typed'
<1>1. ASSUME NEW w \in Workers, Section(w) PROVE Typed'
  BY <1>1, SectionTyped
<1>2. ASSUME NEW w \in Workers, NEW p \in Peers, Pop(w, p) PROVE Typed'
  BY <1>2, PopTyped
<1>3. ASSUME NEW w \in Workers, NEW p \in Peers, RequestSync(w, p) PROVE Typed'
  BY <1>3, RequestWorks, WorkTyped DEF RequestSync, Typed
<1>4. ASSUME NEW w \in Workers, NEW p \in Peers, TailBlocks(w, p) PROVE Typed'
  BY <1>4, TailBlocksWorks, WorkTyped DEF TailBlocks, Typed
<1>5. ASSUME NEW p \in Peers, Serve(p) \/ Disconnect(p) PROVE Typed'
  BY <1>5, ServeTyped, DisconnectTyped
<1>6. CASE UNCHANGED vars
  BY <1>6 DEF vars, Typed
<1> QED
  BY <1>1, <1>2, <1>3, <1>4, <1>5, <1>6 DEF Next

LEMMA TypedMeansTypeOK == Typed => TypeOK
<1> SUFFICES ASSUME Typed PROVE TypeOK
  OBVIOUS
<1>1. ASSUME NEW p \in Peers
      PROVE  /\ ps[p].state \in States
             /\ ps[p].session \in Sessions \union {NoSession}
             /\ ps[p].received \in 0..Chunks
             /\ ps[p].pending \subseteq Pieces /\ Cardinality(ps[p].pending) <= MaxPending
             /\ ps[p].deferred \subseteq Pieces /\ Cardinality(ps[p].deferred) <= MaxDeferred
             /\ ps[p].sink.data \subseteq Pieces
             /\ ps[p].sink.of \in {NoSession, ps[p].session}
             /\ ps[p].state \in {"Verifying", "Applying"} =>
                  ps[p].meta /\ ps[p].received = ps[p].expect
  <2>1. PICK r : r = ps[p]
    OBVIOUS
  <2>2. Well(r) /\ r.received \in 0..Chunks /\ r.received \in Nat
    <3>1. Well(r)
      BY <2>1 DEF Typed
    <3>2. r.received \in 0..Chunks
      BY <3>1, WellFields
    <3> QED
      BY <3>1, <3>2, Numbers
  <2>3. /\ r.state \in States /\ r.session \in Sessions \union {NoSession}
        /\ r.pending \subseteq Pieces /\ r.deferred \subseteq Pieces
        /\ r.sink.data \subseteq Pieces /\ r.sink.of \in {NoSession, r.session}
    BY <2>2, WellFields DEF SessionIds
  <2>4. CASE r.state \in {"Idle", "WaitMeta"}
    <3>1. r.pending = {} /\ r.deferred = {}
      BY <2>2, <2>4, WellFields
    <3> QED
      BY <2>1, <2>2, <2>3, <2>4, <3>1, NoPieces, Numbers
  <2>5. CASE r.state \notin {"Idle", "WaitMeta"} /\ r.meta
    <3>1. /\ r.pending = {} /\ Cardinality(r.deferred) <= MaxDeferred /\ r.expect = Chunks
          /\ r.state # "WaitChunks" => r.received = Chunks
      BY <2>2, <2>5 DEF Well
    <3> QED
      BY <2>1, <2>2, <2>3, <2>5, <3>1, NoPieces, Numbers
  <2>6. CASE r.state \notin {"Idle", "WaitMeta"} /\ ~ r.meta
    <3>1. /\ r.pending = Span(r.session, 0, r.received) /\ Cardinality(r.deferred) <= MaxDeferred
          /\ r.state = "WaitChunks" /\ r.received <= MaxPending
      BY <2>2, <2>6 DEF Well
    <3>2. Cardinality(r.pending) = r.received
      BY <2>2, <3>1, SpanSize, Numbers
    <3> QED
      BY <2>1, <2>2, <2>3, <2>6, <3>1, <3>2
  <2> QED
    BY <2>4, <2>5, <2>6
<1> QED
  BY <1>1 DEF Typed, TypeOK

\* Every variable keeps its type, and a reception under verification or being
\* handed to the chain is complete: for any number of peers, workers and streams
\* and any order in which the workers handle what they took off the queue.
THEOREM TypeCorrect == Spec => []TypeOK
<1>1. Init => Typed
  BY InitTyped
<1>2. Typed /\ [Next]_vars => Typed'
  BY StepTyped
<1>3. Typed => TypeOK
  BY TypedMeansTypeOK
<1> QED
  BY <1>1, <1>2, <1>3, PTL DEF Spec

-----------------------------------------------------------------------------
(* The streams, as long as they are served                                 *)

LEMMA InitStreams == Init => StreamInv
<1> SUFFICES ASSUME Init PROVE StreamInv
  OBVIOUS
<1>1. \A w \in Workers : \A f, op : task[w] # InHand(f, op)
  <2> SUFFICES ASSUME NEW w \in Workers, NEW f, NEW op PROVE task[w] # InHand(f, op)
    OBVIOUS
  <2>1. task[w].todo = <<>>
    BY DEF Init, Idle
  <2> QED
    BY <2>1, InHandFields
<1>2. \A p \in Peers : /\ ps[p].session = NoSession /\ server[p].session = NoSession
                       /\ ps[p].sink.of = NoSession
  BY DEF Init, Fresh, NoSink
<1>3. \A p \in Peers, s \in Sessions : ~ Carries(p, s)
  BY <1>1, <1>2, Numbers DEF Carries, Handling, Applying
<1>4. \A p \in Peers, s \in Sessions : ~ MetaDue(p, s)
  BY <1>1, <1>2, Numbers DEF MetaDue, Offered, MetaInHand
<1> QED
  BY <1>1, <1>3, <1>4 DEF StreamInv, MetaInHand, MetaDue

LEMMA WorkStreams ==
  ASSUME Typed, StreamInv, NEW w \in Workers, WorkDone(w)
  PROVE  StreamInv'
<1>1. PICK p \in Peers, r2 \in Receptions, s \in SessionIds, opens \in BOOLEAN,
           t \in Continuing \union Applying : Works(w, p, r2, s, opens, t)
  BY DEF WorkDone
<1> QED
  BY <1>1, WorkerKeepsStreams DEF Works

\* What is not served any more, or has passed from the stream to a worker, is
\* nowhere it was not before.
LEMMA PassingStreams ==
  ASSUME StreamInv, ps' = ps, sessions' = sessions,
         \A p \in Peers, s \in Sessions :
           (Carries(p, s)' => Carries(p, s)) /\ (Offered(p, s)' => Offered(p, s)),
         \A w \in Workers : \A p \in Peers, s \in Sessions :
           MetaInHand(w, p, s)' =>
             \/ MetaInHand(w, p, s)
             \/ /\ Offered(p, s) /\ ~ Offered(p, s)'
                /\ \A v \in Workers : v # w /\ MetaInHand(v, p, s)' => MetaInHand(v, p, s),
         \A w \in Workers : \A f \in Frames :
           task'[w] = InHand(f, "apply") => task[w] = InHand(f, "apply")
  PROVE  StreamInv'
<1>1. \A p \in Peers, s \in Sessions : MetaDue(p, s)' => MetaDue(p, s)
  BY DEF MetaDue
<1>2. \A p, q \in Peers : \A s \in Sessions :
        Carries(p, s)' => s <= sessions' /\ (Carries(q, s)' => q = p)
  BY DEF StreamInv
<1>3. \A v, w \in Workers : \A p \in Peers : \A s \in Sessions :
        MetaInHand(w, p, s)' => ~ Offered(p, s)' /\ (MetaInHand(v, p, s)' => v = w)
  BY DEF StreamInv
<1>4. \A p \in Peers : \A s \in Sessions : ps'[p].sink.of = s => ~ MetaDue(p, s)'
  BY <1>1 DEF StreamInv
<1>5. \A w \in Workers : \A f \in Frames : task'[w] = InHand(f, "apply") =>
        /\ ~ MetaDue(f.peer, f.session)'
        /\ ps'[f.peer].sink.of = f.session => ps'[f.peer].received = Chunks
  BY <1>1 DEF StreamInv, Frames
<1> QED
  BY <1>2, <1>3, <1>4, <1>5 DEF StreamInv

LEMMA PopStreams ==
  ASSUME Typed, StreamInv, NEW w \in Workers, NEW p \in Peers, Pop(w, p)
  PROVE  StreamInv'
<1>0. PICK z, k : z = server[p].session /\ k = server[p].next
  OBVIOUS
<1>1. PICK f : f = FrameOf(p, z, k)
  OBVIOUS
<1>2. /\ f \in Frames /\ f.peer = p /\ f.session = z /\ f.k = k /\ z \in Sessions
      /\ k \in 0..EndFrame
  BY <1>0, <1>1 DEF Pop, Typed, Servers, SessionIds, Frames, FrameOf
<1>3. task'[w] = InHand(f, "handle") /\ \A v \in Workers : v # w => task'[v] = task[v]
  BY <1>0, <1>1, <1>2 DEF Pop, Typed, InHand
<1>4. /\ \A q \in Peers : q # p => server'[q] = server[q]
      /\ server'[p].session \in {z, NoSession}
      /\ server'[p].session = NoSession \/ server'[p].next = k + 1
  <2>1. server' = IF k = EndFrame
                  THEN [server EXCEPT ![p].session = NoSession, ![p].next = MetaFrame]
                  ELSE [server EXCEPT ![p].next = k + 1]
    BY <1>0, <1>1, <1>2 DEF Pop
  <2>2. server \in [Peers -> Servers]
    BY DEF Typed
  <2> QED
    BY <1>0, <2>1, <2>2 DEF Servers
<1>5. \A q \in Peers, s \in Sessions : Offered(q, s)' => Offered(q, s) /\ q # p
  BY <1>2, <1>4, Numbers DEF Offered
<1>6. \A v \in Workers : \A q \in Peers, s \in Sessions :
        MetaInHand(v, q, s)' =>
          \/ v # w /\ MetaInHand(v, q, s)
          \/ v = w /\ q = p /\ s = z /\ Offered(p, z)
  <2> SUFFICES ASSUME NEW v \in Workers, NEW q \in Peers, NEW s \in Sessions,
                      MetaInHand(v, q, s)'
               PROVE  \/ v # w /\ MetaInHand(v, q, s)
                      \/ v = w /\ q = p /\ s = z /\ Offered(p, z)
    OBVIOUS
  <2>1. CASE v # w
    BY <1>3, <2>1 DEF MetaInHand
  <2>2. CASE v = w
    <3>1. f = FrameOf(q, s, MetaFrame)
      BY <1>3, <2>2, InHandKinds DEF MetaInHand
    <3>2. p = q /\ z = s /\ k = MetaFrame
      BY <1>2, <3>1 DEF FrameOf
    <3> QED
      BY <1>0, <2>2, <3>2 DEF Offered
  <2> QED
    BY <2>1, <2>2
<1>7. \A q \in Peers, s \in Sessions : Carries(q, s)' => Carries(q, s)
  <2> SUFFICES ASSUME NEW q \in Peers, NEW s \in Sessions, Carries(q, s)'
               PROVE  Carries(q, s)
    OBVIOUS
  <2>1. CASE ps'[q].session = s
    BY <2>1 DEF Pop, Carries
  <2>2. CASE server'[q].session = s
    BY <1>0, <1>4, <2>2, Numbers DEF Carries
  <2>3. ASSUME NEW v \in Workers, task'[v] \in Handling \union Applying,
               task'[v].frame.peer = q, task'[v].frame.session = s
        PROVE  Carries(q, s)
    <3>1. CASE v # w
      BY <1>3, <2>3, <3>1 DEF Carries
    <3>2. CASE v = w
      <4>1. task'[w].frame = f
        BY <1>3, InHandFields
      <4> QED
        BY <1>0, <1>2, <2>3, <3>2, <4>1 DEF Carries
    <3> QED
      BY <3>1, <3>2
  <2> QED
    BY <2>1, <2>2, <2>3 DEF Carries
<1>8. \A v \in Workers : \A g \in Frames :
        task'[v] = InHand(g, "apply") => task[v] = InHand(g, "apply")
  BY <1>3, InHandKinds
<1>9. \A v \in Workers : \A q \in Peers, s \in Sessions :
        MetaInHand(v, q, s)' =>
          \/ MetaInHand(v, q, s)
          \/ /\ Offered(q, s) /\ ~ Offered(q, s)'
             /\ \A u \in Workers : u # v /\ MetaInHand(u, q, s)' => MetaInHand(u, q, s)
  BY <1>5, <1>6
<1> QED
  BY <1>5, <1>7, <1>8, <1>9, PassingStreams DEF Pop

LEMMA DisconnectStreams ==
  ASSUME Typed, StreamInv, NEW p \in Peers, Disconnect(p)
  PROVE  StreamInv'
<1>1. /\ ps' = ps /\ sessions' = sessions /\ task' = task
      /\ server'[p].session = NoSession
      /\ \A q \in Peers : q # p => server'[q] = server[q]
  BY DEF Disconnect, Typed
<1>2. \A q \in Peers, s \in Sessions :
        (Carries(q, s)' => Carries(q, s)) /\ (Offered(q, s)' => Offered(q, s))
  BY <1>1, Numbers DEF Carries, Offered
<1>3. \A w \in Workers : \A q \in Peers, s \in Sessions :
        MetaInHand(w, q, s)' => MetaInHand(w, q, s)
  BY <1>1 DEF MetaInHand
<1> QED
  BY <1>1, <1>2, <1>3, PassingStreams

\* A new stream has a session that nobody carries yet.
LEMMA ServeStreams ==
  ASSUME Typed, StreamInv, NEW p \in Peers, Serve(p)
  PROVE  StreamInv'
<1>0. PICK z : z = sessions + 1
  OBVIOUS
<1>1. /\ ps' = ps /\ task' = task /\ sessions' = z
      /\ server'[p].session = z
      /\ \A q \in Peers : q # p => server'[q] = server[q]
  BY <1>0 DEF Serve, Typed
<1>2. z \in Sessions /\ sessions \in Nat /\ \A s \in Sessions : s \in Nat
  BY <1>0, Numbers DEF Serve, Typed, Sessions
<1>3. \A q \in Peers : ~ Carries(q, z)
  BY <1>0, <1>2 DEF StreamInv
<1>4. \A q \in Peers, s \in Sessions : Carries(q, s)' => Carries(q, s) \/ (q = p /\ s = z)
  BY <1>1 DEF Carries
<1>5. \A q \in Peers, s \in Sessions : Offered(q, s)' => Offered(q, s) \/ (q = p /\ s = z)
  BY <1>1 DEF Offered
<1>6. \A w \in Workers : \A q \in Peers, s \in Sessions :
        MetaInHand(w, q, s)' => MetaInHand(w, q, s) /\ s # z
  <2> SUFFICES ASSUME NEW w \in Workers, NEW q \in Peers, NEW s \in Sessions,
                      MetaInHand(w, q, s)'
               PROVE  MetaInHand(w, q, s) /\ s # z
    OBVIOUS
  <2>1. MetaInHand(w, q, s)
    BY <1>1 DEF MetaInHand
  <2>2. PICK f : f = FrameOf(q, s, MetaFrame)
    OBVIOUS
  <2>3. f \in Frames /\ f.peer = q /\ f.session = s
    BY <2>2, Numbers DEF FrameOf, Frames
  <2>4. task[w] = InHand(f, "handle")
    BY <2>1, <2>2 DEF MetaInHand
  <2>5. task[w].frame = f /\ task[w] \in Handling
    BY <2>3, <2>4, InHandFields DEF Handling
  <2>6. Carries(q, s)
    BY <2>3, <2>5 DEF Carries
  <2> QED
    BY <1>3, <2>1, <2>6
<1>7. \A w \in Workers : \A f \in Frames : task[w] = InHand(f, "apply") =>
        f.peer \in Peers /\ f.session \in Sessions /\ f.session # z
  <2> SUFFICES ASSUME NEW w \in Workers, NEW f \in Frames, task[w] = InHand(f, "apply")
               PROVE  f.peer \in Peers /\ f.session \in Sessions /\ f.session # z
    OBVIOUS
  <2>1. task[w].frame = f /\ task[w] \in Applying /\ f.peer \in Peers /\ f.session \in Sessions
    BY InHandFields DEF Applying, Frames
  <2>2. Carries(f.peer, f.session)
    BY <2>1 DEF Carries
  <2> QED
    BY <1>3, <2>1, <2>2
<1>8. \A q \in Peers, s \in Sessions : ps[q].sink.of = s => s # z
  <2> SUFFICES ASSUME NEW q \in Peers, NEW s \in Sessions, ps[q].sink.of = s
               PROVE  s # z
    OBVIOUS
  <2>1. ps[q].session = s
    BY WellFields, Numbers DEF Typed
  <2> QED
    BY <1>3, <2>1 DEF Carries
<1>9. \A q \in Peers, s \in Sessions : s # z /\ MetaDue(q, s)' => MetaDue(q, s)
  BY <1>5, <1>6 DEF MetaDue
<1>10. \A q1, q2 \in Peers : \A s \in Sessions :
         Carries(q1, s)' => s <= sessions' /\ (Carries(q2, s)' => q2 = q1)
  <2> SUFFICES ASSUME NEW q1 \in Peers, NEW q2 \in Peers, NEW s \in Sessions, Carries(q1, s)'
               PROVE  s <= sessions' /\ (Carries(q2, s)' => q2 = q1)
    OBVIOUS
  <2>1. CASE s = z
    BY <1>1, <1>2, <1>3, <1>4, <2>1
  <2>2. CASE s # z
    <3>1. s <= sessions /\ (Carries(q2, s) => q2 = q1)
      BY <1>4, <2>2 DEF StreamInv
    <3> QED
      BY <1>0, <1>1, <1>2, <1>4, <2>2, <3>1
  <2> QED
    BY <2>1, <2>2
<1>11. \A v, w \in Workers : \A q \in Peers : \A s \in Sessions :
         MetaInHand(w, q, s)' => ~ Offered(q, s)' /\ (MetaInHand(v, q, s)' => v = w)
  BY <1>5, <1>6 DEF StreamInv
<1>12. \A q \in Peers : \A s \in Sessions : ps'[q].sink.of = s => ~ MetaDue(q, s)'
  BY <1>1, <1>8, <1>9 DEF StreamInv
<1>13. \A w \in Workers : \A f \in Frames : task'[w] = InHand(f, "apply") =>
         /\ ~ MetaDue(f.peer, f.session)'
         /\ ps'[f.peer].sink.of = f.session => ps'[f.peer].received = Chunks
  BY <1>1, <1>7, <1>9 DEF StreamInv
<1> QED
  BY <1>10, <1>11, <1>12, <1>13 DEF StreamInv

\* A step of the system is a section of a worker, or one of the peers'.
LEMMA StepKinds ==
  ASSUME Typed, [Next]_vars
  PROVE  \/ \E w \in Workers : WorkDone(w)
         \/ \E w \in Workers, p \in Peers : Pop(w, p)
         \/ \E p \in Peers : Serve(p) \/ Disconnect(p)
         \/ UNCHANGED vars
  BY SectionWorks, RequestWorks, TailBlocksWorks DEF Next

LEMMA StepStreams ==
  ASSUME Typed, StreamInv, [Next]_vars
  PROVE  StreamInv'
<1>1. CASE UNCHANGED vars
  BY <1>1 DEF vars, StreamInv, Carries, MetaDue, MetaInHand, Offered
<1> QED
  BY <1>1, StepKinds, WorkStreams, PopStreams, ServeStreams, DisconnectStreams

-----------------------------------------------------------------------------
(* The transfer of whole streams                                           *)

\* Kept, for given receptions
KeptIn(f, s) == UNION {IF f[p].session # s THEN {}
                       ELSE IF f[p].sink = NoSink THEN f[p].pending ELSE f[p].sink.data : p \in Peers}

LEMMA KeptOne ==
  ASSUME NEW f, \A q \in Peers : Well(f[q]), NEW s \in Sessions, NEW p \in Peers,
         f[p].session = s, \A q \in Peers : f[q].session = s => q = p
  PROVE  KeptIn(f, s) = Span(s, 0, f[p].received)
<1>1. PICK r : r = f[p]
  OBVIOUS
<1>2. Well(r) /\ r.session = s /\ s # NoSession
  BY <1>1, Numbers
<1>3. r.state \notin {"Idle", "WaitMeta"}
  BY <1>2, WellFields
<1>4. (IF r.sink = NoSink THEN r.pending ELSE r.sink.data) = Span(s, 0, r.received)
  <2>1. CASE r.meta
    BY <1>2, <1>3, <2>1 DEF Well, NoSink
  <2>2. CASE ~ r.meta
    BY <1>2, <1>3, <2>2 DEF Well
  <2> QED
    BY <2>1, <2>2
<1>5. \A q \in Peers : q # p => f[q].session # s
  OBVIOUS
<1> QED
  BY <1>1, <1>2, <1>4, <1>5 DEF KeptIn

LEMMA KeptNone ==
  ASSUME NEW f, NEW s, \A q \in Peers : f[q].session # s
  PROVE  KeptIn(f, s) = {}
  BY DEF KeptIn

LEMMA KeptElsewhere ==
  ASSUME NEW f, NEW g, NEW p \in Peers, \A q \in Peers : q # p => g[q] = f[q],
         NEW s, f[p].session # s, g[p].session # s
  PROVE  KeptIn(g, s) = KeptIn(f, s)
<1>1. \A q \in Peers :
        (IF f[q].session # s THEN {}
           ELSE IF f[q].sink = NoSink THEN f[q].pending ELSE f[q].sink.data)
        = (IF g[q].session # s THEN {}
             ELSE IF g[q].sink = NoSink THEN g[q].pending ELSE g[q].sink.data)
  OBVIOUS
<1> QED
  BY <1>1 DEF KeptIn

Got(f) == [s \in Sessions |-> KeptIn(f, s)]

\* What a section does to the pieces kept: more of one stream, nothing of one, or
\* all as it was.
LEMMA WorkTransfers ==
  ASSUME Typed, StreamInv, Typed', StreamInv', NEW w \in Workers, WorkDone(w)
  PROVE  \/ Got(ps') = Got(ps)
         \/ \E z \in Sessions : Got(ps') = [Got(ps) EXCEPT ![z] = {}]
         \/ \E z \in Sessions, n \in 1..Chunks :
              Got(ps') = [Got(ps) EXCEPT ![z] = Span(z, 0, n)] /\ KeptIn(ps, z) \subseteq Span(z, 0, n)
<1>1. PICK p \in Peers, r2 \in Receptions, x \in SessionIds, opens \in BOOLEAN,
           t \in Continuing \union Applying : Works(w, p, r2, x, opens, t)
  BY DEF WorkDone
<1>2. PICK f, g : f = ps /\ g = ps'
  OBVIOUS
<1>3. /\ \A q \in Peers : Well(f[q]) /\ Well(g[q])
      /\ \A q \in Peers : q # p => g[q] = f[q]
      /\ g[p] = r2 /\ Evolves(f[p], r2, x, opens)
  BY <1>1, <1>2 DEF Typed, Works
<1>4. \A s \in Sessions : \A q1, q2 \in Peers :
        /\ f[q1].session = s /\ f[q2].session = s => q1 = q2
        /\ g[q1].session = s /\ g[q2].session = s => q1 = q2
  BY <1>2 DEF StreamInv, Carries
<1>5. PICK a, b : a = f[p].session /\ b = r2.session
  OBVIOUS
<1>6. a \in SessionIds /\ b \in SessionIds
  BY <1>3, <1>5, WellFields
<1>7. PICK m, n : m = f[p].received /\ n = r2.received
  OBVIOUS
<1>8. m \in 0..Chunks /\ n \in 0..Chunks
  BY <1>3, <1>7, WellFields
<1>9. (a = b /\ n >= m) \/ n = 0 \/ a = NoSession
  BY <1>3, <1>5, <1>7 DEF Evolves, Grows
<1>10. \A s \in Sessions : s # a /\ s # b => KeptIn(g, s) = KeptIn(f, s)
  BY <1>3, <1>5, KeptElsewhere
<1>11. a \in Sessions => KeptIn(f, a) = Span(a, 0, m)
  BY <1>3, <1>4, <1>5, <1>7, KeptOne
<1>12. b \in Sessions => KeptIn(g, b) = Span(b, 0, n)
  BY <1>3, <1>4, <1>5, <1>7, KeptOne
<1>13. a \in Sessions /\ a # b => KeptIn(g, a) = {}
  <2> SUFFICES ASSUME a \in Sessions, a # b PROVE KeptIn(g, a) = {}
    OBVIOUS
  <2>1. \A q \in Peers : g[q].session # a
    BY <1>3, <1>4, <1>5
  <2> QED
    BY <2>1, KeptNone
<1>14. b \in Sessions /\ a # b => KeptIn(f, b) = {}
  <2> SUFFICES ASSUME b \in Sessions, a # b PROVE KeptIn(f, b) = {}
    OBVIOUS
  <2>1. \A q \in Peers : f[q].session # b
    BY <1>3, <1>4, <1>5
  <2> QED
    BY <2>1, KeptNone
<1>15. \A s \in Sessions : Span(s, 0, 0) = {}
  BY SpanFacts
<1>16. CASE a = b /\ b = NoSession
  <2>1. \A s \in Sessions : KeptIn(g, s) = KeptIn(f, s)
    BY <1>10, <1>16, Numbers
  <2> QED
    BY <1>2, <2>1 DEF Got
<1>17. CASE b \in Sessions /\ (a = b \/ a = NoSession)
  <2>1. CASE n = 0
    <3>1. KeptIn(g, b) = {}
      BY <1>12, <1>15, <1>17, <2>1
    <3>2. \A s \in Sessions : s # b => KeptIn(g, s) = KeptIn(f, s)
      BY <1>10, <1>17, Numbers
    <3>3. Got(g) = [Got(f) EXCEPT ![b] = {}]
      BY <1>17, <3>1, <3>2 DEF Got
    <3> QED
      BY <1>2, <1>17, <3>3
  <2>2. CASE n # 0
    <3>1. n \in 1..Chunks
      BY <1>8, <2>2, Numbers
    <3>2. KeptIn(f, b) \subseteq Span(b, 0, n)
      <4>1. CASE a = b
        BY <1>8, <1>9, <1>11, <1>17, <2>2, <4>1, Numbers DEF Span
      <4>2. CASE a # b
        BY <1>14, <1>17, <4>2
      <4> QED
        BY <4>1, <4>2
    <3>3. \A s \in Sessions : s # b => KeptIn(g, s) = KeptIn(f, s)
      BY <1>10, <1>17, Numbers
    <3>4. Got(g) = [Got(f) EXCEPT ![b] = Span(b, 0, n)]
      BY <1>12, <1>17, <3>3 DEF Got
    <3> QED
      BY <1>2, <1>17, <3>1, <3>2, <3>4
  <2> QED
    BY <2>1, <2>2
<1>18. CASE a \in Sessions /\ a # b
  <2>1. b \in Sessions => KeptIn(g, b) = KeptIn(f, b)
    <3>1. n = 0
      BY <1>9, <1>18, Numbers
    <3> QED
      BY <1>12, <1>14, <1>15, <1>18, <3>1
  <2>2. \A s \in Sessions : s # a => KeptIn(g, s) = KeptIn(f, s)
    BY <1>10, <2>1
  <2>3. Got(g) = [Got(f) EXCEPT ![a] = {}]
    BY <1>13, <1>18, <2>2 DEF Got
  <2> QED
    BY <1>2, <1>18, <2>3
<1> QED
  BY <1>6, <1>16, <1>17, <1>18 DEF SessionIds

\* The sink a handler reads outside the lock holds the whole stream, or is closed.
LEMMA ApplyTransfers ==
  ASSUME Typed, StreamInv, NEW w \in Workers, ApplySnapshot(w)
  PROVE  /\ ps' = ps
         /\ \/ installed' = installed
            \/ \E z \in Sessions : /\ KeptIn(ps, z) = Span(z, 0, Chunks)
                                   /\ installed' = installed \union {KeptIn(ps, z)}
<1>1. task[w] \in Applying
  BY TaskForms DEF ApplySnapshot, Running, Typed
<1>2. PICK f \in Frames : task[w] = InHand(f, "apply")
  BY <1>1 DEF Applying
<1>3. PICK p, z : p = f.peer /\ z = f.session
  OBVIOUS
<1>4. p \in Peers /\ z \in Sessions /\ z # NoSession /\ This(w).peer = p /\ This(w).session = z
  <2>1. p \in Peers /\ z \in Sessions /\ z # NoSession
    BY <1>3, Numbers DEF Frames
  <2>2. This(w) = Op("apply", p, z)
    BY <1>2, <1>3, InHandFields DEF This
  <2> QED
    BY <2>1, <2>2 DEF Op
<1>5. ps' = ps /\ installed' = IF ps[p].sink.of = z THEN installed \union {ps[p].sink.data} ELSE installed
  BY <1>4 DEF ApplySnapshot
<1>6. ASSUME ps[p].sink.of = z
      PROVE  KeptIn(ps, z) = Span(z, 0, Chunks) /\ ps[p].sink.data = Span(z, 0, Chunks)
  <2>1. PICK r : r = ps[p]
    OBVIOUS
  <2>2. r.received = Chunks
    BY <1>2, <1>3, <1>6, <2>1 DEF StreamInv
  <2>3. Well(r)
    BY <1>4, <2>1 DEF Typed
  <2>4. r.session = z /\ r.sink.of = z
    BY <1>4, <1>6, <2>1, <2>3, WellFields
  <2>5. \A q \in Peers : ps[q].session = z => q = p
    BY <1>4, <2>1, <2>4 DEF StreamInv, Carries
  <2>6. KeptIn(ps, z) = Span(z, 0, r.received)
    BY <1>4, <2>1, <2>4, <2>5, KeptOne DEF Typed
  <2>7. r.sink.data = Span(z, 0, r.received)
    <3>1. r.sink # NoSink
      BY <1>4, <2>4 DEF NoSink
    <3>2. r.state \notin {"Idle", "WaitMeta"}
      BY <2>3, <3>1, WellFields
    <3> QED
      BY <2>3, <2>4, <3>1, <3>2 DEF Well
  <2> QED
    BY <2>1, <2>2, <2>6, <2>7
<1> QED
  BY <1>4, <1>5, <1>6

LEMMA TransferStep ==
  ASSUME Typed, StreamInv, Typed', StreamInv', [Next]_vars
  PROVE  \/ Got(ps') = Got(ps) /\ installed' = installed
         \/ \E z \in Sessions :
              \/ Got(ps') = [Got(ps) EXCEPT ![z] = {}] /\ installed' = installed
              \/ \E n \in 1..Chunks : /\ Got(ps') = [Got(ps) EXCEPT ![z] = Span(z, 0, n)]
                                      /\ KeptIn(ps, z) \subseteq Span(z, 0, n)
                                      /\ installed' = installed
              \/ /\ KeptIn(ps, z) = Span(z, 0, Chunks) /\ Got(ps') = Got(ps)
                 /\ installed' = installed \union {KeptIn(ps, z)}
<1>1. CASE \E w \in Workers : ApplySnapshot(w)
  BY <1>1, ApplyTransfers
<1>2. CASE (\E w \in Workers : WorkDone(w)) /\ installed' = installed
  BY <1>2, WorkTransfers
<1>3. CASE ps' = ps /\ installed' = installed
  BY <1>3
<1>4. ASSUME NEW w \in Workers, Section(w), ~ ApplySnapshot(w)
      PROVE  installed' = installed
  BY <1>4 DEF Section, Handle, ReleaseSession, BeginSession, FinishSnapshot, Ask,
              PrepareRequest, AskIfUnclaimed
<1>5. ASSUME NEW w \in Workers, NEW p \in Peers, RequestSync(w, p) \/ TailBlocks(w, p)
      PROVE  installed' = installed
  BY <1>5 DEF RequestSync, TailBlocks
<1>6. ASSUME NEW w \in Workers, NEW p \in Peers, Pop(w, p)
      PROVE  ps' = ps /\ installed' = installed
  BY <1>6 DEF Pop
<1>7. ASSUME NEW p \in Peers, Serve(p) \/ Disconnect(p)
      PROVE  ps' = ps /\ installed' = installed
  BY <1>7 DEF Serve, Disconnect
<1>8. CASE UNCHANGED vars
  BY <1>3, <1>8 DEF vars
<1>9. CASE \E w \in Workers : Section(w)
  BY <1>1, <1>2, <1>4, <1>9, SectionWorks
<1>10. CASE \E w \in Workers, p \in Peers : RequestSync(w, p) \/ TailBlocks(w, p)
  BY <1>2, <1>5, <1>10, RequestWorks, TailBlocksWorks
<1> QED
  BY <1>3, <1>6, <1>7, <1>8, <1>9, <1>10 DEF Next

LEMMA TransferInit == Init => Transfer!Init
<1> SUFFICES ASSUME Init PROVE Transfer!Init
  OBVIOUS
<1>1. \A p \in Peers, s \in Sessions : ps[p].session # s
  BY Numbers DEF Init, Fresh
<1>2. \A s \in Sessions : Kept(s) = {}
  BY <1>1 DEF Kept
<1> QED
  BY <1>2 DEF Init, Transfer!Init

LEMMA TransferNext ==
  ASSUME Typed, StreamInv, Typed', StreamInv', [Next]_vars
  PROVE  [Transfer!Next]_<<[s \in Sessions |-> Kept(s)], installed>>
<1>1. Got(ps) = [s \in Sessions |-> Kept(s)] /\ Got(ps') = [s \in Sessions |-> Kept(s)]'
  BY DEF Got, Kept, KeptIn
<1>2. \A s, n : Transfer!Piece(s, n) = Span(s, 0, n)
  BY DEF Transfer!Piece, Span
<1>3. \A z \in Sessions : Got(ps)[z] = KeptIn(ps, z)
  BY DEF Got
<1>4. ASSUME NEW z \in Sessions, Got(ps') = [Got(ps) EXCEPT ![z] = {}], installed' = installed
      PROVE  Transfer!Discard(z)
  BY <1>1, <1>4 DEF Transfer!Discard
<1>5. ASSUME NEW z \in Sessions, NEW n \in 1..Chunks,
             Got(ps') = [Got(ps) EXCEPT ![z] = Span(z, 0, n)],
             KeptIn(ps, z) \subseteq Span(z, 0, n), installed' = installed
      PROVE  Transfer!Gain(z)
  <2>1. Got(ps')[z] = Span(z, 0, n)
    BY <1>5 DEF Got
  <2>2. Got(ps)[z] \subseteq Got(ps')[z] /\ Got(ps') = [Got(ps) EXCEPT ![z] = Transfer!Piece(z, n)]
    BY <1>2, <1>3, <1>5, <2>1
  <2> HIDE DEF Got
  <2> QED
    BY <1>1, <1>5, <2>2 DEF Transfer!Gain
<1>6. ASSUME NEW z \in Sessions, KeptIn(ps, z) = Span(z, 0, Chunks), Got(ps') = Got(ps),
             installed' = installed \union {KeptIn(ps, z)}
      PROVE  Transfer!Install(z)
  <2>1. Got(ps)[z] = Transfer!Whole(z)
    BY <1>2, <1>3, <1>6 DEF Transfer!Whole
  <2> QED
    BY <1>1, <1>3, <1>6, <2>1 DEF Transfer!Install
<1>7. CASE Got(ps') = Got(ps) /\ installed' = installed
  BY <1>1, <1>7
<1> QED
  BY <1>4, <1>5, <1>6, <1>7, TransferStep DEF Transfer!Next

\* However the workers take turns, and however often a reception is thrown away and
\* begun again, what is kept of a session is an initial part of its own stream, and
\* the chain is handed whole streams only: Snapshot implements SnapshotTransfer.
THEOREM ImplementsSnapshotTransfer == Spec => ImplementsTransfer
<1>1. Init => Typed /\ StreamInv
  BY InitTyped, InitStreams
<1>2. Typed /\ StreamInv /\ [Next]_vars => Typed' /\ StreamInv'
  BY StepTyped, StepStreams
<1>3. Typed /\ StreamInv /\ Typed' /\ StreamInv' /\ [Next]_vars
        => [Transfer!Next]_<<[s \in Sessions |-> Kept(s)], installed>>
  BY TransferNext
<1> QED
  BY <1>1, <1>2, <1>3, TransferInit, PTL DEF Spec, ImplementsTransfer, Transfer!Spec
=============================================================================
