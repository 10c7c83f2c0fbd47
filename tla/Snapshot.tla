------------------------------ MODULE Snapshot ------------------------------
(***************************************************************************)
(* Snapshot synchronisation of one node (network.cpp): its peers serve it  *)
(* streams of metadata, chunks and an end marker, one session each; its    *)
(* workers take the frames of each stream in order (the queue between is   *)
(* FrameQueue) and handle them concurrently.  Each critical section of a   *)
(* handler is a step: a handler locks the state of the peer (PeerState::m) *)
(* and then the node's one active session (snapshotSessionMutex), and      *)
(* other handlers run in between.                                          *)
(***************************************************************************)
EXTENDS Naturals, Sequences, FiniteSets

CONSTANTS
  Peers, Workers,
  Asked,          \* peers asked for a snapshot when they connected
  Chunks,         \* pieces in a stream; the code cuts it by bytes
  MaxDeferred,    \* SNAPSHOT_OUT_OF_ORDER_MAX_CHUNKS and the byte limits beside it
  MaxPending,     \* SNAPSHOT_IMPLICIT_BUFFER_LIMIT, in chunks
  MaxSessions,    \* bound: streams served in all
  MaxEvents       \* bound: requests and tail blocks of the node's own, failures
                  \* of the temporary file and connections lost, in all

ASSUME SnapshotConstants ==
  /\ Asked \subseteq Peers
  /\ Chunks \in Nat \ {0} /\ MaxDeferred \in Nat /\ MaxPending \in Nat
  /\ MaxSessions \in Nat /\ MaxEvents \in Nat

Sessions == 1..MaxSessions
NoSession == 0   \* the empty session id
None == [peer |-> "none", session |-> NoSession]

\* The k-th frame of a stream: metadata, then the chunks, then the end marker
FrameOf(p, s, k) == [peer |-> p, session |-> s, k |-> k]
MetaFrame == 0
EndFrame == Chunks + 1
NoFrame == FrameOf("none", NoSession, 0)

VARIABLES
  ps,        \* PeerState: the reception from each peer
  active,    \* activeSnapshotSession
  task,      \* what each worker handles: the frame and the sections left to run
  server,    \* each peer's side: what it is asked, and the rest of its stream
  sessions,  \* streams begun so far
  online,    \* peers in peerTransports
  installed, \* contents that SnapshotEnd handed to the chain
  events,    \* requests of the node's own, tail blocks and failures so far
  shuffled   \* history: sessions a frame of which was overtaken by a later one

vars == <<ps, active, task, server, sessions, online, installed, events, shuffled>>

NoSink == [of |-> NoSession, data |-> {}]
Fresh(state, restart) ==
  [state |-> state, session |-> NoSession, meta |-> FALSE, implicit |-> FALSE,
   expect |-> 0, received |-> 0, pending |-> {}, deferred |-> {},
   sink |-> NoSink, restart |-> restart]

Idle == [frame |-> NoFrame, todo |-> <<>>]

\* The node has connected to its peers and is far behind some of them.
Init ==
  /\ ps = [p \in Peers |-> Fresh(IF p \in Asked THEN "WaitMeta" ELSE "Idle", FALSE)]
  /\ active = None
  /\ task = [w \in Workers |-> Idle]
  /\ server = [p \in Peers |-> [asked |-> p \in Asked, session |-> NoSession, next |-> MetaFrame]]
  /\ sessions = 0
  /\ online = Peers
  /\ installed = {}
  /\ events = 0
  /\ shuffled = {}
-----------------------------------------------------------------------------
(* The sections a handler still has to run, in order                       *)

Op(name, p, s) == [op |-> name, peer |-> p, session |-> s]
Release(p, s) == Op("release", p, s)

\* requestMetaRestart: a request is sent unless one is out already.
AskUnless(flag, p) == IF flag THEN <<>> ELSE <<Op("ask", p, NoSession)>>

\* Worker w did a section; "rest" comes next.
Then(w, rest) ==
  LET left == rest \o Tail(task[w].todo)
  IN task' = [task EXCEPT ![w] =
       IF left = <<>> THEN Idle ELSE [frame |-> @.frame, todo |-> left]]
Step(w) == Then(w, <<>>)

\* The section changes the state of p to r.
Locked(w, p, r, rest) == ps' = [ps EXCEPT ![p] = r] /\ Then(w, rest)

\* resetSnapshotReceptionLocked, then releaseSnapshotSession outside the lock
ResetAndRelease(w, p, state, restart, rest) ==
  Locked(w, p, Fresh(state, restart), <<Release(p, ps[p].session)>> \o rest)

\* resetSnapshotReceptionLocked that keeps the retry state, and a request
Restart(w, p) ==
  ResetAndRelease(w, p, "WaitMeta", TRUE, AskUnless(ps[p].restart, p))

Event ==
  /\ events < MaxEvents
  /\ events' = events + 1
-----------------------------------------------------------------------------
(* handleSnapshotMeta *)

\* Chunks of this session came before its metadata and are buffered.
Resumes(p, s) ==
  /\ ps[p].implicit /\ ps[p].state = "WaitChunks"
  /\ ps[p].session = s /\ ps[p].received > 0

Receiving(s, received, data) ==
  [state |-> "WaitChunks", session |-> s, meta |-> TRUE, implicit |-> FALSE,
   expect |-> Chunks, received |-> received, pending |-> {}, deferred |-> {},
   sink |-> [of |-> s, data |-> data], restart |-> FALSE]

OpenSink(w, p, s) ==
  /\ IF Resumes(p, s)
     THEN Locked(w, p, Receiving(s, ps[p].received, ps[p].pending), <<Op("claim", p, s)>>)
     ELSE Locked(w, p, Receiving(s, 0, {}), <<Release(p, ps[p].session), Op("claim", p, s)>>)
  /\ UNCHANGED events

\* The temporary file cannot be prepared; the second reset of the two hides the
\* session that the first one ended.
SinkFails(w, p, s) ==
  /\ Event
  /\ Locked(w, p, Fresh("WaitMeta", TRUE),
            <<Release(p, IF Resumes(p, s) THEN s ELSE NoSession), Op("ask", p, NoSession)>>)

HandleMeta(w, p, s) == OpenSink(w, p, s) \/ SinkFails(w, p, s)
-----------------------------------------------------------------------------
(* handleSnapshotChunk *)

\* A first chunk without metadata opens the session.
Implicit(p, s, o) ==
  IF ps[p].state = "WaitMeta" /\ ps[p].received = 0 /\ o = 0
  THEN [Fresh("WaitChunks", FALSE) EXCEPT !.session = s, !.implicit = TRUE]
  ELSE ps[p]

\* Mutant: chunks before the metadata are kept without limit.
Buffer_NoLimit(w, p, r, c) ==
  /\ Locked(w, p, [r EXCEPT !.pending = @ \union {c}, !.received = @ + 1], <<>>)
  /\ UNCHANGED events

Buffer(w, p, r, c) ==
  IF Cardinality(r.pending) >= MaxPending
  THEN /\ Locked(w, p, Fresh("WaitMeta", TRUE),
                 <<Release(p, r.session)>> \o AskUnless(r.restart, p))
       /\ UNCHANGED events
  ELSE LET kept == [r EXCEPT !.pending = @ \union {c}, !.received = @ + 1]
       IN /\ \/ Locked(w, p, kept, <<>>)
             \* SNAPSHOT_IMPLICIT_META_TIMEOUT has passed since the first chunk
             \/ /\ ~r.restart /\ r.received > 0
                /\ Locked(w, p, [kept EXCEPT !.restart = TRUE], <<Op("ask", p, NoSession)>>)
          /\ UNCHANGED events

\* The chunks waiting in line right after the first n
RunFrom(deferred, n) ==
  {c \in deferred : \A o \in n..c[2] : \E d \in deferred : d[2] = o}

\* Mutant: a stream counts as complete only when more than all of it is there.
Persist_OffByOne(w, p, r, c) ==
  LET run == RunFrom(r.deferred, c[2] + 1)
      n == r.received + 1 + Cardinality(run)
  IN /\ Locked(w, p, [r EXCEPT
          !.sink = [of |-> r.sink.of, data |-> @.data \union {c} \union run],
          !.received = n, !.deferred = @ \ run,
          !.state = IF n > r.expect THEN "Verifying" ELSE @], <<>>)
     /\ UNCHANGED events

Persist(w, p, r, c) ==
  LET run == RunFrom(r.deferred, c[2] + 1)
      n == r.received + 1 + Cardinality(run)
  IN \/ /\ Locked(w, p, [r EXCEPT
                     !.sink = [of |-> r.sink.of, data |-> @.data \union {c} \union run],
                     !.received = n,
                     !.deferred = @ \ run,
                     !.state = IF n >= r.expect THEN "Verifying" ELSE @], <<>>)
        /\ UNCHANGED events
     \/ Event /\ Restart(w, p)

HandleChunk(w, p, s, o) ==
  LET r == Implicit(p, s, o)
      c == <<s, o>>
  IN \/ /\ r.state # "WaitChunks" \/ r.session # s
        /\ Restart(w, p) /\ UNCHANGED events
     \/ /\ r.state = "WaitChunks" /\ r.session = s
        /\ \/ /\ o < r.received
              /\ Locked(w, p, r, <<>>) /\ UNCHANGED events
           \/ /\ o > r.received
              /\ IF Cardinality(r.deferred) >= MaxDeferred
                 THEN Restart(w, p)
                 ELSE Locked(w, p, [r EXCEPT !.deferred = @ \union {c}], <<>>)
              /\ UNCHANGED events
           \/ /\ o = r.received
              /\ IF r.meta THEN Persist(w, p, r, c) ELSE Buffer(w, p, r, c)
-----------------------------------------------------------------------------
(* handleSnapshotEnd *)

\* A stream whose length is unknown may be verified at once.
MayVerify(r) == r.state = "Verifying" \/ (r.state = "WaitChunks" /\ r.expect = 0)

\* Mutant: an end marker is believed in whatever state the stream is.
HandleEnd_Early(w, p, s) ==
  /\ IF ps[p].session = s /\ ps[p].sink # NoSink
     THEN Locked(w, p, [ps[p] EXCEPT !.state = "Applying"], <<Op("apply", p, s)>>)
     ELSE ResetAndRelease(w, p, "WaitMeta", FALSE, <<>>)
  /\ UNCHANGED events

HandleEnd(w, p, s) ==
  /\ IF /\ MayVerify(ps[p]) /\ ps[p].session = s
        /\ ps[p].expect > 0 => ps[p].received = ps[p].expect
        /\ ps[p].sink # NoSink
     THEN Locked(w, p, [ps[p] EXCEPT !.state = "Applying"], <<Op("apply", p, s)>>)
     ELSE ResetAndRelease(w, p, "WaitMeta", FALSE, <<>>)
  /\ UNCHANGED events
-----------------------------------------------------------------------------
(* One section of a worker *)

\* An earlier frame of the same session is still being handled.
Overtakes(w) ==
  \E v \in Workers \ {w} :
    /\ task[v].todo # <<>>
    /\ task[v].frame.session = task[w].frame.session
    /\ task[v].frame.k < task[w].frame.k

Noted(w) ==
  shuffled' = IF Overtakes(w) THEN shuffled \union {task[w].frame.session} ELSE shuffled

Running(w, name) == task[w].todo # <<>> /\ Head(task[w].todo).op = name
This(w) == Head(task[w].todo)

\* The worker takes the next frame of a stream off the queue; its handler has not
\* locked anything yet.
Pop(w, p) ==
  /\ task[w] = Idle /\ server[p].session # NoSession
  /\ LET f == FrameOf(p, server[p].session, server[p].next)
     IN /\ task' = [task EXCEPT ![w] = [frame |-> f,
                                       todo |-> <<Op("handle", p, f.session)>>]]
        /\ server' = IF f.k = EndFrame
                     THEN [server EXCEPT ![p].session = NoSession, ![p].next = MetaFrame]
                     ELSE [server EXCEPT ![p].next = @ + 1]
  /\ UNCHANGED <<ps, active, sessions, online, installed, events, shuffled>>

\* dispatch, up to the end of the first locked section of the handler
Handle(w) ==
  /\ Running(w, "handle")
  /\ LET f == task[w].frame
     IN IF f.peer \notin online
        THEN Step(w) /\ UNCHANGED <<ps, events>>
        ELSE \/ f.k = MetaFrame /\ HandleMeta(w, f.peer, f.session)
             \/ f.k \in 1..Chunks /\ HandleChunk(w, f.peer, f.session, f.k - 1)
             \/ f.k = EndFrame /\ HandleEnd(w, f.peer, f.session)
  /\ Noted(w)
  /\ UNCHANGED <<active, server, sessions, online, installed>>

\* releaseSnapshotSession; an empty id releases whatever session the peer has.
ReleaseSession(w) ==
  /\ Running(w, "release")
  /\ active' = IF /\ active.peer = This(w).peer
                  /\ This(w).session \in {NoSession, active.session}
               THEN None ELSE active
  /\ Step(w) /\ Noted(w)
  /\ UNCHANGED <<ps, server, sessions, online, installed, events>>

\* beginSnapshotSession, at the end of handleSnapshotMeta
BeginSession(w) ==
  /\ Running(w, "claim")
  /\ LET p == This(w).peer
         mine == [peer |-> p, session |-> This(w).session]
     IN IF active \in {None, mine}
        THEN active' = mine /\ Step(w) /\ UNCHANGED ps
        ELSE /\ ResetAndRelease(w, p, "WaitMeta", FALSE, <<Op("ask", p, NoSession)>>)
             /\ UNCHANGED active
  /\ Noted(w)
  /\ UNCHANGED <<server, sessions, online, installed, events>>

\* handleSnapshotEnd after the lock: the sink it holds is read to the end, which
\* fails once somebody has closed it, and the chain gets what was read.
ApplySnapshot(w) ==
  /\ Running(w, "apply")
  /\ LET p == This(w).peer
         s == This(w).session
         open == ps[p].sink.of = s
     IN /\ installed' = IF open THEN installed \union {ps[p].sink.data} ELSE installed
        /\ Then(w, <<Op("finish", p, IF open THEN 1 ELSE 0)>>)
  /\ Noted(w)
  /\ UNCHANGED <<ps, active, server, sessions, online, events>>

\* Mutant: the session is not released once the snapshot was applied.
FinishSnapshot_Kept(w) ==
  /\ Running(w, "finish")
  /\ Locked(w, This(w).peer, Fresh("Idle", FALSE), <<>>)
  /\ Noted(w)
  /\ UNCHANGED <<active, server, sessions, online, installed, events>>

\* resetAndRelease at the end of handleSnapshotEnd: of whatever the peer is at now
FinishSnapshot(w) ==
  /\ Running(w, "finish")
  /\ ResetAndRelease(w, This(w).peer, IF This(w).session = 1 THEN "Idle" ELSE "WaitMeta",
                     FALSE, <<>>)
  /\ Noted(w)
  /\ UNCHANGED <<active, server, sessions, online, installed, events>>

\* The request for a snapshot leaves.  sendSnapshot drops it when a stream is
\* under way, when one was served a short while ago (SNAPSHOT_RESEND_COOLDOWN)
\* and when the node may not be served at all.
Ask(w) ==
  /\ Running(w, "ask")
  /\ \/ /\ This(w).peer \in online
        /\ server' = [server EXCEPT ![This(w).peer].asked = TRUE]
     \/ UNCHANGED server
  /\ Step(w) /\ Noted(w)
  /\ UNCHANGED <<ps, active, sessions, online, installed, events>>
-----------------------------------------------------------------------------
(* Requests of the node's own, and tail blocks                             *)

\* requestSnapshotSync, called where the node finds itself far behind p
RequestSync(w, p) ==
  /\ p \in online /\ task[w] = Idle
  /\ active.peer \in {None.peer, p}
  /\ Event
  /\ task' = [task EXCEPT ![w] = [frame |-> NoFrame, todo |-> <<Op("request", p, NoSession)>>]]
  /\ UNCHANGED <<ps, active, server, sessions, online, installed, shuffled>>

PrepareRequest(w) ==
  /\ Running(w, "request")
  /\ LET p == This(w).peer
     IN IF ps[p].state \in {"WaitChunks", "Verifying", "Applying"}
        THEN Locked(w, p, ps[p], <<Op("match", p, ps[p].session)>>)
        ELSE ResetAndRelease(w, p, "WaitMeta", FALSE, <<Op("ask", p, NoSession)>>)
  /\ UNCHANGED <<active, server, sessions, online, installed, events, shuffled>>

\* A reception under way that owns the session is left alone.
AskIfUnclaimed(w) ==
  /\ Running(w, "match")
  /\ LET p == This(w).peer
         owned == active = [peer |-> p, session |-> This(w).session]
     IN IF owned \/ active.peer \notin {None.peer, p}
        THEN Step(w)
        ELSE Then(w, <<Op("ask", p, NoSession)>>)
  /\ UNCHANGED <<ps, active, server, sessions, online, installed, events, shuffled>>

\* handleTailBlocks: tail blocks of p were added to the chain, so whatever
\* snapshot p was sending is dropped.
TailBlocks(w, p) ==
  /\ p \in online /\ task[w] = Idle
  /\ Event
  /\ ps' = [ps EXCEPT ![p] = Fresh("Idle", FALSE)]
  /\ task' = [task EXCEPT ![w] = [frame |-> NoFrame, todo |-> <<Release(p, ps[p].session)>>]]
  /\ UNCHANGED <<active, server, sessions, online, installed, shuffled>>
-----------------------------------------------------------------------------
(* The peers, and the connections to them                                  *)

\* sendSnapshot for a request that is not dropped, after the stream under way
Serve(p) ==
  /\ server[p].asked /\ server[p].session = NoSession
  /\ sessions < MaxSessions
  /\ sessions' = sessions + 1
  /\ server' = [server EXCEPT ![p] =
                  [asked |-> FALSE, session |-> sessions + 1, next |-> MetaFrame]]
  /\ UNCHANGED <<ps, active, task, online, installed, events, shuffled>>

\* markPeerOffline; the frames of p that are left find no state any more.
Disconnect(p) ==
  /\ p \in online /\ Event
  /\ online' = online \ {p}
  /\ server' = [server EXCEPT ![p] = [asked |-> FALSE, session |-> NoSession, next |-> MetaFrame]]
  /\ active' = IF active.peer = p THEN None ELSE active
  /\ UNCHANGED <<ps, task, sessions, installed, shuffled>>
-----------------------------------------------------------------------------
Section(w) ==
  \/ Handle(w) \/ ReleaseSession(w) \/ BeginSession(w)
  \/ ApplySnapshot(w) \/ FinishSnapshot(w) \/ Ask(w)
  \/ PrepareRequest(w) \/ AskIfUnclaimed(w)

Next ==
  \/ \E w \in Workers : Section(w)
  \/ \E w \in Workers, p \in Peers : Pop(w, p) \/ RequestSync(w, p) \/ TailBlocks(w, p)
  \/ \E p \in Peers : Serve(p) \/ Disconnect(p)

Spec == Init /\ [][Next]_vars

\* A worker goes on with what it began and takes the next frame there is.  Nothing
\* makes a peer serve, or the node ask again.
FairSpec ==
  /\ Spec
  /\ \A w \in Workers : WF_vars(Section(w) \/ \E p \in Peers : Pop(w, p))
-----------------------------------------------------------------------------
(* What follows states properties; none of it is code.                     *)

States == {"Idle", "WaitMeta", "WaitChunks", "Verifying", "Applying"}
Pieces == Sessions \X (0..(Chunks - 1))

\* Every variable keeps its type; a stream that is being verified is complete,
\* and the temporary file belongs to the session received.
TypeOK ==
  /\ \A p \in Peers :
       /\ ps[p].state \in States
       /\ ps[p].session \in Sessions \union {NoSession}
       /\ ps[p].received \in 0..Chunks
       /\ ps[p].pending \subseteq Pieces /\ Cardinality(ps[p].pending) <= MaxPending
       /\ ps[p].deferred \subseteq Pieces /\ Cardinality(ps[p].deferred) <= MaxDeferred
       /\ ps[p].sink.data \subseteq Pieces
       /\ ps[p].sink.of \in {NoSession, ps[p].session}
       /\ ps[p].state \in {"Verifying", "Applying"} =>
            ps[p].meta /\ ps[p].received = ps[p].expect
  /\ active = None \/ (active.peer \in Peers /\ active.session \in Sessions)
  /\ sessions \in 0..MaxSessions
  /\ online \subseteq Peers
  /\ shuffled \subseteq Sessions

\* What is kept of a session: in the temporary file, or waiting for the metadata
Kept(s) == UNION {IF ps[p].session # s THEN {}
                  ELSE IF ps[p].sink = NoSink THEN ps[p].pending ELSE ps[p].sink.data : p \in Peers}

Transfer == INSTANCE SnapshotTransfer WITH
              Sessions <- Sessions, Chunks <- Chunks,
              got <- [s \in Sessions |-> Kept(s)],
              installed <- installed

\* Out of order, repeated and mixed frames never reach the chain as a snapshot
\* put together of two streams or with a gap.
ImplementsTransfer == Transfer!Spec

\* A session whose frames were handled in the order they came in ends, one way
\* or the other.
InOrderSessionEnds ==
  \A s \in Sessions :
    (active.session = s) ~>
      (active.session # s \/ s \in shuffled \/ active.peer \notin online)

\* The first stream, if its frames are handled in order and nothing else happens
\* to it, is handed to the chain whole: the checks that throw streams away do not
\* throw away a good one.
FirstSnapshotInstalled ==
  (sessions > 0) ~>
    (installed # {} \/ shuffled # {} \/ events > 0)

\* Nothing is under way: no frame, no handler, no stream and no request.
Quiet ==
  /\ \A w \in Workers : task[w] = Idle
  /\ \A p \in online : ~server[p].asked /\ server[p].session = NoSession

\* requestSnapshotSync sends a request to p.
Asks(p) ==
  /\ active.peer \in {None.peer, p}
  /\ ps[p].state \in {"WaitChunks", "Verifying", "Applying"} =>
       active # [peer |-> p, session |-> ps[p].session]

\* A node where nothing is under way can ask some connected peer for a snapshot.
CanAskAgain ==
  Quiet /\ online # {} => \E p \in online : Asks(p)
=============================================================================
