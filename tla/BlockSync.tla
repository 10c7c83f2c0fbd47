------------------------------ MODULE BlockSync ------------------------------
(***************************************************************************)
(* How a node that is behind catches up (network.cpp): the tail request    *)
(* sent when a connection is made, header synchronisation with its queue   *)
(* of block hashes, the bridge of headers started by a block without a     *)
(* parent, and the blocks peers relay.  The peers run the same program and *)
(* are honest: all blocks are on one chain, so a block, its hash and its   *)
(* height are one number and a chain is the number of its last block.      *)
(* Competing branches are the subject of ForkChoice, snapshots of          *)
(* Snapshot.  An honest peer can still be punished, for a block that comes *)
(* before its parent, and be banned for it, or bring the node to a stop.   *)
(* Frames wait in rx and are handled by Workers threads, each of which     *)
(* takes the oldest frame: one of the first Workers frames is handled next *)
(* (FrameQueue models the queue itself).                                   *)
(***************************************************************************)
EXTENDS Integers, Sequences, FiniteSets, FiniteSetsExt, SequencesExt

CONSTANTS
  Peers,          \* connected peers
  Start,          \* Start[p]: the height p announced in its handshake
  Growing,        \* bound: the peers whose chain grows
  MaxHeight,      \* bound: the height at which it stops growing
  Workers,        \* frame threads, determineWorkerCount
  MaxPerRequest,  \* hashes in a GetData, kMaxPerRequest
  HeaderBatch,    \* headers in a frame, kMaxHeadersPerBatch
  TailFrame,      \* blocks in a tail frame, what MAX_TAIL_PAYLOAD holds
  LagTolerance,   \* MEDIAN_LAG_TOLERANCE
  BanScore,       \* refused blocks that reach BAN_THRESHOLD: two in the code
  MaxOut,         \* bound: requests waiting at a peer when a timer may add one
  MaxRx           \* bound: frames waiting when a peer may add one

ASSUME BlockSyncAssumption ==
  /\ IsFiniteSet(Peers) /\ Peers # {}
  /\ Growing \subseteq Peers
  /\ MaxHeight \in Nat
  /\ Start \in [Peers -> 0..MaxHeight]
  /\ \A n \in {Workers, MaxPerRequest, HeaderBatch, TailFrame, BanScore, MaxOut, MaxRx} :
       n \in Nat \ {0}
  /\ LagTolerance \in Nat

VARIABLES
  node,    \* the node: its chain, its PeerManager and its PeerSyncProgress
  peer,    \* peer[p]: p's chain and what p remembers about the node
  out,     \* out[p]: requests sent to p and not handled by it yet
  rx,      \* frames received and not handled yet, oldest first
  halted   \* header batches between the two halves of handleHeaderResponse

vars == <<node, peer, out, rx, halted>>

None == -1
Heights == 0..MaxHeight

GetHeaders(h) == [kind |-> "getHeaders", from |-> h]
GetData(hs) == [kind |-> "getData", hashes |-> hs]
TailReq(h) == [kind |-> "tailReq", from |-> h]

HeightOf(p, h) == [peer |-> p, kind |-> "height", lo |-> h, hi |-> h]
BlockOf(p, b) == [peer |-> p, kind |-> "block", lo |-> b, hi |-> b]
Frame(p, kind, lo, hi) == [peer |-> p, kind |-> kind, lo |-> lo, hi |-> hi]

\* Blocks lo..hi in frames of at most n, in order.
Frames(p, kind, lo, hi, n) ==
  [i \in 1..((hi - lo) \div n + 1) |->
     Frame(p, kind, lo + (i - 1) * n, Min({hi, lo + i * n - 1}))]

\* PeerSyncProgress when nothing is going on with the peer.
Idle == [mode |-> "idle", queue |-> << >>, wanted |-> {}, timed |-> FALSE]

\* A step works on the node's state and its outgoing requests together.  Nothing is
\* sent to a peer that has no entry in peerTransports.
Send(n, p, request) ==
  IF p \in n.banned THEN n ELSE [n EXCEPT !.out[p] = Append(@, request)]

\* The state after the handshakes.  Known heights come from them.  A peer that is
\* ahead is sent a tail request; header synchronisation is started before that on a
\* connection the peer opened, after it (and refused) on one the node opened.  A peer
\* may send the tail on its own too, before it reads any request.
FirstRequests(p, inbound, eager) ==
  (IF p \in eager THEN <<TailReq(0)>> ELSE << >>)
    \o (IF p \in inbound \/ Start[p] = 0 THEN <<GetHeaders(0)>> ELSE << >>)
    \o (IF Start[p] > 0 THEN <<TailReq(0)>> ELSE << >>)

Init ==
  /\ \E inbound \in SUBSET Peers, eager \in SUBSET {p \in Peers : Start[p] > 0} :
       /\ out = [p \in Peers |-> FirstRequests(p, inbound, eager)]
       /\ node = [height |-> 0, orphans |-> {}, asked |-> {}, known |-> Start,
                  anchor |-> [p \in Peers |-> IF Start[p] > 0 THEN 0 ELSE None],
                  sync   |-> [p \in Peers |->
                    [Idle EXCEPT !.mode = IF Start[p] > 0 THEN "blocks" ELSE "headers",
                                 !.timed = p \in inbound \/ Start[p] = 0]],
                  bridge |-> [p \in Peers |-> {}],
                  recent |-> [p \in Peers |-> {}],
                  score  |-> [p \in Peers |-> 0],
                  banned |-> {},
                  hung   |-> FALSE,
                  lost   |-> FALSE]
  /\ \E relayed \in SUBSET Peers :
       peer = [p \in Peers |->
                 [tip |-> Start[p], tailSent |-> 0, announced |-> None,
                  served |-> IF p \in relayed THEN 1..Start[p] ELSE {}]]
  /\ rx = << >>
  /\ halted = << >>

(***************************************************************************)
(* PeerSyncProgress.  lost is a history flag that no step reads: the code  *)
(* has let go of something the node still needs (see StallsHaveCause).     *)
(***************************************************************************)
\* Mutant: only the mode is reset and the queued hashes stay.
Reset_Kept(n, p) == [n EXCEPT !.sync[p].mode = "idle"]

Reset(n, p) ==
  [n EXCEPT !.sync[p] = [Idle EXCEPT !.timed = n.sync[p].timed],
            !.lost = @ \/ n.sync[p].queue # << >>]

MarkAllPeersIdle(n) ==
  FoldSet(LAMBDA p, m : Reset(m, p), n,
          {p \in Peers : n.sync[p].mode # "idle"})

NoteHeaderFailure(n, p) ==
  LET m == Reset(n, p) IN [m EXCEPT !.sync[p].timed = FALSE]

StartHeaderSync(n, p) ==
  LET s == n.sync[p] IN
  IF s.mode \in {"headers", "blocks"} \/ s.queue # << >> \/ s.wanted # {}
    THEN n
    ELSE Send([n EXCEPT !.sync[p] = [Idle EXCEPT !.mode = "headers",
                                                 !.timed = TRUE]],
              p, GetHeaders(n.height))

\* Takes hashes off the queue until one request is full.
RequestQueuedBlocks(n, p) ==
  LET s == n.sync[p]
      Fetched(k) ==
        {s.queue[i] : i \in 1..k} \ (s.wanted \cup 1..n.height)
      taken == Min({Len(s.queue)} \cup
                   {k \in 1..Len(s.queue) :
                      Cardinality(Fetched(k)) = MaxPerRequest})
      fetch == Fetched(taken)
      rest == SubSeq(s.queue, taken + 1, Len(s.queue))
      wanted == (s.wanted \ {s.queue[i] : i \in {j \in 1..taken :
                                             s.queue[j] <= n.height}})
                  \cup (IF p \in n.banned THEN {} ELSE fetch)
      m == [n EXCEPT
              !.sync[p].queue = rest,
              !.sync[p].wanted = wanted,
              !.sync[p].mode = IF rest = << >> /\ wanted = {} THEN "idle"
                               ELSE IF fetch # {} THEN "blocks"
                               ELSE @,
              !.lost = @ \/ rest # << >>]
  IN IF fetch = {} THEN m ELSE Send(m, p, GetData(fetch))

OnBlockAccepted(n, b) ==
  LET owners == {p \in Peers : b \in n.sync[p].wanted}
      Drop(s) == LET w == s.wanted \ {b} IN
                 [s EXCEPT !.wanted = w,
                           !.mode = IF s.queue = << >> /\ w = {} THEN "idle" ELSE @]
      m == [n EXCEPT !.sync = [p \in Peers |-> IF p \in owners THEN Drop(@[p])
                                               ELSE @[p]]]
  IN FoldSet(LAMBDA p, k : RequestQueuedBlocks(k, p), m, owners)

(***************************************************************************)
(* Blockchain::addBlock on one chain: the next block is appended with the  *)
(* orphans that follow it; a later one waits as an orphan and its parent   *)
(* is asked from every peer, once.                                         *)
(***************************************************************************)
AddBlock(n, b) ==
  LET joined == n.orphans \cup {b}
      top == CHOOSE h \in b..(b + Cardinality(n.orphans)) :
               b..h \subseteq joined /\ h + 1 \notin joined
      queued == [n EXCEPT !.orphans = joined, !.asked = @ \cup {b - 1}]
  IN CASE b <= n.height -> n
       [] b = n.height + 1 ->
            [n EXCEPT !.height = top, !.orphans = @ \ (1..top), !.asked = @ \ (1..top)]
       [] OTHER ->
            IF b - 1 \in n.asked THEN queued
            ELSE FoldSet(LAMBDA p, m : Send(m, p, GetData({b - 1})), queued, Peers)

(***************************************************************************)
(* The timers.  Known heights decide; the median is getMedianNetworkHeight *)
(***************************************************************************)
Median(n) ==
  CHOOSE h \in {n.known[p] : p \in Peers} :
    LET below == Cardinality({p \in Peers : n.known[p] < h})
        upto  == Cardinality({p \in Peers : n.known[p] <= h})
        mid   == Cardinality(Peers) \div 2
    IN below <= mid /\ mid < upto

Best(n) == Max({n.known[p] : p \in Peers})

\* The peers whose header request may have timed out.
Timed(n) == {p \in Peers : n.sync[p].mode = "headers" /\ n.sync[p].timed}

AutoSyncIfBehind(n, late) ==
  LET failed == FoldSet(LAMBDA p, m : NoteHeaderFailure(m, p), n, late)
      ahead == {p \in Peers \ n.banned : n.known[p] > n.height}
  IN IF Best(n) > 0 /\ n.height >= Best(n) THEN MarkAllPeersIdle(n)
     ELSE IF Median(n) > 0 /\ n.height + LagTolerance < Median(n)
       THEN FoldSet(LAMBDA p, m : StartHeaderSync(m, p), failed, ahead)
       ELSE failed

\* Mutant: the tail is asked for from the next block, not from the tip.
RequestTailBlocks_FromNext(n, p) ==
  Send([n EXCEPT !.sync[p].mode = "blocks", !.anchor[p] = n.height + 1],
       p, TailReq(n.height + 1))

RequestTailBlocks(n, p) ==
  IF p \in n.banned THEN n ELSE
  Send([n EXCEPT !.sync[p].mode = "blocks", !.anchor[p] = n.height],
       p, TailReq(n.height))

(***************************************************************************)
(* The handlers of frames.                                                 *)
(***************************************************************************)
HandleHeight(n, p, h) ==
  LET m == [n EXCEPT !.known[p] = h] IN
  IF h > n.height THEN StartHeaderSync(m, p) ELSE m

\* With so short a chain the windows of the bridge are the tip and genesis.
BeginHeaderBridge(n, p) ==
  LET anchors == {n.height, 0}
      m == [n EXCEPT !.bridge[p] = anchors]
      first == Send(m, p, GetHeaders(n.height))
  IN IF n.bridge[p] # {} \/ p \in n.banned THEN n
     ELSE IF n.height = 0 THEN first
     ELSE Send(first, p, GetHeaders(0))

(***************************************************************************)
(* Punishment.  score[p] counts the refused blocks of p, each a hundred    *)
(* points of misScore.  At the threshold p may be banned, and need not be: *)
(* it may be an anchor, its grace period (which pings renew) may run, and  *)
(* points decay.  A banned peer loses its entry in peerTransports and with *)
(* it its PeerState; its connection stays open and its frames still come.  *)
(***************************************************************************)
Banishable(n, p) == n.score[p] = BanScore

BlacklistPeer(n, p) ==
  [n EXCEPT !.banned = @ \cup {p}, !.lost = TRUE,
            !.score[p] = 0, !.recent[p] = {}, !.bridge[p] = {}, !.anchor[p] = None]

Punish(n, p, ban) ==
  LET m == [n EXCEPT !.score[p] = Min({BanScore, @ + 1})] IN
  IF p \in n.banned THEN n
  ELSE IF ban /\ Banishable(m, p) THEN BlacklistPeer(m, p) ELSE m

\* The next block is added.  A block whose parent is missing is refused by
\* tryAddBlock, after the bridge was started, and its sender is punished.
HandleNewBlock(n, p, b, late, ban) ==
  LET m == IF p \in n.banned THEN n ELSE [n EXCEPT !.recent[p] = @ \cup {b}] IN
  IF b <= n.height \/ b \in n.recent[p] THEN n
  ELSE IF b = n.height + 1
    THEN AutoSyncIfBehind([AddBlock(m, b) EXCEPT !.known[p] = b], late)
    ELSE Punish(BeginHeaderBridge(m, p), p, ban)

HandleTailBlocks(n, p, lo, hi) ==
  LET AddNext(m, b) == IF b = m.height + 1 THEN OnBlockAccepted(AddBlock(m, b), b)
                       ELSE AddBlock(m, b)
      added == FoldLeft(AddNext, [n EXCEPT !.sync[p].mode = "blocks"],
                        [i \in 1..(hi - lo + 1) |-> lo + i - 1])
      done == Reset(added, p)
  IN IF n.anchor[p] \notin {None, n.height}
       THEN RequestTailBlocks(n, p)
       ELSE [done EXCEPT !.bridge[p] = {}, !.known[p] = added.height]

\* handleHeaderResponse, the section under syncStateMutex.
QueueHeaders(n, p, lo, hi) ==
  LET new == SelectSeq([i \in 1..(hi - lo + 1) |-> lo + i - 1],
                       LAMBDA b : b > n.height)
      s == [n.sync[p] EXCEPT !.queue = @ \o new, !.timed = FALSE]
      mode == IF new # << >> THEN "blocks"
              ELSE IF s.queue = << >> /\ s.wanted = {} THEN "idle" ELSE s.mode
  IN [n EXCEPT !.sync[p] = [s EXCEPT !.mode = mode]]

\* Mutant: the hashes of the batch are queued but not asked for.
FinishHeaderResponse_NoRequest(n, h) ==
  IF h.full THEN Send(n, h.peer, GetHeaders(h.hi))
  ELSE IF h.new THEN n ELSE Reset(n, h.peer)

\* handleHeaderResponse, what follows: h is the batch that was queued.
FinishHeaderResponse(n, h) ==
  LET p == h.peer
      m == CASE h.new -> RequestQueuedBlocks([n EXCEPT !.sync[p].mode = "blocks"], p)
             [] ~h.new /\ h.full -> [n EXCEPT !.sync[p].mode = "headers"]
             [] OTHER -> Reset(n, p)
  IN IF h.full THEN Send(m, p, GetHeaders(h.hi)) ELSE m

(***************************************************************************)
(* The steps.                                                              *)
(***************************************************************************)
\* The node's state with its outgoing requests, and back.
Whole == [out |-> out] @@ node
Becomes(n) == /\ node' = [f \in DOMAIN node |-> n[f]]
              /\ out' = n.out

CanHandle == ~node.hung /\ rx # << >> /\ Len(halted) < Workers

Handle(i) ==
  /\ CanHandle
  /\ i \in 1..Min({Len(rx), Workers - Len(halted)})
  /\ rx' = RemoveAt(rx, i)
  /\ LET f == rx[i] IN
     \/ /\ f.kind = "height"
        /\ Becomes(HandleHeight(Whole, f.peer, f.lo))
        /\ UNCHANGED halted
     \/ /\ f.kind = "block"
        /\ \E late \in SUBSET Timed(node), ban \in BOOLEAN :
             Becomes(HandleNewBlock(Whole, f.peer, f.lo, late, ban))
        /\ UNCHANGED halted
     \/ /\ f.kind = "tail"
        /\ Becomes(HandleTailBlocks(Whole, f.peer, f.lo, f.hi))
        /\ UNCHANGED halted
     \/ /\ f.kind = "headers"
        /\ Becomes(QueueHeaders(Whole, f.peer, f.lo, f.hi))
        /\ halted' = Append(halted, [peer |-> f.peer, hi |-> f.hi,
                                     new |-> f.hi > node.height,
                                     full |-> f.hi - f.lo + 1 = HeaderBatch])
  /\ UNCHANGED peer

CanFinish == ~node.hung /\ halted # << >>

FinishHeaders(i) ==
  /\ CanFinish
  /\ halted' = RemoveAt(halted, i)
  /\ Becomes(FinishHeaderResponse(Whole, halted[i]))
  /\ UNCHANGED <<peer, rx>>

\* A timer adds a request only while the bound allows it.
Room == ~node.hung /\ \A p \in Peers : Len(out[p]) < MaxOut

\* The loop of the auto-miner, which has a transaction to mine and finds the node
\* behind a known height; a call that changes nothing is not a step.
CanAutoSync ==
  /\ Room
  /\ node.height < Best(node)
  /\ \E late \in SUBSET Timed(node) : AutoSyncIfBehind(Whole, late) # Whole

AutoSync ==
  /\ UNCHANGED <<peer, rx, halted>>
  /\ CanAutoSync
  /\ \E late \in SUBSET Timed(node) : Becomes(AutoSyncIfBehind(Whole, late))

\* At start, after a connection, and when the operator asks.
IntelligentSync ==
  /\ Room
  /\ LET network == IF Median(node) > 0 THEN Median(node) ELSE Best(node) IN
     IF network <= node.height THEN Becomes(MarkAllPeersIdle(Whole))
     ELSE LET ahead == {q \in Peers \ node.banned : node.known[q] > node.height} IN
          \/ \E p \in ahead : Becomes(RequestTailBlocks(Whole, p))
          \/ ahead = {} /\ Becomes(MarkAllPeersIdle(Whole))
  /\ UNCHANGED <<peer, rx, halted>>

\* Every 30 seconds a peer whose score is still high may be banned.
BanTimer(p) ==
  /\ ~node.hung /\ Banishable(node, p)
  /\ node' = BlacklistPeer(node, p)
  /\ UNCHANGED <<peer, out, rx, halted>>

(***************************************************************************)
(* The peers: the same program, answering.                                 *)
(***************************************************************************)
\* sendTailBlocks: the newest block first, then what lies before it; nothing
\* at or below the height sent before is sent again.
TailReply(p, from) ==
  LET tip == peer[p].tip
      first == Max({from, peer[p].tailSent}) + 1
  IN CASE from >= tip \/ first > tip -> [frames |-> << >>, tailSent |-> peer[p].tailSent]
       [] first = tip -> [frames |-> <<Frame(p, "tail", tip, tip)>>, tailSent |-> tip]
       [] OTHER -> [frames |-> <<Frame(p, "tail", tip, tip)>>
                               \o Frames(p, "tail", first, tip - 1, TailFrame),
                    tailSent |-> tip - 1]

\* handleGetData and sendBlockToPeer: a block once sent to anybody is never
\* sent again.
Granted(p, hashes) == {h \in hashes : h <= peer[p].tip} \ peer[p].served

Coming(h) == \E i \in DOMAIN rx : rx[i].kind = "block" /\ rx[i].lo = h

\* The node's read loop queues the frames of p, unless the score of p has reached the
\* threshold: then it calls blacklistPeer while it holds peersMutex, which
\* blacklistPeer locks too, and no thread of the node gets past the mutex again.
\* missing: p does not send what the node asked for and needs.
Receive(p, frames, missing) ==
  /\ ~node.hung
  /\ Len(rx) < MaxRx
  /\ \/ /\ rx' = rx \o frames
        /\ node' = [node EXCEPT !.lost = @ \/ missing]
     \/ /\ frames # << >> /\ Banishable(node, p)
        /\ node' = [node EXCEPT !.hung = TRUE, !.lost = TRUE]
        /\ UNCHANGED rx

Serve(p) ==
  /\ out[p] # << >>
  /\ out' = [out EXCEPT ![p] = Tail(@)]
  /\ LET r == Head(out[p]) IN
     \/ /\ r.kind = "getHeaders"
        /\ Receive(p, IF r.from >= peer[p].tip THEN << >>
                      ELSE Frames(p, "headers", r.from + 1, peer[p].tip, HeaderBatch),
                   FALSE)
        /\ UNCHANGED peer
     \/ /\ r.kind = "getData"
        /\ Receive(p, [i \in 1..Cardinality(Granted(p, r.hashes)) |->
                         BlockOf(p, SetToSortSeq(Granted(p, r.hashes), <)[i])],
                   \E h \in r.hashes \cap peer[p].served :
                     h > node.height /\ ~Coming(h))
        /\ peer' = [peer EXCEPT ![p].served = @ \cup Granted(p, r.hashes)]
     \/ /\ r.kind = "tailReq"
        /\ Receive(p, TailReply(p, r.from).frames,
                   TailReply(p, r.from).frames = << >> /\ r.from < peer[p].tip)
        /\ peer' = [peer EXCEPT ![p].tailSent = TailReply(p, r.from).tailSent]
  /\ UNCHANGED halted

\* p mines the next block, or hears of it, and relays it.
Grow(p) ==
  /\ p \in Growing /\ peer[p].tip < MaxHeight
  /\ LET b == peer[p].tip + 1 IN
     /\ peer' = [peer EXCEPT ![p].tip = b, ![p].served = @ \cup {b}]
     /\ Receive(p, IF b \in peer[p].served THEN << >> ELSE <<BlockOf(p, b)>>, FALSE)
  /\ UNCHANGED <<out, halted>>

\* The answer to a height request; sendHeight does not repeat a height.
Announce(p) ==
  /\ peer[p].announced # peer[p].tip
  /\ peer' = [peer EXCEPT ![p].announced = peer[p].tip]
  /\ Receive(p, <<HeightOf(p, peer[p].tip)>>, FALSE)
  /\ UNCHANGED <<out, halted>>

Next ==
  \/ \E i \in 1..Workers : Handle(i)
  \/ \E i \in DOMAIN halted : FinishHeaders(i)
  \/ AutoSync
  \/ IntelligentSync
  \/ \E p \in Peers : BanTimer(p) \/ Serve(p) \/ Grow(p) \/ Announce(p)

Spec == Init /\ [][Next]_vars

(***************************************************************************)
(* Fairness.  The oldest frame and the oldest half-handled batch are       *)
(* finished in the end: weak fairness of the two, written with their       *)
(* guards, which is all their being enabled depends on.  Peers answer      *)
(* requests, and the height requests sent every 15 seconds.  No timer is   *)
(* supposed to call autoSyncIfBehind again: see AutoMining.                *)
(***************************************************************************)
Fairness ==
  /\ []<>~CanHandle \/ []<><<Handle(1)>>_vars
  /\ []<>~CanFinish \/ []<><<CanFinish /\ FinishHeaders(1)>>_vars
  /\ \A p \in Peers : WF_vars(Serve(p)) /\ WF_vars(Announce(p))

FairSpec == Spec /\ Fairness
(***************************************************************************)
(* Properties                                                              *)
(***************************************************************************)
SyncState == [mode : {"idle", "headers", "blocks"}, queue : Seq(Heights),
              wanted : SUBSET Heights, timed : BOOLEAN]

\* TypeOK: the node never believes in a height no peer has, and what it holds,
\* waits for and has asked lies on the peers' chain.
TypeOK ==
  LET top == Max({peer[p].tip : p \in Peers}) IN
  /\ node.height \in 0..top
  /\ node.orphans \subseteq (node.height + 2)..top
  /\ node.asked \subseteq Heights
  /\ node.known \in [Peers -> 0..top]
  /\ node.anchor \in [Peers -> 0..node.height \cup {None}]
  /\ node.sync \in [Peers -> SyncState]
  /\ node.bridge \in [Peers -> SUBSET Heights]
  /\ node.recent \in [Peers -> SUBSET Heights]
  /\ node.score \in [Peers -> 0..BanScore]
  /\ node.banned \subseteq {p \in Peers : node.score[p] = 0}
  /\ {node.lost, node.hung} \subseteq BOOLEAN
  /\ Len(halted) <= Workers

\* IdleHasNoWork: a peer that is idle has no block queued or requested, whatever
\* handlers and timers ran between the two halves of a header response; otherwise
\* startHeaderSync would refuse that peer for ever.
IdleHasNoWork ==
  \A p \in Peers : node.sync[p].mode = "idle" =>
    node.sync[p].queue = << >> /\ node.sync[p].wanted = {}

CaughtUp == \A p \in Peers : node.height >= peer[p].tip

\* AutoMining: the auto-miner is on and a transaction waits to be mined all the time.
\* Only then does its loop call autoSyncIfBehind every five seconds.  A node that does
\* not mine calls it at start, on a connection and for a new block, and never again.
AutoMining == []<>~CanAutoSync \/ []<><<AutoSync>>_vars

\* CatchesUp: a node that auto-mines reaches the height of its peers ("Peers compare
\* heights and request any missing tail blocks", README.md:219-221, says it of every
\* node).
CatchesUp == AutoMining => []<>CaughtUp

\* StallsHaveCause: a node that auto-mines reaches the height of its peers unless the
\* code let go of something: hashes left in or thrown out of a queue, a block its
\* owner had sent before and will not send again, a tail of which the peer sends
\* nothing because it sent that height before, a peer that was banned, or the table of
\* peers itself, whose mutex is never released.  A frame that came too late, a block
\* refused because its parent was missing, a penalty that leads to no ban and a peer
\* taken for timed out are no cause: auto-mining and header synchronisation make up
\* for them.
StallsHaveCause == [](~node.lost) => CatchesUp
=============================================================================
