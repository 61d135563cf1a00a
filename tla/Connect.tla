------------------------------ MODULE Connect ------------------------------
(***************************************************************************)
(* crates/liasse-connect core: the connector over one SurfaceHost, and the *)
(* replica its client keeps (liasse-connect-wasm replica.rs).              *)
(*                                                                         *)
(* Every inbound frame is one action: the host's action of module Surface, *)
(* conjoined with what the connector does about it -- the retained         *)
(* snapshots it diffs against and the frames it enqueues.  The stream to a *)
(* client delivers drained frames in order and may be cut with frames in   *)
(* flight; the client then resumes from the last event id it received.     *)
(***************************************************************************)
EXTENDS Surface, FiniteSets

CONSTANTS Capacity,         \* frames a ring holds: with_capacity, at least one
          ScalarSub,        \* the subscriptions over a scalar view
          Viewer,           \* the connections that open views and stream
          CleanResumeOnly,  \* replay only where no unread frame shares the id
          Closed,           \* a replica's closed subscription
          MaxFrames, MaxCuts  \* bounds on behaviours

ASSUME CapacityIsPositive == Capacity \in Nat \ {0}

ASSUME StreamParameters == /\ IsFiniteSet(Sub) /\ ScalarSub \subseteq Sub /\ Viewer \subseteq Conn
                           /\ CleanResumeOnly \in BOOLEAN
                           /\ Closed # None /\ None \notin Nat

VARIABLES subs,     \* ConnState::subs
          outbound, \* ConnState::outbound
          client,   \* the peer: its stream and its ClientReplica
          cuts      \* streams cut so far

connectVars == <<surfaceVars, subs, outbound, client, cuts>>

----------------------------------------------------------------------------
(* core/registry.rs: the bounded ring of frames emitted on one connection.  *)
(* Frames are opaque here; `cursor` is the live writer's position, and     *)
(* frames at or after it are still undelivered.                            *)

(* Outbound::new *)
EmptyOutbound == [ring |-> <<>>, next_pos |-> 0, cursor |-> 0,
                  evicted_through |-> 0, overflow |-> FALSE]

Higher(a, b) == IF a > b THEN a ELSE b

(* A mutant: eviction that never trips the backpressure latch *)
EnqueueSilently(out, seq, frame) ==
  LET pushed == Append(out.ring, [seq |-> seq, frame |-> frame, pos |-> out.next_pos])
      full == Len(pushed) > Capacity
      oldest == pushed[1] IN
  [ring |-> IF full THEN Tail(pushed) ELSE pushed,
   next_pos |-> out.next_pos + 1,
   cursor |-> out.cursor,
   evicted_through |-> IF full THEN Higher(out.evicted_through, oldest.seq)
                       ELSE out.evicted_through,
   overflow |-> out.overflow]

(* Outbound::enqueue: push, then evict the oldest frame past the capacity; *)
(* losing an undelivered one trips the latch                               *)
Enqueue(out, seq, frame) ==
  LET pushed == Append(out.ring, [seq |-> seq, frame |-> frame, pos |-> out.next_pos])
      full == Len(pushed) > Capacity
      oldest == pushed[1] IN
  [ring |-> IF full THEN Tail(pushed) ELSE pushed,
   next_pos |-> out.next_pos + 1,
   cursor |-> out.cursor,
   evicted_through |-> IF full THEN Higher(out.evicted_through, oldest.seq)
                       ELSE out.evicted_through,
   overflow |-> out.overflow \/ (full /\ oldest.pos >= out.cursor)]

(* Frames enqueued in order at one frontier *)
EnqueueNext(out, frame, seq) == Enqueue(out, seq, frame)

Enqueued == INSTANCE SeqFold WITH Step <- EnqueueNext

EnqueueAll(out, seq, frames) == Enqueued!Fold(out, frames, seq)

(* Outbound::mark_delivered, and the cursor move of every drain *)
MarkDelivered(out) == [out EXCEPT !.cursor = out.next_pos]

(* ring.iter().filter(..): the entries wanted, in order *)
Entries(out) == {out.ring[i] : i \in DOMAIN out.ring}

PickNext(picked, e, wanted) == IF e \in wanted THEN Append(picked, e) ELSE picked

Picked == INSTANCE SeqFold WITH Step <- PickNext

(* What drain_pending hands to the writer *)
Pending(out) == Picked!Fold(<<>>, out.ring, {e \in Entries(out) : e.pos >= out.cursor})

(* Outbound::replayable *)
Replayable(out, seq) == seq >= out.evicted_through

(* What replay_after hands to the writer *)
ReplayAfter(out, seq) == Picked!Fold(<<>>, out.ring, {e \in Entries(out) : e.seq > seq})

(* Outbound::take_overflow *)
ClearOverflow(out) == [out EXCEPT !.overflow = FALSE]

----------------------------------------------------------------------------
(* What a watch shows; a closed one has released its result *)
Blank == <<>>

(* A mutant: a closed watch that keeps its last result *)
ShownOnceClosed(host, committed, c, s) ==
  LET watch == host[c].watches[s] IN
  IF watch = None THEN Blank ELSE <<committed[watch.frontier].content, watch.at>>

Shown(host, committed, c, s) ==
  LET watch == host[c].watches[s] IN
  IF watch = None \/ watch.closed THEN Blank
  ELSE <<committed[watch.frontier].content, watch.at>>

(* Downstream frames.  A patch is the ordered difference between two       *)
(* snapshots, and fits only the replica that holds the first.              *)
InitFrame(s, rows) ==
  [kind |-> IF s \in ScalarSub THEN "scalar" ELSE "init", sub |-> s, rows |-> rows, base |-> Blank]
PatchFrame(s, base, rows) == [kind |-> "patch", sub |-> s, rows |-> rows, base |-> base]
CloseFrame(s) == [kind |-> "close", sub |-> s, rows |-> Blank, base |-> Blank]
ResetFrame == [kind |-> "reset", sub |-> 0, rows |-> Blank, base |-> Blank]

(* SubState; `at` is a history variable, the frontier of the snapshot *)
SubState(rows, frontier) == [closed |-> FALSE, snapshot |-> rows, at |-> frontier]

SubStates == [closed : BOOLEAN, snapshot : {Blank} \cup (Content \X Nat), at : Nat]

(* None stands for a subscription the connection never opened *)
ASSUME NoneIsNoSub == None \notin SubStates

Live(c, s) == Open(c) /\ subs[c][s] # None /\ ~subs[c][s].closed

(* ConnState::sub_ids: the ids of a BTreeMap, in order *)
Ordered == CHOOSE ids \in [1..Cardinality(Sub) -> Sub] :
             \A i, j \in DOMAIN ids : i < j => ids[i] < ids[j]

(* The frames of each subscription, in subscription order *)
JoinNext(joined, s, frames) == joined \o frames[s]

Joined == INSTANCE SeqFold WITH Step <- JoinNext

InOrder(frames) == Joined!Fold(<<>>, Ordered, frames)

----------------------------------------------------------------------------
(* ClientReplica::apply, one frame.  `misfit` latches a patch that met an  *)
(* open replica holding something else; `seen` is a history variable, one  *)
(* past the position of the last frame received.                           *)
EmptyReplica == [s \in Sub |-> None]
Holding(rows) == [rows |-> rows]

FreshClient == [attached |-> FALSE, wire |-> <<>>, replica |-> EmptyReplica,
                last_id |-> None, seen |-> 0, misfit |-> FALSE]

(* WireStore: a closed subscription takes no frame *)
Applied(replica, frame) ==
  CASE frame.kind = "reset" -> EmptyReplica
    [] frame.kind = "close" -> [replica EXCEPT ![frame.sub] = Closed]
    [] frame.kind \in {"init", "scalar"} ->
         IF replica[frame.sub] = Closed THEN replica
         ELSE [replica EXCEPT ![frame.sub] = Holding(frame.rows)]
    [] frame.kind = "patch" ->
         IF replica[frame.sub] = Holding(frame.base)
         THEN [replica EXCEPT ![frame.sub] = Holding(frame.rows)]
         ELSE replica

Misfits(replica, frame) ==
  frame.kind = "patch" /\ replica[frame.sub] \notin {Holding(frame.base), Closed}

(* The replica once it has applied a sequence of emitted frames *)
ApplyNext(replica, e, unused) == Applied(replica, e.frame)

Delivered == INSTANCE SeqFold WITH Step <- ApplyNext

AppliedAll(replica, emitted) == Delivered!Fold(replica, emitted, None)

----------------------------------------------------------------------------
ConnectInit ==
  /\ Init
  /\ subs = [c \in Conn |-> [s \in Sub |-> None]]
  /\ outbound = [c \in Conn |-> EmptyOutbound]
  /\ client = [c \in Conn |-> FreshClient]
  /\ cuts = 0

(* MaxFrames bounds what requests may put on one stream *)
Room(c) == outbound[c].next_pos < MaxFrames

(* submit Hello: a fresh connection, its default context bound when the    *)
(* selection verifies; the client starts from an empty replica             *)
Hello(c) ==
  /\ ~Open(c)
  /\ \E bound \in BOOLEAN :
       /\ bound => now < Expires[c]
       /\ connections' = [connections EXCEPT ![c] = [Fresh EXCEPT !.bound = bound]]
  /\ promised' = [promised EXCEPT ![c] = 0]
  /\ subs' = [subs EXCEPT ![c] = [s \in Sub |-> None]]
  /\ outbound' = [outbound EXCEPT ![c] = EmptyOutbound]
  /\ client' = [client EXCEPT ![c] = FreshClient]
  /\ UNCHANGED <<history, now, operations, reported, settled, faults, cuts>>

(* disconnect *)
Drop(c) ==
  /\ Disconnect(c)
  /\ subs' = [subs EXCEPT ![c] = [s \in Sub |-> None]]
  /\ outbound' = [outbound EXCEPT ![c] = EmptyOutbound]
  /\ UNCHANGED <<client, cuts>>

(* submit View: install_rows or install_scalar.  A client never re-views an *)
(* id its replica holds as closed; a subscription id is fresh or still live.*)
View(c, s) ==
  /\ c \in Viewer /\ Room(c)
  /\ client[c].replica[s] # Closed
  /\ OpenWatch(c, s)
  /\ LET rows == Shown(connections', history, c, s)
         seq == connections[c].frontier IN
       /\ subs' = [subs EXCEPT ![c][s] = SubState(rows, seq)]
       /\ outbound' = [outbound EXCEPT ![c] = Enqueue(@, seq, InitFrame(s, rows))]
  /\ UNCHANGED <<client, cuts>>

(* submit Unsubscribe: the host's watch is left as it is *)
Unsubscribe(c, s) ==
  /\ Room(c)
  /\ Live(c, s)
  /\ subs' = [subs EXCEPT ![c][s].closed = TRUE]
  /\ outbound' = [outbound EXCEPT ![c] = Enqueue(@, connections[c].frontier, CloseFrame(s))]
  /\ UNCHANGED <<surfaceVars, client, cuts>>

----------------------------------------------------------------------------
(* sweep.rs: what a commit does to subscription s of c, given the host's   *)
(* connections after its own sweep                                         *)
Revoked(host, c, s) == host[c].watches[s].closed

SweptFrames(host, committed, c, s, caller) ==
  LET rows == Shown(host, committed, c, s) IN
  IF ~Live(c, s) THEN <<>>
  ELSE IF Revoked(host, c, s) THEN <<CloseFrame(s)>>
  ELSE IF ~caller \/ rows = subs[c][s].snapshot THEN <<>>
  ELSE IF s \in ScalarSub THEN <<InitFrame(s, rows)>>
  ELSE <<PatchFrame(s, subs[c][s].snapshot, rows)>>

(* A mutant: advance_rows that forgets to retain the snapshot it sent *)
SweptSubKeepingBaseline(host, committed, c, s, caller) ==
  IF Live(c, s) /\ Revoked(host, c, s)
  THEN [subs[c][s] EXCEPT !.closed = TRUE]
  ELSE subs[c][s]

SweptSub(host, committed, c, s, caller) ==
  IF ~Live(c, s) THEN subs[c][s]
  ELSE IF Revoked(host, c, s) THEN [subs[c][s] EXCEPT !.closed = TRUE]
  ELSE IF ~caller THEN subs[c][s]
  ELSE SubState(Shown(host, committed, c, s), host[c].frontier)

(* reconcile_after_commit: the caller at its own frontier, peers at the     *)
(* commit's, only to close what lost authority                             *)
Reconcile(caller, commit) ==
  /\ subs' = [c \in Conn |-> [s \in Sub |->
                SweptSub(connections', history', c, s, c = caller)]]
  /\ outbound' = [c \in Conn |->
       LET swept == [s \in Sub |-> SweptFrames(connections', history', c, s, c = caller)]
           seq == IF c = caller THEN connections'[c].frontier ELSE commit
       IN EnqueueAll(outbound[c], seq, InOrder(swept))]

(* submit Call: the host's pipeline, then -- unless it erred -- the         *)
(* reconciliation of the commit it reports, before the reply leaves        *)
Submit(c) ==
  /\ Open(c) /\ Room(c)
  /\ \E request \in Request, id \in OpId \cup {None} :
       \/ \E content \in Content, granted \in Grants :
            /\ CallCommits(c, request, id, content, granted)
            /\ IF settled' THEN Reconcile(c, Latest + 1)
               ELSE UNCHANGED <<subs, outbound>>
       \/ /\ CallReplays(c, request, id)
          /\ IF settled' THEN Reconcile(c, operations[KeyOf(request, id)].outcome.commit)
             ELSE UNCHANGED <<subs, outbound>>
       \/ /\ \E kind \in {"unchanged", "rejected"} : CallChangesNothing(c, request, id, kind)
          /\ UNCHANGED <<subs, outbound>>
  /\ UNCHANGED <<client, cuts>>

(* host_mut().advance_time and operator transitions reach the host only:   *)
(* their effect goes out with the next commit or reconstruction            *)
HostMoves ==
  /\ \/ AdvanceTime
     \/ \E content \in Content, granted \in Grants : Operate(content, granted)
  /\ UNCHANGED <<subs, outbound, client, cuts>>

----------------------------------------------------------------------------
(* The writer.  A batch is drained once the previous one has been written. *)
Write(c, emitted) ==
  client' = [client EXCEPT ![c].attached = TRUE, ![c].wire = emitted]

(* reproject_init of each live subscription; a scalar whose watch has      *)
(* closed has no value to send                                             *)
Reprojected(c, s) ==
  /\ Live(c, s)
  /\ ~(s \in ScalarSub /\ Revoked(connections, c, s))

(* reinit: what is buffered counts as delivered, then an optional reset and *)
(* a fresh init per subscription at the current frontier                   *)
Reinit(c, reset) ==
  LET seq == connections[c].frontier
      fresh == [s \in Sub |-> IF Reprojected(c, s)
                  THEN <<InitFrame(s, Shown(connections, history, c, s))>> ELSE <<>>]
      frames == (IF reset THEN <<ResetFrame>> ELSE <<>>) \o InOrder(fresh)
      filled == EnqueueAll(MarkDelivered(ClearOverflow(outbound[c])), seq, frames) IN
  /\ subs' = [subs EXCEPT ![c] = [s \in Sub |->
                IF Reprojected(c, s)
                THEN SubState(Shown(connections, history, c, s), seq) ELSE @[s]]]
  /\ outbound' = [outbound EXCEPT ![c] = MarkDelivered(filled)]
  /\ Write(c, Pending(filled))

(* poll *)
Poll(c) ==
  /\ Open(c)
  /\ client[c].attached /\ client[c].wire = <<>>
  /\ \/ outbound[c].overflow /\ Reinit(c, TRUE)
     \/ /\ ~outbound[c].overflow
        /\ Pending(outbound[c]) # <<>>
        /\ Write(c, Pending(outbound[c]))
        /\ outbound' = [outbound EXCEPT ![c] = MarkDelivered(@)]
        /\ UNCHANGED subs
  /\ UNCHANGED <<surfaceVars, cuts>>

(* The event id is the frame's frontier, which several frames may share,  *)
(* and which a peer's sweep may put ahead of frames still to come or behind *)
(* frames already read.  A resume is clean when the id separates the frames *)
(* the client has not read, all of them above it, from those it has: of     *)
(* these a replay may repeat a close, which changes nothing twice.          *)
CleanResume(c) ==
  LET ring == outbound[c].ring IN
  /\ ring # <<>> => ring[1].pos <= client[c].seen
  /\ \A i \in DOMAIN ring :
       IF ring[i].pos >= client[c].seen THEN ring[i].seq > client[c].last_id
       ELSE ring[i].seq > client[c].last_id => ring[i].frame.kind = "close"

(* resume *)
Resume(c) ==
  LET out == outbound[c]
      id == client[c].last_id IN
  /\ c \in Viewer /\ Open(c)
  /\ ~client[c].attached
  /\ \/ out.overflow /\ Reinit(c, TRUE)
     \/ ~out.overflow /\ id = None /\ Reinit(c, FALSE)
     \/ /\ ~out.overflow /\ id # None /\ ~Replayable(out, id)
        /\ Reinit(c, TRUE)
     \/ /\ ~out.overflow /\ id # None /\ Replayable(out, id)
        /\ CleanResumeOnly => CleanResume(c)
        /\ Write(c, ReplayAfter(out, id))
        /\ outbound' = [outbound EXCEPT ![c] = MarkDelivered(@)]
        /\ UNCHANGED subs
  /\ UNCHANGED <<surfaceVars, cuts>>

(* resume on a connection the server does not know: a reset without an id *)
ResumeUnknown(c) ==
  /\ ~Open(c) /\ ~client[c].attached
  /\ client[c].replica # EmptyReplica
  /\ client' = [client EXCEPT ![c].replica = EmptyReplica]
  /\ UNCHANGED <<surfaceVars, subs, outbound, cuts>>

----------------------------------------------------------------------------
(* The client and the network *)
Receive(c) ==
  /\ client[c].wire # <<>>
  /\ LET e == client[c].wire[1] IN
       client' = [client EXCEPT ![c].wire = Tail(@),
                                ![c].replica = Applied(@, e.frame),
                                ![c].last_id = e.seq,
                                ![c].seen = Later(@, e.pos + 1),
                                ![c].misfit = @ \/ Misfits(client[c].replica, e.frame)]
  /\ UNCHANGED <<surfaceVars, subs, outbound, cuts>>

(* The stream breaks; what is in flight is lost *)
Cut(c) ==
  /\ client[c].attached
  /\ cuts < MaxCuts
  /\ cuts' = cuts + 1
  /\ client' = [client EXCEPT ![c].attached = FALSE, ![c].wire = <<>>]
  /\ UNCHANGED <<surfaceVars, subs, outbound>>

(* A detached client starts over with an empty replica and no event id *)
StartOver(c) ==
  /\ ~client[c].attached
  /\ client[c] # FreshClient
  /\ client' = [client EXCEPT ![c] = FreshClient]
  /\ UNCHANGED <<surfaceVars, subs, outbound, cuts>>

ConnectNext ==
  \/ \E c \in Conn :
       \/ Hello(c) \/ Drop(c) \/ Submit(c)
       \/ \E s \in Sub : View(c, s) \/ Unsubscribe(c, s)
       \/ Poll(c) \/ Resume(c) \/ ResumeUnknown(c)
       \/ Receive(c) \/ Cut(c) \/ StartOver(c)
  \/ HostMoves

ConnectSpec == ConnectInit /\ [][ConnectNext]_connectVars

----------------------------------------------------------------------------
Whole(c) == Open(c) /\ client[c].attached /\ ~outbound[c].overflow

(* Sections 12.2 and 12.3, D6 and D3: on an unbroken stream, the replica   *)
(* plus every frame still in flight or buffered is exactly the snapshot    *)
(* the server diffs against -- across patches, replaced and closed         *)
(* subscriptions, overflows, and resumes from a retained id.  (A replica   *)
(* that applied a close keeps it until a reset; a scalar whose watch has   *)
(* closed is not reprojected.)  No patch ever meets an open replica on     *)
(* another base than the one it was computed from.                         *)
StreamReconstructs ==
  \A c \in Viewer : ~client[c].misfit /\ (Whole(c) =>
    LET replica == AppliedAll(client[c].replica, client[c].wire \o Pending(outbound[c])) IN
    \A s \in Sub :
      IF Live(c, s)
      THEN \/ replica[s] \in {Holding(subs[c][s].snapshot), Closed}
           \/ replica[s] = None /\ ~Reprojected(c, s)
      ELSE replica[s] \in {None, Closed})

(* tests/resume.rs: a resume is "always correct, never a gapped replay".   *)
(* It fails when the stream was cut between two frames of one frontier:    *)
(* the id names the frontier, and replay_after skips the unread one.       *)
ResumeIsGapless ==
  \A c \in Viewer : Whole(c) =>
    LET replica == AppliedAll(client[c].replica, client[c].wire \o Pending(outbound[c])) IN
    \A s \in Sub : Live(c, s) /\ Reprojected(c, s) =>
      replica[s] \in {Holding(subs[c][s].snapshot), Closed}

(* Section 12.3: patches are enqueued before the committed reply returns,  *)
(* so a connection told of a commit has every live subscription's snapshot *)
(* at that commit or later on its stream.                                  *)
CommittedIsOnTheStream ==
  \A c \in Conn, s \in Sub : Live(c, s) => promised[c] <= subs[c][s].at

(* No step that follows a complete sweep puts rows on the stream of a      *)
(* subscription whose authority is gone, reconstructions included.         *)
RowsNeedAuthority ==
  [][settled => \A c \in Conn :
       outbound'[c].next_pos > outbound[c].next_pos =>
         \A i \in DOMAIN outbound'[c].ring :
           LET e == outbound'[c].ring[i] IN
           e.pos >= outbound[c].next_pos /\ e.frame.rows # Blank =>
             Authorized(c, e.frame.sub \in RoleSub, history'[Len(history')], now')]_<<outbound, client>>

=============================================================================
