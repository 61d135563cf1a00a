------------------------------ MODULE Streams ------------------------------
(***************************************************************************)
(* The HTTP binding of the connector and its browser client, for one       *)
(* connection: liasse-connect core/stream.rs (which socket a connection is *)
(* bound to), bind/std_http.rs (the actor and its sockets) and the         *)
(* TypeScript shell of clients/connect (session.ts, stream.ts, http.ts)    *)
(* over the replica of liasse-connect-wasm.  The status a subscription     *)
(* reports beside its rows is left out.                                    *)
(*                                                                         *)
(* What the server would show is a version, the number of commits so far.  *)
(* The core's subscriptions are those of module Connect with versions as   *)
(* rows; its ring is never replayed here, so only the frames not delivered *)
(* yet are kept, and none once the latch is tripped.  A session is         *)
(* numbered in minting order, 0 standing for none.  Every POST is a        *)
(* request of its own: POSTs in flight reach the actor in any order,       *)
(* unless InOrder says otherwise.                                          *)
(***************************************************************************)
EXTENDS Naturals, Sequences, FiniteSets
LOCAL INSTANCE SequencesExt

CONSTANTS Sub, Closed, Unseen,
          Capacity,     \* of the outbound ring
          InOrder,      \* POSTs reach the actor in the order they were issued
          MaxServerCommits, MaxCuts,
          MaxStalls     \* times a writer is found full

ASSUME InOrderIsBoolean == InOrder \in BOOLEAN
ASSUME RoomForReinit == Capacity \in Nat /\ Capacity > Cardinality(Sub)

VARIABLES version,      \* the version of the host
          subs,         \* ConnState::subs: closed, and the version diffed against
          pending,      \* ConnState::outbound: the frames not delivered yet
          overflow,     \* and its latch
          target,       \* ConnState::session: the socket that delivers
          sessions,     \* sessions registered with the core and with the actor
          minted,       \* sessions minted so far
          channel,      \* per session, what its writer has still to write
          posts,        \* POSTs in flight, in the order they were issued
          source,       \* the client's EventSource: the session it reads, or 0
          header,       \* the session its POSTs carry
          lives,        \* per subscription: "fresh", "mounted" or "ended"
          replica,      \* ClientReplica
          cuts, stalls

server == <<version, subs, pending, overflow, target, sessions, minted>>
shell == <<source, header, lives, replica>>
streamVars == <<server, channel, posts, shell, cuts, stalls>>

MaxSessions == 1 + MaxCuts + MaxStalls
Session == 1..MaxSessions

Announcement == [kind |-> "session"]
InitFrame(s, at) == [kind |-> "init", sub |-> s, at |-> at, base |-> 0]
PatchFrame(s, base, at) == [kind |-> "patch", sub |-> s, at |-> at, base |-> base]
CloseFrame(s) == [kind |-> "close", sub |-> s, at |-> 0, base |-> 0]
ResetFrame == [kind |-> "reset", sub |-> 0, at |-> 0, base |-> 0]

StreamsInit ==
  /\ version = 0
  /\ subs = [s \in Sub |-> Unseen]
  /\ pending = <<>> /\ overflow = FALSE
  /\ target = 0 /\ sessions = {} /\ minted = 0
  /\ channel = [n \in Session |-> <<>>]
  /\ posts = <<>>
  /\ source = 0 /\ header = 0
  /\ lives = [s \in Sub |-> "fresh"]
  /\ replica = [s \in Sub |-> Unseen]
  /\ cuts = 0 /\ stalls = 0

Live(s) == subs[s] # Unseen /\ ~subs[s].closed
Ordered == SetToSortSeq(Sub, <)
Each(Frames(_)) == FlattenSeq([i \in DOMAIN Ordered |-> Frames(Ordered[i])])
Mounted == {s \in Sub : lives[s] = "mounted"}

----------------------------------------------------------------------------
(* The core: its state after a request                                     *)
Core == [version |-> version, subs |-> subs, pending |-> pending, overflow |-> overflow,
         target |-> target]

(* Outbound::enqueue *)
Enqueued(core, frames) ==
  LET all == core.pending \o frames
      full == core.overflow \/ Len(all) > Capacity IN
  [core EXCEPT !.pending = IF full THEN <<>> ELSE all, !.overflow = full]

LiveIn(core, s) == core.subs[s] # Unseen /\ ~core.subs[s].closed

(* submit View *)
Viewed(core, s) ==
  Enqueued([core EXCEPT !.subs[s] = [closed |-> FALSE, at |-> core.version]],
           <<InitFrame(s, core.version)>>)

(* submit Unsubscribe *)
Unsubscribed(core, s) ==
  IF ~LiveIn(core, s) THEN core
  ELSE Enqueued([core EXCEPT !.subs[s].closed = TRUE], <<CloseFrame(s)>>)

(* Every live subscription is then shown at this version *)
ShownAt(core, at) ==
  [s \in Sub |-> IF LiveIn(core, s) THEN [core.subs[s] EXCEPT !.at = at] ELSE core.subs[s]]

(* submit Call that commits: a patch for every live subscription *)
Called(core) ==
  LET patch(s) == IF LiveIn(core, s) THEN <<PatchFrame(s, core.subs[s].at, core.version + 1)>>
                  ELSE <<>> IN
  Enqueued([core EXCEPT !.version = @ + 1, !.subs = ShownAt(core, core.version + 1)], Each(patch))

(* poll: what is pending, or after an overflow a reset and fresh inits     *)
Batch(core) ==
  LET fresh(s) == IF LiveIn(core, s) THEN <<InitFrame(s, core.version)>> ELSE <<>> IN
  IF core.overflow THEN <<ResetFrame>> \o Each(fresh) ELSE core.pending

(* close_stream: the session goes, and a connection bound to it is unbound *)
Unbound(bound, n) == IF bound = n THEN 0 ELSE bound

(* deliver: the batch of the socket the connection is bound to.  A writer  *)
(* that takes only some of it is dropped with the rest.                    *)
Deliver(core) ==
  /\ version' = core.version
  /\ IF core.target = 0
     THEN /\ subs' = core.subs /\ target' = 0
          /\ pending' = core.pending /\ overflow' = core.overflow
          /\ UNCHANGED <<sessions, channel, stalls>>
     ELSE LET n == core.target
              batch == Batch(core) IN
          /\ subs' = IF core.overflow THEN ShownAt(core, core.version) ELSE core.subs
          /\ pending' = <<>> /\ overflow' = FALSE
          /\ \/ /\ channel' = [channel EXCEPT ![n] = @ \o batch]
                /\ target' = n
                /\ UNCHANGED <<sessions, stalls>>
             \/ /\ stalls < MaxStalls /\ batch # <<>>
                /\ \E taken \in 0..Len(batch) - 1 :
                     channel' = [channel EXCEPT ![n] = @ \o SubSeq(batch, 1, taken)]
                /\ sessions' = sessions \ {n}
                /\ target' = Unbound(n, n)
                /\ stalls' = stalls + 1

(* bind_stream, once Streams::bind has found the session *)
Bind(core, n) == [core EXCEPT !.target = n]

(* Job::Submit.  A session the core does not know refuses the POST before  *)
(* the frame runs; deliver follows either way                              *)
Handle(i) ==
  /\ InOrder => i = 1
  /\ LET post == posts[i]
         core == Bind(Core, post.session) IN
     /\ posts' = RemoveAt(posts, i)
     /\ IF post.session \notin sessions
        THEN Deliver(Core)
        ELSE Deliver(CASE post.kind = "view" -> Viewed(core, post.sub)
                       [] post.kind = "unsubscribe" -> Unsubscribed(core, post.sub)
                       [] post.kind = "call" -> Called(core))
     /\ lives' = IF post.kind = "unsubscribe" THEN [lives EXCEPT ![post.sub] = "ended"] ELSE lives
  /\ UNCHANGED <<minted, source, header, replica, cuts>>

(* serve_stream finds its peer gone when it writes: what it writes is      *)
(* lost, or the write fails and Job::CloseStream forgets the session       *)
WriteToGonePeer(n) ==
  /\ channel[n] # <<>> /\ source # n
  /\ channel' = [channel EXCEPT ![n] = <<>>]
  /\ \/ UNCHANGED <<sessions, target>>
     \/ /\ sessions' = sessions \ {n}
        /\ target' = Unbound(target, n)
  /\ UNCHANGED <<version, subs, pending, overflow, minted, posts, shell, cuts, stalls>>

----------------------------------------------------------------------------
(* The shell *)
Post(kind, s, n) == [kind |-> kind, sub |-> s, session |-> n]

(* bindAllLive *)
ViewsOf(live, n) ==
  LET view(s) == IF s \in live THEN <<Post("view", s, n)>> ELSE <<>> IN Each(view)

(* Stream.connect and Job::OpenStream; a native source that reconnects by  *)
(* itself does the same                                                    *)
Reconnect ==
  /\ source = 0 /\ minted < MaxSessions
  /\ minted > 0 \/ Mounted # {}
  /\ minted' = minted + 1
  /\ sessions' = sessions \cup {minted + 1}
  /\ channel' = [channel EXCEPT ![minted + 1] = <<Announcement>>]
  /\ source' = minted + 1
  /\ UNCHANGED <<version, subs, pending, overflow, target, posts, header, lives, replica, cuts, stalls>>

(* subscribe, under an id of its own.  Before the first announcement the view waits *)
Subscribe(s) ==
  /\ lives[s] = "fresh"
  /\ lives' = [lives EXCEPT ![s] = "mounted"]
  /\ posts' = IF header = 0 THEN posts ELSE Append(posts, Post("view", s, header))
  /\ UNCHANGED <<server, channel, source, header, replica, cuts, stalls>>

IssueCall ==
  /\ header # 0
  /\ version + Len(SelectSeq(posts, LAMBDA p : p.kind = "call")) < MaxServerCommits
  /\ posts' = Append(posts, Post("call", 0, header))
  /\ UNCHANGED <<server, channel, shell, cuts, stalls>>

(* Subscription.unsubscribe; it is dropped once the POST was answered *)
EndSubscription(s) ==
  /\ s \in Mounted /\ header # 0
  /\ ~\E i \in DOMAIN posts : posts[i].kind = "unsubscribe" /\ posts[i].sub = s
  /\ posts' = Append(posts, Post("unsubscribe", s, header))
  /\ UNCHANGED <<server, channel, shell, cuts, stalls>>

(* A mutant: a new session that is only recorded                           *)
ReboundNever(live, n) == <<>>

(* onSession: on the first session the waiting views are posted, on a      *)
(* later one bindAllLive posts every live subscription again               *)
Rebound(live, n) == ViewsOf(live, n)

(* One event of the socket the client reads: onSession, or applyFrame      *)
Receive ==
  /\ source # 0 /\ channel[source] # <<>>
  /\ channel' = [channel EXCEPT ![source] = Tail(@)]
  /\ LET event == channel[source][1]
         live == {s \in Mounted : replica[s] # Closed} IN
     CASE event.kind = "session" ->
            /\ header' = source
            /\ posts' = posts \o Rebound(live, source)
            /\ UNCHANGED replica
       [] event.kind = "reset" ->
            /\ replica' = [s \in Sub |-> Unseen]
            /\ posts' = posts \o ViewsOf(Mounted, header)
            /\ UNCHANGED header
       [] event.kind = "init" ->
            /\ replica' = [replica EXCEPT ![event.sub] = IF @ = Closed THEN @ ELSE event.at]
            /\ UNCHANGED <<header, posts>>
       [] event.kind = "patch" ->
            /\ replica' = [replica EXCEPT ![event.sub] = IF @ = event.base THEN event.at ELSE @]
            /\ UNCHANGED <<header, posts>>
       [] event.kind = "close" ->
            /\ replica' = [replica EXCEPT ![event.sub] = Closed]
            /\ UNCHANGED <<header, posts>>
  /\ UNCHANGED <<server, source, lives, cuts, stalls>>

(* The network drops the socket the client reads *)
Cut ==
  /\ source # 0 /\ cuts < MaxCuts
  /\ source' = 0 /\ cuts' = cuts + 1
  /\ UNCHANGED <<server, channel, posts, header, lives, replica, stalls>>

(* A socket the actor dropped ends once its writer has written the rest *)
StreamEnds ==
  /\ source # 0 /\ source \notin sessions /\ channel[source] = <<>>
  /\ source' = 0
  /\ UNCHANGED <<server, channel, posts, header, lives, replica, cuts, stalls>>

StreamsNext ==
  \/ \E i \in DOMAIN posts : Handle(i)
  \/ \E n \in Session : WriteToGonePeer(n)
  \/ Reconnect
  \/ \E s \in Sub : Subscribe(s)
  \/ IssueCall
  \/ \E s \in Sub : EndSubscription(s)
  \/ Receive
  \/ Cut
  \/ StreamEnds

(* The actor takes every job, the client reads what arrives and opens a    *)
(* new source when the old one is gone                                     *)
StreamsFairness ==
  /\ WF_streamVars(\E i \in DOMAIN posts : Handle(i))
  /\ WF_streamVars(Reconnect) /\ WF_streamVars(Receive) /\ WF_streamVars(StreamEnds)

-----------------------------------------------------------------------------
(* Properties                                                              *)

(* clients/connect README: on every reconnect "the shell re-binds every    *)
(* live subscription ... The stream self-heals".  Whatever was cut or      *)
(* dropped, a subscription that stays mounted ends up showing the host's   *)
(* last version, on an open stream.                                        *)
TheStreamSelfHeals ==
  \A s \in Sub : <>[](s \notin Mounted \/ replica[s] \in {version, Closed})
=============================================================================
