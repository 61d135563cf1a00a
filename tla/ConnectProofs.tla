--------------------------- MODULE ConnectProofs ---------------------------
(***************************************************************************)
(* What the connector in front of the host promises its clients, for any   *)
(* connections, subscriptions, ring capacity and cuts.                     *)
(*                                                                         *)
(* The host keeps its invariant whatever the connector does around it.     *)
(* That a client's replica is, or is being brought to, what the server     *)
(* diffs against needs what the model does not keep: the log of every      *)
(* frame a connection was sent, and what a reader of the log holds at each *)
(* position.  Tracked says that such a log exists, of which the ring is    *)
(* the last part, the wire the part in flight and the replica the prefix   *)
(* read; each step extends, drains or drops parts of it.  This result has  *)
(* two hypotheses, stated in its theorem: the resumes replayed are clean,  *)
(* and the ring holds a reconstruction.                                    *)
(*                                                                         *)
(* That rows are sent to the authorized only needs less: a ring whose      *)
(* positions are below the next one, and the host's own invariant.         *)
(***************************************************************************)
EXTENDS Connect, SurfaceProofs

(* The connector.                                                          *)

\* A retained snapshot; its rows are opaque to the sweep
IsSubState(sub) ==
  \E rows : \E frontier \in Nat, closed \in BOOLEAN :
    sub = [closed |-> closed, snapshot |-> rows, at |-> frontier]

SubsInv ==
  /\ subs = [c \in Conn |-> [s \in Sub |-> subs[c][s]]]
  /\ \A c \in Conn, s \in Sub : subs[c][s] # None => IsSubState(subs[c][s])

ConnectInv ==
  /\ SurfaceInv
  /\ SubsInv
  /\ CommittedIsOnTheStream
-----------------------------------------------------------------------------
(* The host behind the connector.                                          *)

LEMMA HelloKeepsHost ==
  ASSUME SurfaceInv, NEW c \in Conn, Hello(c)
  PROVE  SurfaceInv'
<1>1. PICK b \in BOOLEAN : connections' = [connections EXCEPT ![c] = [Fresh EXCEPT !.bound = b]]
  BY DEF Hello
<1> DEFINE new == [Fresh EXCEPT !.bound = b]
<1>2. new \in Connection /\ new.watches = [s \in Sub |-> None] /\ new.frontier = Latest
  <2>1. new = [frontier |-> Latest, bound |-> b, watches |-> [s \in Sub |-> None]]
    BY DEF Fresh
  <2> QED
    BY <2>1 DEF SurfaceInv, SurfaceTypes, Latest, Connection
<1>3. /\ ~Open(c) /\ promised' = [promised EXCEPT ![c] = 0]
      /\ UNCHANGED <<history, now, operations, reported, settled, faults>>
  BY DEF Hello
<1>4. connections' = [connections EXCEPT ![c] = new]
  BY <1>1
<1> HIDE DEF new
<1> QED
  BY <1>2, <1>3, <1>4, FreshConnectionKeepsInv

LEMMA SubmitKeepsHost ==
  ASSUME SurfaceInv, NEW c \in Conn, Submit(c)
  PROVE  SurfaceInv'
BY CallCommitsKeepsInv, CallReplaysKeepsInv, CallChangesNothingKeepsInv DEF Submit

LEMMA HostMovesKeepsHost ==
  ASSUME SurfaceInv, HostMoves
  PROVE  SurfaceInv'
BY AdvanceTimeKeepsInv, OperateKeepsInv DEF HostMoves

LEMMA UnchangedKeepsHost ==
  ASSUME SurfaceInv, UNCHANGED surfaceVars
  PROVE  SurfaceInv'
BY NextKeepsInv

LEMMA ConnectorKeepsHost == SurfaceInv /\ [ConnectNext]_connectVars => SurfaceInv'
<1> SUFFICES ASSUME SurfaceInv, [ConnectNext]_connectVars PROVE SurfaceInv'
  OBVIOUS
<1>1. CASE UNCHANGED connectVars
  BY <1>1, UnchangedKeepsHost DEF connectVars
<1>2. ASSUME NEW c \in Conn, Hello(c) PROVE SurfaceInv'
  BY <1>2, HelloKeepsHost
<1>3. ASSUME NEW c \in Conn, Drop(c) PROVE SurfaceInv'
  BY <1>3, DisconnectKeepsInv DEF Drop
<1>4. ASSUME NEW c \in Conn, Submit(c) PROVE SurfaceInv'
  BY <1>4, SubmitKeepsHost
<1>5. ASSUME NEW c \in Conn, NEW s \in Sub, View(c, s) PROVE SurfaceInv'
  BY <1>5, OpenWatchKeepsInv DEF View
<1>6. ASSUME NEW c \in Conn, NEW s \in Sub, Unsubscribe(c, s) PROVE SurfaceInv'
  BY <1>6, UnchangedKeepsHost DEF Unsubscribe
<1>7. ASSUME NEW c \in Conn,
             \/ Poll(c) \/ Resume(c) \/ ResumeUnknown(c)
             \/ Receive(c) \/ Cut(c) \/ StartOver(c)
      PROVE  SurfaceInv'
  BY <1>7, UnchangedKeepsHost DEF Poll, Resume, ResumeUnknown, Receive, Cut, StartOver
<1>8. CASE HostMoves
  BY <1>8, HostMovesKeepsHost
<1> QED
  BY <1>1, <1>2, <1>3, <1>4, <1>5, <1>6, <1>7, <1>8 DEF ConnectNext
-----------------------------------------------------------------------------
(* The retained snapshots.                                                 *)

\* One subscription from a step to the next: gone, closed, as it was on a
\* connection told nothing new, or retained at a frontier that is enough.
Retains(c, s) ==
  LET new == subs'[c][s] IN
  \/ new = None
  \/ IsSubState(new) /\ new.closed
  \/ new = subs[c][s] /\ Open(c) /\ promised'[c] = promised[c]
  \/ new = subs[c][s] /\ ~Open(c)'
  \/ IsSubState(new) /\ promised'[c] <= new.at

LEMMA RetainedIsOnTheStream ==
  ASSUME SubsInv, CommittedIsOnTheStream,
         subs' = [c \in Conn |-> [s \in Sub |-> subs'[c][s]]],
         \A c \in Conn, s \in Sub : Retains(c, s)
  PROVE  SubsInv' /\ CommittedIsOnTheStream'
<1>1. ASSUME NEW c \in Conn, NEW s \in Sub, subs'[c][s] # None
      PROVE  IsSubState(subs'[c][s])
  BY <1>1 DEF Retains, SubsInv
<1>2. ASSUME NEW c \in Conn, NEW s \in Sub, Live(c, s)'
      PROVE  promised'[c] <= subs'[c][s].at
  BY <1>2 DEF Retains, Live, CommittedIsOnTheStream
<1> QED
  BY <1>1, <1>2 DEF SubsInv, CommittedIsOnTheStream

LEMMA ClosedSubState ==
  ASSUME NEW sub, IsSubState(sub)
  PROVE  LET closed == [sub EXCEPT !.closed = TRUE] IN IsSubState(closed) /\ closed.closed
<1>1. PICK rows : \E frontier \in Nat, b \in BOOLEAN :
        sub = [closed |-> b, snapshot |-> rows, at |-> frontier]
  BY DEF IsSubState
<1>2. sub \in [closed : BOOLEAN, snapshot : {rows}, at : Nat]
  BY <1>1
<1> DEFINE closed == [sub EXCEPT !.closed = TRUE]
<1>3. closed \in [closed : BOOLEAN, snapshot : {rows}, at : Nat] /\ closed.closed
  BY <1>2
<1> HIDE DEF closed
<1>4. closed = [closed |-> TRUE, snapshot |-> rows, at |-> closed.at] /\ closed.at \in Nat
  BY <1>3
<1>5. IsSubState(closed)
  BY <1>4 DEF IsSubState
<1> QED
  BY <1>3, <1>5 DEF closed

LEMMA FreshSubState ==
  ASSUME NEW rows, NEW frontier \in Nat
  PROVE  IsSubState(SubState(rows, frontier)) /\ SubState(rows, frontier).at = frontier
BY DEF IsSubState, SubState

LEMMA ForgetKeepsSubs ==
  ASSUME ConnectInv, NEW c \in Conn, Hello(c) \/ Drop(c)
  PROVE  SubsInv' /\ CommittedIsOnTheStream'
<1>1. /\ subs' = [subs EXCEPT ![c] = [s \in Sub |-> None]]
      /\ \A d \in Conn : d # c => promised'[d] = promised[d] /\ connections'[d] = connections[d]
  BY DEF Hello, Drop, Disconnect, ConnectInv, SurfaceInv, SurfaceTypes
<1>2. subs' = [d \in Conn |-> [s \in Sub |-> subs'[d][s]]]
  BY <1>1 DEF ConnectInv, SubsInv
<1>3. ASSUME NEW d \in Conn, NEW s \in Sub PROVE Retains(d, s)
  BY <1>1 DEF Retains, Open, ConnectInv, SubsInv
<1> QED
  BY <1>2, <1>3, RetainedIsOnTheStream DEF ConnectInv

LEMMA ViewKeepsSubs ==
  ASSUME ConnectInv, NEW c \in Conn, NEW r \in Sub, View(c, r)
  PROVE  SubsInv' /\ CommittedIsOnTheStream'
<1> DEFINE rows == Shown(connections', history, c, r)
           seq == connections[c].frontier
<1>1. subs' = [subs EXCEPT ![c][r] = SubState(rows, seq)]
  BY DEF View
<1>2. seq \in Nat /\ promised[c] <= seq
  BY DEF View, OpenWatch, Open, ConnectInv, SurfaceInv, SurfaceTypes, PromisesKept, Connection
<1>3. promised' = promised /\ \A d \in Conn : Open(d)' => Open(d)
  BY DEF View, OpenWatch, Open, ConnectInv, SurfaceInv, SurfaceTypes
<1> HIDE DEF rows, seq
<1> DEFINE new == SubState(rows, seq)
<1>4. IsSubState(new) /\ new.at = seq
  BY <1>2, FreshSubState
<1> HIDE DEF new
<1>5. subs' = [subs EXCEPT ![c][r] = new]
  BY <1>1 DEF new
<1>6. subs' = [d \in Conn |-> [s \in Sub |-> subs'[d][s]]]
  BY <1>5 DEF ConnectInv, SubsInv
<1>7. ASSUME NEW d \in Conn, NEW s \in Sub PROVE Retains(d, s)
  BY <1>2, <1>3, <1>4, <1>5 DEF Retains, ConnectInv, SubsInv
<1> QED
  BY <1>6, <1>7, RetainedIsOnTheStream DEF ConnectInv

\* reconcile_after_commit: every subscription is closed, or retained by a
\* caller now at the commit, or as it was on a peer told nothing.
LEMMA ReconcileKeepsSubs ==
  ASSUME ConnectInv, SurfaceInv', NEW c \in Conn, NEW commit, Reconcile(c, commit),
         \A d \in Conn : Open(d)' = Open(d),
         \A d \in Conn : d # c => promised'[d] = promised[d]
  PROVE  SubsInv' /\ CommittedIsOnTheStream'
<1>1. subs' = [d \in Conn |-> [s \in Sub |->
                SweptSub(connections', history', d, s, d = c)]]
  BY DEF Reconcile
<1>2. subs' = [d \in Conn |-> [s \in Sub |-> subs'[d][s]]]
  BY <1>1
<1>3. ASSUME NEW d \in Conn, NEW s \in Sub PROVE Retains(d, s)
  <2>1. subs'[d][s] = SweptSub(connections', history', d, s, d = c)
    BY <1>1
  <2>2. CASE ~Live(d, s)
    <3>1. subs'[d][s] = subs[d][s]
      BY <2>1, <2>2 DEF SweptSub
    <3> QED
      BY <2>2, <3>1 DEF Live, Retains, ConnectInv, SubsInv
  <2>3. CASE Live(d, s) /\ Revoked(connections', d, s)
    <3>1. subs'[d][s] = [subs[d][s] EXCEPT !.closed = TRUE]
      BY <2>1, <2>3 DEF SweptSub
    <3>2. IsSubState(subs[d][s])
      BY <2>3 DEF Live, ConnectInv, SubsInv
    <3> QED
      BY <3>1, <3>2, ClosedSubState DEF Retains
  <2>4. CASE Live(d, s) /\ ~Revoked(connections', d, s) /\ d # c
    <3>1. subs'[d][s] = subs[d][s]
      BY <2>1, <2>4 DEF SweptSub
    <3> QED
      BY <2>4, <3>1 DEF Live, Retains
  <2>5. CASE Live(d, s) /\ ~Revoked(connections', d, s) /\ d = c
    <3> DEFINE rows == Shown(connections', history', d, s)
               frontier == connections'[d].frontier
               new == SubState(rows, frontier)
    <3>1. subs'[d][s] = new
      BY <2>1, <2>5 DEF SweptSub
    <3> HIDE DEF rows
    <3>2. Open(d)'
      BY <2>5 DEF Live
    <3>3. frontier \in Nat /\ promised'[d] <= frontier
      BY <3>2 DEF Open, SurfaceInv, SurfaceTypes, PromisesKept, Connection
    <3> HIDE DEF frontier
    <3>4. IsSubState(new) /\ new.at = frontier
      BY <3>3, FreshSubState
    <3> QED
      BY <3>1, <3>3, <3>4 DEF Retains
  <2> QED
    BY <2>2, <2>3, <2>4, <2>5
<1> QED
  BY <1>2, <1>3, RetainedIsOnTheStream DEF ConnectInv

\* A step that leaves the snapshots and what was reported alone.
LEMMA SameSubs ==
  ASSUME ConnectInv, UNCHANGED <<subs, promised>>, \A c \in Conn : Open(c)' => Open(c)
  PROVE  SubsInv' /\ CommittedIsOnTheStream'
<1>1. ASSUME NEW c \in Conn, NEW s \in Sub PROVE Retains(c, s)
  BY DEF Retains
<1>2. subs' = [c \in Conn |-> [s \in Sub |-> subs'[c][s]]]
  BY DEF ConnectInv, SubsInv
<1> QED
  BY <1>1, <1>2, RetainedIsOnTheStream DEF ConnectInv

LEMMA SweepsKeepOpen ==
  ASSUME SurfaceInv, IsSweep, NEW c \in Conn
  PROVE  Open(c)' = Open(c)
<1>1. PICK advancing \in SUBSET Conn, complete \in BOOLEAN : SweepStep(advancing, complete)
  BY DEF IsSweep
<1>2. CASE Open(c)
  <2>1. connections'[c] \in Connection
    BY <1>1, <1>2 DEF SweepStep, SweptTo
  <2> QED
    BY <1>2, <2>1, NoneIsAbsent DEF Open
<1>3. CASE ~Open(c)
  BY <1>1, <1>3 DEF SweepStep, Open
<1> QED
  BY <1>2, <1>3

\* A settled call answers its caller only; one whose sweep erred nobody.
LEMMA CallsAnswerTheirCaller ==
  ASSUME SurfaceInv, NEW c \in Conn, NEW request, NEW id,
         \/ CallReplays(c, request, id)
         \/ \E content \in Content, granted \in Grants : CallCommits(c, request, id, content, granted)
  PROVE  /\ \A d \in Conn : d # c => promised'[d] = promised[d]
         /\ ~settled' => promised' = promised
<1>1. PICK stop \in Stops : \E commit :
        /\ settled' = (stop = End)
        /\ IF stop = End THEN promised' = [promised EXCEPT ![c] = Later(@, commit)]
           ELSE promised' = promised
  <2>1. CASE CallReplays(c, request, id)
    BY <2>1 DEF CallReplays, Sweep, Answer
  <2>2. ASSUME NEW content \in Content, NEW granted \in Grants,
               CallCommits(c, request, id, content, granted)
        PROVE  \E stop \in Stops : \E commit :
                 /\ settled' = (stop = End)
                 /\ IF stop = End THEN promised' = [promised EXCEPT ![c] = Later(@, commit)]
                    ELSE promised' = promised
    BY <2>2 DEF CallCommits, Sweep, Answer
  <2> QED
    BY <2>1, <2>2
<1> QED
  BY <1>1 DEF SurfaceInv, SurfaceTypes

LEMMA SubmitKeepsSubs ==
  ASSUME ConnectInv, NEW c \in Conn, Submit(c)
  PROVE  SubsInv' /\ CommittedIsOnTheStream'
<1>0. SurfaceInv /\ SurfaceInv'
  BY SubmitKeepsHost DEF ConnectInv
<1>1. PICK request \in Request, id \in OpId \cup {None} :
       \/ \E content \in Content, granted \in Grants :
            /\ CallCommits(c, request, id, content, granted)
            /\ IF settled' THEN Reconcile(c, Latest + 1)
               ELSE UNCHANGED <<subs, outbound>>
       \/ /\ CallReplays(c, request, id)
          /\ IF settled' THEN Reconcile(c, operations[KeyOf(request, id)].outcome.commit)
             ELSE UNCHANGED <<subs, outbound>>
       \/ /\ \E kind \in {"unchanged", "rejected"} : CallChangesNothing(c, request, id, kind)
          /\ UNCHANGED <<subs, outbound>>
  BY DEF Submit
<1>2. CASE UNCHANGED <<subs, promised, connections>>
  BY <1>2, SameSubs DEF Open
<1>3. ASSUME \/ CallReplays(c, request, id)
             \/ \E content \in Content, granted \in Grants : CallCommits(c, request, id, content, granted),
             NEW commit, IF settled' THEN Reconcile(c, commit) ELSE UNCHANGED subs
      PROVE  SubsInv' /\ CommittedIsOnTheStream'
  <2>1. IsSweep
    BY <1>0, <1>3, CallCommitsKeepsInv, CallReplaysKeepsInv
  <2>2. \A d \in Conn : Open(d)' = Open(d)
    BY <1>0, <2>1, SweepsKeepOpen
  <2>3. /\ \A d \in Conn : d # c => promised'[d] = promised[d]
        /\ ~settled' => promised' = promised
    BY <1>0, <1>3, CallsAnswerTheirCaller
  <2> QED
    BY <1>0, <1>3, <2>2, <2>3, SameSubs, ReconcileKeepsSubs
<1> QED
  BY <1>1, <1>2, <1>3 DEF CallChangesNothing

\* reinit retains what it projects at the connection's frontier.
LEMMA ReinitKeepsSubs ==
  ASSUME ConnectInv, NEW c \in Conn, Open(c), NEW reset, Reinit(c, reset), UNCHANGED surfaceVars
  PROVE  SubsInv' /\ CommittedIsOnTheStream'
<1> DEFINE seq == connections[c].frontier
           rows(s) == Shown(connections, history, c, s)
           new(s) == SubState(rows(s), seq)
<1>1. subs' = [subs EXCEPT ![c] = [s \in Sub |->
                 IF Reprojected(c, s) THEN new(s) ELSE subs[c][s]]]
  BY DEF Reinit, ConnectInv, SubsInv
<1>2. seq \in Nat /\ promised[c] <= seq /\ UNCHANGED <<connections, promised>>
  BY DEF surfaceVars, Open, ConnectInv, SurfaceInv, SurfaceTypes, PromisesKept, Connection
<1> HIDE DEF rows, seq
<1>3. \A s \in Sub : IsSubState(new(s)) /\ new(s).at = seq
  BY <1>2, FreshSubState
<1> HIDE DEF new
<1>4. subs' = [d \in Conn |-> [s \in Sub |-> subs'[d][s]]]
  BY <1>1 DEF ConnectInv, SubsInv
<1>5. ASSUME NEW d \in Conn, NEW s \in Sub PROVE Retains(d, s)
  <2>1. CASE d = c /\ Reprojected(c, s)
    <3>1. subs'[d][s] = new(s)
      BY <1>1, <2>1 DEF ConnectInv, SubsInv
    <3>2. promised'[d] = promised[d] /\ d = c
      BY <1>2, <2>1
    <3> QED
      BY <1>2, <1>3, <3>1, <3>2 DEF Retains
  <2>2. CASE ~(d = c /\ Reprojected(c, s))
    <3>1. subs'[d][s] = subs[d][s]
      BY <1>1, <2>2 DEF ConnectInv, SubsInv
    <3> QED
      BY <1>2, <3>1 DEF Retains, Open
  <2> QED
    BY <2>1, <2>2
<1> QED
  BY <1>4, <1>5, RetainedIsOnTheStream DEF ConnectInv

LEMMA UnsubscribeKeepsSubs ==
  ASSUME ConnectInv, NEW c \in Conn, NEW r \in Sub, Unsubscribe(c, r)
  PROVE  SubsInv' /\ CommittedIsOnTheStream'
<1> DEFINE closed == [subs[c][r] EXCEPT !.closed = TRUE]
<1>1. /\ subs[c][r] # None /\ UNCHANGED <<connections, promised>>
      /\ subs' = [subs EXCEPT ![c][r].closed = TRUE]
  BY DEF Unsubscribe, Live, surfaceVars
<1>2. IsSubState(subs[c][r])
  BY <1>1 DEF ConnectInv, SubsInv
<1>3. IsSubState(closed) /\ closed.closed
  BY <1>2, ClosedSubState
<1>4. subs' = [subs EXCEPT ![c] = [subs[c] EXCEPT ![r] = closed]]
  BY <1>1
<1> HIDE DEF closed
<1>5. subs' = [d \in Conn |-> [s \in Sub |-> subs'[d][s]]]
  BY <1>4 DEF ConnectInv, SubsInv
<1>6. ASSUME NEW d \in Conn, NEW s \in Sub PROVE Retains(d, s)
  <2>1. CASE d = c /\ s = r
    <3>1. subs'[d][s] = closed
      BY <1>4, <2>1 DEF ConnectInv, SubsInv
    <3> QED
      BY <1>3, <3>1 DEF Retains
  <2>2. CASE ~(d = c /\ s = r)
    <3>1. subs'[d][s] = subs[d][s]
      BY <1>4, <2>2 DEF ConnectInv, SubsInv
    <3> QED
      BY <1>1, <3>1 DEF Retains, Open
  <2> QED
    BY <2>1, <2>2
<1> QED
  BY <1>5, <1>6, RetainedIsOnTheStream DEF ConnectInv
-----------------------------------------------------------------------------

LEMMA ConnectInitHasInv == ConnectInit => ConnectInv
<1> SUFFICES ASSUME ConnectInit PROVE ConnectInv
  OBVIOUS
<1>1. SurfaceInv
  BY InitHasInv DEF ConnectInit
<1>2. subs = [c \in Conn |-> [s \in Sub |-> None]]
  BY DEF ConnectInit
<1> QED
  BY <1>1, <1>2 DEF ConnectInv, SubsInv, CommittedIsOnTheStream, Live

LEMMA ConnectNextKeepsInv == ConnectInv /\ [ConnectNext]_connectVars => ConnectInv'
<1> SUFFICES ASSUME ConnectInv, [ConnectNext]_connectVars PROVE ConnectInv'
  OBVIOUS
<1>0. SurfaceInv /\ SurfaceInv'
  BY ConnectorKeepsHost DEF ConnectInv
<1> SUFFICES SubsInv' /\ CommittedIsOnTheStream'
  BY <1>0 DEF ConnectInv
<1>1. CASE UNCHANGED <<subs, surfaceVars>>
  BY <1>1, SameSubs DEF surfaceVars, Open
<1>2. ASSUME NEW c \in Conn, Hello(c) \/ Drop(c) PROVE SubsInv' /\ CommittedIsOnTheStream'
  BY <1>2, ForgetKeepsSubs
<1>3. ASSUME NEW c \in Conn, Submit(c) PROVE SubsInv' /\ CommittedIsOnTheStream'
  BY <1>3, SubmitKeepsSubs
<1>4. ASSUME NEW c \in Conn, NEW s \in Sub, View(c, s) \/ Unsubscribe(c, s)
      PROVE  SubsInv' /\ CommittedIsOnTheStream'
  BY <1>4, ViewKeepsSubs, UnsubscribeKeepsSubs
<1>5. ASSUME NEW c \in Conn, Poll(c) \/ Resume(c) PROVE SubsInv' /\ CommittedIsOnTheStream'
  <2>1. \/ UNCHANGED subs
        \/ \E reset : Reinit(c, reset)
    BY <1>5 DEF Poll, Resume
  <2>2. Open(c) /\ UNCHANGED surfaceVars
    BY <1>5 DEF Poll, Resume
  <2> QED
    BY <1>1, <2>1, <2>2, ReinitKeepsSubs
<1>6. ASSUME NEW c \in Conn, ResumeUnknown(c) \/ Receive(c) \/ Cut(c) \/ StartOver(c)
      PROVE  SubsInv' /\ CommittedIsOnTheStream'
  BY <1>1, <1>6 DEF ResumeUnknown, Receive, Cut, StartOver
<1>7. CASE HostMoves
  <2>1. IsSweep
    BY <1>0, <1>7, AdvanceTimeKeepsInv, OperateKeepsInv DEF HostMoves
  <2>2. UNCHANGED <<subs, promised>>
    BY <1>7 DEF HostMoves, AdvanceTime, Operate
  <2> QED
    BY <1>0, <2>1, <2>2, SweepsKeepOpen, SameSubs
<1> QED
  BY <1>1, <1>2, <1>3, <1>4, <1>5, <1>6, <1>7 DEF ConnectNext, connectVars

\* call.rs behind core/mod.rs submit: the host keeps its promises whatever the
\* connector does around it, and its snapshots keep up with them.
THEOREM ConnectorInvariant == ConnectSpec => []ConnectInv
<1> QED
  BY ConnectInitHasInv, ConnectNextKeepsInv, PTL DEF ConnectSpec

\* core/mod.rs reconcile_after_commit: a connection told of a commit has every
\* live subscription's snapshot at that commit or later on its stream.
THEOREM AnswersFollowTheirPatches == ConnectSpec => []CommittedIsOnTheStream
<1>1. ConnectInv => CommittedIsOnTheStream
  BY DEF ConnectInv
<1> QED
  BY <1>1, ConnectorInvariant, PTL

-----------------------------------------------------------------------------
(* What is shown is in the log.                                            *)

\* No connection, subscription or record is at a commit the log lacks.
ConnectionsExist ==
  \A c \in Conn : Open(c) =>
    /\ connections[c].frontier \in 1..Latest
    /\ \A s \in Sub : HasWatch(c, s) => connections[c].watches[s].frontier \in 1..Latest

RecordsExist ==
  \A k \in OperationKey :
    operations[k] # None /\ operations[k].outcome.kind = "committed"
      => operations[k].outcome.commit \in 1..Latest

CommitsExist == ConnectionsExist /\ RecordsExist

\* A sweep goes no further than its target.
LEMMA SweepsReach ==
  ASSUME SurfaceInv, NEW c \in Conn, Open(c), NEW advancing \in BOOLEAN, NEW target \in Nat,
         NEW state, NEW instant, NEW stop
  PROVE  SweptConnection(c, advancing, target, state, instant, stop).frontier
           \in {connections[c].frontier, target}
<1>1. connections[c] \in Connection
  BY DEF SurfaceInv, SurfaceTypes, Open
<1> QED
  BY <1>1 DEF SweptConnection, Later, Connection

LEMMA SweptConnectionsExist ==
  ASSUME SurfaceInv, SurfaceInv', IsSweep, ConnectionsExist, Latest <= Latest',
         NEW target, target \in 1..Latest',
         \A c \in Conn : Open(c) => connections'[c].frontier \in {connections[c].frontier, target}
  PROVE  ConnectionsExist'
<1>1. PICK advancing \in SUBSET Conn, complete \in BOOLEAN : SweepStep(advancing, complete)
  BY DEF IsSweep
<1>2. Latest \in Nat /\ Latest' \in Nat
  BY DEF SurfaceInv, SurfaceTypes, Latest
<1> SUFFICES ASSUME NEW c \in Conn, Open(c)'
             PROVE  /\ connections'[c].frontier \in 1..Latest'
                    /\ \A s \in Sub : connections'[c].watches[s] # None =>
                         connections'[c].watches[s].frontier \in 1..Latest'
  BY DEF ConnectionsExist, HasWatch
<1>3. Open(c)
  BY SweepsKeepOpen
<1>4. connections[c].frontier \in 1..Latest
  BY <1>3 DEF ConnectionsExist
<1>5. connections'[c].frontier \in 1..Latest'
  BY <1>2, <1>3, <1>4
<1>6. PICK t \in Nat :
        SweptTo(c, connections'[c], c \in advancing, t, history'[Latest'], now', complete)
  BY <1>1, <1>3 DEF SweepStep
<1>7. ASSUME NEW s \in Sub, connections'[c].watches[s] # None
      PROVE  connections'[c].watches[s].frontier \in 1..Latest'
  <2>1. /\ connections[c].watches[s] # None
        /\ connections'[c].watches[s].frontier
             \in {connections[c].watches[s].frontier, connections'[c].frontier}
    BY <1>6, <1>7 DEF SweptTo
  <2>2. connections[c].watches[s].frontier \in 1..Latest
    BY <1>3, <2>1 DEF ConnectionsExist, HasWatch
  <2> QED
    BY <1>2, <1>5, <2>1, <2>2
<1> QED
  BY <1>5, <1>7

LEMMA CallCommitsExist ==
  ASSUME SurfaceInv, SurfaceInv', CommitsExist, NEW c \in Conn,
         NEW request \in Request, NEW id \in OpId \cup {None},
         NEW content \in Content, NEW granted \in Grants,
         CallCommits(c, request, id, content, granted)
  PROVE  CommitsExist'
<1> DEFINE key == KeyOf(request, id)
           commit == Latest + 1
           outcome == [kind |-> "committed", commit |-> commit]
           record == [request |-> request, outcome |-> outcome]
<1>1. IsSweep /\ key \in OperationKey \cup {None}
  BY CallCommitsKeepsInv, KeysOfRequests
<1>2. Extend(content, granted, key)
  BY DEF CallCommits
<1>3. PICK stop \in Stops :
        /\ Sweep({c}, commit, history'[commit], now, stop)
        /\ \/ Record(key, request, outcome)
           \/ UNCHANGED operations
  BY DEF CallCommits
<1> HIDE DEF key
<1>4. Latest \in Nat /\ Latest' = commit /\ commit \in 1..Latest' /\ Latest <= Latest'
  <2>1. Latest \in Nat /\ Latest' = Latest + 1
    BY <1>1, <1>2, ExtendKeepsHistory DEF SurfaceInv
  <2> QED
    BY <2>1
<1>5. ASSUME NEW d \in Conn, Open(d)
      PROVE  connections'[d].frontier \in {connections[d].frontier, commit}
  <2>1. connections'[d] = connections[d] \/
        connections'[d] = SweptConnection(d, d \in {c}, commit, history'[commit], now, stop)
    BY <1>3, <1>5 DEF Sweep, Swept
  <2> DEFINE b == d \in {c}
             state == history'[commit]
  <2>2. b \in BOOLEAN /\ commit \in Nat
    BY <1>4
  <2> HIDE DEF b, state, commit
  <2>3. SweptConnection(d, b, commit, state, now, stop).frontier \in {connections[d].frontier, commit}
    BY <1>5, <2>2, SweepsReach
  <2> QED
    BY <2>1, <2>3 DEF b, state
<1>6. ConnectionsExist'
  <2> HIDE DEF commit
  <2> QED
    BY <1>1, <1>4, <1>5, SweptConnectionsExist DEF CommitsExist
<1>7. RecordsExist'
  <2>1. record.outcome = outcome /\ outcome.commit = commit
    OBVIOUS
  <2>2. operations' = operations \/ (key # None /\ operations' = [operations EXCEPT ![key] = record])
    BY <1>3 DEF Record
  <2> HIDE DEF record, outcome, commit
  <2>3. ASSUME NEW k \in OperationKey, operations'[k] # None,
               operations'[k].outcome.kind = "committed"
        PROVE  operations'[k].outcome.commit \in 1..Latest'
    <3>1. operations'[k] = operations[k] \/ operations'[k] = record
      BY <2>2 DEF SurfaceInv, SurfaceTypes
    <3>2. CASE operations'[k] = record
      BY <1>4, <2>1, <3>2
    <3>3. CASE operations'[k] = operations[k]
      <4>1. operations[k].outcome.commit \in 1..Latest
        BY <2>3, <3>3 DEF CommitsExist, RecordsExist
      <4> QED
        BY <1>4, <3>3, <4>1
    <3> QED
      BY <3>1, <3>2, <3>3
  <2> QED
    BY <2>3 DEF RecordsExist
<1> QED
  BY <1>6, <1>7 DEF CommitsExist

LEMMA CallReplaysExist ==
  ASSUME SurfaceInv, SurfaceInv', CommitsExist, NEW c \in Conn,
         NEW request \in Request, NEW id \in OpId \cup {None}, CallReplays(c, request, id)
  PROVE  CommitsExist'
<1> DEFINE key == KeyOf(request, id)
           commit == operations[key].outcome.commit
<1>1. IsSweep /\ UNCHANGED <<history, operations>>
  BY CallReplaysKeepsInv DEF CallReplays
<1>2. PICK stop \in Stops : Sweep({c}, commit, history[Latest], now, stop)
  BY DEF CallReplays
<1>3. key \in OperationKey /\ operations[key] # None /\ operations[key].outcome.kind = "committed"
  BY DEF CallReplays, Retained
<1> HIDE DEF key
<1>4. commit \in 1..Latest /\ Latest \in Nat /\ Latest' = Latest
  BY <1>1, <1>3 DEF CommitsExist, RecordsExist, SurfaceInv, SurfaceTypes, Latest
<1> HIDE DEF commit
<1>5. ASSUME NEW d \in Conn, Open(d)
      PROVE  connections'[d].frontier \in {connections[d].frontier, commit}
  <2>1. connections'[d] = connections[d] \/
        connections'[d] = SweptConnection(d, d \in {c}, commit, history[Latest], now, stop)
    BY <1>2, <1>5 DEF Sweep, Swept
  <2> DEFINE b == d \in {c}
             state == history[Latest]
  <2>2. b \in BOOLEAN /\ commit \in Nat
    BY <1>4
  <2> HIDE DEF b, state
  <2>3. SweptConnection(d, b, commit, state, now, stop).frontier \in {connections[d].frontier, commit}
    BY <1>5, <2>2, SweepsReach
  <2> QED
    BY <2>1, <2>3 DEF b, state
<1>6. ConnectionsExist'
  <2>1. Latest <= Latest' /\ commit \in 1..Latest'
    BY <1>4
  <2> QED
    BY <1>1, <1>5, <2>1, SweptConnectionsExist DEF CommitsExist
<1>7. RecordsExist'
  BY <1>1, <1>4 DEF CommitsExist, RecordsExist
<1> QED
  BY <1>6, <1>7 DEF CommitsExist

LEMMA HostMovesExist ==
  ASSUME SurfaceInv, SurfaceInv', CommitsExist, HostMoves
  PROVE  CommitsExist'
<1>1. IsSweep /\ operations' = operations
  BY AdvanceTimeKeepsInv, OperateKeepsInv DEF HostMoves, AdvanceTime, Operate
<1>2. /\ Latest \in Nat /\ Latest >= 1 /\ Latest <= Latest' /\ Latest' \in Nat
      /\ \A c \in Conn : Open(c) => connections'[c].frontier \in {connections[c].frontier, Latest'}
  <2>0. Latest \in Nat /\ Latest >= 1
    BY DEF SurfaceInv, SurfaceTypes, Latest
  <2>1. CASE AdvanceTime
    <3>1. PICK stop \in Stops : connections' = SweptInPlace(now + 1, stop)
      BY <2>1 DEF AdvanceTime
    <3>2. ASSUME NEW c \in Conn, Open(c) PROVE connections'[c].frontier = connections[c].frontier
      <4> DEFINE target == connections[c].frontier
                 state == history[Latest]
                 instant == now + 1
      <4>1. connections'[c] = connections[c] \/
            connections'[c] = SweptConnection(c, TRUE, target, state, instant, stop)
        BY <3>1, <3>2 DEF SweptInPlace
      <4>2. target \in Nat
        BY <3>2 DEF SurfaceInv, SurfaceTypes, Open, Connection
      <4> HIDE DEF target, state, instant
      <4>3. SweptConnection(c, TRUE, target, state, instant, stop).frontier \in {connections[c].frontier, target}
        BY <3>2, <4>2, SweepsReach
      <4> QED
        BY <4>1, <4>3 DEF target
    <3>3. Latest' = Latest
      BY <2>1 DEF AdvanceTime, Latest
    <3> QED
      BY <2>0, <3>2, <3>3
  <2>2. ASSUME NEW content \in Content, NEW granted \in Grants, Operate(content, granted)
        PROVE  /\ Latest <= Latest' /\ Latest' \in Nat
               /\ \A c \in Conn : Open(c) => connections'[c].frontier \in {connections[c].frontier, Latest'}
    <3> DEFINE commit == Latest + 1
    <3>1. Extend(content, granted, None) /\ \E stop \in Stops : Sweep(Conn, commit, history'[commit], now, stop)
      BY <2>2 DEF Operate
    <3>2. PICK stop \in Stops : Sweep(Conn, commit, history'[commit], now, stop)
      BY <3>1
    <3>3. Latest' = commit /\ commit \in Nat /\ Latest <= commit
      <4>1. Latest' = Latest + 1
        BY <3>1, ExtendKeepsHistory DEF SurfaceInv
      <4> QED
        BY <2>0, <4>1
    <3> HIDE DEF commit
    <3>4. ASSUME NEW c \in Conn, Open(c)
          PROVE  connections'[c].frontier \in {connections[c].frontier, commit}
      <4> DEFINE b == c \in Conn
                 state == history'[commit]
      <4>1. connections'[c] = connections[c] \/
            connections'[c] = SweptConnection(c, b, commit, state, now, stop)
        BY <3>2, <3>4 DEF Sweep, Swept
      <4>2. b \in BOOLEAN
        OBVIOUS
      <4> HIDE DEF b, state
      <4>3. SweptConnection(c, b, commit, state, now, stop).frontier \in {connections[c].frontier, commit}
        BY <3>3, <3>4, <4>2, SweepsReach
      <4> QED
        BY <4>1, <4>3
    <3> QED
      BY <3>3, <3>4
  <2> QED
    BY <2>0, <2>1, <2>2 DEF HostMoves
<1>3. ConnectionsExist'
  <2>1. Latest' \in 1..Latest'
    BY <1>2
  <2> QED
    BY <1>1, <1>2, <2>1, SweptConnectionsExist DEF CommitsExist
<1>4. RecordsExist'
  <2>1. ASSUME NEW k \in OperationKey, operations[k].outcome.commit \in 1..Latest
        PROVE  operations[k].outcome.commit \in 1..Latest'
    BY <1>2, <2>1
  <2> QED
    BY <1>1, <2>1 DEF CommitsExist, RecordsExist
<1> QED
  BY <1>3, <1>4 DEF CommitsExist

LEMMA StepsKeepCommits ==
  ASSUME ConnectInv, CommitsExist, [ConnectNext]_connectVars
  PROVE  CommitsExist'
<1>0. SurfaceInv /\ SurfaceInv'
  BY ConnectorKeepsHost DEF ConnectInv
<1>1. CASE UNCHANGED <<history, connections, operations>>
  BY <1>1 DEF CommitsExist, ConnectionsExist, RecordsExist, HasWatch, Open, Latest
<1>2. ASSUME NEW c \in Conn, Hello(c) PROVE CommitsExist'
  <2>1. PICK b \in BOOLEAN : connections' = [connections EXCEPT ![c] = [Fresh EXCEPT !.bound = b]]
    BY <1>2 DEF Hello
  <2> DEFINE new == [Fresh EXCEPT !.bound = b]
  <2>2. new.frontier = Latest /\ \A s \in Sub : new.watches[s] = None
    BY DEF Fresh
  <2>3. connections' = [connections EXCEPT ![c] = new] /\ UNCHANGED <<history, operations>>
    BY <1>2, <2>1 DEF Hello
  <2> HIDE DEF new
  <2>4. Latest \in 1..Latest
    BY <1>0 DEF SurfaceInv, SurfaceTypes, Latest
  <2>5. ConnectionsExist'
    BY <1>0, <2>2, <2>3, <2>4 DEF CommitsExist, ConnectionsExist, HasWatch, Open, Latest, SurfaceInv, SurfaceTypes
  <2> QED
    BY <2>3, <2>5 DEF CommitsExist, RecordsExist, Latest
<1>3. ASSUME NEW c \in Conn, Drop(c) PROVE CommitsExist'
  BY <1>0, <1>3 DEF Drop, Disconnect, CommitsExist, ConnectionsExist, RecordsExist, HasWatch, Open, Latest,
                    SurfaceInv, SurfaceTypes
<1>4. ASSUME NEW c \in Conn, Submit(c) PROVE CommitsExist'
  <2>1. PICK request \in Request, id \in OpId \cup {None} :
          \/ \E content \in Content, granted \in Grants : CallCommits(c, request, id, content, granted)
          \/ CallReplays(c, request, id)
          \/ \E kind \in {"unchanged", "rejected"} : CallChangesNothing(c, request, id, kind)
    BY <1>4 DEF Submit
  <2>2. ASSUME NEW kind \in {"unchanged", "rejected"}, CallChangesNothing(c, request, id, kind)
        PROVE  CommitsExist'
    <3> DEFINE key == KeyOf(request, id)
               outcome == [kind |-> kind]
               record == [request |-> request, outcome |-> outcome]
    <3>1. /\ UNCHANGED <<history, connections>>
          /\ operations' = operations \/ operations' = [operations EXCEPT ![key] = record]
      BY <2>2 DEF CallChangesNothing, Record
    <3>2. record.outcome = outcome /\ outcome.kind # "committed"
      BY <2>2
    <3> HIDE DEF key, record, outcome
    <3>3. ASSUME NEW k \in OperationKey
          PROVE  operations'[k] = operations[k] \/ operations'[k] = record
      BY <1>0, <3>1 DEF SurfaceInv, SurfaceTypes
    <3>4. RecordsExist'
      BY <3>1, <3>2, <3>3 DEF CommitsExist, RecordsExist, Latest
    <3>5. ConnectionsExist'
      BY <3>1 DEF CommitsExist, ConnectionsExist, HasWatch, Open, Latest
    <3> QED
      BY <3>4, <3>5 DEF CommitsExist
  <2> QED
    BY <1>0, <2>1, <2>2, CallCommitsExist, CallReplaysExist
<1>5. ASSUME NEW c \in Conn, NEW s \in Sub, View(c, s) PROVE CommitsExist'
  <2> DEFINE watch == [frontier |-> connections[c].frontier, at |-> now, closed |-> FALSE]
  <2>1. /\ Open(c) /\ connections' = [connections EXCEPT ![c].watches[s] = watch]
        /\ UNCHANGED <<history, operations>>
    BY <1>5 DEF View, OpenWatch
  <2>2. connections[c] \in Connection /\ connections \in [Conn -> Connection \cup {None}]
    BY <1>0, <2>1 DEF Open, SurfaceInv, SurfaceTypes
  <2>3. watch.frontier = connections[c].frontier /\ connections[c].frontier \in 1..Latest
    BY <2>1 DEF CommitsExist, ConnectionsExist
  <2> HIDE DEF watch
  <2>4. /\ \A d \in Conn : d # c => connections'[d] = connections[d]
        /\ connections'[c] = [connections[c] EXCEPT !.watches[s] = watch]
    BY <2>1, <2>2
  <2>5. /\ connections'[c].frontier = connections[c].frontier
        /\ \A t \in Sub : connections'[c].watches[t] = IF t = s THEN watch ELSE connections[c].watches[t]
    BY <2>2, <2>4 DEF Connection
  <2>6. ASSUME NEW d \in Conn, Open(d)'
        PROVE  /\ connections'[d].frontier \in 1..Latest
               /\ \A t \in Sub : connections'[d].watches[t] # None =>
                    connections'[d].watches[t].frontier \in 1..Latest
    <3>1. CASE d = c
      BY <2>1, <2>3, <2>5, <3>1 DEF CommitsExist, ConnectionsExist, HasWatch
    <3>2. CASE d # c
      BY <2>4, <2>6, <3>2 DEF CommitsExist, ConnectionsExist, HasWatch, Open
    <3> QED
      BY <3>1, <3>2
  <2>7. Latest' = Latest
    BY <2>1 DEF Latest
  <2>8. ConnectionsExist'
    BY <2>6, <2>7 DEF ConnectionsExist, HasWatch
  <2> QED
    BY <2>1, <2>7, <2>8 DEF CommitsExist, RecordsExist
<1>6. ASSUME NEW c \in Conn,
             \/ \E s \in Sub : Unsubscribe(c, s)
             \/ Poll(c) \/ Resume(c) \/ ResumeUnknown(c)
             \/ Receive(c) \/ Cut(c) \/ StartOver(c)
      PROVE  CommitsExist'
  BY <1>1, <1>6 DEF Unsubscribe, Poll, Resume, ResumeUnknown, Receive, Cut, StartOver, surfaceVars
<1>7. CASE HostMoves
  BY <1>0, <1>7, HostMovesExist
<1> QED
  BY <1>1, <1>2, <1>3, <1>4, <1>5, <1>6, <1>7 DEF ConnectNext, connectVars, surfaceVars

\* What a watch at a commit of the log shows can be retained.
LEMMA ShownIsSome ==
  ASSUME NEW host, NEW committed \in Seq(CommitRecord), NEW c, NEW s,
         host[c].watches[s] # None =>
           host[c].watches[s] \in Watch /\ host[c].watches[s].frontier \in 1..Len(committed),
         NEW frontier \in Nat
  PROVE  SubState(Shown(host, committed, c, s), frontier) # None
<1> DEFINE watch == host[c].watches[s]
           rows == Shown(host, committed, c, s)
<1>1. rows \in {Blank} \cup (Content \X Nat)
  <2>1. CASE watch = None \/ watch.closed
    BY <2>1 DEF Shown
  <2>2. CASE ~(watch = None \/ watch.closed)
    <3>1. rows = <<committed[watch.frontier].content, watch.at>>
      BY <2>2 DEF Shown
    <3>2. watch \in Watch /\ watch.frontier \in 1..Len(committed)
      BY <2>2
    <3> HIDE DEF watch, rows
    <3>3. committed[watch.frontier] \in CommitRecord
      BY <3>2
    <3>4. committed[watch.frontier].content \in Content /\ watch.at \in Nat
      BY <3>2, <3>3 DEF CommitRecord, Watch
    <3> QED
      BY <3>1, <3>4
  <2> QED
    BY <2>1, <2>2
<1> HIDE DEF rows
<1>2. SubState(rows, frontier) \in SubStates
  BY <1>1 DEF SubState, SubStates
<1> QED
  BY <1>2, NoneIsNoSub DEF rows

-----------------------------------------------------------------------------
(* The connection's stream.                                                *)

EnqueuedP == INSTANCE SeqFoldProofs WITH Step <- EnqueueNext
PickedP == INSTANCE SeqFoldProofs WITH Step <- PickNext
JoinedP == INSTANCE SeqFoldProofs WITH Step <- JoinNext
DeliveredP == INSTANCE SeqFoldProofs WITH Step <- ApplyNext

(* A log lists, by position, every frame a connection was ever sent.       *)
LoggedAt(L) == {L[k] : k \in Nat}

\* The part of a log from position a up to position b.
Slice(L, a, b) == [i \in 1..(b - a) |-> L[a + i - 1]]

\* q lists n elements of T, the i-th of which is at(i); q is s followed by t.
ListsFrom(q, L, a, n) ==
  q \in Seq(LoggedAt(L)) /\ Len(q) = n /\ \A i \in 1..n : q[i] = L[a + i - 1]

Joins(q, s, t, m, n) ==
  /\ Len(q) = m + n
  /\ \A i \in 1..m : q[i] = s[i]
  /\ \A i \in 1..n : q[m + i] = t[i]

LEMMA SliceLists ==
  ASSUME NEW L, NEW a \in Nat, NEW b \in Nat, a <= b
  PROVE  ListsFrom(Slice(L, a, b), L, a, b - a)
<1> DEFINE n == b - a
<1>1. n \in Nat
  OBVIOUS
<1>2. \A i \in 1..n : a + i - 1 \in Nat
  OBVIOUS
<1>3. \A i \in 1..n : L[a + i - 1] \in LoggedAt(L)
  BY <1>2 DEF LoggedAt
<1>4. [i \in 1..n |-> L[a + i - 1]] \in [1..n -> LoggedAt(L)]
  BY <1>3
<1>5. [i \in 1..n |-> L[a + i - 1]] \in Seq(LoggedAt(L))
  BY <1>1, <1>4
<1> QED
  BY <1>1, <1>5 DEF Slice, ListsFrom

LEMMA SliceIsSeq ==
  ASSUME NEW L, NEW a \in Nat, NEW b \in Nat, a <= b
  PROVE  Slice(L, a, b) \in Seq(LoggedAt(L)) /\ Len(Slice(L, a, b)) = b - a
<1>1. ListsFrom(Slice(L, a, b), L, a, b - a)
  BY SliceLists
<1> QED
  BY <1>1 DEF ListsFrom

LEMMA SameLists ==
  ASSUME NEW L, NEW a, NEW n \in Nat, NEW q, NEW r,
         ListsFrom(q, L, a, n), ListsFrom(r, L, a, n)
  PROVE  q = r
BY DEF ListsFrom

LEMMA SameElements ==
  ASSUME NEW T, NEW s \in Seq(T), NEW t \in Seq(T), Len(s) = Len(t),
         \A i \in 1..Len(s) : s[i] = t[i]
  PROVE  s = t
OBVIOUS

LEMMA Concatenated ==
  ASSUME NEW T, NEW s \in Seq(T), NEW t \in Seq(T), NEW m, NEW n, Len(s) = m, Len(t) = n
  PROVE  s \o t \in Seq(T) /\ Joins(s \o t, s, t, m, n) /\ m \in Nat /\ n \in Nat
BY DEF Joins

LEMMA ListsAppend ==
  ASSUME NEW L, NEW a \in Nat, NEW n \in Nat, NEW q, ListsFrom(q, L, a, n)
  PROVE  ListsFrom(Append(q, L[a + n]), L, a, n + 1)
<1>1. q \in Seq(LoggedAt(L)) /\ Len(q) = n /\ \A i \in 1..n : q[i] = L[a + i - 1]
  BY DEF ListsFrom
<1>2. L[a + n] \in LoggedAt(L)
  BY DEF LoggedAt
<1> QED
  BY <1>1, <1>2 DEF ListsFrom

LEMMA ListsTail ==
  ASSUME NEW L, NEW a \in Nat, NEW n \in Nat, NEW q, ListsFrom(q, L, a, n + 1)
  PROVE  ListsFrom(Tail(q), L, a + 1, n)
<1>1. q \in Seq(LoggedAt(L)) /\ Len(q) = n + 1 /\ \A i \in 1..(n + 1) : q[i] = L[a + i - 1]
  BY DEF ListsFrom
<1>2. Tail(q) \in Seq(LoggedAt(L)) /\ Len(Tail(q)) = n /\ \A i \in 1..n : Tail(q)[i] = q[i + 1]
  BY <1>1
<1>3. ASSUME NEW i \in 1..n PROVE Tail(q)[i] = L[(a + 1) + i - 1]
  BY <1>1, <1>2
<1> QED
  BY <1>2, <1>3 DEF ListsFrom

LEMMA ListsConcat ==
  ASSUME NEW L, NEW a \in Nat, NEW m \in Nat, NEW n \in Nat, NEW q, NEW r,
         ListsFrom(q, L, a, m), ListsFrom(r, L, a + m, n)
  PROVE  ListsFrom(q \o r, L, a, m + n)
<1>1. q \in Seq(LoggedAt(L)) /\ Len(q) = m /\ \A i \in 1..m : q[i] = L[a + i - 1]
  BY DEF ListsFrom
<1>2. r \in Seq(LoggedAt(L)) /\ Len(r) = n /\ \A i \in 1..n : r[i] = L[(a + m) + i - 1]
  BY DEF ListsFrom
<1>3. q \o r \in Seq(LoggedAt(L)) /\ Joins(q \o r, q, r, m, n)
  BY <1>1, <1>2, Concatenated
<1>4. ASSUME NEW i \in 1..(m + n) PROVE (q \o r)[i] = L[a + i - 1]
  <2>1. CASE i <= m
    BY <1>1, <1>3, <2>1 DEF Joins
  <2>2. CASE ~(i <= m)
    <3>1. PICK j \in 1..n : i = m + j
      <4>1. i - m \in 1..n /\ i = m + (i - m)
        BY <2>2
      <4> QED
        BY <4>1
    <3>2. (a + m) + j - 1 = a + i - 1
      BY <3>1
    <3> QED
      BY <1>2, <1>3, <3>1, <3>2 DEF Joins
  <2> QED
    BY <2>1, <2>2
<1> QED
  BY <1>3, <1>4 DEF ListsFrom, Joins

LEMMA SliceAppend ==
  ASSUME NEW L, NEW a \in Nat, NEW b \in Nat, a <= b
  PROVE  Append(Slice(L, a, b), L[b]) = Slice(L, a, b + 1)
<1> DEFINE n == b - a
           d == b + 1
<1>1. n \in Nat /\ b = a + n /\ d \in Nat /\ a <= d /\ d - a = n + 1 /\ n + 1 \in Nat
  OBVIOUS
<1>2. ListsFrom(Slice(L, a, b), L, a, n) /\ ListsFrom(Slice(L, a, d), L, a, d - a)
  <2> HIDE DEF d
  <2> QED
    BY <1>1, SliceLists
<1>3. ListsFrom(Append(Slice(L, a, b), L[a + n]), L, a, n + 1)
  <2> HIDE DEF n
  <2> QED
    BY <1>1, <1>2, ListsAppend
<1>4. ListsFrom(Append(Slice(L, a, b), L[b]), L, a, n + 1) /\ ListsFrom(Slice(L, a, d), L, a, n + 1)
  <2> HIDE DEF n, d
  <2> QED
    BY <1>1, <1>2, <1>3
<1> HIDE DEF n
<1> QED
  BY <1>1, <1>4, SameLists

LEMMA SliceTail ==
  ASSUME NEW L, NEW a \in Nat, NEW b \in Nat, a < b
  PROVE  Tail(Slice(L, a, b)) = Slice(L, a + 1, b)
<1> DEFINE n == b - a - 1
           d == a + 1
<1>1. n \in Nat /\ d \in Nat /\ d <= b /\ a <= b /\ b - d = n /\ b - a = n + 1
  OBVIOUS
<1>2. ListsFrom(Slice(L, a, b), L, a, b - a) /\ ListsFrom(Slice(L, d, b), L, d, b - d)
  <2> HIDE DEF d
  <2> QED
    BY <1>1, SliceLists
<1>3. ListsFrom(Slice(L, a, b), L, a, n + 1) /\ ListsFrom(Slice(L, d, b), L, d, n)
  <2> HIDE DEF n, d
  <2> QED
    BY <1>1, <1>2
<1>4. ListsFrom(Tail(Slice(L, a, b)), L, d, n)
  <2> HIDE DEF n
  <2> QED
    BY <1>1, <1>3, ListsTail
<1> HIDE DEF n, d
<1>5. Tail(Slice(L, a, b)) = Slice(L, d, b)
  BY <1>1, <1>3, <1>4, SameLists
<1> QED
  BY <1>5 DEF d

LEMMA SliceConcat ==
  ASSUME NEW L, NEW a \in Nat, NEW b \in Nat, NEW c \in Nat, a <= b, b <= c
  PROVE  Slice(L, a, b) \o Slice(L, b, c) = Slice(L, a, c)
<1> DEFINE m == b - a
           n == c - b
           k == m + n
<1>1. m \in Nat /\ n \in Nat /\ k \in Nat /\ c - a = k /\ b = a + m /\ a <= c
  OBVIOUS
<1>2. ListsFrom(Slice(L, a, b), L, a, m)
  BY SliceLists
<1>3. ListsFrom(Slice(L, b, c), L, b, n)
  BY SliceLists
<1>4. ListsFrom(Slice(L, a, c), L, a, c - a)
  BY <1>1, SliceLists
<1> HIDE DEF m, n
<1>5. ListsFrom(Slice(L, a, b) \o Slice(L, b, c), L, a, m + n)
  BY <1>1, <1>2, <1>3, ListsConcat
<1>6. ListsFrom(Slice(L, a, b) \o Slice(L, b, c), L, a, k) /\ ListsFrom(Slice(L, a, c), L, a, k)
  BY <1>1, <1>4, <1>5
<1> HIDE DEF k
<1> QED
  BY <1>1, <1>6, SameLists

LEMMA SliceEmpty ==
  ASSUME NEW L, NEW a \in Nat
  PROVE  Slice(L, a, a) = << >>
BY DEF Slice

\* Logs that agree on the positions of a slice.
LEMMA SliceSame ==
  ASSUME NEW L, NEW M, NEW a \in Nat, NEW b \in Nat, \A k \in Nat : k < b => L[k] = M[k]
  PROVE  Slice(L, a, b) = Slice(M, a, b)
<1>1. \A i \in 1..(b - a) : a + i - 1 \in Nat /\ a + i - 1 < b
  OBVIOUS
<1>2. \A i \in 1..(b - a) : L[a + i - 1] = M[a + i - 1]
  BY <1>1
<1> QED
  BY <1>2 DEF Slice

LEMMA ConcatEmpty ==
  ASSUME NEW T, NEW s \in Seq(T)
  PROVE  << >> \o s = s /\ s \o << >> = s
OBVIOUS

LEMMA ConcatTail ==
  ASSUME NEW T, NEW s \in Seq(T), NEW t \in Seq(T), s # << >>
  PROVE  Tail(s \o t) = Tail(s) \o t /\ (s \o t)[1] = s[1] /\ Tail(s) \in Seq(T) /\ s[1] \in T
OBVIOUS

LEMMA ConcatAppend ==
  ASSUME NEW T, NEW s \in Seq(T), NEW t \in Seq(T), NEW x \in T
  PROVE  s \o Append(t, x) = Append(s \o t, x)
<1> DEFINE l == s \o Append(t, x)
           r == Append(s \o t, x)
           m == Len(s)
           n == Len(t)
<1>1. l \in Seq(T) /\ r \in Seq(T) /\ m \in Nat /\ n \in Nat
  OBVIOUS
<1>2. Len(l) = m + n + 1 /\ Len(r) = m + n + 1
  OBVIOUS
<1>3. \A i \in 1..m : l[i] = s[i] /\ r[i] = s[i]
  OBVIOUS
<1>4. \A i \in 1..n : l[m + i] = t[i] /\ r[m + i] = t[i]
  OBVIOUS
<1>5. l[m + n + 1] = x /\ r[m + n + 1] = x
  OBVIOUS
<1> HIDE DEF l, r, m, n
<1>6. ASSUME NEW i \in 1..(m + n + 1) PROVE l[i] = r[i]
  <2>1. CASE i <= m
    <3>1. i \in 1..m
      BY <1>1, <2>1
    <3> QED
      BY <1>3, <3>1
  <2>2. CASE i > m /\ i <= m + n
    <3>1. i - m \in 1..n /\ m + (i - m) = i
      BY <1>1, <2>2
    <3> QED
      BY <1>4, <3>1
  <2>3. CASE i = m + n + 1
    BY <1>5, <2>3
  <2> QED
    BY <1>1, <2>1, <2>2, <2>3
<1>7. l = r
  BY <1>1, <1>2, <1>6, SameElements
<1> QED
  BY <1>7 DEF l, r

LEMMA ConcatAssoc ==
  ASSUME NEW T, NEW s \in Seq(T), NEW t \in Seq(T), NEW u \in Seq(T)
  PROVE  (s \o t) \o u = s \o (t \o u)
<1> DEFINE l == (s \o t) \o u
           r == s \o (t \o u)
           m == Len(s)
           n == Len(t)
           k == Len(u)
<1>1. l \in Seq(T) /\ r \in Seq(T) /\ m \in Nat /\ n \in Nat /\ k \in Nat
  OBVIOUS
<1>2. Len(l) = m + n + k /\ Len(r) = m + n + k
  OBVIOUS
<1>3. \A i \in 1..m : l[i] = s[i] /\ r[i] = s[i]
  OBVIOUS
<1>4. \A i \in 1..n : l[m + i] = t[i] /\ r[m + i] = t[i]
  OBVIOUS
<1>5. \A i \in 1..k : l[m + n + i] = u[i] /\ r[m + n + i] = u[i]
  OBVIOUS
<1> HIDE DEF l, r, m, n, k
<1>6. ASSUME NEW i \in 1..(m + n + k) PROVE l[i] = r[i]
  <2>1. CASE i <= m
    <3>1. i \in 1..m
      BY <1>1, <2>1
    <3> QED
      BY <1>3, <3>1
  <2>2. CASE i > m /\ i <= m + n
    <3>1. i - m \in 1..n /\ m + (i - m) = i
      BY <1>1, <2>2
    <3> QED
      BY <1>4, <3>1
  <2>3. CASE i > m + n
    <3>1. i - (m + n) \in 1..k /\ m + n + (i - (m + n)) = i
      BY <1>1, <2>3
    <3> QED
      BY <1>5, <3>1
  <2> QED
    BY <1>1, <2>1, <2>2, <2>3
<1>7. l = r
  BY <1>1, <1>2, <1>6, SameElements
<1> QED
  BY <1>7 DEF l, r

-----------------------------------------------------------------------------
(* Loops over a sequence.                                                  *)

LEMMA SameStreamFolds ==
  /\ \A a, q, c : Enqueued!Fold(a, q, c) = EnqueuedP!Fold(a, q, c)
  /\ \A a, q, c : Picked!Fold(a, q, c) = PickedP!Fold(a, q, c)
  /\ \A a, q, c : Joined!Fold(a, q, c) = JoinedP!Fold(a, q, c)
  /\ \A a, q, c : Delivered!Fold(a, q, c) = DeliveredP!Fold(a, q, c)
BY DEF Enqueued!Fold, EnqueuedP!Fold, Picked!Fold, PickedP!Fold,
       Joined!Fold, JoinedP!Fold, Delivered!Fold, DeliveredP!Fold

\* A loop over nothing returns its base.
LEMMA EmptyLoops ==
  /\ \A a, c : EnqueueAll(a, c, << >>) = a
  /\ \A a, c : Picked!Fold(a, << >>, c) = a
  /\ \A a, c : Joined!Fold(a, << >>, c) = a
  /\ \A a : AppliedAll(a, << >>) = a
BY SameStreamFolds, EnqueuedP!FoldEmpty, PickedP!FoldEmpty, JoinedP!FoldEmpty, DeliveredP!FoldEmpty
   DEF EnqueueAll, AppliedAll

LEMMA EnqueueOneMore ==
  ASSUME NEW T, NEW q \in Seq(T), NEW x \in T, NEW a, NEW c
  PROVE  EnqueueAll(a, c, Append(q, x)) = Enqueue(EnqueueAll(a, c, q), c, x)
<1>1. EnqueuedP!Fold(a, Append(q, x), c) = EnqueueNext(EnqueuedP!Fold(a, q, c), x, c)
  BY EnqueuedP!FoldAppend
<1> QED
  BY <1>1, SameStreamFolds DEF EnqueueAll, EnqueueNext

LEMMA PickOneMore ==
  ASSUME NEW T, NEW q \in Seq(T), NEW x \in T, NEW a, NEW c
  PROVE  Picked!Fold(a, Append(q, x), c) = PickNext(Picked!Fold(a, q, c), x, c)
<1>1. PickedP!Fold(a, Append(q, x), c) = PickNext(PickedP!Fold(a, q, c), x, c)
  BY PickedP!FoldAppend
<1> QED
  BY <1>1, SameStreamFolds

LEMMA JoinOneMore ==
  ASSUME NEW T, NEW q \in Seq(T), NEW x \in T, NEW a, NEW c
  PROVE  Joined!Fold(a, Append(q, x), c) = Joined!Fold(a, q, c) \o c[x]
<1>1. JoinedP!Fold(a, Append(q, x), c) = JoinNext(JoinedP!Fold(a, q, c), x, c)
  BY JoinedP!FoldAppend
<1> QED
  BY <1>1, SameStreamFolds DEF JoinNext

LEMMA ApplyOneMore ==
  ASSUME NEW T, NEW q \in Seq(T), NEW x \in T, NEW a
  PROVE  AppliedAll(a, Append(q, x)) = Applied(AppliedAll(a, q), x.frame)
<1>1. DeliveredP!Fold(a, Append(q, x), None) = ApplyNext(DeliveredP!Fold(a, q, None), x, None)
  BY DeliveredP!FoldAppend
<1> QED
  BY <1>1, SameStreamFolds DEF AppliedAll, ApplyNext

\* What the filters of the ring pick, when everything from position p on is
\* wanted and before p nothing but members of X.
WantsAll(L, p, b, wanted) == \A k \in Nat : p <= k /\ k < b => L[k] \in wanted

WantsOnly(L, a, p, wanted, X) ==
  \A k \in Nat : a <= k /\ k < p /\ L[k] \in wanted => L[k] \in X

EndsWith(q, X, rest) == \E D \in Seq(X) : q = D \o rest

LEMMA PicksFrom ==
  ASSUME NEW L, NEW a \in Nat, NEW p \in Nat, NEW b \in Nat, a <= p, p <= b,
         NEW wanted, NEW X,
         WantsAll(L, p, b, wanted), WantsOnly(L, a, p, wanted, X)
  PROVE  EndsWith(Picked!Fold(<< >>, Slice(L, a, b), wanted), X, Slice(L, p, b))
<1> SUFFICES \E D \in Seq(X) : Picked!Fold(<< >>, Slice(L, a, b), wanted) = D \o Slice(L, p, b)
  BY DEF EndsWith
<1> USE DEF WantsAll, WantsOnly
<1> DEFINE T == LoggedAt(L)
           picked(k) == Picked!Fold(<< >>, Slice(L, a, k), wanted)
           Good(k) == \E D \in Seq(X) : picked(k) = IF k <= p THEN D ELSE D \o Slice(L, p, k)
           S == {k \in Nat : a <= k /\ k <= b => Good(k)}
<1>1. ASSUME NEW k \in Nat, a <= k, k < b
      PROVE  picked(k + 1) = PickNext(picked(k), L[k], wanted)
  <2>1. Slice(L, a, k) \in Seq(T) /\ L[k] \in T /\ Append(Slice(L, a, k), L[k]) = Slice(L, a, k + 1)
    BY <1>1, SliceIsSeq, SliceAppend DEF LoggedAt
  <2>2. Picked!Fold(<< >>, Append(Slice(L, a, k), L[k]), wanted) = PickNext(picked(k), L[k], wanted)
    <3> DEFINE q == Slice(L, a, k)
               x == L[k]
    <3>1. q \in Seq(T) /\ x \in T
      BY <2>1
    <3> HIDE DEF T, q, x
    <3>2. Picked!Fold(<< >>, Append(q, x), wanted) = PickNext(Picked!Fold(<< >>, q, wanted), x, wanted)
      BY <3>1, PickOneMore
    <3> QED
      BY <3>2 DEF q, x
  <2> QED
    BY <2>1, <2>2
<1>2. picked(a) = << >>
  BY SliceEmpty, EmptyLoops
<1> HIDE DEF picked
<1>3. 0 \in S
  <2>1. << >> \in Seq(X)
    OBVIOUS
  <2>2. a <= 0 => Good(0)
    <3>1. a <= 0 => picked(0) = << >>
      BY <1>2
    <3>2. 0 <= p
      OBVIOUS
    <3> QED
      BY <2>1, <3>1, <3>2
  <2> HIDE DEF Good
  <2> QED
    BY <2>2
<1>4. ASSUME NEW k \in Nat, k \in S PROVE k + 1 \in S
  <2> SUFFICES ASSUME a <= k + 1, k + 1 <= b PROVE Good(k + 1)
    <3> HIDE DEF Good
    <3> QED
      OBVIOUS
  <2>1. CASE a = k + 1
    <3>1. << >> \in Seq(X) /\ picked(k + 1) = << >> /\ k + 1 <= p
      BY <1>2, <2>1
    <3> QED
      BY <3>1
  <2>2. CASE a <= k
    <3>1. PICK D \in Seq(X) : picked(k) = IF k <= p THEN D ELSE D \o Slice(L, p, k)
      BY <1>4, <2>2
    <3>2. picked(k + 1) = PickNext(picked(k), L[k], wanted)
      BY <1>1, <2>2
    <3>3. CASE k < p
      <4>1. picked(k) = D /\ (L[k] \in wanted => L[k] \in X)
        BY <2>2, <3>1, <3>3
      <4>2. CASE L[k] \in wanted
        <5>1. Append(D, L[k]) \in Seq(X) /\ picked(k + 1) = Append(D, L[k]) /\ k + 1 <= p
          BY <3>2, <3>3, <4>1, <4>2 DEF PickNext
        <5> QED
          BY <5>1
      <4>3. CASE L[k] \notin wanted
        <5>1. picked(k + 1) = D /\ k + 1 <= p
          BY <3>2, <3>3, <4>1, <4>3 DEF PickNext
        <5> QED
          BY <5>1
      <4> QED
        BY <4>2, <4>3
    <3>4. CASE p <= k
      <4>1. picked(k) = D \o Slice(L, p, k)
        <5>1. CASE k <= p
          <6>1. k = p /\ Slice(L, p, p) = << >>
            BY <3>4, <5>1, SliceEmpty
          <6>2. D \o << >> = D
            BY ConcatEmpty
          <6> QED
            BY <3>1, <6>1, <6>2
        <5> QED
          BY <3>1, <5>1
      <4>2. picked(k + 1) = Append(D \o Slice(L, p, k), L[k])
        <5>1. L[k] \in wanted
          BY <3>4
        <5> QED
          BY <3>2, <4>1, <5>1 DEF PickNext
      <4> DEFINE U == X \cup LoggedAt(L)
      <4>3. D \in Seq(U) /\ Slice(L, p, k) \in Seq(U) /\ L[k] \in U
        <5>1. Slice(L, p, k) \in Seq(LoggedAt(L))
          BY <3>4, SliceIsSeq
        <5> QED
          BY <5>1 DEF LoggedAt
      <4>4. D \o Append(Slice(L, p, k), L[k]) = Append(D \o Slice(L, p, k), L[k])
        <5> HIDE DEF U
        <5> QED
          BY <4>3, ConcatAppend
      <4>5. Append(Slice(L, p, k), L[k]) = Slice(L, p, k + 1)
        BY <3>4, SliceAppend
      <4>6. picked(k + 1) = D \o Slice(L, p, k + 1) /\ ~(k + 1 <= p)
        <5>1. ~(k + 1 <= p)
          BY <3>4
        <5> QED
          BY <4>2, <4>4, <4>5, <5>1
      <4> QED
        BY <4>6
    <3> QED
      BY <3>3, <3>4
  <2> QED
    BY <2>1, <2>2
<1> HIDE DEF S
<1>5. Nat \subseteq S
  BY <1>3, <1>4, PickedP!NatSetInduction
<1>6. PICK D \in Seq(X) : picked(b) = IF b <= p THEN D ELSE D \o Slice(L, p, b)
  <2>1. b \in S /\ a <= b
    BY <1>5
  <2> QED
    BY <2>1 DEF S
<1>7. picked(b) = D \o Slice(L, p, b)
  <2>1. CASE b <= p
    <3>1. b = p /\ Slice(L, p, p) = << >> /\ D \o << >> = D
      BY <2>1, SliceEmpty, ConcatEmpty
    <3> QED
      BY <1>6, <3>1
  <2> QED
    BY <1>6, <2>1
<1> QED
  BY <1>7 DEF picked

-----------------------------------------------------------------------------
(* What a frame does to a replica.                                         *)

IsReplica(r) == r = [s \in Sub |-> r[s]]

\* A frame about subscription s; a reset is about all of them.
IsFrameOf(s, f) ==
  \/ f = CloseFrame(s)
  \/ \E rows : f = InitFrame(s, rows)
  \/ \E base, rows : f = PatchFrame(s, base, rows)

IsFrame(f) == f = ResetFrame \/ \E s \in Sub : IsFrameOf(s, f)

\* What subscription s holds once it took frame f about it.
Taken(x, f) ==
  CASE f.kind = "close" -> Closed
    [] f.kind \in {"init", "scalar"} -> IF x = Closed THEN x ELSE Holding(f.rows)
    [] f.kind = "patch" -> IF x = Holding(f.base) THEN Holding(f.rows) ELSE x

\* A patch on another base than the one it was computed from.
Strays(x, f) == f.kind = "patch" /\ x \notin {Holding(f.base), Closed}

LEMMA FrameTaken ==
  ASSUME NEW r, IsReplica(r), NEW s \in Sub, NEW f, IsFrameOf(s, f)
  PROVE  /\ Applied(r, f) = [r EXCEPT ![s] = Taken(r[s], f)]
         /\ IsReplica(Applied(r, f))
         /\ Misfits(r, f) = Strays(r[s], f)
         /\ f.sub = s
<1> DEFINE same(x) == [r EXCEPT ![s] = x]
<1>1. r = [r EXCEPT ![s] = r[s]]
  BY DEF IsReplica
<1>2. ASSUME NEW x PROVE IsReplica([r EXCEPT ![s] = x])
  BY DEF IsReplica
<1>3. CASE f = CloseFrame(s)
  <2>1. f.kind = "close" /\ f.sub = s
    BY <1>3 DEF CloseFrame
  <2>2. Applied(r, f) = [r EXCEPT ![s] = Closed] /\ Taken(r[s], f) = Closed
    BY <2>1 DEF Applied, Taken
  <2> QED
    BY <1>2, <2>1, <2>2 DEF Misfits, Strays
<1>4. ASSUME NEW rows, f = InitFrame(s, rows)
      PROVE  /\ Applied(r, f) = [r EXCEPT ![s] = Taken(r[s], f)]
             /\ Misfits(r, f) = Strays(r[s], f) /\ f.sub = s
  <2>1. f.kind \in {"init", "scalar"} /\ f.sub = s /\ f.rows = rows
    BY <1>4 DEF InitFrame
  <2>2. Applied(r, f) = IF r[s] = Closed THEN r ELSE [r EXCEPT ![s] = Holding(rows)]
    BY <2>1 DEF Applied
  <2>3. Taken(r[s], f) = IF r[s] = Closed THEN r[s] ELSE Holding(rows)
    BY <2>1 DEF Taken
  <2> QED
    BY <1>1, <2>1, <2>2, <2>3 DEF Misfits, Strays
<1>5. ASSUME NEW base, NEW rows, f = PatchFrame(s, base, rows)
      PROVE  /\ Applied(r, f) = [r EXCEPT ![s] = Taken(r[s], f)]
             /\ Misfits(r, f) = Strays(r[s], f) /\ f.sub = s
  <2>1. f.kind = "patch" /\ f.sub = s /\ f.rows = rows /\ f.base = base
    BY <1>5 DEF PatchFrame
  <2>2. Applied(r, f) = IF r[s] = Holding(base) THEN [r EXCEPT ![s] = Holding(rows)] ELSE r
    BY <2>1 DEF Applied
  <2>3. Taken(r[s], f) = IF r[s] = Holding(base) THEN Holding(rows) ELSE r[s]
    BY <2>1 DEF Taken
  <2> QED
    BY <1>1, <2>1, <2>2, <2>3 DEF Misfits, Strays
<1> QED
  BY <1>2, <1>3, <1>4, <1>5 DEF IsFrameOf

LEMMA ResetTaken ==
  /\ \A r : Applied(r, ResetFrame) = EmptyReplica /\ ~Misfits(r, ResetFrame)
  /\ IsReplica(EmptyReplica)
BY DEF Applied, Misfits, ResetFrame, EmptyReplica, IsReplica

\* Replica r shows what `old` shows, except for what it has closed.
Covers(r, old) == \A s \in Sub : r[s] \in {old[s], Closed}

LEMMA FramesKeepCover ==
  ASSUME NEW r, NEW old, IsReplica(r), IsReplica(old), Covers(r, old), NEW f, IsFrame(f),
         ~Misfits(old, f)
  PROVE  /\ ~Misfits(r, f)
         /\ IsReplica(Applied(r, f)) /\ IsReplica(Applied(old, f))
         /\ Covers(Applied(r, f), Applied(old, f))
<1>1. CASE f = ResetFrame
  BY <1>1, ResetTaken DEF Covers
<1>2. ASSUME NEW s \in Sub, IsFrameOf(s, f)
      PROVE  /\ ~Misfits(r, f)
             /\ IsReplica(Applied(r, f)) /\ IsReplica(Applied(old, f))
             /\ Covers(Applied(r, f), Applied(old, f))
  <2>1. /\ Applied(r, f) = [r EXCEPT ![s] = Taken(r[s], f)]
        /\ IsReplica(Applied(r, f)) /\ Misfits(r, f) = Strays(r[s], f)
    BY <1>2, FrameTaken
  <2>2. /\ Applied(old, f) = [old EXCEPT ![s] = Taken(old[s], f)]
        /\ IsReplica(Applied(old, f)) /\ Misfits(old, f) = Strays(old[s], f)
    BY <1>2, FrameTaken
  <2>3. ~Strays(old[s], f) /\ r[s] \in {old[s], Closed}
    BY <2>2 DEF Covers
  <2>4. f.kind \in {"close", "init", "scalar", "patch"}
    BY <1>2 DEF IsFrameOf, CloseFrame, InitFrame, PatchFrame
  <2>5. ~Strays(r[s], f) /\ Taken(r[s], f) \in {Taken(old[s], f), Closed}
    <3>1. CASE f.kind = "close"
      BY <3>1 DEF Taken, Strays
    <3>2. CASE f.kind \in {"init", "scalar"}
      BY <2>3, <3>2 DEF Taken, Strays
    <3>3. CASE f.kind = "patch"
      BY <2>3, <3>3 DEF Taken, Strays
    <3> QED
      BY <2>4, <3>1, <3>2, <3>3
  <2>6. Covers([r EXCEPT ![s] = Taken(r[s], f)], [old EXCEPT ![s] = Taken(old[s], f)])
    BY <2>5 DEF Covers, IsReplica
  <2> QED
    BY <2>1, <2>2, <2>5, <2>6
<1> QED
  BY <1>1, <1>2 DEF IsFrame

\* A close that comes twice changes nothing else.
LEMMA ClosesKeepCover ==
  ASSUME NEW r, NEW old, IsReplica(r), Covers(r, old), NEW s \in Sub
  PROVE  /\ ~Misfits(r, CloseFrame(s))
         /\ IsReplica(Applied(r, CloseFrame(s)))
         /\ Covers(Applied(r, CloseFrame(s)), old)
<1> DEFINE f == CloseFrame(s)
<1>1. IsFrameOf(s, f) /\ f.kind = "close"
  BY DEF IsFrameOf, CloseFrame
<1> HIDE DEF f
<1>2. /\ Applied(r, f) = [r EXCEPT ![s] = Taken(r[s], f)]
      /\ IsReplica(Applied(r, f)) /\ Misfits(r, f) = Strays(r[s], f)
  BY <1>1, FrameTaken
<1>3. Taken(r[s], f) = Closed /\ ~Strays(r[s], f)
  BY <1>1 DEF Taken, Strays
<1>4. Covers([r EXCEPT ![s] = Closed], old)
  BY DEF Covers, IsReplica
<1>5. ~Misfits(r, f) /\ IsReplica(Applied(r, f)) /\ Covers(Applied(r, f), old)
  BY <1>2, <1>3, <1>4
<1> QED
  BY <1>5 DEF f

-----------------------------------------------------------------------------
(* The subscription ids.                                                   *)

\* The ids of a finite set of subscriptions can be listed in order.
LEMMA SubsAreOrdered ==
  /\ Cardinality(Sub) \in Nat
  /\ Ordered \in [1..Cardinality(Sub) -> Sub]
  /\ \A i, j \in 1..Cardinality(Sub) : Ordered[i] = Ordered[j] => i = j
  /\ \A s \in Sub : \E i \in 1..Cardinality(Sub) : Ordered[i] = s
<1> DEFINE n == Cardinality(Sub)
           upto(s) == {t \in Sub : t <= s}
           rank == [s \in Sub |-> Cardinality(upto(s))]
           Rising(ids) == \A i, j \in DOMAIN ids : i < j => ids[i] < ids[j]
<1>1. IsFiniteSet(Sub) /\ Sub \subseteq Nat /\ n \in Nat
  BY StreamParameters, SurfaceIds, FS_CardinalityType
<1>2. ASSUME NEW s \in Sub
      PROVE  /\ upto(s) \in SUBSET Sub /\ IsFiniteSet(upto(s))
             /\ rank[s] \in 1..n
  <2>1. upto(s) \in SUBSET Sub /\ s \in upto(s)
    BY <1>1
  <2>2. IsFiniteSet(upto(s)) /\ Cardinality(upto(s)) <= n
    BY <1>1, <2>1, FS_Subset
  <2>3. Cardinality(upto(s)) \in Nat /\ Cardinality(upto(s)) # 0
    BY <2>1, <2>2, FS_CardinalityType, FS_EmptySet
  <2> QED
    BY <1>1, <2>1, <2>2, <2>3
<1>3. ASSUME NEW s \in Sub, NEW t \in Sub, s < t
      PROVE  rank[s] < rank[t]
  <2>1. upto(s) \in SUBSET upto(t) /\ t \in upto(t) /\ t \notin upto(s)
    <3>1. s \in Nat /\ t \in Nat /\ \A u \in Sub : u \in Nat
      BY <1>1
    <3>2. \A u \in Sub : u <= s => u <= t
      BY <1>3, <3>1
    <3>3. s <= t /\ t <= t /\ ~(t <= s)
      BY <1>3, <3>1
    <3> QED
      BY <3>2, <3>3
  <2>2. /\ Cardinality(upto(s)) <= Cardinality(upto(t))
        /\ Cardinality(upto(s)) # Cardinality(upto(t))
    BY <1>2, <2>1, FS_Subset
  <2>3. rank[s] \in 1..n /\ rank[t] \in 1..n
    BY <1>2
  <2> QED
    BY <1>1, <2>2, <2>3
<1>4. rank \in Injection(Sub, 1..n)
  <2>1. rank \in [Sub -> 1..n]
    BY <1>2
  <2>2. \A s, t \in Sub : rank[s] = rank[t] => s = t
    <3> SUFFICES ASSUME NEW s \in Sub, NEW t \in Sub, s # t PROVE rank[s] # rank[t]
      OBVIOUS
    <3>1. s < t \/ t < s
      BY <1>1
    <3>2. rank[s] < rank[t] \/ rank[t] < rank[s]
      <4> HIDE DEF rank
      <4> QED
        BY <1>3, <3>1
    <3>3. rank[s] \in Nat /\ rank[t] \in Nat
      BY <1>2
    <3> HIDE DEF rank
    <3> QED
      BY <3>2, <3>3
  <2> HIDE DEF rank
  <2> QED
    BY <2>1, <2>2 DEF Injection, IsInjective
<1>5. IsFiniteSet(1..n) /\ Cardinality(1..n) = n
  BY <1>1, FS_Interval
<1>6. \A i \in 1..n : \E s \in Sub : rank[s] = i
  <2>1. rank \in Surjection(Sub, 1..n)
    <3> HIDE DEF rank
    <3> QED
      BY <1>1, <1>4, <1>5, FS_Injection
  <2> HIDE DEF rank
  <2> QED
    BY <2>1 DEF Surjection
<1> DEFINE ids == [i \in 1..n |-> CHOOSE s \in Sub : rank[s] = i]
<1>7. ids \in [1..n -> Sub] /\ \A i \in 1..n : rank[ids[i]] = i
  <2> HIDE DEF rank
  <2> QED
    BY <1>6
<1>8. Rising(ids)
  <2> SUFFICES ASSUME NEW i \in 1..n, NEW j \in 1..n, i < j PROVE ids[i] < ids[j]
    OBVIOUS
  <2>1. ids[i] \in Sub /\ ids[j] \in Sub /\ rank[ids[i]] = i /\ rank[ids[j]] = j
    BY <1>7
  <2> DEFINE x == ids[i]
             y == ids[j]
  <2>2. x \in Sub /\ y \in Sub /\ rank[x] < rank[y]
    BY <2>1
  <2>3. rank[x] \in Nat /\ rank[y] \in Nat
    BY <2>1
  <2> HIDE DEF ids, rank, x, y
  <2>4. ~(y < x) /\ x # y
    BY <1>3, <2>2, <2>3
  <2>5. x \in Nat /\ y \in Nat
    BY <1>1, <2>2
  <2>6. x < y
    BY <2>4, <2>5
  <2> QED
    BY <2>6 DEF x, y
<1>9. Ordered \in [1..n -> Sub] /\ Rising(Ordered)
  <2> HIDE DEF ids
  <2> QED
    BY <1>7, <1>8 DEF Ordered
<1>10. \A i, j \in 1..n : Ordered[i] = Ordered[j] => i = j
  <2> SUFFICES ASSUME NEW i \in 1..n, NEW j \in 1..n, i # j PROVE Ordered[i] # Ordered[j]
    OBVIOUS
  <2>1. Ordered[i] \in Nat /\ Ordered[j] \in Nat
    BY <1>1, <1>9
  <2>2. Ordered[i] < Ordered[j] \/ Ordered[j] < Ordered[i]
    <3>1. i < j \/ j < i
      BY <1>1
    <3> QED
      BY <1>9, <3>1
  <2> QED
    BY <2>1, <2>2
<1>11. \A s \in Sub : \E i \in 1..n : Ordered[i] = s
  <2>1. Ordered \in Injection(1..n, Sub)
    BY <1>9, <1>10 DEF Injection, IsInjective
  <2>2. Ordered \in Surjection(1..n, Sub)
    BY <1>1, <1>5, <2>1, FS_Injection
  <2> QED
    BY <2>2 DEF Surjection
<1> QED
  BY <1>1, <1>9, <1>10, <1>11

-----------------------------------------------------------------------------
(* The log behind a ring.                                                  *)

\* Everything a connection was sent, as the ring emitted it.
IsLog(L) ==
  /\ L = [k \in Nat |-> L[k]]
  /\ \A k \in Nat : /\ L[k] = [seq |-> L[k].seq, frame |-> L[k].frame, pos |-> k]
                    /\ L[k].seq \in Nat /\ IsFrame(L[k].frame)

\* The replicas a client that read the log from base on would have held.
IsRun(R, L, base, end) ==
  /\ R = [k \in Nat |-> R[k]]
  /\ \A k \in Nat : IsReplica(R[k])
  /\ \A k \in Nat : base <= k /\ k < end =>
       ~Misfits(R[k], L[k].frame) /\ R[k + 1] = Applied(R[k], L[k].frame)

\* The ring holds the end of the log, what is undelivered included unless it
\* overflowed.
IsRing(out, L, cursor, end) ==
  /\ out = [ring |-> out.ring, next_pos |-> end, cursor |-> cursor,
            evicted_through |-> out.evicted_through, overflow |-> out.overflow]
  /\ out.overflow \in BOOLEAN
  /\ cursor <= end
  /\ \E first \in Nat : /\ first <= end /\ out.ring = Slice(L, first, end)
                        /\ first = end => end = 0
                        /\ end - first <= Capacity
                        /\ ~out.overflow => first <= cursor

\* A ring over log L, whose reader would hold one of W[s] of each s.
Logged(out, L, R, base, cursor, end, W) ==
  /\ IsLog(L) /\ IsRun(R, L, base, end) /\ base <= end
  /\ IsRing(out, L, cursor, end)
  /\ \A s \in Sub : R[end][s] \in W[s]

\* Log M and its run go on from L and R at position n.
Continues(M, Q, L, R, n) ==
  /\ \A k \in Nat : k < n => M[k] = L[k]
  /\ \A k \in Nat : k <= n => Q[k] = R[k]

LEMMA EnqueueRing ==
  ASSUME NEW out, NEW L, NEW cursor \in Nat, NEW end \in Nat, IsRing(out, L, cursor, end),
         NEW M, \A k \in Nat : k < end => M[k] = L[k],
         NEW seq, NEW frame, M[end] = [seq |-> seq, frame |-> frame, pos |-> end],
         \A k \in Nat : k < end => M[k].pos = k
  PROVE  /\ IsRing(Enqueue(out, seq, frame), M, cursor, end + 1)
         /\ ~out.overflow /\ end < cursor + Capacity => ~Enqueue(out, seq, frame).overflow
<1> DEFINE next == end + 1
           new == Enqueue(out, seq, frame)
           pushed == Append(out.ring, [seq |-> seq, frame |-> frame, pos |-> out.next_pos])
           full == Len(pushed) > Capacity
<1>1. PICK first \in Nat : /\ first <= end /\ out.ring = Slice(L, first, end)
                           /\ first = end => end = 0
                           /\ end - first <= Capacity
                           /\ ~out.overflow => first <= cursor
  BY DEF IsRing
<1>2. /\ out.next_pos = end /\ out.cursor = cursor /\ cursor <= end /\ out.overflow \in BOOLEAN
  <2> DEFINE o == [ring |-> out.ring, next_pos |-> end, cursor |-> cursor,
                   evicted_through |-> out.evicted_through, overflow |-> out.overflow]
  <2>1. out = o
    BY DEF IsRing
  <2>2. o.next_pos = end /\ o.cursor = cursor
    OBVIOUS
  <2> HIDE DEF o
  <2> QED
    BY <2>1, <2>2 DEF IsRing
<1>3. pushed = Slice(M, first, next)
  <2>1. Slice(L, first, end) = Slice(M, first, end)
    BY SliceSame
  <2>2. Append(Slice(M, first, end), M[end]) = Slice(M, first, next)
    BY <1>1, SliceAppend
  <2> QED
    BY <1>1, <1>2, <2>1, <2>2
<1>4. next \in Nat /\ first < next
  BY <1>1
<1>5. Len(pushed) = next - first /\ pushed[1].pos = first
  <2> HIDE DEF next
  <2>1. ListsFrom(Slice(M, first, next), M, first, next - first)
    BY <1>4, SliceLists
  <2>2. 1 \in 1..(next - first) /\ first + 1 - 1 = first
    BY <1>4
  <2>3. Len(pushed) = next - first /\ pushed[1] = M[first]
    BY <1>3, <2>1, <2>2 DEF ListsFrom
  <2>4. M[first].pos = first
    BY <1>1 DEF next
  <2> QED
    BY <2>3, <2>4
<1> DEFINE from == IF full THEN first + 1 ELSE first
<1>6. full = (next - first > Capacity)
  BY <1>5
<1>7. /\ new = [ring |-> IF full THEN Tail(pushed) ELSE pushed,
                next_pos |-> next, cursor |-> cursor,
                evicted_through |-> new.evicted_through,
                overflow |-> out.overflow \/ (full /\ pushed[1].pos >= cursor)]
  BY <1>2 DEF Enqueue
<1> HIDE DEF new, pushed, full
<1>8. new.ring = Slice(M, from, next)
  <2>1. new.ring = IF full THEN Tail(pushed) ELSE pushed
    BY <1>7
  <2>2. Tail(Slice(M, first, next)) = Slice(M, first + 1, next)
    <3> HIDE DEF next
    <3> QED
      BY <1>4, SliceTail
  <2> QED
    BY <1>3, <2>1, <2>2
<1> DEFINE behind == first < cursor
<1>9. new.overflow = (out.overflow \/ (full /\ ~behind))
  <2>1. (first >= cursor) = ~behind
    BY <1>1
  <2>2. new.overflow = (out.overflow \/ (full /\ first >= cursor))
    BY <1>5, <1>7
  <2> HIDE DEF behind
  <2> QED
    BY <2>1, <2>2
<1>10. /\ from \in Nat /\ from <= next /\ from # next /\ next - from <= Capacity
       /\ ~new.overflow => from <= cursor
  <2>1. Capacity \in Nat /\ Capacity > 0
    BY CapacityIsPositive
  <2>2. CASE full
    <3>1. next - first > Capacity /\ from = first + 1
      BY <1>6, <2>2
    <3>2. ~new.overflow => first < cursor
      <4> HIDE DEF behind
      <4>1. ~new.overflow => behind
        BY <1>9, <2>2
      <4> QED
        BY <4>1 DEF behind
    <3> QED
      BY <1>1, <2>1, <3>1, <3>2
  <2>3. CASE ~full
    <3>1. ~(next - first > Capacity) /\ from = first
      BY <1>6, <2>3
    <3>2. ~new.overflow => ~out.overflow
      BY <1>9
    <3> QED
      BY <1>1, <1>4, <2>1, <3>1, <3>2
  <2> QED
    BY <2>2, <2>3
<1>11. ~out.overflow /\ end < cursor + Capacity => ~new.overflow
  <2>1. Capacity \in Nat
    BY CapacityIsPositive
  <2>2. end < cursor + Capacity /\ full => behind
    <3>1. end < cursor + Capacity /\ next - first > Capacity => first < cursor
      BY <1>1, <2>1
    <3> QED
      BY <1>6, <3>1
  <2> HIDE DEF behind
  <2> QED
    BY <1>9, <2>2
<1>12. IsRing(new, M, cursor, next)
  <2>1. /\ new.ring = IF full THEN Tail(pushed) ELSE pushed
        /\ new.overflow = (out.overflow \/ (full /\ pushed[1].pos >= cursor))
    BY <1>7
  <2>2. new = [ring |-> new.ring, next_pos |-> next, cursor |-> cursor,
               evicted_through |-> new.evicted_through, overflow |-> new.overflow]
    BY <1>7, <2>1
  <2>3. new.overflow \in BOOLEAN
    BY <1>9
  <2>4. cursor <= next
    BY <1>2
  <2>5. from = next => next = 0
    BY <1>10
  <2> HIDE DEF from, next
  <2> QED
    BY <1>8, <1>10, <2>2, <2>3, <2>4, <2>5 DEF IsRing
<1> QED
  BY <1>11, <1>12 DEF new
-----------------------------------------------------------------------------
(* Frames enqueued go on the log.                                          *)

\* The log and its run, with one frame more.
Pushed(L, end, seq, frame) ==
  [k \in Nat |-> IF k = end THEN [seq |-> seq, frame |-> frame, pos |-> end] ELSE L[k]]

RunOn(R, end, frame) ==
  [k \in Nat |-> IF k = end + 1 THEN Applied(R[end], frame) ELSE R[k]]

\* The part a reader at one of W[s] of each s cannot strand on.
Leads(f, r, V) ==
  ~Misfits(r, f) /\ IsReplica(Applied(r, f)) /\ \A s \in Sub : Applied(r, f)[s] \in V[s]

LEMMA EnqueueLogs ==
  ASSUME NEW out, NEW L, NEW R, NEW W, NEW V,
         NEW base \in Nat, NEW cursor \in Nat, NEW end \in Nat,
         Logged(out, L, R, base, cursor, end, W),
         NEW seq \in Nat, NEW f, IsFrame(f), Leads(f, R[end], V)
  PROVE  LET M == Pushed(L, end, seq, f)
             Q == RunOn(R, end, f)
             new == Enqueue(out, seq, f)
         IN  /\ Logged(new, M, Q, base, cursor, end + 1, V)
             /\ Continues(M, Q, L, R, end)
             /\ M[end].frame = f
             /\ ~out.overflow /\ end < cursor + Capacity => ~new.overflow
<1> DEFINE M == Pushed(L, end, seq, f)
           Q == RunOn(R, end, f)
           new == Enqueue(out, seq, f)
           next == end + 1
<1>1. IsLog(L) /\ IsRun(R, L, base, end) /\ base <= end /\ IsRing(out, L, cursor, end)
  BY DEF Logged
<1>2. /\ M[end] = [seq |-> seq, frame |-> f, pos |-> end]
      /\ \A k \in Nat : k # end => M[k] = L[k]
      /\ M = [k \in Nat |-> M[k]]
  BY DEF Pushed
<1>3. /\ Q[next] = Applied(R[end], f)
      /\ \A k \in Nat : k # next => Q[k] = R[k]
      /\ Q = [k \in Nat |-> Q[k]]
  BY DEF RunOn
<1> HIDE DEF M, Q
<1>4. IsLog(M)
  <2>1. ASSUME NEW k \in Nat
        PROVE  /\ M[k] = [seq |-> M[k].seq, frame |-> M[k].frame, pos |-> k]
               /\ M[k].seq \in Nat /\ IsFrame(M[k].frame)
    <3>1. CASE k = end
      BY <1>2, <3>1
    <3>2. CASE k # end
      BY <1>1, <1>2, <3>2 DEF IsLog
    <3> QED
      BY <3>1, <3>2
  <2> QED
    BY <1>2, <2>1 DEF IsLog
<1>5. next \in Nat /\ base <= next
  BY <1>1
<1>6. IsRun(Q, M, base, next)
  <2>1. ASSUME NEW k \in Nat PROVE IsReplica(Q[k])
    BY <1>1, <1>3 DEF IsRun, Leads
  <2>2. ASSUME NEW k \in Nat, base <= k, k < next
        PROVE  ~Misfits(Q[k], M[k].frame) /\ Q[k + 1] = Applied(Q[k], M[k].frame)
    <3>1. CASE k = end
      <4>1. M[k].frame = f /\ Q[k] = R[end] /\ Q[k + 1] = Applied(R[end], f)
        BY <1>2, <1>3, <3>1
      <4> QED
        BY <4>1 DEF Leads
    <3>2. CASE k < end
      <4>1. k # end /\ k # next /\ k + 1 # next /\ k + 1 \in Nat
        BY <3>2
      <4>2. M[k] = L[k] /\ Q[k] = R[k] /\ Q[k + 1] = R[k + 1]
        <5> HIDE DEF next
        <5> QED
          BY <1>2, <1>3, <4>1
      <4>3. ~Misfits(R[k], L[k].frame) /\ R[k + 1] = Applied(R[k], L[k].frame)
        BY <1>1, <2>2, <3>2 DEF IsRun
      <4> QED
        BY <4>2, <4>3
    <3> QED
      BY <2>2, <3>1, <3>2
  <2> QED
    BY <1>3, <2>1, <2>2 DEF IsRun
<1>7. Continues(M, Q, L, R, end)
  <2>1. \A k \in Nat : k < end => M[k] = L[k]
    BY <1>2
  <2>2. \A k \in Nat : k <= end => Q[k] = R[k]
    BY <1>3
  <2> QED
    BY <2>1, <2>2 DEF Continues
<1>8. /\ IsRing(new, M, cursor, next)
      /\ ~out.overflow /\ end < cursor + Capacity => ~new.overflow
  <2>1. \A k \in Nat : k < end => M[k] = L[k]
    BY <1>2
  <2>2. \A k \in Nat : k < end => M[k].pos = k
    <3> SUFFICES ASSUME NEW k \in Nat PROVE M[k].pos = k
      OBVIOUS
    <3>1. M[k] = [seq |-> M[k].seq, frame |-> M[k].frame, pos |-> k]
      BY <1>4 DEF IsLog
    <3> QED
      BY <3>1
  <2> QED
    BY <1>1, <1>2, <2>1, <2>2, EnqueueRing
<1>9. \A s \in Sub : Q[next][s] \in V[s]
  BY <1>3 DEF Leads
<1>10. Logged(new, M, Q, base, cursor, next, V)
  <2> HIDE DEF next, new
  <2> QED
    BY <1>4, <1>5, <1>6, <1>8, <1>9 DEF Logged
<1>11. M[end].frame = f
  BY <1>2
<1> HIDE DEF next, new
<1>12. /\ Logged(new, M, Q, base, cursor, next, V) /\ Continues(M, Q, L, R, end) /\ M[end].frame = f
       /\ ~out.overflow /\ end < cursor + Capacity => ~new.overflow
  BY <1>7, <1>8, <1>10, <1>11
<1> QED
  BY <1>12 DEF M, Q, new, next

\* Nothing, or one frame about s, that takes a reader at one of A to one of B.
FramesLead(fr, s, A, B) ==
  \/ fr = << >> /\ A \subseteq B
  \/ \E f : /\ fr = << f >> /\ IsFrameOf(s, f)
            /\ \A x \in A : ~Strays(x, f) /\ Taken(x, f) \in B

\* Ring `new` goes on from `out`, by at most n frames.
GoesOn(new, out, L, R, base, cursor, end, n, V) ==
  \E M, Q : \E e \in Nat :
    /\ Logged(new, M, Q, base, cursor, e, V)
    /\ Continues(M, Q, L, R, end)
    /\ end <= e /\ e <= end + n

LEMMA EmptyAndOne ==
  ASSUME NEW T, NEW s \in Seq(T), NEW x \in T
  PROVE  s \o << >> = s /\ s \o << x >> = Append(s, x)
OBVIOUS

\* Frames about s.
LEMMA FramesOfOne ==
  ASSUME NEW out, NEW L, NEW R, NEW W, NEW V,
         NEW base \in Nat, NEW cursor \in Nat, NEW end \in Nat,
         Logged(out, L, R, base, cursor, end, W),
         NEW seq \in Nat, NEW s \in Sub, NEW f, IsFrameOf(s, f),
         \A x \in W[s] : ~Strays(x, f) /\ Taken(x, f) \in V[s],
         \A t \in Sub : t # s => W[t] \subseteq V[t]
  PROVE  IsFrame(f) /\ Leads(f, R[end], V)
<1>1. IsFrame(f)
  BY DEF IsFrame
<1>2. IsReplica(R[end]) /\ \A t \in Sub : R[end][t] \in W[t]
  BY DEF Logged, IsRun
<1>3. /\ Applied(R[end], f) = [R[end] EXCEPT ![s] = Taken(R[end][s], f)]
      /\ IsReplica(Applied(R[end], f))
      /\ Misfits(R[end], f) = Strays(R[end][s], f)
  BY <1>2, FrameTaken
<1>4. ~Misfits(R[end], f) /\ Taken(R[end][s], f) \in V[s]
  BY <1>2, <1>3
<1>5. ASSUME NEW t \in Sub PROVE Applied(R[end], f)[t] \in V[t]
  <2>1. R[end] = [u \in Sub |-> R[end][u]]
    BY <1>2 DEF IsReplica
  <2>2. Applied(R[end], f)[t] = IF t = s THEN Taken(R[end][s], f) ELSE R[end][t]
    BY <1>3, <2>1
  <2> QED
    BY <1>2, <1>4, <2>2
<1> QED
  BY <1>1, <1>3, <1>4, <1>5 DEF Leads

LEMMA AboutOne ==
  ASSUME NEW o, NEW T, NEW q \in Seq(T), NEW seq \in Nat, NEW L, NEW R, NEW W, NEW V,
         NEW base \in Nat, NEW cursor \in Nat, NEW end \in Nat,
         Logged(EnqueueAll(o, seq, q), L, R, base, cursor, end, W),
         NEW s \in Sub, NEW fr \in Seq(T), FramesLead(fr, s, W[s], V[s]),
         \A t \in Sub : t # s => W[t] \subseteq V[t]
  PROVE  /\ GoesOn(EnqueueAll(o, seq, q \o fr), EnqueueAll(o, seq, q), L, R, base, cursor, end, 1, V)
         /\ ~EnqueueAll(o, seq, q).overflow /\ end < cursor + Capacity
              => ~EnqueueAll(o, seq, q \o fr).overflow
<1> DEFINE out == EnqueueAll(o, seq, q)
           new == EnqueueAll(o, seq, q \o fr)
<1>1. CASE fr = << >> /\ W[s] \subseteq V[s]
  <2>1. new = out
    BY <1>1, ConcatEmpty
  <2>2. \A t \in Sub : W[t] \subseteq V[t]
    BY <1>1
  <2> HIDE DEF out, new
  <2>3. Logged(out, L, R, base, cursor, end, V)
    BY <2>2 DEF Logged, out
  <2>4. Continues(L, R, L, R, end)
    BY DEF Continues
  <2>5. end <= end /\ end <= end + 1
    OBVIOUS
  <2>6. GoesOn(new, out, L, R, base, cursor, end, 1, V)
    BY <2>1, <2>3, <2>4, <2>5 DEF GoesOn
  <2> QED
    BY <2>1, <2>6 DEF out, new
<1>2. ASSUME NEW f, fr = << f >>, IsFrameOf(s, f), \A x \in W[s] : ~Strays(x, f) /\ Taken(x, f) \in V[s]
      PROVE  /\ GoesOn(new, out, L, R, base, cursor, end, 1, V)
             /\ ~out.overflow /\ end < cursor + Capacity => ~new.overflow
  <2>1. f \in T
    BY <1>2
  <2>2. q \o fr = Append(q, f)
    BY <1>2, <2>1, EmptyAndOne
  <2>3. new = Enqueue(out, seq, f)
    <3>1. EnqueueAll(o, seq, Append(q, f)) = Enqueue(EnqueueAll(o, seq, q), seq, f)
      BY <2>1, EnqueueOneMore
    <3> QED
      BY <2>2, <3>1
  <2> HIDE DEF out, new
  <2>4. Logged(out, L, R, base, cursor, end, W)
    BY DEF out
  <2>5. IsFrame(f) /\ Leads(f, R[end], V)
    BY <1>2, <2>4, FramesOfOne
  <2> DEFINE M == Pushed(L, end, seq, f)
             Q == RunOn(R, end, f)
             next == end + 1
  <2>6. /\ Logged(new, M, Q, base, cursor, next, V)
        /\ Continues(M, Q, L, R, end)
        /\ ~out.overflow /\ end < cursor + Capacity => ~new.overflow
    BY <2>3, <2>4, <2>5, EnqueueLogs
  <2>7. next \in Nat /\ end <= next /\ next <= end + 1
    OBVIOUS
  <2> HIDE DEF M, Q, next
  <2>8. GoesOn(new, out, L, R, base, cursor, end, 1, V)
    BY <2>6, <2>7 DEF GoesOn
  <2> QED
    BY <2>6, <2>8
<1>3. /\ GoesOn(new, out, L, R, base, cursor, end, 1, V)
      /\ ~out.overflow /\ end < cursor + Capacity => ~new.overflow
  <2> HIDE DEF new, out
  <2> QED
    BY <1>1, <1>2 DEF FramesLead, new, out
<1> QED
  BY <1>3 DEF new, out

LEMMA OrderedInSlices ==
  /\ Slice(Ordered, 1, 1) = << >>
  /\ \A i \in 1..Cardinality(Sub) :
       /\ Slice(Ordered, 1, i) \in Seq(LoggedAt(Ordered)) /\ Ordered[i] \in LoggedAt(Ordered)
       /\ Append(Slice(Ordered, 1, i), Ordered[i]) = Slice(Ordered, 1, i + 1)
  /\ Slice(Ordered, 1, Cardinality(Sub) + 1) = Ordered
<1> DEFINE n == Cardinality(Sub)
<1>1. n \in Nat /\ Ordered \in [1..n -> Sub]
  BY SubsAreOrdered
<1>2. Slice(Ordered, 1, 1) = << >>
  BY SliceEmpty
<1>3. ASSUME NEW i \in 1..n
      PROVE  /\ Slice(Ordered, 1, i) \in Seq(LoggedAt(Ordered)) /\ Ordered[i] \in LoggedAt(Ordered)
             /\ Append(Slice(Ordered, 1, i), Ordered[i]) = Slice(Ordered, 1, i + 1)
  <2>1. i \in Nat /\ 1 <= i
    BY <1>1
  <2>2. Ordered[i] \in LoggedAt(Ordered)
    BY <2>1 DEF LoggedAt
  <2> QED
    BY <2>1, <2>2, SliceIsSeq, SliceAppend
<1>4. Slice(Ordered, 1, n + 1) = Ordered
  <2>1. (n + 1) - 1 = n /\ \A i \in 1..n : 1 + i - 1 = i
    BY <1>1
  <2>2. Slice(Ordered, 1, n + 1) = [i \in 1..n |-> Ordered[i]]
    BY <2>1 DEF Slice
  <2> QED
    BY <1>1, <2>2
<1> QED
  BY <1>2, <1>3, <1>4

LEMMA ContinuesOn ==
  ASSUME NEW L, NEW R, NEW M, NEW Q, NEW N, NEW P, NEW m \in Nat, NEW n \in Nat, m <= n,
         Continues(M, Q, L, R, m), Continues(N, P, M, Q, n)
  PROVE  Continues(N, P, L, R, m)
<1>1. ASSUME NEW k \in Nat, k < m PROVE N[k] = L[k]
  <2>1. k < n
    BY <1>1
  <2> QED
    BY <1>1, <2>1 DEF Continues
<1>2. ASSUME NEW k \in Nat, k <= m PROVE P[k] = R[k]
  <2>1. k <= n
    BY <1>2
  <2> QED
    BY <1>2, <2>1 DEF Continues
<1> QED
  BY <1>1, <1>2 DEF Continues

LEMMA GoesOnFurther ==
  ASSUME NEW new, NEW out, NEW first, NEW L, NEW R, NEW M, NEW Q, NEW V,
         NEW base, NEW cursor, NEW m \in Nat, NEW n \in Nat, NEW i \in Nat, NEW j \in Nat,
         m <= n, n <= m + i, Continues(M, Q, L, R, m),
         GoesOn(new, out, M, Q, base, cursor, n, j, V)
  PROVE  GoesOn(new, first, L, R, base, cursor, m, i + j, V)
<1>1. PICK N, P : \E e \in Nat :
        /\ Logged(new, N, P, base, cursor, e, V)
        /\ Continues(N, P, M, Q, n)
        /\ n <= e /\ e <= n + j
  BY DEF GoesOn
<1>2. PICK e \in Nat : /\ Logged(new, N, P, base, cursor, e, V)
                       /\ Continues(N, P, M, Q, n)
                       /\ n <= e /\ e <= n + j
  BY <1>1
<1>3. Continues(N, P, L, R, m)
  BY <1>2, ContinuesOn
<1>4. m <= e /\ e <= m + (i + j)
  BY <1>2
<1> DEFINE k == i + j
<1>5. m <= e /\ e <= m + k
  BY <1>4
<1> HIDE DEF k
<1>6. GoesOn(new, first, L, R, base, cursor, m, k, V)
  BY <1>2, <1>3, <1>5 DEF GoesOn
<1> QED
  BY <1>6 DEF k

\* The frames of every subscription, in order, on a ring that was sent `pre`.
LEMMA SweptLogs ==
  ASSUME NEW o, NEW T, NEW pre \in Seq(T), NEW seq \in Nat, NEW L, NEW R, NEW W, NEW V,
         NEW base \in Nat, NEW cursor \in Nat, NEW end \in Nat,
         Logged(EnqueueAll(o, seq, pre), L, R, base, cursor, end, W),
         NEW frames, \A s \in Sub : frames[s] \in Seq(T) /\ FramesLead(frames[s], s, W[s], V[s])
  PROVE  /\ GoesOn(EnqueueAll(o, seq, pre \o InOrder(frames)), EnqueueAll(o, seq, pre),
                   L, R, base, cursor, end, Cardinality(Sub), V)
         /\ ~EnqueueAll(o, seq, pre).overflow /\ end + Cardinality(Sub) <= cursor + Capacity
              => ~EnqueueAll(o, seq, pre \o InOrder(frames)).overflow
<1> DEFINE n == Cardinality(Sub)
           out == EnqueueAll(o, seq, pre)
           joined(i) == Joined!Fold(<< >>, Slice(Ordered, 1, i + 1), frames)
           new(i) == EnqueueAll(o, seq, pre \o joined(i))
           seen(i) == {Ordered[j] : j \in 1..i}
           mid(i) == [t \in Sub |-> IF t \in seen(i) THEN V[t] ELSE W[t]]
           fits == ~out.overflow /\ end + n <= cursor + Capacity
           Good(i) == /\ joined(i) \in Seq(T)
                      /\ GoesOn(new(i), out, L, R, base, cursor, end, i, mid(i))
                      /\ fits => ~new(i).overflow
           S == {i \in Nat : i <= n => Good(i)}
<1>1. /\ n \in Nat /\ Ordered \in [1..n -> Sub]
      /\ \A i, j \in 1..n : Ordered[i] = Ordered[j] => i = j
      /\ \A s \in Sub : \E i \in 1..n : Ordered[i] = s
  BY SubsAreOrdered
<1>2. joined(0) = << >>
  BY OrderedInSlices, EmptyLoops
<1>3. ASSUME NEW i \in Nat, i < n PROVE joined(i + 1) = joined(i) \o frames[Ordered[i + 1]]
  <2> DEFINE d == i + 1
             q == Slice(Ordered, 1, d)
             x == Ordered[d]
             U == LoggedAt(Ordered)
  <2>1. d \in 1..n
    BY <1>1, <1>3
  <2>2. q \in Seq(U) /\ x \in U /\ Append(q, x) = Slice(Ordered, 1, d + 1)
    <3> HIDE DEF d
    <3> QED
      BY <2>1, OrderedInSlices
  <2>4. q \in Seq(U) /\ x \in U
    BY <2>2
  <2>3. Joined!Fold(<< >>, Append(q, x), frames) = Joined!Fold(<< >>, q, frames) \o frames[x]
    <3> HIDE DEF U, q, x, joined
    <3> QED
      BY ONLY <2>4, JoinOneMore
  <2> HIDE DEF U, q, x
  <2> QED
    BY <2>2, <2>3 DEF q, x
<1>4. joined(n) = InOrder(frames)
  BY OrderedInSlices DEF InOrder
<1> HIDE DEF joined
<1>5. Good(0)
  <2>1. << >> \in Seq(T) /\ pre \o << >> = pre
    BY ConcatEmpty
  <2>2. new(0) = out
    BY <1>2, <2>1
  <2>3. Logged(out, L, R, base, cursor, end, mid(0))
    <3>1. \A t \in Sub : mid(0)[t] = W[t]
      OBVIOUS
    <3> HIDE DEF mid, out
    <3> QED
      BY <3>1 DEF Logged, out
  <2>4. Continues(L, R, L, R, end) /\ end <= end /\ end <= end + 0
    BY DEF Continues
  <2>5. fits => ~new(0).overflow
    BY <2>2
  <2> HIDE DEF mid, out, new, fits
  <2>6. GoesOn(new(0), out, L, R, base, cursor, end, 0, mid(0))
    BY <2>2, <2>3, <2>4 DEF GoesOn
  <2> QED
    BY <1>2, <2>1, <2>5, <2>6
<1>6. ASSUME NEW i \in Nat, i < n, Good(i) PROVE Good(i + 1)
  <2> DEFINE d == i + 1
             s == Ordered[d]
             q == pre \o joined(i)
             fr == frames[s]
             A == mid(i)
             B == mid(d)
  <2>1. d \in 1..n /\ s \in Sub
    BY <1>1, <1>6
  <2>2. s \notin seen(i) /\ seen(d) = seen(i) \cup {s}
    <3>1. \A j \in 1..i : j \in 1..n /\ j # d
      BY <1>1, <1>6
    <3>2. \A j \in 1..i : Ordered[j] # s
      <4> HIDE DEF d
      <4> QED
        BY <1>1, <2>1, <3>1
    <3>3. \A j : j \in 1..d <=> j \in 1..i \/ j = d
      BY <1>6
    <3> HIDE DEF d, s
    <3> QED
      BY <3>2, <3>3 DEF s
  <2>3. A[s] = W[s] /\ B[s] = V[s] /\ \A t \in Sub : t # s => A[t] \subseteq B[t]
    <3> HIDE DEF seen, d, s
    <3> QED
      BY <2>1, <2>2
  <2>4. fr \in Seq(T) /\ FramesLead(fr, s, A[s], B[s])
    <3> HIDE DEF mid, s, d
    <3> QED
      BY <2>1, <2>3
  <2>5. joined(i) \in Seq(T) /\ GoesOn(new(i), out, L, R, base, cursor, end, i, A) /\ (fits => ~new(i).overflow)
    BY <1>6
  <2>6. /\ q \in Seq(T) /\ joined(d) = joined(i) \o fr /\ joined(d) \in Seq(T)
        /\ pre \o joined(d) = q \o fr
    <3>1. joined(d) = joined(i) \o fr
      BY <1>3, <1>6
    <3> HIDE DEF fr, d, s
    <3>2. (pre \o joined(i)) \o fr = pre \o (joined(i) \o fr)
      <4> DEFINE j == joined(i)
      <4>1. pre \in Seq(T) /\ j \in Seq(T) /\ fr \in Seq(T)
        BY <2>4, <2>5
      <4> HIDE DEF j
      <4>2. (pre \o j) \o fr = pre \o (j \o fr)
        BY ONLY <4>1, ConcatAssoc
      <4> QED
        BY <4>2 DEF j
    <3> QED
      BY <2>4, <2>5, <3>1, <3>2
  <2>7. PICK M, Q : \E e \in Nat :
           /\ Logged(new(i), M, Q, base, cursor, e, A)
           /\ Continues(M, Q, L, R, end)
           /\ end <= e /\ e <= end + i
    <3> HIDE DEF mid, out, new, fits
    <3> QED
      BY <2>5 DEF GoesOn
  <2>8. PICK e \in Nat : /\ Logged(new(i), M, Q, base, cursor, e, A)
                         /\ Continues(M, Q, L, R, end)
                         /\ end <= e /\ e <= end + i
    BY <2>7
  <2>9. /\ GoesOn(EnqueueAll(o, seq, q \o fr), EnqueueAll(o, seq, q), M, Q, base, cursor, e, 1, B)
        /\ ~EnqueueAll(o, seq, q).overflow /\ e < cursor + Capacity
             => ~EnqueueAll(o, seq, q \o fr).overflow
    <3>1. Logged(EnqueueAll(o, seq, q), M, Q, base, cursor, e, A)
      BY <2>8
    <3> HIDE DEF q, fr, A, B, mid, s, d
    <3> QED
      BY <2>1, <2>3, <2>4, <2>6, <3>1, AboutOne
  <2>10. EnqueueAll(o, seq, q) = new(i) /\ EnqueueAll(o, seq, q \o fr) = new(d)
    BY <2>6
  <2>11. GoesOn(new(d), out, L, R, base, cursor, end, i + 1, B)
    <3> HIDE DEF q, fr, A, B, mid, s, d, new, out
    <3> QED
      BY <2>8, <2>9, <2>10, GoesOnFurther
  <2>12. fits => ~new(d).overflow
    <3>1. fits => e < cursor + Capacity
      <4>1. Capacity \in Nat
        BY CapacityIsPositive
      <4> QED
        BY <1>1, <1>6, <2>8, <4>1
    <3> HIDE DEF q, fr, A, B, mid, s, d, new, out, fits
    <3> QED
      BY <2>5, <2>9, <2>10, <3>1
  <2> HIDE DEF new, out, mid, fits
  <2> QED
    BY <2>6, <2>11, <2>12
<1>7. 0 \in S
  <2> HIDE DEF Good
  <2> QED
    BY <1>5
<1>8. ASSUME NEW i \in Nat, i \in S PROVE i + 1 \in S
  <2> SUFFICES ASSUME i + 1 <= n PROVE Good(i + 1)
    <3> HIDE DEF Good
    <3> QED
      OBVIOUS
  <2>1. i < n
    BY <1>1
  <2> HIDE DEF Good
  <2> QED
    BY <1>1, <1>6, <1>8, <2>1
<1> HIDE DEF S
<1>9. Nat \subseteq S
  BY <1>7, <1>8, PickedP!NatSetInduction
<1> HIDE DEF Good
<1>10. Good(n)
  <2>1. n \in S /\ n <= n
    BY <1>1, <1>9
  <2> QED
    BY <2>1 DEF S
<1>11. \A t \in Sub : mid(n)[t] = V[t]
  BY <1>1
<1> HIDE DEF mid, fits, out, n
<1>12. new(n) = EnqueueAll(o, seq, pre \o InOrder(frames))
  BY <1>4
<1> HIDE DEF new
<1>13. GoesOn(new(n), out, L, R, base, cursor, end, n, V)
  BY <1>10, <1>11 DEF Good, GoesOn, Logged
<1>14. fits => ~new(n).overflow
  BY <1>10 DEF Good
<1> QED
  BY <1>12, <1>13, <1>14 DEF fits, out, n

-----------------------------------------------------------------------------
(* What the writer drains and replays.                                     *)

RingShows(out, L, first, end) ==
         /\ Len(out.ring) = end - first
         /\ \A k \in Nat : first <= k /\ k < end =>
              L[k] \in Entries(out) /\ \E i \in DOMAIN out.ring : out.ring[i] = L[k]
         /\ first < end => out.ring # << >> /\ out.ring[1] = L[first]

LEMMA RingEntries ==
  ASSUME NEW out, NEW L, NEW first \in Nat, NEW end \in Nat, out.ring = Slice(L, first, end),
         first <= end
  PROVE  RingShows(out, L, first, end)
<1> DEFINE ring == out.ring
           n == end - first
<1>1. ListsFrom(ring, L, first, n)
  BY SliceLists
<1>2. n \in Nat /\ ring \in Seq(LoggedAt(L)) /\ Len(ring) = n
      /\ \A i \in 1..n : ring[i] = L[first + i - 1]
  <2> HIDE DEF n, ring
  <2>1. n \in Nat
    BY DEF n
  <2> QED
    BY <1>1, <2>1 DEF ListsFrom
<1>3. DOMAIN ring = 1..n
  BY <1>2
<1>4. ASSUME NEW k \in Nat, first <= k, k < end
      PROVE  L[k] \in Entries(out) /\ \E i \in DOMAIN ring : ring[i] = L[k]
  <2> DEFINE i == k - first + 1
  <2>1. i \in 1..n /\ first + i - 1 = k
    BY <1>4
  <2> HIDE DEF i, n
  <2>2. i \in DOMAIN ring /\ ring[i] = L[k]
    BY <1>2, <1>3, <2>1
  <2> QED
    BY <2>2 DEF Entries
<1>5. first < end => ring # << >> /\ ring[1] = L[first]
  <2>1. first < end => 1 \in 1..n /\ first + 1 - 1 = first
    BY <1>2
  <2> HIDE DEF n
  <2> QED
    BY <1>2, <2>1
<1> QED
  BY <1>2, <1>4, <1>5 DEF RingShows

LEMMA PendingIsRest ==
  ASSUME NEW out, NEW L, NEW cursor \in Nat, NEW end \in Nat, IsLog(L),
         IsRing(out, L, cursor, end), ~out.overflow
  PROVE  Pending(out) = Slice(L, cursor, end)
<1> DEFINE wanted == {e \in Entries(out) : e.pos >= out.cursor}
<1>1. PICK first \in Nat : first <= end /\ out.ring = Slice(L, first, end) /\ first <= cursor
  BY DEF IsRing
<1>11. /\ Len(out.ring) = end - first
       /\ \A k \in Nat : first <= k /\ k < end =>
            L[k] \in Entries(out) /\ \E i \in DOMAIN out.ring : out.ring[i] = L[k]
       /\ first < end => out.ring # << >> /\ out.ring[1] = L[first]
  <2>1. first \in Nat /\ end \in Nat /\ out.ring = Slice(L, first, end) /\ first <= end
    BY <1>1
  <2>2. RingShows(out, L, first, end)
    BY ONLY <2>1, RingEntries
  <2> QED
    BY <2>2 DEF RingShows
<1>2. out.cursor = cursor /\ cursor <= end
  <2> DEFINE o == [ring |-> out.ring, next_pos |-> end, cursor |-> cursor,
                   evicted_through |-> out.evicted_through, overflow |-> out.overflow]
  <2>1. out = o
    BY DEF IsRing
  <2>2. o.cursor = cursor
    OBVIOUS
  <2> HIDE DEF o
  <2> QED
    BY <2>1, <2>2 DEF IsRing
<1>3. \A k \in Nat : L[k].pos = k
  <2> SUFFICES ASSUME NEW k \in Nat PROVE L[k].pos = k
    OBVIOUS
  <2>1. L[k] = [seq |-> L[k].seq, frame |-> L[k].frame, pos |-> k]
    BY DEF IsLog
  <2> QED
    BY <2>1
<1>4. \A k \in Nat : cursor <= k /\ k < end => L[k] \in wanted
  <2> SUFFICES ASSUME NEW k \in Nat, cursor <= k, k < end PROVE L[k] \in wanted
    OBVIOUS
  <2>1. L[k] \in Entries(out)
    <3>1. first <= k
      BY <1>1
    <3> QED
      BY <1>11, <3>1
  <2>2. L[k].pos >= out.cursor
    BY <1>2, <1>3
  <2> QED
    BY <2>1, <2>2
<1>5. \A k \in Nat : first <= k /\ k < cursor /\ L[k] \in wanted => L[k] \in {}
  BY <1>2, <1>3
<1> HIDE DEF wanted
<1>6. PICK D \in Seq({}) : Picked!Fold(<< >>, Slice(L, first, end), wanted) = D \o Slice(L, cursor, end)
  <2>1. WantsAll(L, cursor, end, wanted) /\ WantsOnly(L, first, cursor, wanted, {})
    BY <1>4, <1>5 DEF WantsAll, WantsOnly
  <2>2. EndsWith(Picked!Fold(<< >>, Slice(L, first, end), wanted), {}, Slice(L, cursor, end))
    BY <1>1, <1>2, <2>1, PicksFrom
  <2> QED
    BY <2>2 DEF EndsWith
<1>7. D = << >>
  OBVIOUS
<1>8. << >> \o Slice(L, cursor, end) = Slice(L, cursor, end)
  BY <1>2, SliceIsSeq, ConcatEmpty
<1> QED
  BY <1>1, <1>6, <1>7, <1>8 DEF Pending, wanted

\* Closes the client has read, that a replay sends again.
Repeats(seen) == {e \in [seq : Nat, frame : {CloseFrame(s) : s \in Sub}, pos : Nat] : e.pos < seen}

\* CleanResume, of a ring, the frames read and the last event id.
Separates(ring, seen, id) ==
  /\ ring # << >> => ring[1].pos <= seen
  /\ \A i \in DOMAIN ring :
       IF ring[i].pos >= seen THEN ring[i].seq > id
       ELSE ring[i].seq > id => ring[i].frame.kind = "close"

LEMMA ReplayIsRest ==
  ASSUME NEW out, NEW L, NEW cursor \in Nat, NEW end \in Nat, IsLog(L),
         IsRing(out, L, cursor, end), NEW seen \in Nat, NEW id, seen <= end,
         Separates(out.ring, seen, id)
  PROVE  EndsWith(ReplayAfter(out, id), Repeats(seen), Slice(L, seen, end))
<1>0. /\ out.ring # << >> => out.ring[1].pos <= seen
      /\ \A i \in DOMAIN out.ring :
           IF out.ring[i].pos >= seen THEN out.ring[i].seq > id
           ELSE out.ring[i].seq > id => out.ring[i].frame.kind = "close"
  BY DEF Separates
<1> DEFINE wanted == {e \in Entries(out) : e.seq > id}
<1>1. PICK first \in Nat : first <= end /\ out.ring = Slice(L, first, end) /\ (first = end => end = 0)
  BY DEF IsRing
<1>11. /\ Len(out.ring) = end - first
       /\ \A k \in Nat : first <= k /\ k < end =>
            L[k] \in Entries(out) /\ \E i \in DOMAIN out.ring : out.ring[i] = L[k]
       /\ first < end => out.ring # << >> /\ out.ring[1] = L[first]
  <2>1. first \in Nat /\ end \in Nat /\ out.ring = Slice(L, first, end) /\ first <= end
    BY <1>1
  <2>2. RingShows(out, L, first, end)
    BY ONLY <2>1, RingEntries
  <2> QED
    BY <2>2 DEF RingShows
<1>2. \A k \in Nat : /\ L[k].pos = k /\ L[k].seq \in Nat /\ IsFrame(L[k].frame)
                     /\ L[k] = [seq |-> L[k].seq, frame |-> L[k].frame, pos |-> k]
  <2> SUFFICES ASSUME NEW k \in Nat
               PROVE  /\ L[k].pos = k /\ L[k].seq \in Nat /\ IsFrame(L[k].frame)
                      /\ L[k] = [seq |-> L[k].seq, frame |-> L[k].frame, pos |-> k]
    OBVIOUS
  <2>1. L[k] = [seq |-> L[k].seq, frame |-> L[k].frame, pos |-> k]
    BY DEF IsLog
  <2>2. L[k].pos = k
    BY <2>1
  <2> QED
    BY <2>1, <2>2 DEF IsLog
<1>3. first <= seen
  <2>1. CASE first = end
    BY <1>1, <2>1
  <2>2. CASE first < end
    <3>1. out.ring # << >> /\ out.ring[1] = L[first]
      BY <1>11, <2>2
    <3>2. L[first].pos <= seen
      BY <1>0, <3>1
    <3> QED
      BY <1>2, <3>2
  <2> QED
    BY <1>1, <2>1, <2>2
<1>4. \A k \in Nat : seen <= k /\ k < end => L[k] \in wanted
  <2> SUFFICES ASSUME NEW k \in Nat, seen <= k, k < end PROVE L[k] \in wanted
    OBVIOUS
  <2>1. first <= k
    BY <1>3
  <2>2. L[k] \in Entries(out) /\ \E i \in DOMAIN out.ring : out.ring[i] = L[k]
    BY <1>11, <2>1
  <2>3. L[k].pos >= seen
    BY <1>2
  <2> QED
    BY <1>0, <2>2, <2>3
<1>5. \A k \in Nat : first <= k /\ k < seen /\ L[k] \in wanted => L[k] \in Repeats(seen)
  <2> SUFFICES ASSUME NEW k \in Nat, first <= k, k < seen, L[k] \in wanted PROVE L[k] \in Repeats(seen)
    OBVIOUS
  <2>1. k < end
    OBVIOUS
  <2>2. PICK i \in DOMAIN out.ring : out.ring[i] = L[k]
    BY <1>11, <2>1
  <2>3. ~(L[k].pos >= seen)
    <3>1. L[k].pos = k
      BY <1>2
    <3> HIDE DEF wanted
    <3> QED
      BY <3>1
  <2>4. L[k].frame.kind = "close"
    BY <1>0, <2>2, <2>3
  <2>5. IsFrame(L[k].frame)
    BY <1>2
  <2>6. \E s \in Sub : L[k].frame = CloseFrame(s)
    <3> DEFINE f == L[k].frame
    <3>1. f.kind = "close" /\ IsFrame(f)
      BY <2>4, <2>5
    <3> HIDE DEF f
    <3>2. \E s \in Sub : f = CloseFrame(s)
      BY <3>1 DEF IsFrame, IsFrameOf, ResetFrame, InitFrame, PatchFrame
    <3> QED
      BY <3>2 DEF f
  <2>7. L[k] \in [seq : Nat, frame : {CloseFrame(s) : s \in Sub}, pos : Nat]
    <3> DEFINE sq == L[k].seq
               fm == L[k].frame
    <3>1. L[k] = [seq |-> sq, frame |-> fm, pos |-> k] /\ sq \in Nat /\ fm \in {CloseFrame(s) : s \in Sub}
      BY <1>2, <2>6
    <3> HIDE DEF sq, fm
    <3> QED
      BY <3>1
  <2> QED
    BY <1>2, <2>7 DEF Repeats
<1> HIDE DEF wanted
<1>6. PICK D \in Seq(Repeats(seen)) :
        Picked!Fold(<< >>, Slice(L, first, end), wanted) = D \o Slice(L, seen, end)
  <2>1. WantsAll(L, seen, end, wanted) /\ WantsOnly(L, first, seen, wanted, Repeats(seen))
    BY <1>4, <1>5 DEF WantsAll, WantsOnly
  <2>2. EndsWith(Picked!Fold(<< >>, Slice(L, first, end), wanted), Repeats(seen), Slice(L, seen, end))
    BY <1>1, <1>3, <2>1, PicksFrom
  <2> QED
    BY <2>2 DEF EndsWith
<1> QED
  BY <1>1, <1>6 DEF ReplayAfter, wanted, EndsWith

-----------------------------------------------------------------------------
(* The client of a stream, against the log that was drained to it.         *)

IsClient(cl) ==
  /\ cl \in [attached : BOOLEAN, wire : {cl.wire}, replica : {cl.replica},
             last_id : Nat \cup {None}, seen : Nat, misfit : {FALSE}]
  /\ IsReplica(cl.replica)

\* With an event id, the client holds what the log up to it makes.
Known(cl, R, base) ==
  IF cl.last_id = None THEN cl.replica = EmptyReplica
  ELSE base <= cl.seen /\ Covers(cl.replica, R[cl.seen])

\* What comes next is a reset, or what the client's replica is ready for.
Reads(cl, L, R, from, stop) ==
  \/ from < stop /\ L[from].frame = ResetFrame
  \/ (cl.last_id = None \/ cl.seen = from) /\ Covers(cl.replica, R[from])

InFlight(cl, L, R, base, stop) ==
  IF cl.attached
  THEN \E D \in Seq(Repeats(cl.seen)), from \in Nat :
         /\ cl.wire = D \o Slice(L, from, stop)
         /\ D # << >> => cl.last_id # None
         /\ base <= from /\ cl.seen <= from /\ from <= stop
         /\ Reads(cl, L, R, from, stop)
  ELSE cl.wire = << >>

Streams(cl, L, R, base, stop) ==
  /\ IsClient(cl) /\ Known(cl, R, base) /\ InFlight(cl, L, R, base, stop)
  /\ base <= stop /\ cl.seen <= stop

LEMMA ClientIs ==
  ASSUME NEW cl, IsClient(cl), NEW a \in BOOLEAN, NEW w, NEW r, IsReplica(r),
         NEW id \in Nat \cup {None}, NEW seen \in Nat
  PROVE  LET new == [cl EXCEPT !.attached = a, !.wire = w, !.replica = r,
                               !.last_id = id, !.seen = seen]
         IN  /\ IsClient(new) /\ new.attached = a /\ new.wire = w /\ new.replica = r
             /\ new.last_id = id /\ new.seen = seen
<1> DEFINE new == [cl EXCEPT !.attached = a, !.wire = w, !.replica = r,
                               !.last_id = id, !.seen = seen]
<1>1. new \in [attached : {a}, wire : {w}, replica : {r}, last_id : {id}, seen : {seen}, misfit : {FALSE}]
  BY DEF IsClient
<1> HIDE DEF new
<1>2. /\ new \in [attached : BOOLEAN, wire : {new.wire}, replica : {new.replica},
                  last_id : Nat \cup {None}, seen : Nat, misfit : {FALSE}]
      /\ new.attached = a /\ new.wire = w /\ new.replica = r /\ new.last_id = id /\ new.seen = seen
  BY <1>1
<1>3. IsClient(new)
  BY <1>2 DEF IsClient
<1> QED
  BY <1>2, <1>3 DEF new

\* The client after Write, with the frames it was handed.
Handed(cl, w) == [cl EXCEPT !.attached = TRUE, !.wire = w]

LEMMA HandedIs ==
  ASSUME NEW cl, IsClient(cl), NEW w
  PROVE  /\ IsClient(Handed(cl, w)) /\ Handed(cl, w).attached /\ Handed(cl, w).wire = w
         /\ Handed(cl, w).replica = cl.replica /\ Handed(cl, w).last_id = cl.last_id
         /\ Handed(cl, w).seen = cl.seen
<1> DEFINE new == Handed(cl, w)
<1>1. new \in [attached : {TRUE}, wire : {w}, replica : {cl.replica}, last_id : {cl.last_id},
               seen : {cl.seen}, misfit : {FALSE}]
  BY DEF IsClient, Handed
<1>2. cl.last_id \in Nat \cup {None} /\ cl.seen \in Nat
  BY DEF IsClient
<1> HIDE DEF new
<1>3. /\ new \in [attached : BOOLEAN, wire : {new.wire}, replica : {new.replica},
                  last_id : Nat \cup {None}, seen : Nat, misfit : {FALSE}]
      /\ new.attached /\ new.wire = w /\ new.replica = cl.replica
      /\ new.last_id = cl.last_id /\ new.seen = cl.seen
  BY <1>1, <1>2
<1>4. IsClient(new)
  BY <1>3 DEF IsClient
<1> QED
  BY <1>3, <1>4 DEF new

\* A client knows nothing of what the log adds beyond what it was drained.
LEMMA StreamsContinue ==
  ASSUME NEW cl, NEW L, NEW R, NEW M, NEW Q, NEW base \in Nat, NEW stop \in Nat, NEW end \in Nat,
         stop <= end, Streams(cl, L, R, base, stop), Continues(M, Q, L, R, end)
  PROVE  Streams(cl, M, Q, base, stop)
<1>1. /\ IsClient(cl) /\ Known(cl, R, base) /\ InFlight(cl, L, R, base, stop)
      /\ base <= stop /\ cl.seen <= stop /\ cl.seen \in Nat
  BY DEF Streams, IsClient
<1>2. /\ \A k \in Nat : k < stop => M[k] = L[k]
      /\ \A k \in Nat : k <= stop => Q[k] = R[k]
  BY DEF Continues
<1>3. Known(cl, Q, base)
  BY <1>1, <1>2 DEF Known
<1>4. InFlight(cl, M, Q, base, stop)
  <2>1. CASE cl.attached
    <3>1. PICK D \in Seq(Repeats(cl.seen)), from \in Nat :
            /\ cl.wire = D \o Slice(L, from, stop)
            /\ D # << >> => cl.last_id # None
            /\ base <= from /\ cl.seen <= from /\ from <= stop
            /\ Reads(cl, L, R, from, stop)
      BY <1>1, <2>1 DEF InFlight
    <3>2. Slice(L, from, stop) = Slice(M, from, stop)
      BY <1>2, SliceSame
    <3>3. Reads(cl, M, Q, from, stop)
      BY <1>2, <3>1 DEF Reads
    <3> QED
      BY <2>1, <3>1, <3>2, <3>3 DEF InFlight
  <2>2. CASE ~cl.attached
    BY <1>1, <2>2 DEF InFlight
  <2> QED
    BY <2>1, <2>2
<1> QED
  BY <1>1, <1>3, <1>4 DEF Streams

LEMMA EmptyConcat ==
  ASSUME NEW T, NEW s \in Seq(T), NEW U, NEW t \in Seq(U), s \o t = << >>
  PROVE  s = << >> /\ Len(t) = 0
OBVIOUS

\* A batch is drained.
LEMMA DrainedStreams ==
  ASSUME NEW cl, NEW L, NEW R, NEW base \in Nat, NEW stop \in Nat, NEW end \in Nat,
         stop <= end, Streams(cl, L, R, base, stop), cl.attached, cl.wire = << >>
  PROVE  Streams(Handed(cl, Slice(L, stop, end)), L, R, base, end)
<1> DEFINE new == Handed(cl, Slice(L, stop, end))
<1>1. /\ IsClient(cl) /\ Known(cl, R, base) /\ InFlight(cl, L, R, base, stop)
      /\ base <= stop /\ cl.seen <= stop /\ cl.seen \in Nat
  BY DEF Streams, IsClient
<1>2. /\ IsClient(new) /\ new.attached /\ new.wire = Slice(L, stop, end) /\ new.replica = cl.replica
      /\ new.last_id = cl.last_id /\ new.seen = cl.seen
  BY <1>1, HandedIs
<1>3. PICK D \in Seq(Repeats(cl.seen)), from \in Nat :
            /\ cl.wire = D \o Slice(L, from, stop)
            /\ D # << >> => cl.last_id # None
            /\ base <= from /\ cl.seen <= from /\ from <= stop
            /\ Reads(cl, L, R, from, stop)
  BY <1>1 DEF InFlight
<1>4. from = stop
  <2>1. Slice(L, from, stop) \in Seq(LoggedAt(L)) /\ Len(Slice(L, from, stop)) = stop - from
    BY <1>3, SliceIsSeq
  <2>2. Len(Slice(L, from, stop)) = 0
    BY <1>3, <2>1, EmptyConcat
  <2> QED
    BY <2>1, <2>2
<1> HIDE DEF new
<1>5. Reads(new, L, R, stop, end)
  <2>1. ~(stop < stop)
    OBVIOUS
  <2> QED
    BY <1>2, <1>3, <1>4, <2>1 DEF Reads
<1>6. << >> \in Seq(Repeats(new.seen)) /\ new.wire = << >> \o Slice(L, stop, end)
  <2>1. << >> \o Slice(L, stop, end) = Slice(L, stop, end)
    BY SliceIsSeq, ConcatEmpty
  <2> QED
    BY <1>2, <2>1
<1>7. InFlight(new, L, R, base, end)
  BY <1>1, <1>2, <1>5, <1>6 DEF InFlight
<1>8. base <= end /\ new.seen <= end /\ Known(new, R, base)
  BY <1>1, <1>2 DEF Known
<1> QED
  BY <1>2, <1>7, <1>8 DEF Streams, new

\* The ring is replayed from the last event id.
LEMMA ReplayedStreams ==
  ASSUME NEW cl, NEW L, NEW R, NEW base \in Nat, NEW stop \in Nat, NEW end \in Nat,
         stop <= end, Streams(cl, L, R, base, stop), cl.last_id # None,
         NEW D \in Seq(Repeats(cl.seen))
  PROVE  Streams(Handed(cl, D \o Slice(L, cl.seen, end)), L, R, base, end)
<1> DEFINE w == D \o Slice(L, cl.seen, end)
           new == Handed(cl, w)
<1>1. /\ IsClient(cl) /\ Known(cl, R, base) /\ base <= stop /\ cl.seen <= stop /\ cl.seen \in Nat
  BY DEF Streams, IsClient
<1>2. /\ IsClient(new) /\ new.attached /\ new.wire = w /\ new.replica = cl.replica
      /\ new.last_id = cl.last_id /\ new.seen = cl.seen
  BY <1>1, HandedIs
<1> HIDE DEF new
<1>3. base <= cl.seen /\ Covers(cl.replica, R[cl.seen])
  BY <1>1 DEF Known
<1>4. Reads(new, L, R, cl.seen, end)
  BY <1>2, <1>3 DEF Reads
<1>5. InFlight(new, L, R, base, end)
  <2>1. cl.seen <= cl.seen /\ cl.seen <= end
    BY <1>1
  <2> QED
    BY <1>1, <1>2, <1>3, <1>4, <2>1 DEF InFlight
<1>6. base <= end /\ new.seen <= end /\ Known(new, R, base)
  BY <1>1, <1>2, <1>3 DEF Known
<1> QED
  BY <1>2, <1>5, <1>6 DEF Streams, new, w

\* The stream is reconstructed behind a reset.
LEMMA ResetStreams ==
  ASSUME NEW cl, NEW L, NEW R, NEW base \in Nat, NEW stop \in Nat, NEW p \in Nat, NEW end \in Nat,
         Streams(cl, L, R, base, stop), stop <= p, p < end, L[p].frame = ResetFrame
  PROVE  Streams(Handed(cl, Slice(L, p, end)), L, R, base, end)
<1> DEFINE w == Slice(L, p, end)
           new == Handed(cl, w)
<1>1. /\ IsClient(cl) /\ Known(cl, R, base) /\ base <= stop /\ cl.seen <= stop /\ cl.seen \in Nat
  BY DEF Streams, IsClient
<1>2. /\ IsClient(new) /\ new.attached /\ new.wire = w /\ new.replica = cl.replica
      /\ new.last_id = cl.last_id /\ new.seen = cl.seen
  BY <1>1, HandedIs
<1> HIDE DEF new
<1>4. Reads(new, L, R, p, end)
  BY DEF Reads
<1>5. << >> \in Seq(Repeats(new.seen)) /\ new.wire = << >> \o Slice(L, p, end)
  <2>1. << >> \o Slice(L, p, end) = Slice(L, p, end)
    BY SliceIsSeq, ConcatEmpty
  <2> QED
    BY <1>2, <2>1
<1>6. base <= p /\ new.seen <= p /\ p <= end
  BY <1>1, <1>2
<1>7. InFlight(new, L, R, base, end)
  BY <1>2, <1>4, <1>5, <1>6 DEF InFlight
<1>8. base <= end /\ new.seen <= end /\ Known(new, R, base)
  BY <1>1, <1>2 DEF Known
<1> QED
  BY <1>2, <1>7, <1>8 DEF Streams, new, w

\* A client with nothing is sent a reconstruction without a reset.
LEMMA RebasedStreams ==
  ASSUME NEW cl, NEW L, NEW R, NEW M, NEW Q, NEW base \in Nat, NEW stop \in Nat,
         NEW p \in Nat, NEW end \in Nat,
         Streams(cl, L, R, base, stop), cl.last_id = None, stop <= p, p <= end, Q[p] = EmptyReplica
  PROVE  Streams(Handed(cl, Slice(M, p, end)), M, Q, p, end)
<1> DEFINE w == Slice(M, p, end)
           new == Handed(cl, w)
<1>1. /\ IsClient(cl) /\ cl.replica = EmptyReplica /\ base <= stop /\ cl.seen <= stop /\ cl.seen \in Nat
  BY DEF Streams, IsClient, Known
<1>2. /\ IsClient(new) /\ new.attached /\ new.wire = w /\ new.replica = cl.replica
      /\ new.last_id = cl.last_id /\ new.seen = cl.seen
  BY <1>1, HandedIs
<1> HIDE DEF new
<1>3. Covers(EmptyReplica, EmptyReplica)
  BY DEF Covers
<1>4. Reads(new, M, Q, p, end)
  BY <1>1, <1>2, <1>3 DEF Reads
<1>5. << >> \in Seq(Repeats(new.seen)) /\ new.wire = << >> \o Slice(M, p, end)
  <2>1. << >> \o Slice(M, p, end) = Slice(M, p, end)
    BY SliceIsSeq, ConcatEmpty
  <2> QED
    BY <1>2, <2>1
<1>6. p <= p /\ new.seen <= p /\ p <= end /\ new.seen <= end
  BY <1>1, <1>2
<1>7. InFlight(new, M, Q, p, end)
  BY <1>2, <1>4, <1>5, <1>6 DEF InFlight
<1>8. Known(new, Q, p)
  BY <1>1, <1>2 DEF Known
<1> QED
  BY <1>2, <1>6, <1>7, <1>8 DEF Streams, new, w

\* The client after Receive of e, with `rest` still in flight.
Taking(cl, e, rest) ==
  [cl EXCEPT !.wire = rest, !.replica = Applied(@, e.frame), !.last_id = e.seq,
             !.seen = Later(@, e.pos + 1), !.misfit = @ \/ Misfits(cl.replica, e.frame)]

LEMMA TakingIs ==
  ASSUME NEW cl, IsClient(cl), NEW e, e.seq \in Nat, e.pos \in Nat, NEW rest,
         IsReplica(Applied(cl.replica, e.frame)), ~Misfits(cl.replica, e.frame)
  PROVE  LET new == Taking(cl, e, rest) IN
         /\ IsClient(new) /\ new.attached = cl.attached /\ new.wire = rest
         /\ new.replica = Applied(cl.replica, e.frame) /\ new.last_id = e.seq
         /\ new.seen = Later(cl.seen, e.pos + 1)
<1> DEFINE r == Applied(cl.replica, e.frame)
           seen == Later(cl.seen, e.pos + 1)
           id == e.seq
           strays == Misfits(cl.replica, e.frame)
           new == Taking(cl, e, rest)
<1>1. cl.seen \in Nat /\ cl.attached \in BOOLEAN
  BY DEF IsClient
<1>2. seen \in Nat /\ id \in Nat /\ IsReplica(r) /\ ~strays
  BY <1>1 DEF Later
<1>3. new = [cl EXCEPT !.wire = rest, !.replica = r, !.last_id = id, !.seen = seen,
                       !.misfit = @ \/ strays]
  BY DEF IsClient, Taking
<1> HIDE DEF r, seen, id, strays, new
<1>4. new \in [attached : {cl.attached}, wire : {rest}, replica : {r}, last_id : {id},
               seen : {seen}, misfit : {FALSE}]
  BY <1>2, <1>3 DEF IsClient
<1>5. /\ new \in [attached : BOOLEAN, wire : {new.wire}, replica : {new.replica},
                  last_id : Nat \cup {None}, seen : Nat, misfit : {FALSE}]
      /\ new.attached = cl.attached /\ new.wire = rest /\ new.replica = r
      /\ new.last_id = id /\ new.seen = seen
  BY <1>1, <1>2, <1>4
<1>6. IsClient(new)
  BY <1>2, <1>5 DEF IsClient
<1> QED
  BY <1>5, <1>6 DEF new, r, seen, id

LEMMA ReceivedStreams ==
  ASSUME NEW cl, NEW L, NEW R, NEW base \in Nat, NEW stop \in Nat, NEW end \in Nat,
         IsLog(L), IsRun(R, L, base, end), stop <= end,
         Streams(cl, L, R, base, stop), cl.wire # << >>
  PROVE  Streams(Taking(cl, cl.wire[1], Tail(cl.wire)), L, R, base, stop)
<1> DEFINE e == cl.wire[1]
           new == Taking(cl, e, Tail(cl.wire))
<1>1. /\ IsClient(cl) /\ Known(cl, R, base) /\ InFlight(cl, L, R, base, stop)
      /\ base <= stop /\ cl.seen <= stop /\ cl.seen \in Nat /\ IsReplica(cl.replica)
  BY DEF Streams, IsClient
<1>0. cl.attached
  BY <1>1 DEF InFlight
<1>2. PICK D \in Seq(Repeats(cl.seen)), from \in Nat :
            /\ cl.wire = D \o Slice(L, from, stop)
            /\ D # << >> => cl.last_id # None
            /\ base <= from /\ cl.seen <= from /\ from <= stop
            /\ Reads(cl, L, R, from, stop)
  BY <1>0, <1>1 DEF InFlight
<1>3. Slice(L, from, stop) \in Seq(LoggedAt(L)) /\ Len(Slice(L, from, stop)) = stop - from
  BY <1>2, SliceIsSeq
<1>4. CASE D # << >>
  <2> DEFINE T == Repeats(cl.seen) \cup LoggedAt(L)
             rest == Slice(L, from, stop)
  <2>1. D \in Seq(T) /\ rest \in Seq(T)
    BY <1>3
  <2>2. Tail(cl.wire) = Tail(D) \o rest /\ e = D[1]
    <3> HIDE DEF T, rest
    <3> QED
      BY <1>2, <1>4, <2>1, ConcatTail DEF rest
  <2>3. D[1] \in Repeats(cl.seen) /\ Tail(D) \in Seq(Repeats(cl.seen))
    BY <1>4
  <2>4. e.seq \in Nat /\ e.pos \in Nat /\ e.pos < cl.seen /\ \E s \in Sub : e.frame = CloseFrame(s)
    BY <2>2, <2>3 DEF Repeats
  <2> HIDE DEF e
  <2>5. PICK s \in Sub : e.frame = CloseFrame(s)
    BY <2>4
  <2>6. cl.last_id # None /\ base <= cl.seen /\ Covers(cl.replica, R[cl.seen])
    BY <1>1, <1>2, <1>4 DEF Known
  <2>7. /\ ~Misfits(cl.replica, e.frame) /\ IsReplica(Applied(cl.replica, e.frame))
        /\ \A old : Covers(cl.replica, old) => Covers(Applied(cl.replica, e.frame), old)
    <3>1. ~Misfits(cl.replica, CloseFrame(s)) /\ IsReplica(Applied(cl.replica, CloseFrame(s)))
      BY <1>1, <2>6, ClosesKeepCover
    <3>2. ASSUME NEW old, Covers(cl.replica, old) PROVE Covers(Applied(cl.replica, CloseFrame(s)), old)
      BY <1>1, <3>2, ClosesKeepCover
    <3> QED
      BY <2>5, <3>1, <3>2
  <2>8. /\ IsClient(new) /\ new.attached = cl.attached /\ new.wire = Tail(cl.wire)
        /\ new.replica = Applied(cl.replica, e.frame) /\ new.last_id = e.seq
        /\ new.seen = Later(cl.seen, e.pos + 1)
    BY <1>1, <2>4, <2>7, TakingIs
  <2> HIDE DEF new
  <2>9. new.seen = cl.seen /\ new.last_id # None
    <3>1. Later(cl.seen, e.pos + 1) = cl.seen
      BY <1>1, <2>4 DEF Later
    <3>2. e.seq # None
      BY <2>4, StreamParameters
    <3> QED
      BY <2>8, <3>1, <3>2
  <2>10. Known(new, R, base)
    BY <2>6, <2>7, <2>8, <2>9 DEF Known
  <2>11. Reads(new, L, R, from, stop)
    BY <1>2, <2>6, <2>7, <2>8, <2>9 DEF Reads
  <2>12. InFlight(new, L, R, base, stop)
    <3>1. Tail(D) \in Seq(Repeats(new.seen)) /\ new.wire = Tail(D) \o Slice(L, from, stop)
      BY <2>2, <2>3, <2>8, <2>9
    <3> QED
      BY <1>0, <1>2, <2>8, <2>9, <2>11, <3>1 DEF InFlight
  <2>13. Streams(new, L, R, base, stop)
    BY <1>1, <2>8, <2>9, <2>10, <2>12 DEF Streams
  <2> QED
    BY <2>13 DEF new, e
<1>5. CASE D = << >>
  <2> DEFINE next == from + 1
  <2>1. cl.wire = Slice(L, from, stop)
    BY <1>2, <1>3, <1>5, ConcatEmpty
  <2>2. from < stop
    <3>1. from = stop => Slice(L, from, stop) = << >>
      BY SliceEmpty
    <3> QED
      BY <1>2, <2>1, <3>1
  <2>3. Tail(cl.wire) = Slice(L, next, stop)
    BY <2>1, <2>2, SliceTail
  <2>4. e = L[from]
    <3>1. ListsFrom(Slice(L, from, stop), L, from, stop - from)
      BY <2>2, SliceLists
    <3>2. 1 \in 1..(stop - from) /\ from + 1 - 1 = from
      BY <2>2
    <3> QED
      BY <2>1, <3>1, <3>2 DEF ListsFrom
  <2>5. e = [seq |-> L[from].seq, frame |-> L[from].frame, pos |-> from] /\ L[from].seq \in Nat /\ IsFrame(L[from].frame)
    BY <2>4 DEF IsLog
  <2>6. e.seq \in Nat /\ e.pos = from /\ IsFrame(e.frame) /\ e.frame = L[from].frame
    <3> HIDE DEF e
    <3> QED
      BY <2>5
  <2> HIDE DEF e
  <2>7. /\ ~Misfits(R[from], e.frame) /\ R[next] = Applied(R[from], e.frame) /\ IsReplica(R[from])
    <3>1. base <= from /\ from < end
      BY <1>2, <2>2
    <3>2. /\ ~Misfits(R[from], L[from].frame) /\ R[from + 1] = Applied(R[from], L[from].frame)
          /\ IsReplica(R[from])
      BY <3>1 DEF IsRun
    <3> QED
      BY <2>6, <3>2
  <2>8. /\ ~Misfits(cl.replica, e.frame) /\ IsReplica(Applied(cl.replica, e.frame))
        /\ Covers(Applied(cl.replica, e.frame), R[next])
    <3>1. CASE e.frame = ResetFrame
      <4>1. R[next] = EmptyReplica /\ Applied(cl.replica, e.frame) = EmptyReplica
        BY <2>7, <3>1, ResetTaken
      <4> QED
        BY <3>1, <4>1, ResetTaken DEF Covers
    <3>2. CASE e.frame # ResetFrame
      <4>1. Covers(cl.replica, R[from])
        BY <1>2, <2>6, <3>2 DEF Reads
      <4> QED
        BY <1>1, <2>6, <2>7, <4>1, FramesKeepCover
    <3> QED
      BY <3>1, <3>2
  <2>9. /\ IsClient(new) /\ new.attached = cl.attached /\ new.wire = Tail(cl.wire)
        /\ new.replica = Applied(cl.replica, e.frame) /\ new.last_id = e.seq
        /\ new.seen = Later(cl.seen, e.pos + 1)
    <3>1. e.pos \in Nat
      BY <2>6
    <3> QED
      BY <1>1, <2>6, <2>8, <3>1, TakingIs
  <2> HIDE DEF new
  <2>10. new.seen = next /\ new.last_id # None /\ next \in Nat
    <3>1. Later(cl.seen, from + 1) = from + 1
      BY <1>1, <1>2 DEF Later
    <3>2. e.seq # None
      BY <2>6, StreamParameters
    <3> QED
      BY <2>6, <2>9, <3>1, <3>2
  <2>11. base <= next /\ next <= stop
    BY <1>2, <2>2
  <2> HIDE DEF next
  <2>12. Known(new, R, base)
    BY <2>8, <2>9, <2>10, <2>11 DEF Known
  <2>13. Reads(new, L, R, next, stop)
    BY <2>8, <2>9, <2>10 DEF Reads
  <2>14. InFlight(new, L, R, base, stop)
    <3>1. << >> \in Seq(Repeats(new.seen)) /\ new.wire = << >> \o Slice(L, next, stop)
      <4>1. << >> \o Slice(L, next, stop) = Slice(L, next, stop)
        BY <2>10, <2>11, SliceIsSeq, ConcatEmpty
      <4> QED
        BY <2>3, <2>9, <4>1
    <3>2. new.seen <= next
      BY <2>10
    <3> QED
      BY <1>0, <2>9, <2>10, <2>11, <2>13, <3>1, <3>2 DEF InFlight
  <2>15. Streams(new, L, R, base, stop)
    BY <1>1, <2>9, <2>10, <2>11, <2>12, <2>14 DEF Streams
  <2> QED
    BY <2>15 DEF new, e
<1> QED
  BY <1>4, <1>5

\* Frames that are all closes the client has read leave a replica's cover alone.
LEMMA RepeatsKeepCover ==
  ASSUME NEW r, NEW old, IsReplica(r), Covers(r, old), NEW seen, NEW D \in Seq(Repeats(seen))
  PROVE  IsReplica(AppliedAll(r, D)) /\ Covers(AppliedAll(r, D), old)
<1> DEFINE G == {x \in [Sub -> {old[s] : s \in Sub} \cup {Closed}] : Covers(x, old)}
<1>1. r \in G
  BY DEF IsReplica, Covers
<1>2. ASSUME NEW x \in G, NEW e \in Repeats(seen) PROVE ApplyNext(x, e, None) \in G
  <2>1. PICK s \in Sub : e.frame = CloseFrame(s)
    BY DEF Repeats
  <2>2. IsReplica(x) /\ Covers(x, old)
    BY DEF IsReplica
  <2>3. IsReplica(Applied(x, CloseFrame(s))) /\ Covers(Applied(x, CloseFrame(s)), old)
    BY <2>2, ClosesKeepCover
  <2> DEFINE y == Applied(x, CloseFrame(s))
  <2>4. IsReplica(y) /\ Covers(y, old) /\ ApplyNext(x, e, None) = y
    BY <2>1, <2>3 DEF ApplyNext
  <2> HIDE DEF y
  <2>5. y \in G
    BY <2>4 DEF IsReplica, Covers
  <2> QED
    BY <2>4, <2>5
<1>3. DeliveredP!Fold(r, D, None) \in G
  <2> HIDE DEF G
  <2> QED
    BY <1>1, <1>2, DeliveredP!FoldKeeps
<1>4. AppliedAll(r, D) \in G
  BY <1>3, SameStreamFolds DEF AppliedAll
<1> QED
  BY <1>4 DEF IsReplica

LEMMA WholeCovers ==
  ASSUME NEW cl, NEW L, NEW R, NEW base \in Nat, NEW stop \in Nat, NEW end \in Nat,
         IsLog(L), IsRun(R, L, base, end), stop <= end,
         Streams(cl, L, R, base, stop), cl.attached
  PROVE  Covers(AppliedAll(cl.replica, cl.wire \o Slice(L, stop, end)), R[end])
<1>1. /\ IsClient(cl) /\ Known(cl, R, base) /\ InFlight(cl, L, R, base, stop)
      /\ base <= stop /\ cl.seen <= stop /\ cl.seen \in Nat /\ IsReplica(cl.replica)
  BY DEF Streams, IsClient
<1>2. PICK D \in Seq(Repeats(cl.seen)), from \in Nat :
            /\ cl.wire = D \o Slice(L, from, stop)
            /\ D # << >> => cl.last_id # None
            /\ base <= from /\ cl.seen <= from /\ from <= stop
            /\ Reads(cl, L, R, from, stop)
  BY <1>1 DEF InFlight
<1> DEFINE T == Repeats(cl.seen) \cup LoggedAt(L)
           Reset == from < stop /\ L[from].frame = ResetFrame
           at(k) == AppliedAll(cl.replica, D \o Slice(L, from, k))
           Good(k) == IsReplica(at(k)) /\ (k > from \/ ~Reset => Covers(at(k), R[k]))
           S == {k \in Nat : from <= k /\ k <= end => Good(k)}
<1>3. \A k \in Nat : from <= k => D \in Seq(T) /\ Slice(L, from, k) \in Seq(T) /\ L[k] \in T
  <2> SUFFICES ASSUME NEW k \in Nat, from <= k
               PROVE  D \in Seq(T) /\ Slice(L, from, k) \in Seq(T) /\ L[k] \in T
    OBVIOUS
  <2>1. Slice(L, from, k) \in Seq(LoggedAt(L))
    BY SliceIsSeq
  <2> QED
    BY <2>1 DEF LoggedAt
<1>4. cl.wire \o Slice(L, stop, end) = D \o Slice(L, from, end)
  <2>1. Slice(L, stop, end) \in Seq(T)
    <3>1. Slice(L, stop, end) \in Seq(LoggedAt(L))
      BY SliceIsSeq
    <3> QED
      BY <3>1
  <2>2. Slice(L, from, stop) \o Slice(L, stop, end) = Slice(L, from, end)
    BY <1>2, SliceConcat
  <2> DEFINE a == Slice(L, from, stop)
             b == Slice(L, stop, end)
  <2>3. D \in Seq(T) /\ a \in Seq(T) /\ b \in Seq(T)
    BY <1>2, <1>3, <2>1
  <2> HIDE DEF T, a, b
  <2>4. (D \o a) \o b = D \o (a \o b)
    BY ONLY <2>3, ConcatAssoc
  <2> QED
    BY <1>2, <2>2, <2>4 DEF a, b
<1>5. Good(from)
  <2>1. at(from) = AppliedAll(cl.replica, D)
    BY SliceEmpty, ConcatEmpty
  <2>2. CASE D = << >>
    <3>1. at(from) = cl.replica
      BY <2>1, <2>2, EmptyLoops
    <3>2. ~Reset => Covers(cl.replica, R[from])
      BY <1>2 DEF Reads
    <3>3. ~(from > from)
      OBVIOUS
    <3> HIDE DEF at, Reset
    <3> QED
      BY <1>1, <3>1, <3>2, <3>3
  <2>3. CASE D # << >>
    <3>1. cl.last_id # None /\ Covers(cl.replica, R[cl.seen])
      BY <1>1, <1>2, <2>3 DEF Known
    <3>2. IsReplica(at(from)) /\ \A old : Covers(cl.replica, old) => Covers(at(from), old)
      <4>1. ASSUME NEW old, Covers(cl.replica, old)
            PROVE  IsReplica(AppliedAll(cl.replica, D)) /\ Covers(AppliedAll(cl.replica, D), old)
        BY <1>1, <1>2, <4>1, RepeatsKeepCover
      <4> HIDE DEF at
      <4> QED
        BY <2>1, <3>1, <4>1
    <3>3. ~Reset => Covers(cl.replica, R[from])
      BY <1>2 DEF Reads
    <3>4. ~(from > from)
      OBVIOUS
    <3> HIDE DEF at, Reset
    <3> QED
      BY <3>2, <3>3, <3>4
  <2> QED
    BY <2>2, <2>3
<1>6. ASSUME NEW k \in Nat, from <= k, k < end, Good(k) PROVE Good(k + 1)
  <2> DEFINE d == k + 1
             f == L[k].frame
  <2>1. at(d) = Applied(at(k), f)
    <3> DEFINE s == Slice(L, from, k)
               x == L[k]
    <3>1. D \in Seq(T) /\ s \in Seq(T) /\ x \in T
      BY <1>3, <1>6
    <3>2. Append(s, x) = Slice(L, from, k + 1)
      BY <1>6, SliceAppend
    <3> HIDE DEF T, s, x
    <3>3. D \o Append(s, x) = Append(D \o s, x)
      BY ONLY <3>1, ConcatAppend
    <3> DEFINE q == D \o s
    <3>4. q \in Seq(T)
      BY <3>1
    <3> HIDE DEF q
    <3>5. AppliedAll(cl.replica, Append(q, x)) = Applied(AppliedAll(cl.replica, q), x.frame)
      BY ONLY <3>1, <3>4, ApplyOneMore
    <3> QED
      BY <3>2, <3>3, <3>5 DEF q, s, x
  <2>2. /\ ~Misfits(R[k], f) /\ R[d] = Applied(R[k], f) /\ IsReplica(R[k])
    <3>1. base <= k /\ k < end
      BY <1>2, <1>6
    <3> QED
      BY <3>1 DEF IsRun
  <2>3. IsFrame(f)
    BY DEF IsLog
  <2> HIDE DEF f
  <2>4. IsReplica(at(k)) /\ (k > from \/ ~Reset => Covers(at(k), R[k]))
    BY <1>6
  <2>5. d > from
    BY <1>6
  <2> HIDE DEF at, d
  <2>6. IsReplica(at(d)) /\ Covers(at(d), R[d])
    <3>1. CASE f = ResetFrame
      <4>1. at(d) = EmptyReplica /\ R[d] = EmptyReplica
        BY <2>1, <2>2, <3>1, ResetTaken
      <4> QED
        BY <4>1, ResetTaken DEF Covers
    <3>2. CASE f # ResetFrame
      <4>1. k > from \/ ~Reset
        <5>1. CASE k = from
          BY <3>2, <5>1 DEF f
        <5>2. CASE k # from
          <6>1. k > from
            BY <1>6, <5>2
          <6> QED
            BY <6>1
        <5> QED
          BY <5>1, <5>2
      <4>2. Covers(at(k), R[k])
        <5> HIDE DEF Reset
        <5> QED
          BY <2>4, <4>1
      <4> QED
        BY <2>1, <2>2, <2>3, <2>4, <4>2, FramesKeepCover
    <3> QED
      BY <3>1, <3>2
  <2>7. Good(d)
    BY <2>6
  <2> HIDE DEF Good
  <2> QED
    BY <2>7 DEF d
<1> HIDE DEF at, Reset
<1>7. 0 \in S
  <2>1. from <= 0 => from = 0
    BY <1>2
  <2> HIDE DEF Good
  <2> QED
    BY <1>5, <2>1
<1>8. ASSUME NEW k \in Nat, k \in S PROVE k + 1 \in S
  <2> SUFFICES ASSUME from <= k + 1, k + 1 <= end PROVE Good(k + 1)
    <3> HIDE DEF Good
    <3> QED
      OBVIOUS
  <2> HIDE DEF Good
  <2>1. CASE from = k + 1
    BY <1>5, <2>1
  <2>2. CASE from <= k
    BY <1>6, <1>8, <2>2
  <2> QED
    BY <1>2, <2>1, <2>2
<1> HIDE DEF S
<1>9. Nat \subseteq S
  BY <1>7, <1>8, PickedP!NatSetInduction
<1>10. Good(end)
  <2>1. end \in S /\ from <= end
    BY <1>2, <1>9
  <2> HIDE DEF Good
  <2> QED
    BY <2>1 DEF S
<1>11. Covers(at(end), R[end])
  <2>1. CASE end > from
    BY <1>10, <2>1
  <2>2. CASE ~(end > from)
    <3>1. ~(from < stop)
      BY <1>2, <2>2
    <3>2. ~Reset
      BY <3>1 DEF Reset
    <3> QED
      BY <1>10, <3>2
  <2> QED
    BY <2>1, <2>2
<1> QED
  BY <1>4, <1>11 DEF at

-----------------------------------------------------------------------------
(* A client and the ring behind it.                                        *)

\* Of an open connection: the log the ring ends, and how far the client is on
\* it.  W[s] is what a reader of all of it may hold of s.
Tracked(cl, out, W) ==
  \E L, R : \E base, stop, end \in Nat :
    /\ Logged(out, L, R, base, stop, end, W) /\ stop <= end
    /\ Streams(cl, L, R, base, stop)

\* Of a connection that is gone: the log it was drained.
Followed(cl) ==
  \E L, R : \E base, stop \in Nat :
    IsLog(L) /\ IsRun(R, L, base, stop) /\ Streams(cl, L, R, base, stop)

LEMMA TrackedUse ==
  ASSUME NEW cl, NEW out, NEW W, Tracked(cl, out, W)
  PROVE  \E L, R, base, stop, end :
           /\ base \in Nat /\ stop \in Nat /\ end \in Nat
           /\ Logged(out, L, R, base, stop, end, W) /\ stop <= end
           /\ Streams(cl, L, R, base, stop)
BY DEF Tracked

LEMMA TrackedIsFollowed ==
  ASSUME NEW cl, NEW out, NEW W, Tracked(cl, out, W)
  PROVE  Followed(cl)
<1>1. PICK L, R, base, stop, end :
           /\ base \in Nat /\ stop \in Nat /\ end \in Nat
           /\ Logged(out, L, R, base, stop, end, W) /\ stop <= end
           /\ Streams(cl, L, R, base, stop)
  BY TrackedUse
<1>2. IsLog(L) /\ IsRun(R, L, base, end)
  BY <1>1 DEF Logged
<1>3. IsRun(R, L, base, stop)
  BY <1>1, <1>2 DEF IsRun
<1> QED
  BY <1>1, <1>2, <1>3 DEF Followed

LEMMA TrackedWider ==
  ASSUME NEW cl, NEW out, NEW W, NEW V, Tracked(cl, out, W), \A s \in Sub : W[s] \subseteq V[s]
  PROVE  Tracked(cl, out, V)
<1>1. PICK L, R, base, stop, end :
           /\ base \in Nat /\ stop \in Nat /\ end \in Nat
           /\ Logged(out, L, R, base, stop, end, W) /\ stop <= end
           /\ Streams(cl, L, R, base, stop)
  BY TrackedUse
<1>2. Logged(out, L, R, base, stop, end, V)
  BY <1>1 DEF Logged
<1> QED
  BY <1>1, <1>2 DEF Tracked

\* One frame about s.
LEMMA EnqueueTracked ==
  ASSUME NEW cl, NEW out, NEW W, NEW V, Tracked(cl, out, W),
         NEW seq \in Nat, NEW s \in Sub, NEW f, IsFrameOf(s, f),
         \A x \in W[s] : ~Strays(x, f) /\ Taken(x, f) \in V[s],
         \A t \in Sub : t # s => W[t] \subseteq V[t]
  PROVE  Tracked(cl, Enqueue(out, seq, f), V)
<1>1. PICK L, R, base, stop, end :
           /\ base \in Nat /\ stop \in Nat /\ end \in Nat
           /\ Logged(out, L, R, base, stop, end, W) /\ stop <= end
           /\ Streams(cl, L, R, base, stop)
  BY TrackedUse
<1>2. IsFrame(f) /\ Leads(f, R[end], V)
  BY <1>1, FramesOfOne
<1> DEFINE M == Pushed(L, end, seq, f)
           Q == RunOn(R, end, f)
           next == end + 1
<1>3. /\ Logged(Enqueue(out, seq, f), M, Q, base, stop, next, V)
      /\ Continues(M, Q, L, R, end)
  BY <1>1, <1>2, EnqueueLogs
<1>4. next \in Nat /\ stop <= next
  BY <1>1
<1> HIDE DEF M, Q, next
<1>5. Streams(cl, M, Q, base, stop)
  BY <1>1, <1>3, StreamsContinue
<1> QED
  BY <1>1, <1>3, <1>4, <1>5 DEF Tracked

\* The frames of a sweep.
LEMMA SweptTracked ==
  ASSUME NEW cl, NEW out, NEW W, NEW V, Tracked(cl, out, W), NEW seq \in Nat, NEW T, NEW frames,
         \A s \in Sub : frames[s] \in Seq(T) /\ FramesLead(frames[s], s, W[s], V[s])
  PROVE  Tracked(cl, EnqueueAll(out, seq, << >> \o InOrder(frames)), V)
<1>1. PICK L, R, base, stop, end :
           /\ base \in Nat /\ stop \in Nat /\ end \in Nat
           /\ Logged(out, L, R, base, stop, end, W) /\ stop <= end
           /\ Streams(cl, L, R, base, stop)
  BY TrackedUse
<1> DEFINE new == EnqueueAll(out, seq, << >> \o InOrder(frames))
<1>2. EnqueueAll(out, seq, << >>) = out /\ << >> \in Seq(T)
  BY EmptyLoops
<1>3. GoesOn(new, out, L, R, base, stop, end, Cardinality(Sub), V)
  <2>1. Logged(EnqueueAll(out, seq, << >>), L, R, base, stop, end, W)
    BY <1>1, <1>2
  <2>2. GoesOn(new, EnqueueAll(out, seq, << >>), L, R, base, stop, end, Cardinality(Sub), V)
    BY <1>1, <1>2, <2>1, SweptLogs
  <2> QED
    BY <1>2, <2>2
<1> HIDE DEF new
<1>4. PICK M, Q : \E e \in Nat : /\ Logged(new, M, Q, base, stop, e, V)
                                 /\ Continues(M, Q, L, R, end)
                                 /\ end <= e
  BY <1>3 DEF GoesOn
<1>5. PICK e \in Nat : Logged(new, M, Q, base, stop, e, V) /\ Continues(M, Q, L, R, end) /\ end <= e
  BY <1>4
<1>6. Streams(cl, M, Q, base, stop) /\ stop <= e
  BY <1>1, <1>5, StreamsContinue
<1>7. Tracked(cl, new, V)
  BY <1>1, <1>5, <1>6 DEF Tracked
<1> QED
  BY <1>7 DEF new

LEMMA RingFields ==
  ASSUME NEW out, NEW L, NEW cursor, NEW end, IsRing(out, L, cursor, end)
  PROVE  /\ out \in [ring : {out.ring}, next_pos : {end}, cursor : {cursor},
                     evicted_through : {out.evicted_through}, overflow : BOOLEAN]
         /\ out.next_pos = end /\ out.cursor = cursor
<1> DEFINE o == [ring |-> out.ring, next_pos |-> end, cursor |-> cursor,
                 evicted_through |-> out.evicted_through, overflow |-> out.overflow]
<1>1. out = o /\ out.overflow \in BOOLEAN
  BY DEF IsRing
<1>2. o.next_pos = end /\ o.cursor = cursor
  OBVIOUS
<1>3. out.overflow \in BOOLEAN => o \in [ring : {out.ring}, next_pos : {end}, cursor : {cursor},
              evicted_through : {out.evicted_through}, overflow : BOOLEAN]
  OBVIOUS
<1> HIDE DEF o
<1> QED
  BY <1>1, <1>2, <1>3

LEMMA RingIs ==
  ASSUME NEW out, NEW ring, NEW cursor, NEW end, NEW evicted,
         out \in [ring : {ring}, next_pos : {end}, cursor : {cursor},
                  evicted_through : {evicted}, overflow : BOOLEAN]
  PROVE  out = [ring |-> out.ring, next_pos |-> end, cursor |-> cursor,
                evicted_through |-> out.evicted_through, overflow |-> out.overflow]
         /\ out.ring = ring /\ out.overflow \in BOOLEAN
OBVIOUS

\* MarkDelivered, with or without the latch cleared.
LEMMA DeliveredRing ==
  ASSUME NEW out, NEW L, NEW cursor \in Nat, NEW end \in Nat, IsRing(out, L, cursor, end)
  PROVE  /\ IsRing(MarkDelivered(out), L, end, end)
         /\ IsRing(MarkDelivered(ClearOverflow(out)), L, end, end)
         /\ ~MarkDelivered(ClearOverflow(out)).overflow
<1>1. PICK first \in Nat : /\ first <= end /\ out.ring = Slice(L, first, end)
                           /\ first = end => end = 0
                           /\ end - first <= Capacity
                           /\ ~out.overflow => first <= cursor
  BY DEF IsRing
<1> DEFINE ring == out.ring
           evicted == out.evicted_through
<1>2. out \in [ring : {ring}, next_pos : {end}, cursor : {cursor},
                     evicted_through : {evicted}, overflow : BOOLEAN]
      /\ out.next_pos = end
  BY RingFields
<1>3. ASSUME NEW new, new \in [ring : {ring}, next_pos : {end}, cursor : {end},
                     evicted_through : {evicted}, overflow : BOOLEAN]
      PROVE  IsRing(new, L, end, end)
  <2>1. /\ new = [ring |-> new.ring, next_pos |-> end, cursor |-> end,
                  evicted_through |-> new.evicted_through, overflow |-> new.overflow]
        /\ new.ring = ring /\ new.overflow \in BOOLEAN
    BY <1>3, RingIs
  <2>2. end <= end
    OBVIOUS
  <2> QED
    BY <1>1, <2>1, <2>2 DEF IsRing
<1> HIDE DEF ring, evicted
<1>4. MarkDelivered(out) \in [ring : {ring}, next_pos : {end}, cursor : {end},
                     evicted_through : {evicted}, overflow : BOOLEAN]
  BY <1>2 DEF MarkDelivered
<1>5. MarkDelivered(ClearOverflow(out)) \in [ring : {ring}, next_pos : {end}, cursor : {end},
                     evicted_through : {evicted}, overflow : {FALSE}]
  BY <1>2 DEF MarkDelivered, ClearOverflow
<1>6. /\ MarkDelivered(ClearOverflow(out)) \in [ring : {ring}, next_pos : {end}, cursor : {end},
                     evicted_through : {evicted}, overflow : BOOLEAN]
      /\ ~MarkDelivered(ClearOverflow(out)).overflow
  <2> DEFINE new == MarkDelivered(ClearOverflow(out))
  <2>1. new \in [ring : {ring}, next_pos : {end}, cursor : {end},
                     evicted_through : {evicted}, overflow : {FALSE}]
    BY <1>5
  <2> HIDE DEF new
  <2>2. new \in [ring : {ring}, next_pos : {end}, cursor : {end},
                     evicted_through : {evicted}, overflow : BOOLEAN] /\ ~new.overflow
    BY <2>1
  <2> QED
    BY <2>2 DEF new
<1> QED
  BY <1>3, <1>4, <1>6

LEMMA DeliveredLogs ==
  ASSUME NEW out, NEW L, NEW R, NEW W, NEW base \in Nat, NEW stop \in Nat, NEW end \in Nat,
         Logged(out, L, R, base, stop, end, W)
  PROVE  Logged(MarkDelivered(out), L, R, base, end, end, W)
BY DeliveredRing DEF Logged

LEMMA PolledTracked ==
  ASSUME NEW cl, NEW out, NEW W, Tracked(cl, out, W), cl.attached, cl.wire = << >>, ~out.overflow
  PROVE  Tracked(Handed(cl, Pending(out)), MarkDelivered(out), W)
<1>1. PICK L, R, base, stop, end :
           /\ base \in Nat /\ stop \in Nat /\ end \in Nat
           /\ Logged(out, L, R, base, stop, end, W) /\ stop <= end
           /\ Streams(cl, L, R, base, stop)
  BY TrackedUse
<1>2. Pending(out) = Slice(L, stop, end)
  BY <1>1, PendingIsRest DEF Logged
<1>3. Streams(Handed(cl, Slice(L, stop, end)), L, R, base, end)
  BY <1>1, DrainedStreams
<1>4. Logged(MarkDelivered(out), L, R, base, end, end, W)
  BY <1>1, DeliveredLogs
<1>5. end <= end
  BY <1>1
<1> QED
  BY <1>1, <1>2, <1>3, <1>4, <1>5 DEF Tracked

\* A resume replays the ring, from an id that separates the frames read.
LEMMA ReplayedTracked ==
  ASSUME NEW cl, NEW out, NEW W, Tracked(cl, out, W), cl.last_id # None,
         Separates(out.ring, cl.seen, cl.last_id)
  PROVE  Tracked(Handed(cl, ReplayAfter(out, cl.last_id)), MarkDelivered(out), W)
<1>1. PICK L, R, base, stop, end :
           /\ base \in Nat /\ stop \in Nat /\ end \in Nat
           /\ Logged(out, L, R, base, stop, end, W) /\ stop <= end
           /\ Streams(cl, L, R, base, stop)
  BY TrackedUse
<1> DEFINE seen == cl.seen
           id == cl.last_id
<1>2. IsLog(L) /\ IsRing(out, L, stop, end) /\ seen \in Nat /\ seen <= end
  BY <1>1 DEF Logged, Streams, IsClient
<1>3. PICK D \in Seq(Repeats(seen)) : ReplayAfter(out, id) = D \o Slice(L, seen, end)
  <2> HIDE DEF seen, id
  <2>1. Separates(out.ring, seen, id)
    BY DEF seen, id
  <2>2. EndsWith(ReplayAfter(out, id), Repeats(seen), Slice(L, seen, end))
    BY <1>1, <1>2, <2>1, ReplayIsRest
  <2> QED
    BY <2>2 DEF EndsWith
<1>4. Streams(Handed(cl, D \o Slice(L, seen, end)), L, R, base, end)
  BY <1>1, <1>3, ReplayedStreams
<1>5. Logged(MarkDelivered(out), L, R, base, end, end, W)
  BY <1>1, DeliveredLogs
<1>6. end <= end
  BY <1>1
<1> QED
  BY <1>1, <1>3, <1>4, <1>5, <1>6 DEF Tracked

LEMMA AppendToEmpty ==
  ASSUME NEW x
  PROVE  << >> \in Seq({x}) /\ Append(<< >>, x) = << x >> /\ << x >> \in Seq({x})
OBVIOUS

\* A reconstruction: what is buffered is given up for a reset and a frame per
\* subscription, none of which the ring loses.
LEMMA ResetTracked ==
  ASSUME Cardinality(Sub) < Capacity,
         NEW cl, NEW out, NEW W, NEW V, Tracked(cl, out, W), NEW seq \in Nat, NEW T, ResetFrame \in T,
         NEW frames, \A s \in Sub : frames[s] \in Seq(T) /\ FramesLead(frames[s], s, {None}, V[s])
  PROVE  LET filled == EnqueueAll(MarkDelivered(ClearOverflow(out)), seq,
                                  << ResetFrame >> \o InOrder(frames))
         IN  Tracked(Handed(cl, Pending(filled)), MarkDelivered(filled), V)
<1> DEFINE o == MarkDelivered(ClearOverflow(out))
           pre == << ResetFrame >>
           filled == EnqueueAll(o, seq, pre \o InOrder(frames))
           N == [s \in Sub |-> {None}]
<1>1. PICK L, R, base, stop, p :
           /\ base \in Nat /\ stop \in Nat /\ p \in Nat
           /\ Logged(out, L, R, base, stop, p, W) /\ stop <= p
           /\ Streams(cl, L, R, base, stop)
  BY TrackedUse
<1>2. Logged(o, L, R, base, p, p, W) /\ ~o.overflow
  BY <1>1, DeliveredRing DEF Logged
<1>3. IsFrame(ResetFrame) /\ Leads(ResetFrame, R[p], N)
  <2>1. ~Misfits(R[p], ResetFrame) /\ Applied(R[p], ResetFrame) = EmptyReplica /\ IsReplica(EmptyReplica)
    BY ResetTaken
  <2>2. \A s \in Sub : EmptyReplica[s] \in N[s]
    BY DEF EmptyReplica
  <2> QED
    BY <2>1, <2>2 DEF IsFrame, Leads
<1> HIDE DEF o, N
<1> DEFINE M == Pushed(L, p, seq, ResetFrame)
           Q == RunOn(R, p, ResetFrame)
           q == p + 1
           first == Enqueue(o, seq, ResetFrame)
<1>4. /\ Logged(first, M, Q, base, p, q, N)
      /\ Continues(M, Q, L, R, p)
      /\ M[p].frame = ResetFrame
      /\ ~o.overflow /\ p < p + Capacity => ~first.overflow
  BY <1>1, <1>2, <1>3, EnqueueLogs
<1>5. p < p + Capacity /\ q \in Nat /\ q + Cardinality(Sub) <= p + Capacity /\ p < q
  <2>1. Capacity \in Nat /\ Cardinality(Sub) \in Nat
    BY CapacityIsPositive, SubsAreOrdered
  <2> QED
    BY <1>1, <2>1
<1> HIDE DEF M, Q, q
<1>6. EnqueueAll(o, seq, pre) = first /\ pre \in Seq(T)
  <2>1. EnqueueAll(o, seq, Append(<< >>, ResetFrame)) = Enqueue(EnqueueAll(o, seq, << >>), seq, ResetFrame)
    <3>1. << >> \in Seq({ResetFrame}) /\ ResetFrame \in {ResetFrame}
      BY AppendToEmpty
    <3> QED
      BY ONLY <3>1, EnqueueOneMore
  <2>2. pre \in Seq({ResetFrame}) /\ {ResetFrame} \subseteq T
    BY AppendToEmpty
  <2> QED
    BY <2>1, <2>2, AppendToEmpty, EmptyLoops
<1> HIDE DEF first, pre
<1>7. /\ GoesOn(filled, first, M, Q, base, p, q, Cardinality(Sub), V)
      /\ ~first.overflow /\ q + Cardinality(Sub) <= p + Capacity => ~filled.overflow
  <2>1. Logged(EnqueueAll(o, seq, pre), M, Q, base, p, q, N)
    BY <1>4, <1>6
  <2>2. \A s \in Sub : frames[s] \in Seq(T) /\ FramesLead(frames[s], s, N[s], V[s])
    BY DEF N
  <2>3. /\ GoesOn(filled, EnqueueAll(o, seq, pre), M, Q, base, p, q, Cardinality(Sub), V)
        /\ ~EnqueueAll(o, seq, pre).overflow /\ q + Cardinality(Sub) <= p + Capacity => ~filled.overflow
    BY <1>1, <1>5, <1>6, <2>1, <2>2, SweptLogs
  <2> QED
    BY <1>6, <2>3
<1>8. ~filled.overflow
  <2>1. ~first.overflow
    BY <1>2, <1>4, <1>5
  <2> QED
    BY <1>5, <1>7, <2>1
<1> HIDE DEF filled
<1>9. PICK A, B : \E e \in Nat : /\ Logged(filled, A, B, base, p, e, V)
                                 /\ Continues(A, B, M, Q, q)
                                 /\ q <= e
  BY <1>7 DEF GoesOn
<1>10. PICK e \in Nat : Logged(filled, A, B, base, p, e, V) /\ Continues(A, B, M, Q, q) /\ q <= e
  BY <1>9
<1>11. Pending(filled) = Slice(A, p, e)
  BY <1>1, <1>8, <1>10, PendingIsRest DEF Logged
<1>12. A[p].frame = ResetFrame /\ p < e
  <2>1. A[p] = M[p]
    BY <1>1, <1>5, <1>10 DEF Continues
  <2> QED
    BY <1>1, <1>4, <1>5, <1>10, <2>1
<1>13. Streams(cl, A, B, base, stop)
  <2>1. Continues(A, B, L, R, p)
    <3>1. p <= q
      BY <1>1, <1>5
    <3> QED
      BY <1>1, <1>4, <1>5, <1>10, <3>1, ContinuesOn
  <2> QED
    BY <1>1, <2>1, StreamsContinue
<1>14. Streams(Handed(cl, Slice(A, p, e)), A, B, base, e)
  BY <1>1, <1>10, <1>12, <1>13, ResetStreams
<1>15. Logged(MarkDelivered(filled), A, B, base, e, e, V) /\ e <= e
  BY <1>1, <1>10, DeliveredLogs
<1>16. Tracked(Handed(cl, Pending(filled)), MarkDelivered(filled), V)
  BY <1>1, <1>10, <1>11, <1>14, <1>15 DEF Tracked
<1> QED
  BY <1>16 DEF filled, o, pre

\* The same for a client that holds nothing yet, without the reset.
LEMMA RebasedTracked ==
  ASSUME Cardinality(Sub) < Capacity,
         NEW cl, NEW out, NEW W, NEW V, Tracked(cl, out, W), cl.last_id = None, NEW seq \in Nat, NEW T,
         NEW frames, \A s \in Sub : frames[s] \in Seq(T) /\ FramesLead(frames[s], s, {None}, V[s])
  PROVE  LET filled == EnqueueAll(MarkDelivered(ClearOverflow(out)), seq, << >> \o InOrder(frames))
         IN  Tracked(Handed(cl, Pending(filled)), MarkDelivered(filled), V)
<1> DEFINE o == MarkDelivered(ClearOverflow(out))
           filled == EnqueueAll(o, seq, << >> \o InOrder(frames))
           N == [s \in Sub |-> {None}]
<1>1. PICK L, R, base, stop, p :
           /\ base \in Nat /\ stop \in Nat /\ p \in Nat
           /\ Logged(out, L, R, base, stop, p, W) /\ stop <= p
           /\ Streams(cl, L, R, base, stop)
  BY TrackedUse
<1> DEFINE Q == [k \in Nat |-> EmptyReplica]
<1>2. IsLog(L) /\ IsRing(o, L, p, p) /\ ~o.overflow
  BY <1>1, DeliveredRing DEF Logged
<1>3. Logged(o, L, Q, p, p, p, N)
  <2>1. IsReplica(EmptyReplica) /\ \A s \in Sub : EmptyReplica[s] \in N[s]
    BY ResetTaken DEF EmptyReplica
  <2>2. Q = [k \in Nat |-> Q[k]] /\ \A k \in Nat : Q[k] = EmptyReplica
    OBVIOUS
  <2>3. ~\E k \in Nat : p <= k /\ k < p
    BY <1>1
  <2> HIDE DEF Q, N, o
  <2>4. IsRun(Q, L, p, p)
    BY <2>1, <2>2, <2>3 DEF IsRun
  <2>5. p <= p /\ Q[p] = EmptyReplica
    BY <1>1, <2>2
  <2> QED
    BY <1>2, <2>1, <2>4, <2>5 DEF Logged
<1>4. Q[p] = EmptyReplica
  BY <1>1
<1> HIDE DEF o, N, Q
<1>5. EnqueueAll(o, seq, << >>) = o /\ << >> \in Seq(T)
  BY EmptyLoops
<1>6. p + Cardinality(Sub) <= p + Capacity
  <2>1. Capacity \in Nat /\ Cardinality(Sub) \in Nat
    BY CapacityIsPositive, SubsAreOrdered
  <2> QED
    BY <1>1, <2>1
<1>7. /\ GoesOn(filled, o, L, Q, p, p, p, Cardinality(Sub), V)
      /\ ~o.overflow /\ p + Cardinality(Sub) <= p + Capacity => ~filled.overflow
  <2>1. Logged(EnqueueAll(o, seq, << >>), L, Q, p, p, p, N)
    BY <1>3, <1>5
  <2>2. \A s \in Sub : frames[s] \in Seq(T) /\ FramesLead(frames[s], s, N[s], V[s])
    BY DEF N
  <2>3. /\ GoesOn(filled, EnqueueAll(o, seq, << >>), L, Q, p, p, p, Cardinality(Sub), V)
        /\ ~EnqueueAll(o, seq, << >>).overflow /\ p + Cardinality(Sub) <= p + Capacity => ~filled.overflow
    BY <1>1, <1>5, <2>1, <2>2, SweptLogs
  <2> QED
    BY <1>5, <2>3
<1>8. ~filled.overflow
  BY <1>2, <1>6, <1>7
<1> HIDE DEF filled
<1>9. PICK A, B : \E e \in Nat : /\ Logged(filled, A, B, p, p, e, V)
                                 /\ Continues(A, B, L, Q, p)
                                 /\ p <= e
  BY <1>7 DEF GoesOn
<1>10. PICK e \in Nat : Logged(filled, A, B, p, p, e, V) /\ Continues(A, B, L, Q, p) /\ p <= e
  BY <1>9
<1>11. Pending(filled) = Slice(A, p, e)
  BY <1>1, <1>8, <1>10, PendingIsRest DEF Logged
<1>12. B[p] = EmptyReplica
  <2>1. p <= p
    BY <1>1
  <2> QED
    BY <1>1, <1>4, <1>10, <2>1 DEF Continues
<1>13. Streams(Handed(cl, Slice(A, p, e)), A, B, p, e)
  BY <1>1, <1>10, <1>12, RebasedStreams
<1>14. Logged(MarkDelivered(filled), A, B, p, e, e, V) /\ e <= e
  BY <1>1, <1>10, DeliveredLogs
<1>15. Tracked(Handed(cl, Pending(filled)), MarkDelivered(filled), V)
  BY <1>1, <1>10, <1>11, <1>13, <1>14 DEF Tracked
<1> QED
  BY <1>15 DEF filled, o

\* The client takes a frame, is cut off, or starts over.
LEMMA ReceivedTracked ==
  ASSUME NEW cl, NEW out, NEW W, cl.wire # << >>
  PROVE  /\ Tracked(cl, out, W) => Tracked(Taking(cl, cl.wire[1], Tail(cl.wire)), out, W)
         /\ Followed(cl) => Followed(Taking(cl, cl.wire[1], Tail(cl.wire)))
<1> DEFINE new == Taking(cl, cl.wire[1], Tail(cl.wire))
<1>1. ASSUME Tracked(cl, out, W) PROVE Tracked(new, out, W)
  <2>1. PICK L, R, base, stop, end :
           /\ base \in Nat /\ stop \in Nat /\ end \in Nat
           /\ Logged(out, L, R, base, stop, end, W) /\ stop <= end
           /\ Streams(cl, L, R, base, stop)
    BY <1>1, TrackedUse
  <2>2. IsLog(L) /\ IsRun(R, L, base, end)
    BY <2>1 DEF Logged
  <2>3. Streams(new, L, R, base, stop)
    BY <2>1, <2>2, ReceivedStreams
  <2> HIDE DEF new
  <2> QED
    BY <2>1, <2>3 DEF Tracked
<1>2. ASSUME Followed(cl) PROVE Followed(new)
  <2>1. PICK L, R : \E base, stop \in Nat :
          IsLog(L) /\ IsRun(R, L, base, stop) /\ Streams(cl, L, R, base, stop)
    BY <1>2 DEF Followed
  <2>2. PICK base \in Nat, stop \in Nat :
          IsLog(L) /\ IsRun(R, L, base, stop) /\ Streams(cl, L, R, base, stop)
    BY <2>1
  <2>3. stop <= stop
    BY <2>2
  <2>4. Streams(new, L, R, base, stop)
    BY <2>2, <2>3, ReceivedStreams
  <2> HIDE DEF new
  <2> QED
    BY <2>2, <2>4 DEF Followed
<1> QED
  BY <1>1, <1>2

\* A client that changes so that it can still be where it was.
LEMMA SameStreams ==
  ASSUME NEW cl, NEW new, NEW out, NEW W,
         \A L, R : \A base, stop \in Nat : Streams(cl, L, R, base, stop) => Streams(new, L, R, base, stop)
  PROVE  /\ Tracked(cl, out, W) => Tracked(new, out, W)
         /\ Followed(cl) => Followed(new)
<1>1. ASSUME Tracked(cl, out, W) PROVE Tracked(new, out, W)
  <2>1. PICK L, R, base, stop, end :
           /\ base \in Nat /\ stop \in Nat /\ end \in Nat
           /\ Logged(out, L, R, base, stop, end, W) /\ stop <= end
           /\ Streams(cl, L, R, base, stop)
    BY <1>1, TrackedUse
  <2>2. Streams(new, L, R, base, stop)
    BY <2>1
  <2> QED
    BY <2>1, <2>2 DEF Tracked
<1>2. ASSUME Followed(cl) PROVE Followed(new)
  BY <1>2 DEF Followed
<1> QED
  BY <1>1, <1>2

CutOff(cl) == [cl EXCEPT !.attached = FALSE, !.wire = << >>]

LEMMA CutTracked ==
  ASSUME NEW cl, NEW out, NEW W
  PROVE  /\ Tracked(cl, out, W) => Tracked(CutOff(cl), out, W)
         /\ Followed(cl) => Followed(CutOff(cl))
<1> DEFINE new == CutOff(cl)
<1>1. ASSUME NEW L, NEW R, NEW base \in Nat, NEW stop \in Nat, Streams(cl, L, R, base, stop)
      PROVE  Streams(new, L, R, base, stop)
  <2>1. IsClient(cl) /\ Known(cl, R, base) /\ base <= stop /\ cl.seen <= stop /\ IsReplica(cl.replica)
    BY <1>1 DEF Streams, IsClient
  <2>2. cl.last_id \in Nat \cup {None} /\ cl.seen \in Nat
    BY <2>1 DEF IsClient
  <2>3. new \in [attached : {FALSE}, wire : {<< >>}, replica : {cl.replica}, last_id : {cl.last_id},
                 seen : {cl.seen}, misfit : {FALSE}]
    BY <2>1 DEF IsClient, CutOff
  <2> HIDE DEF new
  <2>4. /\ new \in [attached : BOOLEAN, wire : {new.wire}, replica : {new.replica},
                    last_id : Nat \cup {None}, seen : Nat, misfit : {FALSE}]
        /\ ~new.attached /\ new.wire = << >> /\ new.replica = cl.replica
        /\ new.last_id = cl.last_id /\ new.seen = cl.seen
    BY <2>2, <2>3
  <2>5. IsClient(new) /\ Known(new, R, base) /\ InFlight(new, L, R, base, stop)
    BY <2>1, <2>4 DEF IsClient, Known, InFlight
  <2> QED
    BY <2>1, <2>4, <2>5 DEF Streams
<1> HIDE DEF new
<1>2. /\ Tracked(cl, out, W) => Tracked(new, out, W)
      /\ Followed(cl) => Followed(new)
  BY <1>1, SameStreams
<1> QED
  BY <1>2 DEF new

LEMMA FreshStreams ==
  ASSUME NEW L, NEW R, NEW base \in Nat, NEW stop \in Nat, base <= stop
  PROVE  Streams(FreshClient, L, R, base, stop)
<1> DEFINE new == FreshClient
<1>1. new \in [attached : {FALSE}, wire : {<< >>}, replica : {EmptyReplica}, last_id : {None},
               seen : {0}, misfit : {FALSE}]
  BY DEF FreshClient
<1>2. IsReplica(EmptyReplica)
  BY ResetTaken
<1> HIDE DEF new
<1>3. /\ new \in [attached : BOOLEAN, wire : {new.wire}, replica : {new.replica},
                    last_id : Nat \cup {None}, seen : Nat, misfit : {FALSE}]
      /\ ~new.attached /\ new.wire = << >> /\ new.replica = EmptyReplica
      /\ new.last_id = None /\ new.seen = 0
  <2> DEFINE r == EmptyReplica
             z == 0
             w == << >>
  <2>1. z \in Nat /\ None \in Nat \cup {None}
    OBVIOUS
  <2>2. new \in [attached : {FALSE}, wire : {w}, replica : {r}, last_id : {None}, seen : {z}, misfit : {FALSE}]
    BY <1>1
  <2> HIDE DEF r, z, w
  <2>3. /\ new \in [attached : BOOLEAN, wire : {new.wire}, replica : {new.replica},
                    last_id : Nat \cup {None}, seen : Nat, misfit : {FALSE}]
        /\ ~new.attached /\ new.wire = w /\ new.replica = r /\ new.last_id = None /\ new.seen = z
    BY <2>1, <2>2
  <2> QED
    BY <2>3 DEF r, z, w
<1>4. IsClient(new) /\ Known(new, R, base) /\ InFlight(new, L, R, base, stop) /\ new.seen <= stop
  <2>1. 0 <= stop
    OBVIOUS
  <2>2. IsClient(new)
    BY <1>2, <1>3 DEF IsClient
  <2>3. Known(new, R, base) /\ InFlight(new, L, R, base, stop) /\ new.seen <= stop
    BY <1>3, <2>1 DEF Known, InFlight
  <2> QED
    BY <2>2, <2>3
<1>5. Streams(new, L, R, base, stop)
  BY <1>4 DEF Streams
<1> QED
  BY <1>5 DEF new

LEMMA StartOverTracked ==
  ASSUME NEW cl, NEW out, NEW W
  PROVE  /\ Tracked(cl, out, W) => Tracked(FreshClient, out, W)
         /\ Followed(cl) => Followed(FreshClient)
<1>1. ASSUME NEW L, NEW R, NEW base \in Nat, NEW stop \in Nat, Streams(cl, L, R, base, stop)
      PROVE  Streams(FreshClient, L, R, base, stop)
  BY <1>1, FreshStreams DEF Streams
<1> QED
  BY <1>1, SameStreams

\* A log of nothing but resets, for a client that was sent nothing.
LEMMA FreshTracked ==
  ASSUME NEW W, \A s \in Sub : None \in W[s]
  PROVE  Tracked(FreshClient, EmptyOutbound, W) /\ Followed(FreshClient)
<1> DEFINE L == [k \in Nat |-> [seq |-> 0, frame |-> ResetFrame, pos |-> k]]
           R == [k \in Nat |-> EmptyReplica]
<1>1. IsLog(L)
  <2>1. ASSUME NEW k \in Nat
        PROVE  /\ L[k] = [seq |-> L[k].seq, frame |-> L[k].frame, pos |-> k]
               /\ L[k].seq \in Nat /\ IsFrame(L[k].frame)
    BY DEF IsFrame
  <2>2. L = [k \in Nat |-> L[k]]
    OBVIOUS
  <2> HIDE DEF L
  <2> QED
    BY <2>1, <2>2 DEF IsLog
<1>2. IsReplica(EmptyReplica) /\ \A s \in Sub : EmptyReplica[s] = None
  BY ResetTaken DEF EmptyReplica
<1>3. R = [k \in Nat |-> R[k]] /\ \A k \in Nat : R[k] = EmptyReplica
  OBVIOUS
<1> HIDE DEF L, R
<1>4. 0 \in Nat /\ 0 <= 0 /\ ~\E k \in Nat : 0 <= k /\ k < 0
  OBVIOUS
<1>5. IsRun(R, L, 0, 0)
  BY <1>2, <1>3, <1>4 DEF IsRun
<1>6. IsRing(EmptyOutbound, L, 0, 0)
  <2> DEFINE out == EmptyOutbound
  <2>1. out \in [ring : {<< >>}, next_pos : {0}, cursor : {0}, evicted_through : {0}, overflow : BOOLEAN]
    BY DEF EmptyOutbound
  <2> HIDE DEF out
  <2>2. /\ out = [ring |-> out.ring, next_pos |-> 0, cursor |-> 0,
                  evicted_through |-> out.evicted_through, overflow |-> out.overflow]
        /\ out.ring = << >> /\ out.overflow \in BOOLEAN
    BY <2>1, RingIs
  <2>3. Slice(L, 0, 0) = << >>
    BY SliceEmpty
  <2>4. 0 - 0 <= Capacity
    BY CapacityIsPositive
  <2>5. IsRing(out, L, 0, 0)
    BY <1>4, <2>2, <2>3, <2>4 DEF IsRing
  <2> QED
    BY <2>5 DEF out
<1>7. R[0] = EmptyReplica /\ \A s \in Sub : R[0][s] \in W[s]
  BY <1>2, <1>3, <1>4
<1>8. Logged(EmptyOutbound, L, R, 0, 0, 0, W)
  BY <1>1, <1>4, <1>5, <1>6, <1>7 DEF Logged
<1>9. Streams(FreshClient, L, R, 0, 0)
  BY <1>4, FreshStreams
<1> QED
  BY <1>1, <1>4, <1>5, <1>8, <1>9 DEF Tracked, Followed

\* resume on a connection the server does not know.
LEMMA UnknownFollowed ==
  ASSUME NEW cl, Followed(cl), ~cl.attached
  PROVE  Followed([cl EXCEPT !.replica = EmptyReplica])
<1> DEFINE new == [cl EXCEPT !.replica = EmptyReplica]
<1>1. PICK L, R : \E base, stop \in Nat :
        IsLog(L) /\ IsRun(R, L, base, stop) /\ Streams(cl, L, R, base, stop)
  BY DEF Followed
<1>2. IsLog(L) /\ IsClient(cl) /\ cl.wire = << >> /\ cl.seen \in Nat /\ cl.last_id \in Nat \cup {None}
  BY <1>1 DEF Streams, InFlight, IsClient
<1>3. new \in [attached : {FALSE}, wire : {<< >>}, replica : {EmptyReplica}, last_id : {cl.last_id},
               seen : {cl.seen}, misfit : {FALSE}]
  BY <1>2 DEF IsClient
<1>4. IsReplica(EmptyReplica) /\ Covers(EmptyReplica, EmptyReplica)
  BY ResetTaken DEF Covers
<1> HIDE DEF new
<1>5. /\ new \in [attached : BOOLEAN, wire : {new.wire}, replica : {new.replica},
                  last_id : Nat \cup {None}, seen : Nat, misfit : {FALSE}]
      /\ ~new.attached /\ new.wire = << >> /\ new.replica = EmptyReplica
      /\ new.last_id = cl.last_id /\ new.seen = cl.seen
  BY <1>2, <1>3
<1> DEFINE Q == [k \in Nat |-> EmptyReplica]
           n == cl.seen
<1>6. Q = [k \in Nat |-> Q[k]] /\ \A k \in Nat : Q[k] = EmptyReplica
  OBVIOUS
<1>7. n \in Nat /\ n <= n /\ ~\E k \in Nat : n <= k /\ k < n
  BY <1>2
<1> HIDE DEF Q
<1>8. IsRun(Q, L, n, n)
  <2> HIDE DEF n
  <2> QED
    BY <1>4, <1>6, <1>7 DEF IsRun
<1>9. Streams(new, L, Q, n, n)
  <2>1. IsClient(new) /\ Known(new, Q, n) /\ InFlight(new, L, Q, n, n)
    BY <1>2, <1>4, <1>5, <1>6, <1>7 DEF IsClient, Known, InFlight
  <2> QED
    BY <1>5, <1>7, <2>1 DEF Streams
<1> HIDE DEF n
<1>10. Followed(new)
  BY <1>2, <1>7, <1>8, <1>9 DEF Followed
<1> QED
  BY <1>10 DEF new

\* With nothing lost, what is in flight and buffered brings the client to what
\* a reader of the log may hold.
LEMMA WholeReconstructs ==
  ASSUME NEW cl, NEW out, NEW W, Tracked(cl, out, W), \A s \in Sub : Closed \in W[s]
  PROVE  /\ ~cl.misfit
         /\ cl.attached /\ ~out.overflow =>
              LET replica == AppliedAll(cl.replica, cl.wire \o Pending(out)) IN
              \A s \in Sub : replica[s] \in W[s]
<1>1. PICK L, R, base, stop, end :
           /\ base \in Nat /\ stop \in Nat /\ end \in Nat
           /\ Logged(out, L, R, base, stop, end, W) /\ stop <= end
           /\ Streams(cl, L, R, base, stop)
  BY TrackedUse
<1>2. ~cl.misfit
  BY <1>1 DEF Streams, IsClient
<1>3. ASSUME cl.attached, ~out.overflow
      PROVE  \A s \in Sub : AppliedAll(cl.replica, cl.wire \o Pending(out))[s] \in W[s]
  <2>1. IsLog(L) /\ IsRun(R, L, base, end) /\ \A s \in Sub : R[end][s] \in W[s]
    BY <1>1 DEF Logged
  <2>2. Pending(out) = Slice(L, stop, end)
    BY <1>1, <1>3, PendingIsRest DEF Logged
  <2>3. Covers(AppliedAll(cl.replica, cl.wire \o Slice(L, stop, end)), R[end])
    BY <1>1, <1>3, <2>1, WholeCovers
  <2> QED
    BY <2>1, <2>2, <2>3 DEF Covers
<1> QED
  BY <1>2, <1>3

LEMMA FollowedFits ==
  ASSUME NEW cl, Followed(cl)
  PROVE  ~cl.misfit
BY DEF Followed, Streams, IsClient

-----------------------------------------------------------------------------
(* Every connection, and its steps.                                        *)

\* What a reader of everything a connection was sent may hold of each
\* subscription.
Wanted(c) ==
  [s \in Sub |->
     IF Live(c, s)
     THEN {Holding(subs[c][s].snapshot), Closed} \cup (IF Reprojected(c, s) THEN {} ELSE {None})
     ELSE {None, Closed}]

StreamOk(c) ==
  IF Open(c) THEN Tracked(client[c], outbound[c], Wanted(c)) ELSE Followed(client[c])

StreamShape ==
  /\ client = [c \in Conn |-> client[c]]
  /\ outbound = [c \in Conn |-> outbound[c]]

StreamInv ==
  /\ ConnectInv
  /\ CommitsExist
  /\ StreamShape
  /\ \A c \in Conn : StreamOk(c)

\* Connection c is where it was: of its subscriptions, some watches closed.
StaysPut(c) ==
  /\ Open(c)' = Open(c) /\ subs'[c] = subs[c]
  /\ Open(c) => \A s \in Sub : Revoked(connections, c, s) => Revoked(connections, c, s)'

LEMMA WantedWidens ==
  ASSUME NEW c \in Conn, Open(c), StaysPut(c)
  PROVE  \A s \in Sub : Wanted(c)[s] \subseteq Wanted(c)'[s]
<1> SUFFICES ASSUME NEW s \in Sub PROVE Wanted(c)[s] \subseteq Wanted(c)'[s]
  OBVIOUS
<1>1. subs'[c][s] = subs[c][s] /\ Live(c, s)' = Live(c, s)
  BY DEF StaysPut, Live
<1>2. Reprojected(c, s)' => Reprojected(c, s)
  BY <1>1 DEF Reprojected, StaysPut
<1>3. /\ Wanted(c)[s] = IF Live(c, s)
                        THEN {Holding(subs[c][s].snapshot), Closed}
                               \cup (IF Reprojected(c, s) THEN {} ELSE {None})
                        ELSE {None, Closed}
      /\ Wanted(c)'[s] = IF Live(c, s)'
                         THEN {Holding(subs'[c][s].snapshot), Closed}
                                \cup (IF Reprojected(c, s)' THEN {} ELSE {None})
                         ELSE {None, Closed}
  BY DEF Wanted
<1> QED
  BY <1>1, <1>2, <1>3

LEMMA PutStaysOk ==
  ASSUME NEW c \in Conn, StreamOk(c), StaysPut(c), client'[c] = client[c], outbound'[c] = outbound[c]
  PROVE  StreamOk(c)'
<1>1. CASE Open(c)
  <2> DEFINE cl == client[c]
             out == outbound[c]
             W == Wanted(c)
             V == Wanted(c)'
  <2>1. Tracked(cl, out, W) /\ \A s \in Sub : W[s] \subseteq V[s]
    BY <1>1, WantedWidens DEF StreamOk
  <2> HIDE DEF cl, out, W, V
  <2>2. Tracked(cl, out, V)
    BY <2>1, TrackedWider
  <2>3. Tracked(client'[c], outbound'[c], Wanted(c)')
    BY <2>2 DEF cl, out, V
  <2>4. Open(c)'
    BY <1>1 DEF StaysPut
  <2> QED
    BY <2>3, <2>4 DEF StreamOk
<1>2. CASE ~Open(c)
  BY <1>2 DEF StreamOk, StaysPut
<1> QED
  BY <1>1, <1>2

LEMMA UntouchedStaysPut ==
  ASSUME NEW c \in Conn, subs'[c] = subs[c], connections'[c] = connections[c]
  PROVE  StaysPut(c)
BY DEF StaysPut, Open, Revoked

\* A sweep never opens a watch again.
LEMMA SweepsOnlyClose ==
  ASSUME SurfaceInv, IsSweep, NEW c \in Conn, Open(c), NEW s \in Sub, Revoked(connections, c, s)
  PROVE  Revoked(connections', c, s)
<1>1. PICK advancing \in SUBSET Conn, complete \in BOOLEAN : SweepStep(advancing, complete)
  BY DEF IsSweep
<1>2. PICK target \in Nat :
        SweptTo(c, connections'[c], c \in advancing, target, history'[Latest'], now', complete)
  BY <1>1 DEF SweepStep
<1>3. /\ connections'[c].watches[s] = None <=> connections[c].watches[s] = None
      /\ connections[c].watches[s] # None =>
           (~connections'[c].watches[s].closed => ~connections[c].watches[s].closed)
  BY <1>2 DEF SweptTo
<1> QED
  BY <1>3 DEF Revoked

LEMMA SweptStaysPut ==
  ASSUME SurfaceInv, IsSweep, NEW c \in Conn, subs'[c] = subs[c]
  PROVE  StaysPut(c)
<1>1. Open(c)' = Open(c)
  BY SweepsKeepOpen
<1>2. Open(c) => \A s \in Sub : Revoked(connections, c, s) => Revoked(connections, c, s)'
  BY SweepsOnlyClose DEF Revoked
<1> QED
  BY <1>1, <1>2 DEF StaysPut

LEMMA HelloKeepsStream ==
  ASSUME StreamInv, NEW c \in Conn, Hello(c), NEW d \in Conn
  PROVE  StreamOk(d)'
<1>1. PICK b \in BOOLEAN : connections' = [connections EXCEPT ![c] = [Fresh EXCEPT !.bound = b]]
  BY DEF Hello
<1>2. /\ subs' = [subs EXCEPT ![c] = [s \in Sub |-> None]]
      /\ outbound' = [outbound EXCEPT ![c] = EmptyOutbound]
      /\ client' = [client EXCEPT ![c] = FreshClient]
  BY DEF Hello
<1>3. CASE d # c
  <2>1. /\ connections'[d] = connections[d] /\ subs'[d] = subs[d]
        /\ outbound'[d] = outbound[d] /\ client'[d] = client[d]
    BY <1>1, <1>2, <1>3 DEF StreamInv, StreamShape, ConnectInv, SubsInv, SurfaceInv, SurfaceTypes
  <2> QED
    BY <2>1, UntouchedStaysPut, PutStaysOk DEF StreamInv
<1>4. CASE d = c
  <2>1. /\ client'[c] = FreshClient /\ outbound'[c] = EmptyOutbound
        /\ \A s \in Sub : subs'[c][s] = None
    BY <1>2 DEF StreamInv, StreamShape, ConnectInv, SubsInv
  <2>2. \A s \in Sub : Wanted(c)'[s] = {None, Closed}
    BY <2>1 DEF Wanted, Live
  <2> DEFINE V == Wanted(c)'
  <2>3. \A s \in Sub : None \in V[s]
    BY <2>2
  <2> HIDE DEF V
  <2>4. Tracked(FreshClient, EmptyOutbound, V) /\ Followed(FreshClient)
    BY <2>3, FreshTracked
  <2>5. Tracked(client'[c], outbound'[c], Wanted(c)') /\ Followed(client'[c])
    BY <2>1, <2>4 DEF V
  <2> QED
    BY <1>4, <2>5 DEF StreamOk
<1> QED
  BY <1>3, <1>4

LEMMA DropKeepsStream ==
  ASSUME StreamInv, NEW c \in Conn, Drop(c), NEW d \in Conn
  PROVE  StreamOk(d)'
<1>1. /\ connections' = [connections EXCEPT ![c] = None] /\ Open(c)
      /\ subs' = [subs EXCEPT ![c] = [s \in Sub |-> None]]
      /\ outbound' = [outbound EXCEPT ![c] = EmptyOutbound]
      /\ client' = client
  BY DEF Drop, Disconnect
<1>2. CASE d # c
  <2>1. /\ connections'[d] = connections[d] /\ subs'[d] = subs[d]
        /\ outbound'[d] = outbound[d] /\ client'[d] = client[d]
    BY <1>1, <1>2 DEF StreamInv, StreamShape, ConnectInv, SubsInv, SurfaceInv, SurfaceTypes
  <2> QED
    BY <2>1, UntouchedStaysPut, PutStaysOk DEF StreamInv
<1>3. CASE d = c
  <2>1. ~Open(c)'
    BY <1>1 DEF Open, StreamInv, ConnectInv, SurfaceInv, SurfaceTypes
  <2>2. Tracked(client[c], outbound[c], Wanted(c))
    BY <1>1 DEF StreamInv, StreamOk
  <2> DEFINE cl == client[c]
             out == outbound[c]
             W == Wanted(c)
  <2>3. Tracked(cl, out, W)
    BY <2>2
  <2> HIDE DEF cl, out, W
  <2>4. Followed(cl)
    BY <2>3, TrackedIsFollowed
  <2>5. client'[c] = cl
    BY <1>1 DEF cl
  <2> QED
    BY <1>3, <2>1, <2>4, <2>5 DEF StreamOk
<1> QED
  BY <1>2, <1>3

LEMMA WantedIs ==
  ASSUME NEW c \in Conn, NEW s \in Sub
  PROVE  Wanted(c)[s] = IF Live(c, s)
                        THEN {Holding(subs[c][s].snapshot), Closed}
                               \cup (IF Reprojected(c, s) THEN {} ELSE {None})
                        ELSE {None, Closed}
BY DEF Wanted

LEMMA WantedNext ==
  ASSUME NEW c \in Conn, NEW s \in Sub
  PROVE  Wanted(c)'[s] = IF Live(c, s)'
                         THEN {Holding(subs'[c][s].snapshot), Closed}
                                \cup (IF Reprojected(c, s)' THEN {} ELSE {None})
                         ELSE {None, Closed}
BY DEF Wanted

LEMMA FrontiersAreNat ==
  ASSUME SurfaceInv, NEW c \in Conn, Open(c)
  PROVE  connections[c].frontier \in Nat
BY DEF SurfaceInv, SurfaceTypes, Open, Connection

\* What taking a frame makes of a subscription.
LEMMA InitTaken ==
  ASSUME NEW s, NEW rows, NEW x
  PROVE  ~Strays(x, InitFrame(s, rows)) /\ Taken(x, InitFrame(s, rows)) \in {Holding(rows), Closed}
<1> DEFINE f == InitFrame(s, rows)
<1>1. f.kind \in {"init", "scalar"} /\ f.rows = rows
  BY DEF InitFrame
<1> HIDE DEF f
<1>2. ~Strays(x, f) /\ Taken(x, f) = IF x = Closed THEN x ELSE Holding(rows)
  BY <1>1 DEF Strays, Taken
<1> QED
  BY <1>2 DEF f

LEMMA CloseTaken ==
  ASSUME NEW s, NEW x
  PROVE  ~Strays(x, CloseFrame(s)) /\ Taken(x, CloseFrame(s)) = Closed
<1> DEFINE f == CloseFrame(s)
<1>1. f.kind = "close"
  BY DEF CloseFrame
<1> HIDE DEF f
<1>2. ~Strays(x, f) /\ Taken(x, f) = Closed
  BY <1>1 DEF Strays, Taken
<1> QED
  BY <1>2 DEF f

LEMMA PatchTaken ==
  ASSUME NEW s, NEW base, NEW rows, NEW x \in {Holding(base), Closed}
  PROVE  /\ ~Strays(x, PatchFrame(s, base, rows))
         /\ Taken(x, PatchFrame(s, base, rows)) \in {Holding(rows), Closed}
<1> DEFINE f == PatchFrame(s, base, rows)
<1>1. f.kind = "patch" /\ f.rows = rows /\ f.base = base
  BY DEF PatchFrame
<1> HIDE DEF f
<1>2. ~Strays(x, f) /\ Taken(x, f) = IF x = Holding(base) THEN Holding(rows) ELSE x
  BY <1>1 DEF Strays, Taken
<1> QED
  BY <1>2 DEF f

\* Connection c was sent frame f about s, which alone changed.
LEMMA OneFrameKeepsStream ==
  ASSUME StreamInv, NEW c \in Conn, Open(c), NEW s \in Sub, NEW seq \in Nat, NEW f, IsFrameOf(s, f),
         client' = client, outbound' = [outbound EXCEPT ![c] = Enqueue(@, seq, f)],
         \A d \in Conn : d # c => subs'[d] = subs[d] /\ connections'[d] = connections[d],
         \A t \in Sub : t # s => /\ subs'[c][t] = subs[c][t]
                                 /\ connections'[c].watches[t] = connections[c].watches[t],
         Open(c)',
         \A x \in Wanted(c)[s] : ~Strays(x, f) /\ Taken(x, f) \in Wanted(c)'[s],
         NEW d \in Conn
  PROVE  StreamOk(d)'
<1>1. CASE d # c
  <2>1. /\ connections'[d] = connections[d] /\ subs'[d] = subs[d]
        /\ outbound'[d] = outbound[d] /\ client'[d] = client[d]
    BY <1>1 DEF StreamInv, StreamShape
  <2> QED
    BY <2>1, UntouchedStaysPut, PutStaysOk DEF StreamInv
<1>2. CASE d = c
  <2> DEFINE cl == client[c]
             out == outbound[c]
             W == Wanted(c)
             V == Wanted(c)'
  <2>1. Tracked(cl, out, W)
    BY DEF StreamInv, StreamOk
  <2>2. ASSUME NEW t \in Sub, t # s PROVE W[t] \subseteq V[t]
    <3>1. Live(c, t)' = Live(c, t) /\ Reprojected(c, t)' = Reprojected(c, t) /\ subs'[c][t] = subs[c][t]
      BY <2>2 DEF Live, Reprojected, Revoked
    <3>2. /\ Wanted(c)[t] = IF Live(c, t)
                            THEN {Holding(subs[c][t].snapshot), Closed}
                                   \cup (IF Reprojected(c, t) THEN {} ELSE {None})
                            ELSE {None, Closed}
          /\ Wanted(c)'[t] = IF Live(c, t)'
                             THEN {Holding(subs'[c][t].snapshot), Closed}
                                    \cup (IF Reprojected(c, t)' THEN {} ELSE {None})
                             ELSE {None, Closed}
      BY DEF Wanted
    <3>3. Wanted(c)[t] \subseteq Wanted(c)'[t]
      BY <3>1, <3>2
    <3> QED
      BY <3>3
  <2>3. outbound'[c] = Enqueue(out, seq, f) /\ client'[c] = cl
    BY DEF StreamInv, StreamShape
  <2>4. \A x \in W[s] : ~Strays(x, f) /\ Taken(x, f) \in V[s]
    OBVIOUS
  <2> HIDE DEF cl, out, W, V
  <2>5. Tracked(cl, Enqueue(out, seq, f), V)
    BY <2>1, <2>2, <2>4, EnqueueTracked
  <2>6. Tracked(client'[c], outbound'[c], Wanted(c)')
    BY <2>3, <2>5 DEF V
  <2> QED
    BY <1>2, <2>6 DEF StreamOk
<1> QED
  BY <1>1, <1>2

LEMMA ViewKeepsStream ==
  ASSUME StreamInv, NEW c \in Conn, NEW s \in Sub, View(c, s), NEW d \in Conn
  PROVE  StreamOk(d)'
<1> DEFINE rows == Shown(connections', history, c, s)
           seq == connections[c].frontier
           watch == [frontier |-> connections[c].frontier, at |-> now, closed |-> FALSE]
<1>1. /\ Open(c) /\ connections' = [connections EXCEPT ![c].watches[s] = watch]
      /\ subs' = [subs EXCEPT ![c][s] = SubState(rows, seq)]
      /\ outbound' = [outbound EXCEPT ![c] = Enqueue(@, seq, InitFrame(s, rows))]
      /\ client' = client
  BY DEF View, OpenWatch
<1>2. seq \in Nat
  BY <1>1, FrontiersAreNat DEF StreamInv, ConnectInv
<1>3. connections[c] \in Connection /\ connections \in [Conn -> Connection \cup {None}]
  BY <1>1 DEF Open, StreamInv, ConnectInv, SurfaceInv, SurfaceTypes
<1> HIDE DEF rows, seq, watch
<1>4. /\ \A e \in Conn : e # c => connections'[e] = connections[e]
      /\ connections'[c] = [connections[c] EXCEPT !.watches[s] = watch]
  BY <1>1, <1>3
<1>5. /\ connections'[c].watches = [connections[c].watches EXCEPT ![s] = watch]
      /\ connections'[c] \in [frontier : Nat, bound : BOOLEAN, watches : [Sub -> Watch \cup {None, watch}]]
  BY <1>3, <1>4 DEF Connection
<1>6. watch \in Watch
  BY <1>2 DEF watch, seq, Watch, StreamInv, ConnectInv, SurfaceInv, SurfaceTypes
<1>7. Open(c)'
  <2>1. connections'[c] \in Connection
    BY <1>5, <1>6 DEF Connection
  <2> QED
    BY <2>1, NoneIsAbsent DEF Open
<1>8. /\ \A t \in Sub : t # s => connections'[c].watches[t] = connections[c].watches[t]
      /\ connections'[c].watches[s] = watch
  BY <1>3, <1>5 DEF Connection
<1>9. /\ \A e \in Conn : e # c => subs'[e] = subs[e]
      /\ \A t \in Sub : t # s => subs'[c][t] = subs[c][t]
      /\ subs'[c][s] = SubState(rows, seq)
  BY <1>1 DEF StreamInv, ConnectInv, SubsInv
<1>10. Live(c, s)' /\ subs'[c][s].snapshot = rows
  <2>1. IsSubState(SubState(rows, seq)) /\ ~SubState(rows, seq).closed /\ SubState(rows, seq).snapshot = rows
    BY <1>2 DEF IsSubState, SubState
  <2>2. SubState(rows, seq) # None
    <3>1. watch.frontier \in 1..Latest /\ history \in Seq(CommitRecord)
      BY <1>1 DEF watch, StreamInv, CommitsExist, ConnectionsExist, ConnectInv, SurfaceInv, SurfaceTypes
    <3>2. SubState(Shown(connections', history, c, s), seq) # None
      BY <1>2, <1>6, <1>8, <3>1, ShownIsSome DEF Latest
    <3> QED
      BY <3>2 DEF rows
  <2> QED
    BY <1>7, <1>9, <2>1, <2>2 DEF Live
<1>11. {Holding(rows), Closed} \subseteq Wanted(c)'[s]
  BY <1>10, WantedNext
<1>12. ASSUME NEW x
       PROVE  ~Strays(x, InitFrame(s, rows)) /\ Taken(x, InitFrame(s, rows)) \in Wanted(c)'[s]
  BY <1>11, InitTaken
<1>13. IsFrameOf(s, InitFrame(s, rows))
  BY DEF IsFrameOf
<1> QED
  BY <1>1, <1>2, <1>4, <1>7, <1>8, <1>9, <1>12, <1>13, OneFrameKeepsStream

LEMMA UnsubscribeKeepsStream ==
  ASSUME StreamInv, NEW c \in Conn, NEW s \in Sub, Unsubscribe(c, s), NEW d \in Conn
  PROVE  StreamOk(d)'
<1> DEFINE seq == connections[c].frontier
<1>1. /\ Live(c, s) /\ subs' = [subs EXCEPT ![c][s].closed = TRUE]
      /\ outbound' = [outbound EXCEPT ![c] = Enqueue(@, seq, CloseFrame(s))]
      /\ client' = client /\ connections' = connections
  BY DEF Unsubscribe, surfaceVars
<1>2. Open(c) /\ Open(c)' /\ seq \in Nat
  BY <1>1, FrontiersAreNat DEF Live, Open, StreamInv, ConnectInv
<1> HIDE DEF seq
<1>3. /\ \A e \in Conn : e # c => subs'[e] = subs[e]
      /\ \A t \in Sub : t # s => subs'[c][t] = subs[c][t]
      /\ subs'[c][s] = [subs[c][s] EXCEPT !.closed = TRUE]
  BY <1>1 DEF StreamInv, ConnectInv, SubsInv
<1>4. ~Live(c, s)'
  <2>1. IsSubState(subs[c][s])
    BY <1>1 DEF Live, StreamInv, ConnectInv, SubsInv
  <2>2. subs'[c][s].closed
    BY <1>3, <2>1, ClosedSubState
  <2> QED
    BY <2>2 DEF Live
<1>5. Wanted(c)'[s] = {None, Closed}
  BY <1>4, WantedNext
<1>6. ASSUME NEW x
      PROVE  ~Strays(x, CloseFrame(s)) /\ Taken(x, CloseFrame(s)) \in Wanted(c)'[s]
  BY <1>5, CloseTaken
<1>7. IsFrameOf(s, CloseFrame(s))
  BY DEF IsFrameOf
<1> QED
  BY <1>1, <1>2, <1>3, <1>6, <1>7, OneFrameKeepsStream

LEMMA InOrderLists ==
  ASSUME NEW T, NEW frames, \A s \in Sub : frames[s] \in Seq(T)
  PROVE  InOrder(frames) \in Seq(T) /\ << >> \o InOrder(frames) = InOrder(frames)
<1>1. Ordered \in Seq(Sub)
  <2>1. Cardinality(Sub) \in Nat /\ Ordered \in [1..Cardinality(Sub) -> Sub]
    BY SubsAreOrdered
  <2> DEFINE n == Cardinality(Sub)
             q == Ordered
  <2>2. n \in Nat /\ q \in [1..n -> Sub]
    BY <2>1
  <2> HIDE DEF n, q
  <2>3. q \in Seq(Sub)
    BY <2>2
  <2> QED
    BY <2>3 DEF q
<1>2. \A G : << >> \in G /\ (\A acc \in G, s \in Sub : JoinNext(acc, s, frames) \in G)
             => InOrder(frames) \in G
  <2>1. Joined!Fold(<< >>, Ordered, frames) = JoinedP!Fold(<< >>, Ordered, frames)
    BY DEF Joined!Fold, JoinedP!Fold
  <2>2. \A G : << >> \in G /\ (\A acc \in G, s \in Sub : JoinNext(acc, s, frames) \in G)
             => JoinedP!Fold(<< >>, Ordered, frames) \in G
    BY <1>1, JoinedP!FoldKeeps
  <2> QED
    BY <2>1, <2>2 DEF InOrder
<1> DEFINE G == Seq(T)
<1>3. << >> \in G /\ \A acc \in G, s \in Sub : JoinNext(acc, s, frames) \in G
  <2>1. ASSUME NEW acc \in Seq(T), NEW s \in Sub PROVE JoinNext(acc, s, frames) \in Seq(T)
    <3>1. frames[s] \in Seq(T)
      OBVIOUS
    <3> DEFINE fr == frames[s]
    <3> HIDE DEF fr
    <3>2. acc \o fr \in Seq(T)
      BY <3>1 DEF fr
    <3> QED
      BY <3>2 DEF JoinNext, fr
  <2> QED
    BY <2>1, EmptyLoops
<1> HIDE DEF G
<1>4. InOrder(frames) \in G
  BY <1>2, <1>3
<1> DEFINE all == InOrder(frames)
<1> HIDE DEF all
<1>5. all \in Seq(T)
  BY <1>4 DEF all, G
<1> QED
  BY <1>5, ConcatEmpty DEF all

\* What a sweep makes of what a reader of everything sent may hold.
LEMMA SweptFramesLead ==
  ASSUME StreamInv, CommitsExist', SurfaceInv', IsSweep,
         NEW c \in Conn, NEW commit, Reconcile(c, commit), NEW d \in Conn, Open(d), NEW s \in Sub
  PROVE  FramesLead(SweptFrames(connections', history', d, s, d = c), s, Wanted(d)[s], Wanted(d)'[s])
<1> DEFINE fr == SweptFrames(connections', history', d, s, d = c)
           rows == Shown(connections', history', d, s)
           old == subs[d][s]
           new == subs'[d][s]
           A == Wanted(d)[s]
           B == Wanted(d)'[s]
<1>1. Open(d)'
  BY SweepsKeepOpen DEF StreamInv, ConnectInv
<1>2. Revoked(connections, d, s) => Revoked(connections', d, s)
  BY SweepsOnlyClose DEF StreamInv, ConnectInv
<1>3. new = SweptSub(connections', history', d, s, d = c)
  BY DEF Reconcile
<1>4. /\ A = IF Live(d, s)
             THEN {Holding(old.snapshot), Closed} \cup (IF Reprojected(d, s) THEN {} ELSE {None})
             ELSE {None, Closed}
      /\ B = IF Live(d, s)'
             THEN {Holding(new.snapshot), Closed} \cup (IF Reprojected(d, s)' THEN {} ELSE {None})
             ELSE {None, Closed}
  BY DEF Wanted
<1>5. Live(d, s)' <=> new # None /\ ~new.closed
  BY <1>1 DEF Live
<1>6. Live(d, s) => old # None /\ ~old.closed /\ IsSubState(old)
  BY DEF Live, StreamInv, ConnectInv, SubsInv
<1>7. Reprojected(d, s)' <=> Live(d, s)' /\ ~(s \in ScalarSub /\ Revoked(connections', d, s))
  BY DEF Reprojected, Revoked
<1>8. Reprojected(d, s) <=> Live(d, s) /\ ~(s \in ScalarSub /\ Revoked(connections, d, s))
  BY DEF Reprojected
<1>9. CASE ~Live(d, s)
  <2>1. fr = << >> /\ new = old
    BY <1>3, <1>9 DEF SweptFrames, SweptSub
  <2>2. ~Live(d, s)'
    BY <1>5, <1>9, <2>1 DEF Live
  <2>3. A \subseteq B
    BY <1>4, <1>9, <2>2
  <2> QED
    BY <2>1, <2>3 DEF FramesLead
<1>10. CASE Live(d, s) /\ Revoked(connections', d, s)
  <2>1. fr = << CloseFrame(s) >> /\ new = [old EXCEPT !.closed = TRUE]
    BY <1>3, <1>10 DEF SweptFrames, SweptSub
  <2>2. new.closed
    BY <1>6, <1>10, <2>1, ClosedSubState
  <2>3. B = {None, Closed}
    BY <1>4, <1>5, <2>2
  <2>4. \A x \in A : ~Strays(x, CloseFrame(s)) /\ Taken(x, CloseFrame(s)) \in B
    BY <2>3, CloseTaken
  <2>5. IsFrameOf(s, CloseFrame(s))
    BY DEF IsFrameOf
  <2> QED
    BY <2>1, <2>4, <2>5 DEF FramesLead
<1>11. CASE Live(d, s) /\ ~Revoked(connections', d, s) /\ d # c
  <2>1. fr = << >> /\ new = old
    BY <1>3, <1>11 DEF SweptFrames, SweptSub
  <2>2. Live(d, s)' /\ Reprojected(d, s) /\ Reprojected(d, s)'
    BY <1>2, <1>5, <1>6, <1>7, <1>8, <1>11, <2>1
  <2>3. A \subseteq B
    BY <1>4, <1>11, <2>1, <2>2
  <2> QED
    BY <2>1, <2>3 DEF FramesLead
<1>12. CASE Live(d, s) /\ ~Revoked(connections', d, s) /\ d = c
  <2>1. new = SubState(rows, connections'[d].frontier)
    BY <1>3, <1>12 DEF SweptSub
  <2>2. new # None /\ ~new.closed /\ new.snapshot = rows
    <3> DEFINE r == rows
               n == connections'[d].frontier
    <3>0. n \in Nat
      BY <1>1 DEF SurfaceInv, SurfaceTypes, Open, Connection
    <3> HIDE DEF r, n
    <3>1. SubState(r, n) # None
      <4>1. history' \in Seq(CommitRecord) /\ connections'[d] \in Connection
        BY <1>1 DEF SurfaceInv, SurfaceTypes, Open
      <4>2. connections'[d].watches[s] # None =>
              /\ connections'[d].watches[s] \in Watch
              /\ connections'[d].watches[s].frontier \in 1..Len(history')
        BY <1>1, <4>1 DEF CommitsExist, ConnectionsExist, HasWatch, Latest, Connection
      <4>3. SubState(Shown(connections', history', d, s), n) # None
        BY <3>0, <4>1, <4>2, ShownIsSome
      <4> QED
        BY <4>3 DEF r
    <3>2. ~SubState(r, n).closed /\ SubState(r, n).snapshot = r
      BY DEF SubState
    <3>3. new = SubState(r, n)
      BY <2>1 DEF r, n
    <3> HIDE DEF new
    <3>4. new # None /\ ~new.closed /\ new.snapshot = r
      BY <3>1, <3>2, <3>3
    <3> QED
      BY <3>4 DEF r
  <2>3. B = {Holding(rows), Closed} /\ A = {Holding(old.snapshot), Closed}
    BY <1>2, <1>4, <1>5, <1>7, <1>8, <1>12, <2>2
  <2>4. /\ rows = old.snapshot => fr = << >>
        /\ rows # old.snapshot /\ s \in ScalarSub => fr = << InitFrame(s, rows) >>
        /\ rows # old.snapshot /\ s \notin ScalarSub => fr = << PatchFrame(s, old.snapshot, rows) >>
    BY <1>12 DEF SweptFrames
  <2>5. IsFrameOf(s, InitFrame(s, rows)) /\ IsFrameOf(s, PatchFrame(s, old.snapshot, rows))
    BY DEF IsFrameOf
  <2> DEFINE base == old.snapshot
  <2> HIDE DEF fr, rows, A, B, base
  <2>6. \A x \in A : ~Strays(x, InitFrame(s, rows)) /\ Taken(x, InitFrame(s, rows)) \in B
    BY <2>3, InitTaken
  <2>7. \A x \in A : ~Strays(x, PatchFrame(s, base, rows)) /\ Taken(x, PatchFrame(s, base, rows)) \in B
    BY <2>3, PatchTaken DEF base
  <2>8. /\ rows = base => fr = << >> /\ A = B
        /\ rows # base /\ s \in ScalarSub => fr = << InitFrame(s, rows) >>
        /\ rows # base /\ s \notin ScalarSub => fr = << PatchFrame(s, base, rows) >>
    BY <2>3, <2>4 DEF base
  <2>9. IsFrameOf(s, InitFrame(s, rows)) /\ IsFrameOf(s, PatchFrame(s, base, rows))
    BY <2>5 DEF base
  <2>10. FramesLead(fr, s, A, B)
    BY <2>6, <2>7, <2>8, <2>9 DEF FramesLead
  <2> QED
    BY <2>10 DEF fr, A, B
<1> QED
  BY <1>9, <1>10, <1>11, <1>12

LEMMA ReconcileKeepsStream ==
  ASSUME StreamInv, CommitsExist', SurfaceInv', IsSweep, client' = client,
         NEW c \in Conn, NEW commit \in Nat, Reconcile(c, commit), NEW d \in Conn
  PROVE  StreamOk(d)'
<1> DEFINE frames == [s \in Sub |-> SweptFrames(connections', history', d, s, d = c)]
           seq == IF d = c THEN connections'[c].frontier ELSE commit
<1>1. Open(d)' = Open(d)
  BY SweepsKeepOpen DEF StreamInv, ConnectInv
<1>2. CASE ~Open(d)
  <2>1. ~Open(d)'
    BY <1>1, <1>2
  <2> QED
    BY <1>2, <2>1 DEF StreamInv, StreamOk
<1>3. CASE Open(d)
  <2>1. outbound'[d] = EnqueueAll(outbound[d], seq, InOrder(frames))
    BY DEF Reconcile
  <2>2. Open(d)' /\ seq \in Nat
    <3>1. connections'[d].frontier \in Nat
      BY <1>1, <1>3 DEF SurfaceInv, SurfaceTypes, Open, Connection
    <3> QED
      BY <1>1, <1>3, <3>1
  <2>3. \A s \in Sub : FramesLead(frames[s], s, Wanted(d)[s], Wanted(d)'[s])
    BY <1>3, SweptFramesLead
  <2>4. Tracked(client[d], outbound[d], Wanted(d))
    BY <1>3 DEF StreamInv, StreamOk
  <2> DEFINE T == UNION {IF frames[s] = << >> THEN {} ELSE {frames[s][1]} : s \in Sub}
             cl == client[d]
             out == outbound[d]
             W == Wanted(d)
             V == Wanted(d)'
  <2> HIDE DEF seq, frames, W, V, cl, out
  <2>5. \A s \in Sub : frames[s] \in Seq(T) /\ FramesLead(frames[s], s, W[s], V[s])
    <3> SUFFICES ASSUME NEW s \in Sub PROVE frames[s] \in Seq(T) /\ FramesLead(frames[s], s, W[s], V[s])
      OBVIOUS
    <3>1. FramesLead(frames[s], s, W[s], V[s])
      BY <2>3 DEF W, V
    <3>2. frames[s] = << >> \/ \E f : frames[s] = << f >>
      BY <3>1 DEF FramesLead
    <3>3. CASE frames[s] = << >>
      BY <3>1, <3>3, EmptyLoops
    <3>4. ASSUME NEW f, frames[s] = << f >> PROVE frames[s] \in Seq(T)
      <4>1. f \in T
        BY <3>4
      <4> HIDE DEF T
      <4>2. << f >> \in Seq(T)
        BY <4>1
      <4> QED
        BY <3>4, <4>2
    <3> QED
      BY <3>1, <3>2, <3>3, <3>4
  <2> HIDE DEF T
  <2>6. Tracked(cl, EnqueueAll(out, seq, << >> \o InOrder(frames)), V)
    BY <2>2, <2>4, <2>5, SweptTracked DEF cl, out, W
  <2>7. << >> \o InOrder(frames) = InOrder(frames)
    BY <2>5, InOrderLists
  <2>8. Tracked(client'[d], outbound'[d], Wanted(d)')
    BY <2>1, <2>6, <2>7 DEF cl, out, V
  <2> QED
    BY <2>2, <2>8 DEF StreamOk
<1> QED
  BY <1>2, <1>3

LEMMA SubmitKeepsStream ==
  ASSUME StreamInv, NEW c \in Conn, Submit(c), NEW d \in Conn
  PROVE  StreamOk(d)'
<1>0. SurfaceInv /\ SurfaceInv' /\ CommitsExist' /\ client' = client
  BY SubmitKeepsHost, StepsKeepCommits DEF StreamInv, ConnectInv, Submit, ConnectNext
<1>1. PICK request \in Request, id \in OpId \cup {None} :
       \/ \E content \in Content, granted \in Grants :
            /\ CallCommits(c, request, id, content, granted)
            /\ IF settled' THEN Reconcile(c, Latest + 1)
               ELSE UNCHANGED <<subs, outbound>>
       \/ /\ CallReplays(c, request, id)
          /\ IF settled' THEN Reconcile(c, operations[KeyOf(request, id)].outcome.commit)
             ELSE UNCHANGED <<subs, outbound>>
       \/ /\ \E kind \in {"unchanged", "rejected"} : CallChangesNothing(c, request, id, kind)
          /\ UNCHANGED <<subs, outbound>>
  BY DEF Submit
<1>2. CASE UNCHANGED <<subs, outbound, connections>>
  BY <1>0, <1>2, UntouchedStaysPut, PutStaysOk DEF StreamInv
<1>3. ASSUME IsSweep, NEW commit \in Nat,
             IF settled' THEN Reconcile(c, commit) ELSE UNCHANGED <<subs, outbound>>
      PROVE  StreamOk(d)'
  <2>1. CASE settled'
    BY <1>0, <1>3, <2>1, ReconcileKeepsStream
  <2>2. CASE ~settled'
    BY <1>0, <1>3, <2>2, SweptStaysPut, PutStaysOk DEF StreamInv
  <2> QED
    BY <2>1, <2>2
<1>4. ASSUME NEW content \in Content, NEW granted \in Grants,
             CallCommits(c, request, id, content, granted),
             IF settled' THEN Reconcile(c, Latest + 1) ELSE UNCHANGED <<subs, outbound>>
      PROVE  StreamOk(d)'
  <2>1. IsSweep
    BY <1>0, <1>4, CallCommitsKeepsInv
  <2>2. Latest + 1 \in Nat
    BY <1>0 DEF SurfaceInv, SurfaceTypes, Latest
  <2> QED
    BY <1>3, <1>4, <2>1, <2>2
<1>5. ASSUME CallReplays(c, request, id),
             IF settled' THEN Reconcile(c, operations[KeyOf(request, id)].outcome.commit)
             ELSE UNCHANGED <<subs, outbound>>
      PROVE  StreamOk(d)'
  <2> DEFINE key == KeyOf(request, id)
             commit == operations[key].outcome.commit
  <2>1. IsSweep
    BY <1>0, <1>5, CallReplaysKeepsInv
  <2>2. key \in OperationKey /\ operations[key] # None /\ operations[key].outcome.kind = "committed"
    BY <1>5 DEF CallReplays, Retained
  <2>3. commit \in Nat
    <3> HIDE DEF key
    <3>1. operations[key] \in OperationRecord
      BY <1>0, <2>2 DEF SurfaceInv, SurfaceTypes
    <3>2. operations[key].outcome \in [kind : {"committed"}, commit : Nat]
      BY <2>2, <3>1 DEF OperationRecord, Outcome
    <3> QED
      BY <3>2
  <2> HIDE DEF commit
  <2>4. IF settled' THEN Reconcile(c, commit) ELSE UNCHANGED <<subs, outbound>>
    BY <1>5 DEF commit
  <2> QED
    BY <1>3, <2>1, <2>3, <2>4
<1> QED
  BY <1>1, <1>2, <1>4, <1>5 DEF CallChangesNothing

LEMMA HostMovesKeepsStream ==
  ASSUME StreamInv, HostMoves, NEW d \in Conn
  PROVE  StreamOk(d)'
<1>1. IsSweep /\ SurfaceInv
  BY AdvanceTimeKeepsInv, OperateKeepsInv DEF HostMoves, StreamInv, ConnectInv
<1>2. UNCHANGED <<subs, outbound, client>>
  BY DEF HostMoves
<1> QED
  BY <1>1, <1>2, SweptStaysPut, PutStaysOk DEF StreamInv

\* The writer, the network or the client of connection c moves: nothing the
\* server holds of its subscriptions changes.
LEMMA StreamStepKeepsStream ==
  ASSUME StreamInv, NEW c \in Conn, connections' = connections, subs' = subs,
         NEW cl, NEW out, client'[c] = cl, outbound'[c] = out,
         \A d \in Conn : d # c => client'[d] = client[d] /\ outbound'[d] = outbound[d],
         Open(c) => Tracked(cl, out, Wanted(c)),
         ~Open(c) => Followed(cl),
         NEW d \in Conn
  PROVE  StreamOk(d)'
<1>1. CASE d # c
  BY <1>1, UntouchedStaysPut, PutStaysOk DEF StreamInv
<1>2. CASE d = c /\ ~Open(c)
  <2>1. ~Open(c)'
    BY <1>2 DEF Open
  <2> QED
    BY <1>2, <2>1 DEF StreamOk
<1>3. CASE d = c /\ Open(c)
  <2> DEFINE W == Wanted(c)
             V == Wanted(c)'
  <2>1. \A s \in Sub : W[s] \subseteq V[s]
    BY <1>3, UntouchedStaysPut, WantedWidens
  <2>2. Tracked(cl, out, W)
    BY <1>3
  <2>3. Open(c)'
    BY <1>3 DEF Open
  <2> HIDE DEF W, V
  <2>4. Tracked(cl, out, V)
    BY <2>1, <2>2, TrackedWider
  <2>5. Tracked(client'[c], outbound'[c], Wanted(c)')
    BY <2>4 DEF V
  <2> QED
    BY <1>3, <2>3, <2>5 DEF StreamOk
<1> QED
  BY <1>1, <1>2, <1>3

LEMMA WrittenIs ==
  ASSUME StreamInv, NEW c \in Conn, NEW emitted, Write(c, emitted)
  PROVE  /\ client'[c] = Handed(client[c], emitted)
         /\ \A d \in Conn : d # c => client'[d] = client[d]
         /\ client' = [d \in Conn |-> client'[d]]
<1>1. client' = [client EXCEPT ![c] = Handed(client[c], emitted)]
  BY DEF Write, Handed
<1> HIDE DEF Handed
<1> QED
  BY <1>1 DEF StreamInv, StreamShape

LEMMA DrainKeepsStream ==
  ASSUME StreamInv, NEW c \in Conn, Open(c), connections' = connections, subs' = subs,
         NEW emitted, Write(c, emitted), outbound' = [outbound EXCEPT ![c] = MarkDelivered(@)],
         Tracked(Handed(client[c], emitted), MarkDelivered(outbound[c]), Wanted(c)),
         NEW d \in Conn
  PROVE  StreamOk(d)'
<1> DEFINE cl == Handed(client[c], emitted)
           out == MarkDelivered(outbound[c])
<1>1. client'[c] = cl /\ \A e \in Conn : e # c => client'[e] = client[e]
  BY WrittenIs
<1> HIDE DEF cl
<1>2. outbound'[c] = out /\ \A e \in Conn : e # c => outbound'[e] = outbound[e]
  BY DEF StreamInv, StreamShape
<1> HIDE DEF out
<1>3. Tracked(cl, out, Wanted(c))
  BY DEF cl, out
<1> QED
  BY <1>1, <1>2, <1>3, StreamStepKeepsStream

\* reinit on connection c: the subscriptions are what was just projected.
LEMMA ReinitKeepsStream ==
  ASSUME StreamInv, Cardinality(Sub) < Capacity, NEW c \in Conn, Open(c),
         UNCHANGED surfaceVars, NEW reset \in BOOLEAN, Reinit(c, reset),
         reset \/ client[c].last_id = None, NEW d \in Conn
  PROVE  StreamOk(d)'
<1> DEFINE seq == connections[c].frontier
           rows(s) == Shown(connections, history, c, s)
           new(s) == SubState(rows(s), seq)
           fresh == [s \in Sub |-> IF Reprojected(c, s) THEN << InitFrame(s, rows(s)) >> ELSE << >>]
           pre == IF reset THEN << ResetFrame >> ELSE << >>
           filled == EnqueueAll(MarkDelivered(ClearOverflow(outbound[c])), seq, pre \o InOrder(fresh))
           W == Wanted(c)
           V == Wanted(c)'
           cl == client[c]
           out == outbound[c]
<1>1. /\ subs' = [subs EXCEPT ![c] = [s \in Sub |-> IF Reprojected(c, s) THEN new(s) ELSE subs[c][s]]]
      /\ outbound' = [outbound EXCEPT ![c] = MarkDelivered(filled)]
      /\ Write(c, Pending(filled))
  BY DEF Reinit, StreamInv, ConnectInv, SubsInv
<1>2. connections' = connections /\ seq \in Nat
  BY FrontiersAreNat DEF surfaceVars, StreamInv, ConnectInv
<1>3. \A s \in Sub : new(s) # None /\ ~new(s).closed /\ new(s).snapshot = rows(s)
  <2> SUFFICES ASSUME NEW s \in Sub PROVE new(s) # None /\ ~new(s).closed /\ new(s).snapshot = rows(s)
    OBVIOUS
  <2> DEFINE r == rows(s)
  <2> HIDE DEF r, seq
  <2>1. ~SubState(r, seq).closed /\ SubState(r, seq).snapshot = r
    BY DEF SubState
  <2>2. SubState(r, seq) # None
    <3>1. history \in Seq(CommitRecord) /\ connections[c] \in Connection
      BY DEF StreamInv, ConnectInv, SurfaceInv, SurfaceTypes, Open
    <3>2. connections[c].watches[s] # None =>
            /\ connections[c].watches[s] \in Watch
            /\ connections[c].watches[s].frontier \in 1..Len(history)
      BY <3>1 DEF StreamInv, CommitsExist, ConnectionsExist, HasWatch, Latest, Connection
    <3>3. SubState(Shown(connections, history, c, s), seq) # None
      BY <1>2, <3>1, <3>2, ShownIsSome
    <3> QED
      BY <3>3 DEF r
  <2> QED
    BY <2>1, <2>2 DEF r
<1> HIDE DEF new
<1>4. \A s \in Sub : subs'[c][s] = IF Reprojected(c, s) THEN new(s) ELSE subs[c][s]
  BY <1>1 DEF StreamInv, ConnectInv, SubsInv
<1>5. ASSUME NEW s \in Sub PROVE FramesLead(fresh[s], s, {None}, V[s])
  <2>1. V[s] = IF Live(c, s)'
               THEN {Holding(subs'[c][s].snapshot), Closed} \cup (IF Reprojected(c, s)' THEN {} ELSE {None})
               ELSE {None, Closed}
    BY DEF Wanted
  <2>2. /\ Live(c, s)' <=> subs'[c][s] # None /\ ~subs'[c][s].closed
        /\ Live(c, s) <=> subs[c][s] # None /\ ~subs[c][s].closed
    BY <1>2 DEF Live, Open
  <2>3. /\ Reprojected(c, s)' <=> Live(c, s)' /\ ~(s \in ScalarSub /\ Revoked(connections, c, s))
        /\ Reprojected(c, s) <=> Live(c, s) /\ ~(s \in ScalarSub /\ Revoked(connections, c, s))
    BY <1>2 DEF Reprojected, Revoked
  <2>4. CASE Reprojected(c, s)
    <3>1. fresh[s] = << InitFrame(s, rows(s)) >>
      BY <2>4
    <3>2. subs'[c][s] # None /\ ~subs'[c][s].closed /\ subs'[c][s].snapshot = rows(s)
      BY <1>3, <1>4, <2>4
    <3>3. {Holding(rows(s)), Closed} \subseteq V[s]
      BY <2>1, <2>2, <3>2
    <3> DEFINE r == rows(s)
    <3> HIDE DEF V, r
    <3>4. \A x \in {None} : ~Strays(x, InitFrame(s, r)) /\ Taken(x, InitFrame(s, r)) \in V[s]
      BY <3>3, InitTaken DEF r
    <3>5. IsFrameOf(s, InitFrame(s, r))
      BY DEF IsFrameOf
    <3> QED
      BY <3>1, <3>4, <3>5 DEF FramesLead, r
  <2>5. CASE ~Reprojected(c, s)
    <3>1. fresh[s] = << >>
      BY <2>5
    <3>2. subs'[c][s] = subs[c][s]
      BY <1>4, <2>5
    <3>3. None \in V[s]
      BY <2>1, <2>2, <2>3, <2>5, <3>2
    <3> QED
      BY <3>1, <3>3 DEF FramesLead
  <2> QED
    BY <2>4, <2>5
<1> DEFINE T == {ResetFrame} \cup {InitFrame(s, rows(s)) : s \in Sub}
<1>6. ResetFrame \in T /\ \A s \in Sub : fresh[s] \in Seq(T)
  <2> SUFFICES ASSUME NEW s \in Sub PROVE fresh[s] \in Seq(T)
    OBVIOUS
  <2> DEFINE f == InitFrame(s, rows(s))
  <2>1. f \in T /\ fresh[s] \in {<< f >>, << >>}
    OBVIOUS
  <2> HIDE DEF T, f, fresh
  <2>2. << f >> \in Seq(T) /\ << >> \in Seq(T)
    BY <2>1
  <2> QED
    BY <2>1, <2>2
<1> HIDE DEF T, fresh, V
<1>7. Tracked(cl, out, W)
  BY DEF StreamInv, StreamOk
<1>8. Tracked(Handed(cl, Pending(filled)), MarkDelivered(filled), V)
  <2> HIDE DEF seq, W
  <2>1. \A s \in Sub : fresh[s] \in Seq(T) /\ FramesLead(fresh[s], s, {None}, V[s])
    BY <1>5, <1>6
  <2>2. CASE reset
    <3>1. filled = EnqueueAll(MarkDelivered(ClearOverflow(out)), seq, << ResetFrame >> \o InOrder(fresh))
      BY <2>2
    <3> HIDE DEF filled, out, cl
    <3> QED
      BY <1>2, <1>6, <1>7, <2>1, <3>1, ResetTracked
  <2>3. CASE ~reset
    <3>1. filled = EnqueueAll(MarkDelivered(ClearOverflow(out)), seq, << >> \o InOrder(fresh))
      BY <2>3
    <3>2. cl.last_id = None
      BY <2>3
    <3> HIDE DEF filled, out, cl
    <3> QED
      BY <1>2, <1>7, <2>1, <3>1, <3>2, RebasedTracked
  <2> QED
    BY <2>2, <2>3
<1> HIDE DEF filled, W
<1>9. client'[c] = Handed(cl, Pending(filled)) /\ \A e \in Conn : e # c => client'[e] = client[e]
  BY <1>1, WrittenIs
<1>10. outbound'[c] = MarkDelivered(filled) /\ \A e \in Conn : e # c => outbound'[e] = outbound[e]
  BY <1>1 DEF StreamInv, StreamShape
<1>11. \A e \in Conn : e # c => subs'[e] = subs[e]
  BY <1>1 DEF StreamInv, ConnectInv, SubsInv
<1>12. CASE d # c
  BY <1>2, <1>9, <1>10, <1>11, <1>12, UntouchedStaysPut, PutStaysOk DEF StreamInv
<1>13. CASE d = c
  <2>1. Open(c)'
    BY <1>2 DEF Open
  <2>2. Tracked(client'[c], outbound'[c], Wanted(c)')
    BY <1>8, <1>9, <1>10 DEF V
  <2> QED
    BY <1>13, <2>1, <2>2 DEF StreamOk
<1> QED
  BY <1>12, <1>13

LEMMA PollKeepsStream ==
  ASSUME StreamInv, Cardinality(Sub) < Capacity, NEW c \in Conn, Poll(c), NEW d \in Conn
  PROVE  StreamOk(d)'
<1>1. Open(c) /\ client[c].attached /\ client[c].wire = << >> /\ UNCHANGED surfaceVars
  BY DEF Poll
<1>2. CASE outbound[c].overflow /\ Reinit(c, TRUE)
  BY <1>1, <1>2, ReinitKeepsStream
<1>3. CASE /\ ~outbound[c].overflow
           /\ Write(c, Pending(outbound[c]))
           /\ outbound' = [outbound EXCEPT ![c] = MarkDelivered(@)]
           /\ UNCHANGED subs
  <2>1. Tracked(client[c], outbound[c], Wanted(c))
    BY <1>1 DEF StreamInv, StreamOk
  <2>2. Tracked(Handed(client[c], Pending(outbound[c])), MarkDelivered(outbound[c]), Wanted(c))
    BY <1>1, <1>3, <2>1, PolledTracked
  <2> QED
    BY <1>1, <1>3, <2>2, DrainKeepsStream DEF surfaceVars
<1> QED
  BY <1>2, <1>3 DEF Poll

LEMMA ResumeKeepsStream ==
  ASSUME StreamInv, CleanResumeOnly, Cardinality(Sub) < Capacity,
         NEW c \in Conn, Resume(c), NEW d \in Conn
  PROVE  StreamOk(d)'
<1> DEFINE out == outbound[c]
           id == client[c].last_id
<1>1. Open(c) /\ UNCHANGED surfaceVars
  BY DEF Resume
<1>2. CASE Reinit(c, TRUE) \/ (id = None /\ Reinit(c, FALSE))
  BY <1>1, <1>2, ReinitKeepsStream
<1>3. CASE /\ id # None /\ CleanResume(c)
           /\ Write(c, ReplayAfter(out, id))
           /\ outbound' = [outbound EXCEPT ![c] = MarkDelivered(@)]
           /\ UNCHANGED subs
  <2>1. Tracked(client[c], outbound[c], Wanted(c))
    BY <1>1 DEF StreamInv, StreamOk
  <2>2. Separates(outbound[c].ring, client[c].seen, client[c].last_id)
    BY <1>3 DEF CleanResume, Separates
  <2>3. Tracked(Handed(client[c], ReplayAfter(outbound[c], client[c].last_id)),
                MarkDelivered(outbound[c]), Wanted(c))
    BY <1>3, <2>1, <2>2, ReplayedTracked
  <2> QED
    BY <1>1, <1>3, <2>3, DrainKeepsStream DEF surfaceVars
<1> QED
  BY <1>2, <1>3 DEF Resume

\* The client's own steps.
LEMMA ClientKeepsStream ==
  ASSUME StreamInv, NEW c \in Conn,
         ResumeUnknown(c) \/ Receive(c) \/ Cut(c) \/ StartOver(c), NEW d \in Conn
  PROVE  StreamOk(d)'
<1> DEFINE was == client[c]
           out == outbound[c]
           W == Wanted(c)
<1>1. connections' = connections /\ subs' = subs /\ outbound' = outbound
  BY DEF ResumeUnknown, Receive, Cut, StartOver, surfaceVars
<1>2. Open(c) => Tracked(was, out, W)
  BY DEF StreamInv, StreamOk
<1>3. ~Open(c) => Followed(was)
  BY DEF StreamInv, StreamOk
<1>4. ASSUME NEW cl, client' = [client EXCEPT ![c] = cl],
             Open(c) => Tracked(cl, out, W), ~Open(c) => Followed(cl)
      PROVE  StreamOk(d)'
  <2>1. client'[c] = cl /\ \A e \in Conn : e # c => client'[e] = client[e]
    BY <1>4 DEF StreamInv, StreamShape
  <2> QED
    BY <1>1, <1>4, <2>1, StreamStepKeepsStream
<1>5. CASE ResumeUnknown(c)
  <2> DEFINE cl == [was EXCEPT !.replica = EmptyReplica]
  <2>1. client' = [client EXCEPT ![c] = cl] /\ ~Open(c) /\ ~was.attached
    BY <1>5 DEF ResumeUnknown
  <2>2. Followed(cl)
    BY <1>3, <2>1, UnknownFollowed
  <2> HIDE DEF cl
  <2> QED
    BY <1>4, <2>1, <2>2
<1>6. CASE Receive(c)
  <2> DEFINE cl == Taking(was, was.wire[1], Tail(was.wire))
  <2>1. client' = [client EXCEPT ![c] = cl] /\ was.wire # << >>
    BY <1>6 DEF Receive, Taking
  <2> HIDE DEF W, out, was
  <2>2. (Open(c) => Tracked(cl, out, W)) /\ (~Open(c) => Followed(cl))
    BY <1>2, <1>3, <2>1, ReceivedTracked
  <2> HIDE DEF cl
  <2> QED
    BY <1>4, <2>1, <2>2 DEF W, out
<1>7. CASE Cut(c)
  <2> DEFINE cl == CutOff(was)
  <2>1. client' = [client EXCEPT ![c] = cl]
    BY <1>7 DEF Cut, CutOff
  <2> HIDE DEF W, out, was
  <2>2. (Open(c) => Tracked(cl, out, W)) /\ (~Open(c) => Followed(cl))
    BY <1>2, <1>3, CutTracked
  <2> HIDE DEF cl
  <2> QED
    BY <1>4, <2>1, <2>2 DEF W, out
<1>8. CASE StartOver(c)
  <2> DEFINE cl == FreshClient
  <2>1. client' = [client EXCEPT ![c] = cl]
    BY <1>8 DEF StartOver
  <2> HIDE DEF W, out, was
  <2>2. (Open(c) => Tracked(cl, out, W)) /\ (~Open(c) => Followed(cl))
    BY <1>2, <1>3, StartOverTracked
  <2> HIDE DEF cl
  <2> QED
    BY <1>4, <2>1, <2>2 DEF W, out
<1> QED
  BY <1>5, <1>6, <1>7, <1>8

LEMMA ConnectInitStreams == ConnectInit => StreamInv
<1> SUFFICES ASSUME ConnectInit PROVE StreamInv
  OBVIOUS
<1>1. ConnectInv /\ CommitsExist
  <2>1. (\A c \in Conn : connections[c] = None) /\ (\A k \in OperationKey : operations[k] = None)
    BY DEF ConnectInit, Init
  <2> QED
    BY <2>1, ConnectInitHasInv DEF CommitsExist, ConnectionsExist, RecordsExist, Open
<1>2. /\ client = [c \in Conn |-> FreshClient] /\ outbound = [c \in Conn |-> EmptyOutbound]
      /\ connections = [c \in Conn |-> None]
  BY DEF ConnectInit, Init
<1>3. StreamShape
  BY <1>2 DEF StreamShape
<1>4. ASSUME NEW c \in Conn PROVE StreamOk(c)
  <2>1. ~Open(c) /\ client[c] = FreshClient
    BY <1>2 DEF Open
  <2> DEFINE W == [s \in Sub |-> {None}]
  <2>2. \A s \in Sub : None \in W[s]
    OBVIOUS
  <2> HIDE DEF W
  <2>3. Followed(FreshClient)
    BY <2>2, FreshTracked
  <2> QED
    BY <2>1, <2>3 DEF StreamOk
<1> QED
  BY <1>1, <1>3, <1>4 DEF StreamInv

\* A step changes the clients and the rings one connection at a time, but for
\* the sweep of a commit.
OneClient == client' = client \/ \E c \in Conn : \E cl : client' = [client EXCEPT ![c] = cl]
OneRing ==
  \/ outbound' = outbound
  \/ \E c \in Conn : \E out : outbound' = [outbound EXCEPT ![c] = out]
  \/ outbound' = [c \in Conn |-> outbound'[c]]

LEMMA WritesOneClient ==
  ASSUME NEW c \in Conn, NEW emitted, Write(c, emitted)
  PROVE  OneClient
<1> DEFINE cl == Handed(client[c], emitted)
<1>1. client' = [client EXCEPT ![c] = cl]
  BY DEF Write, Handed
<1> HIDE DEF cl
<1> QED
  BY <1>1 DEF OneClient

LEMMA StepsKeepShape ==
  ASSUME StreamShape, [ConnectNext]_connectVars
  PROVE  StreamShape'
<1>1. UNCHANGED connectVars \/ HostMoves => OneClient /\ OneRing
  BY DEF connectVars, HostMoves, OneClient, OneRing
<1>2. ASSUME NEW c \in Conn, Hello(c) \/ Drop(c) PROVE OneClient /\ OneRing
  BY <1>2 DEF Hello, Drop, OneClient, OneRing
<1>3. ASSUME NEW c \in Conn, Submit(c) PROVE OneClient /\ OneRing
  <2>1. client' = client
    BY <1>3 DEF Submit
  <2>2. outbound' = outbound \/ \E commit : Reconcile(c, commit)
    BY <1>3 DEF Submit
  <2> QED
    BY <2>1, <2>2 DEF OneClient, OneRing, Reconcile
<1>4. ASSUME NEW c \in Conn, NEW s \in Sub, View(c, s) \/ Unsubscribe(c, s) PROVE OneClient /\ OneRing
  BY <1>4 DEF View, Unsubscribe, OneClient, OneRing
<1>5. ASSUME NEW c \in Conn, Poll(c) \/ Resume(c) PROVE OneClient /\ OneRing
  <2>1. (\E emitted : Write(c, emitted)) /\ \E out : outbound' = [outbound EXCEPT ![c] = out]
    BY <1>5 DEF Poll, Resume, Reinit
  <2> QED
    BY <2>1, WritesOneClient DEF OneRing
<1>6. ASSUME NEW c \in Conn, ResumeUnknown(c) \/ Cut(c) \/ StartOver(c) PROVE OneClient /\ OneRing
  <2>1. \E cl : client' = [client EXCEPT ![c] = cl]
    BY <1>6 DEF ResumeUnknown, Cut, StartOver
  <2>2. outbound' = outbound
    BY <1>6 DEF ResumeUnknown, Cut, StartOver
  <2> QED
    BY <2>1, <2>2 DEF OneClient, OneRing
<1>7. ASSUME NEW c \in Conn, Receive(c) PROVE OneClient /\ OneRing
  <2> DEFINE cl == Taking(client[c], client[c].wire[1], Tail(client[c].wire))
  <2>1. client' = [client EXCEPT ![c] = cl] /\ outbound' = outbound
    BY <1>7 DEF Receive, Taking
  <2> HIDE DEF cl
  <2> QED
    BY <2>1 DEF OneClient, OneRing
<1>8. (OneClient /\ OneRing) \/ UNCHANGED connectVars \/ HostMoves
  BY <1>2, <1>3, <1>4, <1>5, <1>6, <1>7 DEF ConnectNext
<1>9. OneClient /\ OneRing
  BY <1>1, <1>8
<1>10. client' = [c \in Conn |-> client'[c]]
  BY <1>9 DEF StreamShape, OneClient
<1>11. outbound' = [c \in Conn |-> outbound'[c]]
  BY <1>9 DEF StreamShape, OneRing
<1> QED
  BY <1>10, <1>11 DEF StreamShape

LEMMA ConnectNextKeepsStreams ==
  ASSUME StreamInv, CleanResumeOnly, Cardinality(Sub) < Capacity,
         [ConnectNext]_connectVars
  PROVE  StreamInv'
<1>1. ConnectInv' /\ CommitsExist' /\ StreamShape'
  BY ConnectNextKeepsInv, StepsKeepCommits, StepsKeepShape DEF StreamInv
<1>2. ASSUME NEW d \in Conn PROVE StreamOk(d)'
  <2>1. CASE UNCHANGED connectVars
    BY <2>1, UntouchedStaysPut, PutStaysOk DEF connectVars, surfaceVars, StreamInv
  <2>2. ASSUME NEW c \in Conn, Hello(c) \/ Drop(c) \/ Submit(c) PROVE StreamOk(d)'
    BY <2>2, HelloKeepsStream, DropKeepsStream, SubmitKeepsStream
  <2>3. ASSUME NEW c \in Conn, NEW s \in Sub, View(c, s) \/ Unsubscribe(c, s) PROVE StreamOk(d)'
    BY <2>3, ViewKeepsStream, UnsubscribeKeepsStream
  <2>4. ASSUME NEW c \in Conn, Poll(c) \/ Resume(c) PROVE StreamOk(d)'
    BY <2>4, PollKeepsStream, ResumeKeepsStream
  <2>5. ASSUME NEW c \in Conn, ResumeUnknown(c) \/ Receive(c) \/ Cut(c) \/ StartOver(c)
        PROVE  StreamOk(d)'
    BY <2>5, ClientKeepsStream
  <2>6. CASE HostMoves
    BY <2>6, HostMovesKeepsStream
  <2> QED
    BY <2>1, <2>2, <2>3, <2>4, <2>5, <2>6 DEF ConnectNext
<1> QED
  BY <1>1, <1>2 DEF StreamInv

LEMMA InvReconstructs == StreamInv => StreamReconstructs
<1> SUFFICES ASSUME StreamInv PROVE StreamReconstructs
  OBVIOUS
<1> SUFFICES ASSUME NEW c \in Viewer
             PROVE  ~client[c].misfit /\ (Whole(c) =>
                      LET replica == AppliedAll(client[c].replica, client[c].wire \o Pending(outbound[c])) IN
                      \A s \in Sub :
                        IF Live(c, s)
                        THEN \/ replica[s] \in {Holding(subs[c][s].snapshot), Closed}
                             \/ replica[s] = None /\ ~Reprojected(c, s)
                        ELSE replica[s] \in {None, Closed})
  BY DEF StreamReconstructs
<1>1. c \in Conn /\ StreamOk(c)
  BY StreamParameters DEF StreamInv
<1>2. CASE ~Open(c)
  <2>1. ~client[c].misfit
    BY <1>1, <1>2, FollowedFits DEF StreamOk
  <2> QED
    BY <1>2, <2>1 DEF Whole
<1>3. CASE Open(c)
  <2> DEFINE replica == AppliedAll(client[c].replica, client[c].wire \o Pending(outbound[c]))
  <2>1. Tracked(client[c], outbound[c], Wanted(c))
    BY <1>1, <1>3 DEF StreamOk
  <2>2. ASSUME NEW s \in Sub
        PROVE  Wanted(c)[s] = IF Live(c, s)
                              THEN {Holding(subs[c][s].snapshot), Closed}
                                     \cup (IF Reprojected(c, s) THEN {} ELSE {None})
                              ELSE {None, Closed}
    BY DEF Wanted
  <2>3. \A s \in Sub : Closed \in Wanted(c)[s]
    BY <2>2
  <2>4. ~client[c].misfit /\ (Whole(c) => \A s \in Sub : replica[s] \in Wanted(c)[s])
    BY <2>1, <2>3, WholeReconstructs DEF Whole
  <2> HIDE DEF replica
  <2>5. ASSUME NEW s \in Sub, replica[s] \in Wanted(c)[s]
        PROVE  IF Live(c, s)
               THEN \/ replica[s] \in {Holding(subs[c][s].snapshot), Closed}
                    \/ replica[s] = None /\ ~Reprojected(c, s)
               ELSE replica[s] \in {None, Closed}
    BY <2>2, <2>5
  <2>6. ~client[c].misfit /\ (Whole(c) => \A s \in Sub :
          IF Live(c, s)
          THEN \/ replica[s] \in {Holding(subs[c][s].snapshot), Closed}
               \/ replica[s] = None /\ ~Reprojected(c, s)
          ELSE replica[s] \in {None, Closed})
    BY <2>4, <2>5
  <2> QED
    BY <2>6 DEF replica
<1> QED
  BY <1>2, <1>3

\* core/mod.rs submit, poll and resume, replica.rs apply: on an unbroken
\* stream a client holds, or is being sent, exactly what the server diffs
\* against, and no patch ever meets another base.  It needs what the ring can
\* hold of a reconstruction, and resumes whose id separates what was read.
THEOREM StreamsReconstruct ==
  ASSUME CleanResumeOnly, Cardinality(Sub) < Capacity
  PROVE  ConnectSpec => []StreamReconstructs
<1>1. ConnectInit => StreamInv
  BY ConnectInitStreams
<1>2. StreamInv /\ [ConnectNext]_connectVars => StreamInv'
  BY ConnectNextKeepsStreams
<1>3. StreamInv => StreamReconstructs
  BY InvReconstructs
<1> QED
  BY <1>1, <1>2, <1>3, PTL DEF ConnectSpec

-----------------------------------------------------------------------------
(* Rows need authority.                                                    *)

\* Rings over frames of X.
Rings(X) == [ring : Seq([seq : Nat, frame : X, pos : Nat]), next_pos : Nat, cursor : Nat,
             evicted_through : Nat, overflow : BOOLEAN]

\* Ring `new` follows `out`: what it holds past the end of `out` is of F.
Grown(new, out, F) ==
  /\ out.next_pos <= new.next_pos
  /\ \A i \in DOMAIN new.ring :
       /\ new.ring[i].pos < new.next_pos
       /\ new.ring[i].pos >= out.next_pos => new.ring[i].frame \in F

Grows(new, out, F) == \E X : new \in Rings(X) /\ Grown(new, out, F)

\* A ring that numbers what it holds.
Numbered(out) ==
  \E X : out \in Rings(X) /\ \A i \in DOMAIN out.ring : out.ring[i].pos < out.next_pos

LEMMA SeqHolds ==
  ASSUME NEW E, NEW r \in Seq(E), NEW j \in DOMAIN r
  PROVE  r[j] \in E
OBVIOUS

LEMMA EnqueueGrows ==
  ASSUME NEW X, NEW new \in Rings(X), NEW out, out.next_pos \in Nat, NEW F, Grown(new, out, F),
         NEW seq \in Nat, NEW f \in X, f \in F
  PROVE  Enqueue(new, seq, f) \in Rings(X) /\ Grown(Enqueue(new, seq, f), out, F)
<1> DEFINE E == [seq : Nat, frame : X, pos : Nat]
           n == new.next_pos
           e == [seq |-> seq, frame |-> f, pos |-> n]
           pushed == Append(new.ring, e)
           full == Len(pushed) > Capacity
           last == Enqueue(new, seq, f)
           kept == IF full THEN Tail(pushed) ELSE pushed
           ring == new.ring
           next == n + 1
<1>1. /\ ring \in Seq(E) /\ n \in Nat /\ new.cursor \in Nat /\ new.evicted_through \in Nat
      /\ new.overflow \in BOOLEAN
  BY DEF Rings
<1>2. e \in E /\ e.frame = f /\ e.pos = n
  BY <1>1
<1>3. next \in Nat /\ n < next
  BY <1>1
<1> HIDE DEF e, n, next
<1>4. \A i \in DOMAIN ring : ring[i].pos < n /\ (ring[i].pos >= out.next_pos => ring[i].frame \in F)
  BY DEF Grown, n
<1>5. /\ pushed \in Seq(E) /\ Len(pushed) = Len(ring) + 1 /\ pushed[1] \in E
      /\ \A i \in DOMAIN pushed : (i \in DOMAIN ring /\ pushed[i] = ring[i]) \/ pushed[i] = e
  <2> HIDE DEF E, ring
  <2>1. ring \in Seq(E) /\ e \in E /\ pushed = Append(ring, e)
    BY <1>1, <1>2 DEF ring
  <2> HIDE DEF pushed
  <2> QED
    BY <2>1
<1>6. full \in BOOLEAN
  OBVIOUS
<1>7. kept \in Seq(E) /\ \A i \in DOMAIN kept : \E j \in DOMAIN pushed : kept[i] = pushed[j]
  <2>1. Len(pushed) >= 1
    BY <1>1, <1>5
  <2> HIDE DEF E, pushed, full
  <2>2. /\ Tail(pushed) \in Seq(E)
        /\ \A i \in DOMAIN Tail(pushed) : i + 1 \in DOMAIN pushed /\ Tail(pushed)[i] = pushed[i + 1]
    BY <1>5, <2>1
  <2>3. \A i \in DOMAIN Tail(pushed) : \E j \in DOMAIN pushed : Tail(pushed)[i] = pushed[j]
    BY <2>2
  <2> QED
    BY <1>5, <2>2, <2>3
<1>8. \A i \in DOMAIN kept : kept[i].pos < next /\ (kept[i].pos >= out.next_pos => kept[i].frame \in F)
  <2> SUFFICES ASSUME NEW i \in DOMAIN kept
               PROVE  kept[i].pos < next /\ (kept[i].pos >= out.next_pos => kept[i].frame \in F)
    OBVIOUS
  <2> HIDE DEF kept
  <2>1. PICK j \in DOMAIN pushed : kept[i] = pushed[j]
    BY <1>7
  <2>2. CASE pushed[j] = e
    BY <1>2, <1>3, <2>1, <2>2
  <2>3. CASE j \in DOMAIN ring /\ pushed[j] = ring[j]
    <3>1. ring[j].pos < n /\ (ring[j].pos >= out.next_pos => ring[j].frame \in F) /\ ring[j].pos \in Nat
      <4>1. ring[j] \in E
        <5> HIDE DEF E, ring
        <5> QED
          BY <1>1, <2>3, SeqHolds
      <4> QED
        BY <1>4, <2>3, <4>1
    <3> HIDE DEF pushed, ring
    <3> QED
      BY <1>1, <1>3, <2>1, <2>3, <3>1
  <2> QED
    BY <1>5, <2>2, <2>3
<1>9. LET evicted == IF full THEN Higher(new.evicted_through, pushed[1].seq) ELSE new.evicted_through
      IN  evicted \in Nat
  <2>1. pushed[1].seq \in Nat
    BY <1>5
  <2> HIDE DEF pushed, full
  <2> QED
    BY <1>1, <2>1 DEF Higher
<1>10. last = [ring |-> kept, next_pos |-> next, cursor |-> new.cursor,
               evicted_through |-> IF full THEN Higher(new.evicted_through, pushed[1].seq)
                                   ELSE new.evicted_through,
               overflow |-> new.overflow \/ (full /\ pushed[1].pos >= new.cursor)]
  BY DEF Enqueue, e, n, next
<1> HIDE DEF kept, last
<1>11. last \in Rings(X) /\ last.ring = kept /\ last.next_pos = next
  <2> DEFINE evicted == IF full THEN Higher(new.evicted_through, pushed[1].seq) ELSE new.evicted_through
             over == new.overflow \/ (full /\ pushed[1].pos >= new.cursor)
  <2>1. evicted \in Nat /\ over \in BOOLEAN
    BY <1>9
  <2>2. last = [ring |-> kept, next_pos |-> next, cursor |-> new.cursor,
                evicted_through |-> evicted, overflow |-> over]
    BY <1>10
  <2> HIDE DEF evicted, over, E
  <2> QED
    BY <1>1, <1>3, <1>7, <2>1, <2>2 DEF Rings, E
<1>12. out.next_pos <= next
  <2>1. out.next_pos <= n
    BY DEF Grown, n
  <2> QED
    BY <1>1, <1>3, <2>1 DEF n
<1> QED
  BY <1>8, <1>11, <1>12 DEF Grown, last

\* Frames enqueued on a numbered ring.
LEMMA EnqueueAllGrows ==
  ASSUME NEW out, Numbered(out), NEW seq \in Nat, NEW F, NEW frames \in Seq(F)
  PROVE  Grows(EnqueueAll(out, seq, frames), out, F)
<1>1. PICK Y : out \in Rings(Y) /\ \A i \in DOMAIN out.ring : out.ring[i].pos < out.next_pos
  BY DEF Numbered
<1> DEFINE X == Y \cup F
           G == {new \in Rings(X) : Grown(new, out, F)}
<1>2. out.next_pos \in Nat /\ \A i \in DOMAIN out.ring : out.ring[i].pos \in Nat
  <2> DEFINE E == [seq : Nat, frame : Y, pos : Nat]
             ring == out.ring
  <2>1. ring \in Seq(E) /\ out.next_pos \in Nat
    BY <1>1 DEF Rings
  <2>2. \A i \in DOMAIN ring : ring[i] \in E
    <3> HIDE DEF E, ring
    <3> QED
      BY <2>1, SeqHolds
  <2> HIDE DEF ring
  <2>3. \A i \in DOMAIN ring : ring[i].pos \in Nat
    BY <2>2
  <2> QED
    BY <2>1, <2>3 DEF ring
<1>3. out \in G
  <2>1. out \in Rings(X)
    <3> DEFINE A == [seq : Nat, frame : Y, pos : Nat]
               B == [seq : Nat, frame : X, pos : Nat]
    <3>1. A \subseteq B
      OBVIOUS
    <3>2. /\ out \in [ring : Seq(A), next_pos : Nat, cursor : Nat, evicted_through : Nat, overflow : BOOLEAN]
      BY <1>1 DEF Rings
    <3> HIDE DEF A, B
    <3>3. Seq(A) \subseteq Seq(B)
      BY <3>1
    <3>4. out \in [ring : Seq(B), next_pos : Nat, cursor : Nat, evicted_through : Nat, overflow : BOOLEAN]
      BY <3>2, <3>3
    <3> QED
      BY <3>4 DEF Rings, B
  <2>2. Grown(out, out, F)
    BY <1>1, <1>2 DEF Grown
  <2> QED
    BY <2>1, <2>2
<1>4. ASSUME NEW new \in G, NEW f \in F PROVE EnqueueNext(new, f, seq) \in G
  <2>1. new \in Rings(X) /\ Grown(new, out, F) /\ f \in X
    BY <1>4
  <2> HIDE DEF X
  <2>2. Enqueue(new, seq, f) \in Rings(X) /\ Grown(Enqueue(new, seq, f), out, F)
    BY <1>2, <2>1, EnqueueGrows
  <2> QED
    BY <2>2 DEF EnqueueNext
<1> HIDE DEF G
<1>5. EnqueueAll(out, seq, frames) \in G
  <2>1. EnqueuedP!Fold(out, frames, seq) \in G
    BY <1>3, <1>4, EnqueuedP!FoldKeeps
  <2> QED
    BY <2>1, SameStreamFolds DEF EnqueueAll
<1>6. EnqueueAll(out, seq, frames) \in Rings(X) /\ Grown(EnqueueAll(out, seq, frames), out, F)
  BY <1>5 DEF G
<1> QED
  BY <1>6 DEF Grows

LEMMA DeliveredIsNumbered ==
  ASSUME NEW out, Numbered(out)
  PROVE  /\ Numbered(MarkDelivered(out)) /\ Numbered(ClearOverflow(out))
         /\ MarkDelivered(out).ring = out.ring /\ MarkDelivered(out).next_pos = out.next_pos
         /\ ClearOverflow(out).ring = out.ring /\ ClearOverflow(out).next_pos = out.next_pos
<1>1. PICK X : out \in Rings(X) /\ \A i \in DOMAIN out.ring : out.ring[i].pos < out.next_pos
  BY DEF Numbered
<1> DEFINE E == Seq([seq : Nat, frame : X, pos : Nat])
<1>2. out \in [ring : E, next_pos : Nat, cursor : Nat, evicted_through : Nat, overflow : BOOLEAN]
  BY <1>1 DEF Rings
<1> HIDE DEF E
<1>3. /\ MarkDelivered(out) \in [ring : E, next_pos : Nat, cursor : Nat, evicted_through : Nat, overflow : BOOLEAN]
      /\ MarkDelivered(out).ring = out.ring /\ MarkDelivered(out).next_pos = out.next_pos
  BY <1>2 DEF MarkDelivered
<1>4. /\ ClearOverflow(out) \in [ring : E, next_pos : Nat, cursor : Nat, evicted_through : Nat, overflow : BOOLEAN]
      /\ ClearOverflow(out).ring = out.ring /\ ClearOverflow(out).next_pos = out.next_pos
  BY <1>2 DEF ClearOverflow
<1>5. MarkDelivered(out) \in Rings(X) /\ ClearOverflow(out) \in Rings(X)
  BY <1>3, <1>4 DEF E, Rings
<1> QED
  BY <1>1, <1>3, <1>4, <1>5 DEF Numbered

LEMMA GrowsIsNumbered ==
  ASSUME NEW new, NEW out, NEW F, Grows(new, out, F)
  PROVE  Numbered(new)
BY DEF Grows, Grown, Numbered

LEMMA EmptyIsNumbered == Numbered(EmptyOutbound) /\ EmptyOutbound.next_pos = 0
<1> DEFINE E == Seq([seq : Nat, frame : {}, pos : Nat])
           out == EmptyOutbound
<1>1. << >> \in E
  OBVIOUS
<1> HIDE DEF E
<1>2. /\ out \in [ring : E, next_pos : Nat, cursor : Nat, evicted_through : Nat, overflow : BOOLEAN]
      /\ out.next_pos = 0 /\ out.ring = << >>
  BY <1>1 DEF EmptyOutbound
<1>3. out \in Rings({})
  BY <1>2 DEF Rings, E
<1>4. \A i \in DOMAIN out.ring : out.ring[i].pos < out.next_pos
  BY <1>2
<1> QED
  BY <1>2, <1>3, <1>4 DEF Numbered

\* What RowsNeedAuthority asks of one frame, and of one ring.
Due(d, f) == f.rows # Blank => Authorized(d, f.sub \in RoleSub, history'[Len(history')], now')

RingIsDue(d) ==
  /\ Numbered(outbound'[d])
  /\ settled /\ outbound'[d].next_pos > outbound[d].next_pos =>
       \A i \in DOMAIN outbound'[d].ring :
         outbound'[d].ring[i].pos >= outbound[d].next_pos => Due(d, outbound'[d].ring[i].frame)

RowsInv ==
  /\ ConnectInv
  /\ StreamShape
  /\ \A c \in Conn : Numbered(outbound[c])

LEMMA NumberedIsCounted ==
  ASSUME NEW out, Numbered(out)
  PROVE  out.next_pos \in Nat
BY DEF Numbered, Rings

LEMMA GrowsIsDue ==
  ASSUME NEW d, NEW F, Grows(outbound'[d], outbound[d], F), settled => \A f \in F : Due(d, f)
  PROVE  RingIsDue(d)
<1>1. Numbered(outbound'[d])
  BY GrowsIsNumbered
<1>2. \A i \in DOMAIN outbound'[d].ring :
        outbound'[d].ring[i].pos >= outbound[d].next_pos => outbound'[d].ring[i].frame \in F
  BY DEF Grows, Grown
<1> QED
  BY <1>1, <1>2 DEF RingIsDue

LEMMA SameLengthIsDue ==
  ASSUME NEW d, NEW out, outbound'[d] = out, Numbered(out), Numbered(outbound[d]),
         out.next_pos = outbound[d].next_pos
  PROVE  RingIsDue(d)
<1>1. outbound[d].next_pos \in Nat
  BY NumberedIsCounted
<1>2. ~(outbound'[d].next_pos > outbound[d].next_pos)
  BY <1>1
<1> QED
  BY <1>2 DEF RingIsDue

LEMMA EmptyIsDue ==
  ASSUME NEW d, outbound'[d] = EmptyOutbound, Numbered(outbound[d])
  PROVE  RingIsDue(d)
<1>1. outbound[d].next_pos \in Nat
  BY NumberedIsCounted
<1>2. ~(outbound'[d].next_pos > outbound[d].next_pos) /\ Numbered(outbound'[d])
  BY <1>1, EmptyIsNumbered
<1> QED
  BY <1>2 DEF RingIsDue

LEMMA OneFrameIsDue ==
  ASSUME NEW d, Numbered(outbound[d]), NEW seq \in Nat, NEW f,
         outbound'[d] = Enqueue(outbound[d], seq, f), settled => Due(d, f)
  PROVE  RingIsDue(d)
<1> DEFINE out == outbound[d]
           F == {f}
<1>1. PICK Y : out \in Rings(Y) /\ \A i \in DOMAIN out.ring : out.ring[i].pos < out.next_pos
  BY DEF Numbered
<1> DEFINE X == Y \cup {f}
<1>2. out \in Rings(X) /\ out.next_pos \in Nat
  <2> DEFINE A == [seq : Nat, frame : Y, pos : Nat]
             B == [seq : Nat, frame : X, pos : Nat]
  <2>1. A \subseteq B
    OBVIOUS
  <2>2. out \in [ring : Seq(A), next_pos : Nat, cursor : Nat, evicted_through : Nat, overflow : BOOLEAN]
    BY <1>1 DEF Rings
  <2> HIDE DEF A, B
  <2>3. Seq(A) \subseteq Seq(B)
    BY <2>1
  <2>4. out \in [ring : Seq(B), next_pos : Nat, cursor : Nat, evicted_through : Nat, overflow : BOOLEAN]
    BY <2>2, <2>3
  <2> QED
    BY <2>4 DEF Rings, B
<1>3. Grown(out, out, F)
  <2> DEFINE E == [seq : Nat, frame : Y, pos : Nat]
             ring == out.ring
  <2>1. ring \in Seq(E)
    BY <1>1 DEF Rings
  <2>2. \A i \in DOMAIN ring : ring[i].pos \in Nat
    <3>1. \A i \in DOMAIN ring : ring[i] \in E
      <4> HIDE DEF E, ring
      <4> QED
        BY <2>1, SeqHolds
    <3> HIDE DEF ring
    <3> QED
      BY <3>1
  <2> QED
    BY <1>1, <1>2, <2>2 DEF Grown
<1>4. f \in X /\ f \in F
  OBVIOUS
<1> HIDE DEF X, out
<1>5. Enqueue(out, seq, f) \in Rings(X) /\ Grown(Enqueue(out, seq, f), out, F)
  BY <1>2, <1>3, <1>4, EnqueueGrows
<1>6. Grows(outbound'[d], outbound[d], F)
  BY <1>5 DEF Grows, out
<1> QED
  BY <1>6, GrowsIsDue

\* A frame without rows is due to anyone.
LEMMA BlankIsDue ==
  ASSUME NEW d, NEW s
  PROVE  Due(d, CloseFrame(s)) /\ Due(d, ResetFrame)
BY DEF Due, CloseFrame, ResetFrame

LEMMA RowsAreDue ==
  ASSUME NEW d, NEW s, NEW rows, NEW old,
         rows # Blank => Authorized(d, s \in RoleSub, history'[Len(history')], now')
  PROVE  Due(d, InitFrame(s, rows)) /\ Due(d, PatchFrame(s, old, rows))
<1>1. /\ InitFrame(s, rows).sub = s /\ InitFrame(s, rows).rows = rows
      /\ PatchFrame(s, old, rows).sub = s /\ PatchFrame(s, old, rows).rows = rows
  BY DEF InitFrame, PatchFrame
<1> QED
  BY <1>1 DEF Due

LEMMA ViewIsDue ==
  ASSUME RowsInv, NEW c \in Conn, NEW s \in Sub, View(c, s), NEW d \in Conn
  PROVE  RingIsDue(d)
<1> DEFINE rows == Shown(connections', history, c, s)
           seq == connections[c].frontier
           f == InitFrame(s, rows)
<1>1. /\ Open(c) /\ Authorized(c, s \in RoleSub, history[Latest], now)
      /\ history' = history /\ now' = now
      /\ outbound' = [outbound EXCEPT ![c] = Enqueue(@, seq, f)]
  BY DEF View, OpenWatch
<1>2. seq \in Nat
  BY <1>1, FrontiersAreNat DEF RowsInv, ConnectInv
<1> HIDE DEF seq, rows
<1>3. Due(c, f)
  BY <1>1, RowsAreDue DEF Latest
<1> HIDE DEF f
<1>4. CASE d = c
  <2>1. outbound'[d] = Enqueue(outbound[d], seq, f)
    BY <1>1, <1>4 DEF RowsInv, StreamShape
  <2> QED
    BY <1>2, <1>3, <1>4, <2>1, OneFrameIsDue DEF RowsInv
<1>5. CASE d # c
  <2>1. outbound'[d] = outbound[d]
    BY <1>1, <1>5 DEF RowsInv, StreamShape
  <2> QED
    BY <2>1, SameLengthIsDue DEF RowsInv
<1> QED
  BY <1>4, <1>5

LEMMA UnsubscribeIsDue ==
  ASSUME RowsInv, NEW c \in Conn, NEW s \in Sub, Unsubscribe(c, s), NEW d \in Conn
  PROVE  RingIsDue(d)
<1> DEFINE seq == connections[c].frontier
           f == CloseFrame(s)
<1>1. Open(c) /\ outbound' = [outbound EXCEPT ![c] = Enqueue(@, seq, f)]
  BY DEF Unsubscribe, Live
<1>2. seq \in Nat
  BY <1>1, FrontiersAreNat DEF RowsInv, ConnectInv
<1>3. Due(c, f)
  BY BlankIsDue
<1> HIDE DEF seq, f
<1>4. CASE d = c
  <2>1. outbound'[d] = Enqueue(outbound[d], seq, f)
    BY <1>1, <1>4 DEF RowsInv, StreamShape
  <2> QED
    BY <1>2, <1>3, <1>4, <2>1, OneFrameIsDue DEF RowsInv
<1>5. CASE d # c
  <2>1. outbound'[d] = outbound[d]
    BY <1>1, <1>5 DEF RowsInv, StreamShape
  <2> QED
    BY <2>1, SameLengthIsDue DEF RowsInv
<1> QED
  BY <1>4, <1>5

\* After a complete sweep whatever a watch still shows is its client's to see.
LEMMA SweptIsAuthorized ==
  ASSUME IsSweep, settled', NEW d \in Conn, Open(d), NEW s \in Sub,
         Shown(connections', history', d, s) # Blank
  PROVE  Authorized(d, s \in RoleSub, history'[Len(history')], now')
<1>1. PICK advancing \in SUBSET Conn, complete \in BOOLEAN : SweepStep(advancing, complete)
  BY DEF IsSweep
<1>2. complete
  BY <1>1 DEF SweepStep
<1>3. PICK target \in Nat :
        SweptTo(d, connections'[d], d \in advancing, target, history'[Latest'], now', complete)
  BY <1>1 DEF SweepStep
<1>4. connections'[d].watches[s] # None /\ ~connections'[d].watches[s].closed
  BY DEF Shown
<1>5. connections[d].watches[s] # None
  BY <1>3, <1>4 DEF SweptTo
<1> QED
  BY <1>2, <1>3, <1>4, <1>5 DEF SweptTo, Latest

LEMMA ReconcileIsDue ==
  ASSUME RowsInv, SurfaceInv', IsSweep, settled',
         NEW c \in Conn, Open(c), NEW commit \in Nat, Reconcile(c, commit), NEW d \in Conn
  PROVE  RingIsDue(d)
<1> DEFINE rows(s) == Shown(connections', history', d, s)
           fr(s) == SweptFrames(connections', history', d, s, d = c)
           frames == [s \in Sub |-> fr(s)]
           seq == IF d = c THEN connections'[c].frontier ELSE commit
           All == {CloseFrame(s) : s \in Sub} \cup {InitFrame(s, rows(s)) : s \in Sub}
                    \cup {PatchFrame(s, subs[d][s].snapshot, rows(s)) : s \in Sub}
           F == {f \in All : Due(d, f)}
<1>1. outbound'[d] = EnqueueAll(outbound[d], seq, InOrder(frames))
  BY DEF Reconcile
<1>2. ASSUME NEW s \in Sub PROVE frames[s] \in Seq(F)
  <2>1. fr(s) \in {<< >>} \cup {<< f >> : f \in F}
    <3>1. CASE ~Live(d, s)
      BY <3>1 DEF SweptFrames
    <3>2. CASE Live(d, s)
      <4>1. Open(d)
        BY <3>2 DEF Live
      <4>2. rows(s) # Blank => Authorized(d, s \in RoleSub, history'[Len(history')], now')
        BY <4>1, SweptIsAuthorized
      <4> DEFINE r == rows(s)
                 old == subs[d][s].snapshot
      <4>3. fr(s) \in {<< >>, << CloseFrame(s) >>, << InitFrame(s, r) >>, << PatchFrame(s, old, r) >>}
        BY DEF SweptFrames
      <4>4. CloseFrame(s) \in All /\ InitFrame(s, r) \in All /\ PatchFrame(s, old, r) \in All
        OBVIOUS
      <4> HIDE DEF r, old, All
      <4>5. Due(d, CloseFrame(s)) /\ Due(d, InitFrame(s, r)) /\ Due(d, PatchFrame(s, old, r))
        BY <4>2, BlankIsDue, RowsAreDue DEF r
      <4> HIDE DEF fr
      <4> QED
        BY <4>3, <4>4, <4>5
    <3> QED
      BY <3>1, <3>2
  <2> DEFINE q == fr(s)
  <2>2. q \in {<< >>} \cup {<< f >> : f \in F} /\ frames[s] = q
    BY <2>1
  <2> HIDE DEF F, q, fr
  <2>3. ASSUME NEW f \in F PROVE << f >> \in Seq(F)
    OBVIOUS
  <2>4. << >> \in Seq(F)
    OBVIOUS
  <2>5. q \in Seq(F)
    BY <2>2, <2>3, <2>4
  <2> QED
    BY <2>2, <2>5
<1>3. \A f \in F : Due(d, f)
  OBVIOUS
<1> HIDE DEF F, All, frames, fr
<1>4. InOrder(frames) \in Seq(F)
  BY <1>2, InOrderLists
<1>5. seq \in Nat
  <2>1. Open(c)'
    BY SweepsKeepOpen DEF RowsInv, ConnectInv
  <2>2. connections'[c].frontier \in Nat
    BY <2>1 DEF SurfaceInv, SurfaceTypes, Open, Connection
  <2> QED
    BY <2>2
<1> HIDE DEF seq
<1>6. Grows(outbound'[d], outbound[d], F)
  BY <1>1, <1>4, <1>5, EnqueueAllGrows DEF RowsInv
<1> QED
  BY <1>3, <1>6, GrowsIsDue

LEMMA SubmitIsDue ==
  ASSUME RowsInv, NEW c \in Conn, Submit(c), NEW d \in Conn
  PROVE  RingIsDue(d)
<1>0. SurfaceInv /\ SurfaceInv'
  BY SubmitKeepsHost DEF RowsInv, ConnectInv
<1>1. PICK request \in Request, id \in OpId \cup {None} :
       \/ \E content \in Content, granted \in Grants :
            /\ CallCommits(c, request, id, content, granted)
            /\ IF settled' THEN Reconcile(c, Latest + 1)
               ELSE UNCHANGED <<subs, outbound>>
       \/ /\ CallReplays(c, request, id)
          /\ IF settled' THEN Reconcile(c, operations[KeyOf(request, id)].outcome.commit)
             ELSE UNCHANGED <<subs, outbound>>
       \/ /\ \E kind \in {"unchanged", "rejected"} : CallChangesNothing(c, request, id, kind)
          /\ UNCHANGED <<subs, outbound>>
  BY DEF Submit
<1>2. CASE outbound' = outbound
  BY <1>2, SameLengthIsDue DEF RowsInv
<1>3. ASSUME IsSweep, Open(c), NEW commit \in Nat,
             IF settled' THEN Reconcile(c, commit) ELSE UNCHANGED <<subs, outbound>>
      PROVE  RingIsDue(d)
  BY <1>0, <1>2, <1>3, ReconcileIsDue
<1>4. ASSUME NEW content \in Content, NEW granted \in Grants,
             CallCommits(c, request, id, content, granted),
             IF settled' THEN Reconcile(c, Latest + 1) ELSE UNCHANGED <<subs, outbound>>
      PROVE  RingIsDue(d)
  <2>1. IsSweep /\ Open(c)
    BY <1>0, <1>4, CallCommitsKeepsInv DEF CallCommits, Admitted
  <2>2. Latest + 1 \in Nat
    BY <1>0 DEF SurfaceInv, SurfaceTypes, Latest
  <2> QED
    BY <1>3, <1>4, <2>1, <2>2
<1>5. ASSUME CallReplays(c, request, id),
             IF settled' THEN Reconcile(c, operations[KeyOf(request, id)].outcome.commit)
             ELSE UNCHANGED <<subs, outbound>>
      PROVE  RingIsDue(d)
  <2> DEFINE key == KeyOf(request, id)
             commit == operations[key].outcome.commit
  <2>1. IsSweep /\ Open(c)
    BY <1>0, <1>5, CallReplaysKeepsInv DEF CallReplays, Admitted
  <2>2. key \in OperationKey /\ operations[key] # None /\ operations[key].outcome.kind = "committed"
    BY <1>5 DEF CallReplays, Retained
  <2>3. commit \in Nat
    <3> HIDE DEF key
    <3>1. operations[key] \in OperationRecord
      BY <1>0, <2>2 DEF SurfaceInv, SurfaceTypes
    <3>2. operations[key].outcome \in [kind : {"committed"}, commit : Nat]
      BY <2>2, <3>1 DEF OperationRecord, Outcome
    <3> QED
      BY <3>2
  <2> HIDE DEF commit
  <2>4. IF settled' THEN Reconcile(c, commit) ELSE UNCHANGED <<subs, outbound>>
    BY <1>5 DEF commit
  <2> QED
    BY <1>3, <2>1, <2>3, <2>4
<1> QED
  BY <1>1, <1>2, <1>4, <1>5

\* A reconstruction sends what the watches show, which the last complete sweep
\* found authorized.
LEMMA ReinitIsDue ==
  ASSUME RowsInv, NEW c \in Conn, Open(c), UNCHANGED surfaceVars,
         NEW reset \in BOOLEAN, Reinit(c, reset), NEW d \in Conn
  PROVE  RingIsDue(d)
<1> DEFINE seq == connections[c].frontier
           rows(s) == Shown(connections, history, c, s)
           fr(s) == IF Reprojected(c, s) THEN << InitFrame(s, rows(s)) >> ELSE << >>
           fresh == [s \in Sub |-> fr(s)]
           pre == IF reset THEN << ResetFrame >> ELSE << >>
           frames == pre \o InOrder(fresh)
           start == MarkDelivered(ClearOverflow(outbound[c]))
           filled == EnqueueAll(start, seq, frames)
           All == {ResetFrame} \cup {InitFrame(s, rows(s)) : s \in Sub}
           F == {f \in All : settled => Due(c, f)}
<1>1. outbound' = [outbound EXCEPT ![c] = MarkDelivered(filled)]
  BY DEF Reinit
<1>2. history' = history /\ now' = now /\ seq \in Nat
  BY FrontiersAreNat DEF surfaceVars, RowsInv, ConnectInv
<1>3. ASSUME NEW s \in Sub PROVE fresh[s] \in Seq(F)
  <2> DEFINE r == rows(s)
             f == InitFrame(s, r)
             q == fr(s)
  <2>1. settled /\ r # Blank => Authorized(c, s \in RoleSub, history'[Len(history')], now')
    <3>1. r # Blank => <<c, s>> \in OpenWatches
      BY DEF Shown, OpenWatches
    <3>2. settled => \A cs \in OpenWatches :
                       Authorized(cs[1], cs[2] \in RoleSub, history[Latest], now)
      BY DEF RowsInv, ConnectInv, SurfaceInv, ConnectionsInv, NoWatchOutlivesAuthority
    <3> HIDE DEF r
    <3>3. ASSUME <<c, s>> \in OpenWatches, settled
          PROVE  Authorized(c, s \in RoleSub, history[Latest], now)
      BY <3>2, <3>3
    <3> QED
      BY <1>2, <3>1, <3>3 DEF Latest
  <2> HIDE DEF r
  <2>2. settled => Due(c, f)
    BY <2>1, RowsAreDue
  <2>3. f \in All
    BY DEF r
  <2> HIDE DEF All, f
  <2>4. f \in F
    BY <2>2, <2>3
  <2>5. q \in {<< >>, << f >>} /\ fresh[s] = q
    BY DEF f, r
  <2> HIDE DEF F, q, fr
  <2>6. << f >> \in Seq(F) /\ << >> \in Seq(F)
    BY <2>4
  <2>7. q \in Seq(F)
    BY <2>5, <2>6
  <2> QED
    BY <2>5, <2>7
<1>4. ResetFrame \in F
  BY BlankIsDue
<1>5. settled => \A f \in F : Due(c, f)
  OBVIOUS
<1> HIDE DEF F, All, fresh, fr, seq
<1>6. InOrder(fresh) \in Seq(F)
  BY <1>3, InOrderLists
<1>7. frames \in Seq(F)
  <2> DEFINE rest == InOrder(fresh)
  <2>1. rest \in Seq(F)
    BY <1>6
  <2>2. pre \in Seq(F)
    <3>1. << ResetFrame >> \in Seq(F) /\ << >> \in Seq(F)
      BY <1>4
    <3> QED
      BY <3>1
  <2> HIDE DEF pre, rest
  <2>3. pre \o rest \in Seq(F)
    BY <2>1, <2>2
  <2> QED
    BY <2>3 DEF rest
<1>8. /\ Numbered(start) /\ start.ring = outbound[c].ring
      /\ start.next_pos = outbound[c].next_pos
  <2> DEFINE clear == ClearOverflow(outbound[c])
  <2>1. /\ Numbered(clear) /\ clear.ring = outbound[c].ring
        /\ clear.next_pos = outbound[c].next_pos
    BY DeliveredIsNumbered DEF RowsInv
  <2> HIDE DEF clear
  <2>2. /\ Numbered(MarkDelivered(clear)) /\ MarkDelivered(clear).ring = clear.ring
        /\ MarkDelivered(clear).next_pos = clear.next_pos
    BY <2>1, DeliveredIsNumbered
  <2> QED
    BY <2>1, <2>2 DEF clear
<1> HIDE DEF frames, start
<1>9. Grows(filled, start, F)
  BY <1>2, <1>7, <1>8, EnqueueAllGrows
<1> HIDE DEF filled
<1>10. Grown(filled, outbound[c], F) /\ Numbered(filled)
  <2>1. Grown(filled, start, F)
    BY <1>9 DEF Grows
  <2>2. Grown(filled, outbound[c], F)
    BY <1>8, <2>1 DEF Grown
  <2> QED
    BY <1>9, <2>2, GrowsIsNumbered
<1> DEFINE last == MarkDelivered(filled)
<1>11. Numbered(last) /\ last.ring = filled.ring /\ last.next_pos = filled.next_pos
  BY <1>10, DeliveredIsNumbered
<1> HIDE DEF last
<1>12. \A i \in DOMAIN last.ring : last.ring[i].pos >= outbound[c].next_pos => last.ring[i].frame \in F
  BY <1>10, <1>11 DEF Grown
<1>13. CASE d = c
  <2>1. outbound'[d] = last
    BY <1>1, <1>13 DEF RowsInv, StreamShape, last
  <2> QED
    BY <1>5, <1>11, <1>12, <1>13, <2>1 DEF RingIsDue
<1>14. CASE d # c
  <2>1. outbound'[d] = outbound[d]
    BY <1>1, <1>14 DEF RowsInv, StreamShape
  <2> QED
    BY <2>1, SameLengthIsDue DEF RowsInv
<1> QED
  BY <1>13, <1>14

\* Handing the ring to the writer adds nothing to it.
LEMMA DrainIsDue ==
  ASSUME RowsInv, NEW c \in Conn, outbound' = [outbound EXCEPT ![c] = MarkDelivered(@)],
         NEW d \in Conn
  PROVE  RingIsDue(d)
<1> DEFINE out == MarkDelivered(outbound[c])
<1>1. Numbered(out) /\ out.next_pos = outbound[c].next_pos
  BY DeliveredIsNumbered DEF RowsInv
<1>2. IF d = c THEN outbound'[d] = out ELSE outbound'[d] = outbound[d]
  BY DEF RowsInv, StreamShape
<1> HIDE DEF out
<1> QED
  BY <1>1, <1>2, SameLengthIsDue DEF RowsInv

LEMMA EmptiedIsDue ==
  ASSUME RowsInv, NEW c \in Conn, outbound' = [outbound EXCEPT ![c] = EmptyOutbound], NEW d \in Conn
  PROVE  RingIsDue(d)
<1>1. IF d = c THEN outbound'[d] = EmptyOutbound ELSE outbound'[d] = outbound[d]
  BY DEF RowsInv, StreamShape
<1> QED
  BY <1>1, SameLengthIsDue, EmptyIsDue DEF RowsInv

LEMMA StepsAreDue ==
  ASSUME RowsInv, [ConnectNext]_connectVars, NEW d \in Conn
  PROVE  RingIsDue(d)
<1>1. CASE outbound' = outbound
  BY <1>1, SameLengthIsDue DEF RowsInv
<1>2. ASSUME NEW c \in Conn, Hello(c) \/ Drop(c) PROVE RingIsDue(d)
  BY <1>2, EmptiedIsDue DEF Hello, Drop
<1>3. ASSUME NEW c \in Conn, Submit(c) PROVE RingIsDue(d)
  BY <1>3, SubmitIsDue
<1>4. ASSUME NEW c \in Conn, NEW s \in Sub, View(c, s) \/ Unsubscribe(c, s) PROVE RingIsDue(d)
  BY <1>4, ViewIsDue, UnsubscribeIsDue
<1>5. ASSUME NEW c \in Conn, Poll(c) \/ Resume(c) PROVE RingIsDue(d)
  <2>1. Open(c) /\ UNCHANGED surfaceVars
    BY <1>5 DEF Poll, Resume
  <2>2. \/ Reinit(c, TRUE) \/ Reinit(c, FALSE)
        \/ outbound' = [outbound EXCEPT ![c] = MarkDelivered(@)]
    BY <1>5 DEF Poll, Resume
  <2> QED
    BY <2>1, <2>2, ReinitIsDue, DrainIsDue
<1>6. ASSUME NEW c \in Conn, ResumeUnknown(c) \/ Receive(c) \/ Cut(c) \/ StartOver(c)
      PROVE  outbound' = outbound
  BY <1>6 DEF ResumeUnknown, Receive, Cut, StartOver
<1>7. UNCHANGED connectVars \/ HostMoves => outbound' = outbound
  BY DEF connectVars, HostMoves
<1> QED
  BY <1>1, <1>2, <1>3, <1>4, <1>5, <1>6, <1>7 DEF ConnectNext

LEMMA ConnectNextKeepsRows == RowsInv /\ [ConnectNext]_connectVars => RowsInv'
<1> SUFFICES ASSUME RowsInv, [ConnectNext]_connectVars PROVE RowsInv'
  OBVIOUS
<1>1. ConnectInv' /\ StreamShape'
  BY ConnectNextKeepsInv, StepsKeepShape DEF RowsInv
<1>2. \A d \in Conn : Numbered(outbound'[d])
  BY StepsAreDue DEF RingIsDue
<1> QED
  BY <1>1, <1>2 DEF RowsInv

LEMMA ConnectInitRows == ConnectInit => RowsInv
<1> SUFFICES ASSUME ConnectInit PROVE RowsInv
  OBVIOUS
<1>1. ConnectInv
  BY ConnectInitHasInv
<1>2. StreamShape
  BY DEF ConnectInit, StreamShape
<1>3. \A c \in Conn : outbound[c] = EmptyOutbound
  BY DEF ConnectInit
<1> QED
  BY <1>1, <1>2, <1>3, EmptyIsNumbered DEF RowsInv

\* core/sweep.rs, core/mod.rs submit and reinit: a frame that carries rows is
\* put on a stream only for a connection the state it leaves authorizes, once
\* a sweep has completed -- for any ring capacity, cuts and resumes.
THEOREM RowsAreAuthorized == ConnectSpec => RowsNeedAuthority
<1>1. RowsInv /\ [ConnectNext]_connectVars =>
        [settled => \A c \in Conn :
           outbound'[c].next_pos > outbound[c].next_pos =>
             \A i \in DOMAIN outbound'[c].ring :
               LET e == outbound'[c].ring[i] IN
               e.pos >= outbound[c].next_pos /\ e.frame.rows # Blank =>
                 Authorized(c, e.frame.sub \in RoleSub, history'[Len(history')], now')]_<<outbound, client>>
  BY StepsAreDue DEF RingIsDue, Due
<1>2. RowsInv /\ [ConnectNext]_connectVars => RowsInv'
  BY ConnectNextKeepsRows
<1>3. ConnectInit => RowsInv
  BY ConnectInitRows
<1> QED
  BY <1>1, <1>2, <1>3, PTL DEF ConnectSpec, RowsNeedAuthority
=============================================================================
