------------------------------ MODULE Surface ------------------------------
(***************************************************************************)
(* crates/liasse-surface: the host that owns the engine, the logical       *)
(* connections, their live subscriptions (watches) and the retained        *)
(* operation records.  One method of SurfaceHost is one action.            *)
(*                                                                         *)
(* The engine is reduced to its committed log: history[n] is the state     *)
(* commit n left, as far as the surface reads it -- a version of the data  *)
(* every view projects, and the connections whose actor holds the role.    *)
(* A view is a pure function of (commit, instant), so a watch is fully     *)
(* described by the frontier and the instant it was last evaluated at.     *)
(* Connection and subscription ids are numbers: the host iterates its      *)
(* BTreeMaps in id order, which decides what a failing sweep leaves behind.*)
(***************************************************************************)
EXTENDS Naturals, Sequences

CONSTANTS Conn,         \* connection ids
          Sub,          \* subscription ids a connection may open
          RoleSub,      \* those over a role surface; the others are public
          Request,      \* resolved request models
          RoleRequest,  \* those on a role surface; the others are public
          OpId,         \* client-chosen operation identifiers
          Content,      \* versions of the projected data
          Genesis,      \* the version the first commit installs
          Grants,       \* the role memberships a committed state may hold
          Expires,      \* the instant each connection's session ends
          None,
          MaxCommits, MaxTime, MaxFaults  \* bounds on behaviours

ASSUME SurfaceIds == /\ Conn \subseteq Nat /\ Sub \subseteq Nat
                     /\ RoleSub \subseteq Sub
                     /\ RoleRequest \subseteq Request
                     /\ Genesis \in Content
                     /\ Grants \subseteq SUBSET Conn
                     /\ Expires \in [Conn -> Nat]
                     /\ None \notin Request \cup OpId

(* What a connection and its subscriptions are                             *)
Watch == [frontier : Nat, at : Nat, closed : BOOLEAN]
Connection == [frontier : Nat, bound : BOOLEAN, watches : [Sub -> Watch \cup {None}]]
Outcome == [kind : {"committed"}, commit : Nat] \cup [kind : {"unchanged", "rejected"}]
OperationRecord == [request : Request, outcome : Outcome]

(* None stands for the absent value of an Option, and a host has a last    *)
(* connection at any time: its BTreeMap is finite                          *)
ASSUME NoneIsAbsent ==
  None \notin Watch \cup Connection \cup OperationRecord
ASSUME ConnectionsEnd == \E m \in Conn : \A c \in Conn : c <= m

VARIABLES history,      \* Engine: per commit [content, granted, key]
          now,          \* the virtual clock
          connections,  \* SurfaceHost::connections: None or [frontier, bound, watches],
                        \* a watch being None or [frontier, at, closed]
          operations,   \* SurfaceHost::operations: None or [request, outcome]
          promised,     \* history variable: highest commit reported per connection
          reported,     \* history variable: commits reported under each key
          settled,      \* history variable: the last sweep saw the current state
          faults        \* sweeps that failed so far

surfaceVars == <<history, now, connections, operations, promised, reported,
                 settled, faults>>

----------------------------------------------------------------------------
Latest == Len(history)

(* OperationKey: the target (role or public) and the identifier            *)
OperationKey == BOOLEAN \X OpId

KeyOf(request, id) == IF id = None THEN None ELSE <<request \in RoleRequest, id>>

Later(a, b) == IF a > b THEN a ELSE b

Open(c) == connections[c] # None

(* Barrier::authorized: a role subscription needs a bound context, a live  *)
(* session and membership in the state given                               *)
Authorized(c, role, state, instant) ==
  role => /\ connections[c].bound
          /\ instant < Expires[c]
          /\ c \in state.granted

----------------------------------------------------------------------------
(* The completion barrier.  A sweep visits the watches of every connection *)
(* in id order and stops where an evaluation errs; End is past them all.   *)
End == <<1 + CHOOSE m \in Conn : \A c \in Conn : c <= m, 0>>

Visited(c, s, stop) == c < stop[1] \/ (c = stop[1] /\ s < stop[2])

(* Barrier::close_lost_authority on one watch *)
Checked(c, s, watch, state, instant) ==
  IF watch = None \/ watch.closed \/ Authorized(c, s \in RoleSub, state, instant)
  THEN watch
  ELSE [watch EXCEPT !.closed = TRUE]

(* Barrier::advance_one *)
Advanced(c, s, watch, state, instant, frontier) ==
  LET checked == Checked(c, s, watch, state, instant)
  IN  IF checked = None \/ checked.closed THEN checked
      ELSE [checked EXCEPT !.frontier = frontier, !.at = instant]

(* A mutant: settle_commit sweeping at the commit it settles, which a      *)
(* replayed operation may have left far behind                             *)
SweptConnectionAtCommit(c, advancing, target, state, instant, stop) ==
  [connections[c] EXCEPT
     !.frontier = IF advancing THEN target ELSE @,
     !.watches = [s \in Sub |->
        IF ~Visited(c, s, stop) THEN @[s]
        ELSE IF advancing THEN Advanced(c, s, @[s], state, instant, target)
        ELSE Checked(c, s, @[s], state, instant)]]

(* One connection swept at target: advanced when its rows move, otherwise  *)
(* only checked for authority                                              *)
SweptConnection(c, advancing, target, state, instant, stop) ==
  LET frontier == Later(connections[c].frontier, target) IN
  [connections[c] EXCEPT
     !.frontier = IF advancing THEN frontier ELSE @,
     !.watches = [s \in Sub |->
        IF ~Visited(c, s, stop) THEN @[s]
        ELSE IF advancing THEN Advanced(c, s, @[s], state, instant, frontier)
        ELSE Checked(c, s, @[s], state, instant)]]

(* A mutant: a settled commit that does not re-check its peers' authority  *)
SweptCallerOnly(advancing, target, state, instant, stop) ==
  [c \in Conn |->
     IF ~Open(c) \/ c > stop[1] \/ c \notin advancing THEN connections[c]
     ELSE SweptConnection(c, TRUE, target, state, instant, stop)]

(* A sweep that carries the connections in advancing to target, and checks *)
(* the authority of the others                                             *)
Swept(advancing, target, state, instant, stop) ==
  [c \in Conn |->
     IF ~Open(c) \/ c > stop[1] THEN connections[c]
     ELSE SweptConnection(c, c \in advancing, target, state, instant, stop)]

(* A sweep can err only while evaluating an open watch *)
Faulting(stop) ==
  /\ faults < MaxFaults
  /\ Open(stop[1])
  /\ connections[stop[1]].watches[stop[2]] # None
  /\ ~connections[stop[1]].watches[stop[2]].closed

(* The sweep either completes, or errs at stop and leaves the rest as it was *)
Sweep(advancing, target, state, instant, stop) ==
  /\ connections' = Swept(advancing, target, state, instant, stop)
  /\ settled' = (stop = End)
  /\ faults' = IF stop = End THEN faults ELSE faults + 1

Stops == {End} \cup {stop \in Conn \X Sub : Faulting(stop)}

----------------------------------------------------------------------------
Init ==
  /\ history \in {<<[content |-> Genesis, granted |-> g, key |-> None]>> :
                    g \in Grants}
  /\ now = 0
  /\ connections = [c \in Conn |-> None]
  /\ operations = [k \in OperationKey |-> None]
  /\ promised = [c \in Conn |-> 0]
  /\ reported = [k \in OperationKey |-> {}]
  /\ settled = TRUE
  /\ faults = 0

Fresh == [frontier |-> Latest, bound |-> FALSE, watches |-> [s \in Sub |-> None]]

(* SurfaceHost::connect *)
Connect(c) ==
  /\ ~Open(c)
  /\ connections' = [connections EXCEPT ![c] = Fresh]
  /\ promised' = [promised EXCEPT ![c] = 0]
  /\ UNCHANGED <<history, now, operations, reported, settled, faults>>

(* SurfaceHost::disconnect *)
Disconnect(c) ==
  /\ Open(c)
  /\ connections' = [connections EXCEPT ![c] = None]
  /\ UNCHANGED <<history, now, operations, promised, reported, settled, faults>>

(* SurfaceHost::authenticate: a live session binds the context; membership *)
(* is not a precondition                                                   *)
Authenticate(c) ==
  /\ Open(c) /\ ~connections[c].bound
  /\ now < Expires[c]
  /\ connections' = [connections EXCEPT ![c].bound = TRUE]
  /\ UNCHANGED <<history, now, operations, promised, reported, settled, faults>>

(* A mutant: opening at the engine's head rather than the connection's frontier *)
OpenWatchAtHead(c, s) ==
  /\ Open(c)
  /\ Authorized(c, s \in RoleSub, history[Latest], now)
  /\ connections' = [connections EXCEPT ![c].watches[s] =
       [frontier |-> Latest, at |-> now, closed |-> FALSE]]
  /\ UNCHANGED <<history, now, operations, promised, reported, settled, faults>>

(* SurfaceHost::watch and ::resume: both open at the connection's frontier,*)
(* replacing any watch of that id, and both re-authorize against the head  *)
OpenWatch(c, s) ==
  /\ Open(c)
  /\ Authorized(c, s \in RoleSub, history[Latest], now)
  /\ connections' = [connections EXCEPT ![c].watches[s] =
       [frontier |-> connections[c].frontier, at |-> now, closed |-> FALSE]]
  /\ UNCHANGED <<history, now, operations, promised, reported, settled, faults>>

----------------------------------------------------------------------------
(* SurfaceHost::call.  decide() on the scoped key comes first; a denial,   *)
(* a conflict and an engine error change nothing and are not listed.       *)
Admitted(c, request) ==
  /\ Open(c)
  /\ Authorized(c, request \in RoleRequest, history[Latest], now)

(* A mutant: an outcome that is answered and not retained *)
RecordNothing(key, request, outcome) == UNCHANGED operations

Record(key, request, outcome) ==
  operations' = IF key = None THEN operations
                ELSE [operations EXCEPT ![key] = [request |-> request, outcome |-> outcome]]

Retained == {key \in OperationKey : operations[key] # None}

Answer(c, key, commit) ==
  /\ promised' = [promised EXCEPT ![c] = Later(@, commit)]
  /\ reported' = IF key = None THEN reported
                 ELSE [reported EXCEPT ![key] = @ \cup {commit}]

Extend(content, granted, key) ==
  /\ Latest < MaxCommits
  /\ history' = Append(history, [content |-> content, granted |-> granted, key |-> key])

(* execute -> Committed: the commit is durable, then settle_commit sweeps. *)
(* A sweep that errs returns the error: nothing is reported or recorded.   *)
CallCommits(c, request, id, content, granted) ==
  LET key == KeyOf(request, id) IN
  /\ Admitted(c, request)
  /\ key \notin Retained
  /\ Extend(content, granted, key)
  /\ \E stop \in Stops :
       /\ Sweep({c}, Latest + 1, history'[Latest + 1], now, stop)
       /\ IF stop = End
          THEN /\ Record(key, request, [kind |-> "committed", commit |-> Latest + 1])
               /\ Answer(c, key, Latest + 1)
          ELSE UNCHANGED <<operations, promised, reported>>
  /\ UNCHANGED now

(* execute -> Unchanged or Rejected: recorded, no sweep *)
CallChangesNothing(c, request, id, kind) ==
  LET key == KeyOf(request, id) IN
  /\ Admitted(c, request)
  /\ key # None /\ key \notin Retained
  /\ Record(key, request, [kind |-> kind])
  /\ UNCHANGED <<history, now, connections, promised, reported, settled, faults>>

(* A mutant: a replay that returns the stored outcome and settles nothing *)
CallReplaysUnsettled(c, request, id) ==
  LET key == KeyOf(request, id)
      record == operations[key] IN
  /\ Admitted(c, request)
  /\ key \in Retained
  /\ record.request = request
  /\ record.outcome.kind = "committed"
  /\ Answer(c, key, record.outcome.commit)
  /\ UNCHANGED <<history, now, connections, operations, settled, faults>>

(* decide -> Replay: the stored outcome, after settling its commit on this *)
(* connection                                                              *)
CallReplays(c, request, id) ==
  LET key == KeyOf(request, id)
      record == operations[key]
      commit == record.outcome.commit IN
  /\ Admitted(c, request)
  /\ key \in Retained
  /\ record.request = request
  /\ record.outcome.kind = "committed"
  /\ \E stop \in Stops :
       /\ Sweep({c}, commit, history[Latest], now, stop)
       /\ IF stop = End THEN Answer(c, key, commit)
          ELSE UNCHANGED <<promised, reported>>
  /\ UNCHANGED <<history, now, operations>>

Call(c) ==
  \E request \in Request, id \in OpId \cup {None} :
    \/ \E content \in Content, granted \in Grants :
         CallCommits(c, request, id, content, granted)
    \/ \E kind \in {"unchanged", "rejected"} : CallChangesNothing(c, request, id, kind)
    \/ CallReplays(c, request, id)

----------------------------------------------------------------------------
(* SurfaceHost::advance_time: the clock moves, every connection is swept at *)
(* its own frontier                                                        *)
SweptInPlace(instant, stop) ==
  [c \in Conn |->
     IF ~Open(c) \/ c > stop[1] THEN connections[c]
     ELSE SweptConnection(c, TRUE, connections[c].frontier, history[Latest], instant, stop)]

AdvanceTime ==
  /\ now < MaxTime
  /\ now' = now + 1
  /\ \E stop \in Stops :
       /\ connections' = SweptInPlace(now + 1, stop)
       /\ settled' = (stop = End)
       /\ faults' = IF stop = End THEN faults ELSE faults + 1
  /\ UNCHANGED <<history, operations, promised, reported>>

(* An applied import, update or operator transition: a commit that no      *)
(* client called for, then sweep_all                                       *)
Operate(content, granted) ==
  /\ Extend(content, granted, None)
  /\ \E stop \in Stops : Sweep(Conn, Latest + 1, history'[Latest + 1], now, stop)
  /\ UNCHANGED <<now, operations, promised, reported>>

(* engine_mut().call: a commit behind the surface's back, swept by nobody  *)
CommitUnswept(content, granted) ==
  /\ Extend(content, granted, None)
  /\ settled' = FALSE
  /\ UNCHANGED <<now, connections, operations, promised, reported, faults>>

(* into_parts and new: the engine stays, connections and records go        *)
Restart ==
  /\ connections' = [c \in Conn |-> None]
  /\ operations' = [k \in OperationKey |-> None]
  /\ promised' = [c \in Conn |-> 0]
  /\ reported' = [k \in OperationKey |-> {}]
  /\ settled' = TRUE
  /\ UNCHANGED <<history, now, faults>>

Next ==
  \/ \E c \in Conn : \/ Connect(c) \/ Disconnect(c) \/ Authenticate(c)
                     \/ \E s \in Sub : OpenWatch(c, s)
                     \/ Call(c)
  \/ AdvanceTime
  \/ \E content \in Content, granted \in Grants :
       Operate(content, granted) \/ CommitUnswept(content, granted)
  \/ Restart

Spec == Init /\ [][Next]_surfaceVars

----------------------------------------------------------------------------
OpenWatches == {cs \in Conn \X Sub : /\ Open(cs[1])
                                     /\ connections[cs[1]].watches[cs[2]] # None
                                     /\ ~connections[cs[1]].watches[cs[2]].closed}

WatchOf(cs) == connections[cs[1]].watches[cs[2]]

(* The completion guarantee (operation.rs, call.rs settle_commit): once a  *)
(* connection has been told of a commit, every subscription still open on  *)
(* it shows that commit or a later one -- through replays, failed sweeps,  *)
(* and subscriptions opened or replaced afterwards.                        *)
CompletionBarrier ==
  \A cs \in OpenWatches : promised[cs[1]] <= WatchOf(cs).frontier

(* Without a failed sweep, the subscriptions of one connection show one    *)
(* consistent cut: the connection's frontier, evaluated at the present     *)
(* instant, whatever peers commit in between.                              *)
OneCutPerConnection ==
  faults = 0 =>
    \A cs \in OpenWatches : /\ WatchOf(cs).frontier = connections[cs[1]].frontier
                            /\ WatchOf(cs).at = now

(* Authority is re-evaluated at every outgoing frontier, the peers' ones   *)
(* included: after a complete sweep no subscription outlives its authority,*)
(* though the commit or the expiry that removed it was somebody else's.    *)
NoWatchOutlivesAuthority ==
  settled => \A cs \in OpenWatches :
               Authorized(cs[1], cs[2] \in RoleSub, history[Latest], now)

(* A frontier token handed to a client never goes stale: no step moves a   *)
(* connection, or a subscription it keeps, back to an earlier commit.      *)
FrontiersNeverRegress ==
  [][\A c \in Conn : Open(c) /\ connections'[c] # None =>
       /\ connections[c].frontier <= connections'[c].frontier
       /\ \A s \in Sub : connections[c].watches[s] # None =>
            /\ connections'[c].watches[s] # None
            /\ connections[c].watches[s].frontier <= connections'[c].watches[s].frontier]_connections

(* An operation identifier names one execution: every committed answer     *)
(* given under one key, on any connection, reports the same commit.        *)
RetryReobservesOneCommit ==
  \A k \in OperationKey : \A one, other \in reported[k] : one = other

=============================================================================
