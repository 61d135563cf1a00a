--------------------------- MODULE SurfaceProofs ---------------------------
(***************************************************************************)
(* What liasse-surface promises holds for any connections, subscriptions,  *)
(* requests, roles and packages.                                           *)
(*                                                                         *)
(* The host: its facts follow from one inductive invariant.                *)
(* CompletionBarrier alone says nothing about the frontier a subscription  *)
(* will be opened at, and RetryReobservesOneCommit nothing about the       *)
(* record a replay answers from.                                           *)
(*                                                                         *)
(* Access: the roles cannot be enumerated, and nobody is served or shown   *)
(* more than what the roles it holds allow.  That a subscription shows     *)
(* what a call addresses compares a recursion with a fold over keys, and   *)
(* stays with TLC.                                                         *)
(***************************************************************************)
EXTENDS Surface, Access, TLAPS, FiniteSetTheorems

CommitRecord == [content : Content, granted : Grants, key : OperationKey \cup {None}]

SurfaceTypes ==
  /\ history \in Seq(CommitRecord) /\ Latest >= 1
  /\ now \in Nat
  /\ connections \in [Conn -> Connection \cup {None}]
  /\ operations \in [OperationKey -> OperationRecord \cup {None}]
  /\ promised \in [Conn -> Nat]
  /\ reported \in [OperationKey -> SUBSET Nat]
  /\ settled \in BOOLEAN
  /\ faults \in Nat

HasWatch(c, s) == Open(c) /\ connections[c].watches[s] # None
IsOpenWatch(c, s) == HasWatch(c, s) /\ ~connections[c].watches[s].closed

\* No subscription is ahead of its connection.
WatchesFollow ==
  \A c \in Conn, s \in Sub : HasWatch(c, s) =>
    connections[c].watches[s].frontier <= connections[c].frontier

\* What a connection was told of is at or below its own frontier, and at or
\* below what its open subscriptions show.
PromisesKept ==
  \A c \in Conn : Open(c) =>
    /\ promised[c] <= connections[c].frontier
    /\ \A s \in Sub : IsOpenWatch(c, s) => promised[c] <= connections[c].watches[s].frontier

\* Every answer under a key is the commit its record retains.
AnswersAreRetained ==
  \A k \in OperationKey :
    IF operations[k] # None /\ operations[k].outcome.kind = "committed"
    THEN reported[k] \subseteq {operations[k].outcome.commit}
    ELSE reported[k] = {}

SurfaceInv ==
  /\ SurfaceTypes
  /\ WatchesFollow
  /\ PromisesKept
  /\ AnswersAreRetained
  /\ OneCutPerConnection
  /\ NoWatchOutlivesAuthority
-----------------------------------------------------------------------------
(* The sweep.                                                              *)

\* A completed sweep visits every subscription: ids are below End's.
LEMMA EndIsPastAll ==
  ASSUME NEW c \in Conn
  PROVE  ~(c > End[1]) /\ \A s \in Sub : Visited(c, s, End)
<1> DEFINE m == CHOOSE n \in Conn : \A d \in Conn : d <= n
<1>1. m \in Conn /\ c <= m
  BY ConnectionsEnd
<1>2. m \in Nat /\ c \in Nat
  BY <1>1, SurfaceIds
<1>3. c < 1 + m
  BY <1>1, <1>2
<1>4. End[1] = 1 + m
  BY DEF End
<1> HIDE DEF m
<1> QED
  BY <1>2, <1>3, <1>4 DEF Visited

\* A stop is End or the place of an open subscription.
LEMMA StopsAreFaults ==
  ASSUME NEW stop \in Stops, stop # End
  PROVE  stop \in Conn \X Sub
BY DEF Stops, Faulting

LEMMA CheckedWatch ==
  ASSUME NEW c \in Conn, NEW s \in Sub, NEW watch \in Watch \cup {None},
         NEW state, NEW instant
  PROVE  LET new == Checked(c, s, watch, state, instant) IN
         /\ new \in Watch \cup {None}
         /\ new = None <=> watch = None
         /\ watch # None =>
              /\ new.frontier = watch.frontier /\ new.at = watch.at
              /\ ~new.closed => ~watch.closed /\ Authorized(c, s \in RoleSub, state, instant)
<1>1. CASE watch = None
  BY <1>1 DEF Checked
<1>2. CASE watch # None
  <2>1. watch \in Watch
    BY <1>2
  <2>2. [watch EXCEPT !.closed = TRUE] \in Watch
    BY <2>1 DEF Watch
  <2>3. None \notin Watch
    BY NoneIsAbsent
  <2> QED
    BY <1>2, <2>1, <2>2, <2>3 DEF Checked, Watch
<1> QED
  BY <1>1, <1>2

LEMMA AdvancedWatch ==
  ASSUME NEW c \in Conn, NEW s \in Sub, NEW watch \in Watch \cup {None},
         NEW state, NEW instant \in Nat, NEW frontier \in Nat
  PROVE  LET new == Advanced(c, s, watch, state, instant, frontier) IN
         /\ new \in Watch \cup {None}
         /\ new = None <=> watch = None
         /\ watch # None =>
              /\ new.closed => new.frontier = watch.frontier
              /\ ~new.closed => /\ ~watch.closed
                                /\ Authorized(c, s \in RoleSub, state, instant)
                                /\ new.frontier = frontier /\ new.at = instant
<1> DEFINE checked == Checked(c, s, watch, state, instant)
<1>1. /\ checked \in Watch \cup {None}
      /\ checked = None <=> watch = None
      /\ watch # None =>
           /\ checked.frontier = watch.frontier /\ checked.at = watch.at
           /\ ~checked.closed => ~watch.closed /\ Authorized(c, s \in RoleSub, state, instant)
  BY CheckedWatch
<1>2. Advanced(c, s, watch, state, instant, frontier)
        = IF checked = None \/ checked.closed THEN checked
          ELSE [checked EXCEPT !.frontier = frontier, !.at = instant]
  BY DEF Advanced
<1>3. None \notin Watch
  BY NoneIsAbsent
<1> HIDE DEF checked
<1>4. CASE checked = None \/ checked.closed
  BY <1>1, <1>2, <1>3, <1>4
<1>5. CASE ~(checked = None \/ checked.closed)
  <2>1. checked \in Watch
    BY <1>1, <1>5
  <2>2. [checked EXCEPT !.frontier = frontier, !.at = instant] \in Watch
    BY <2>1 DEF Watch
  <2> QED
    BY <1>1, <1>2, <1>3, <1>5, <2>1, <2>2 DEF Watch
<1> QED
  BY <1>4, <1>5
-----------------------------------------------------------------------------
(* What a sweep makes of one connection, complete or not.                  *)
SweptTo(c, new, advancing, target, state, instant, complete) ==
  LET old == connections[c] IN
  /\ new \in Connection
  /\ new.bound = old.bound
  /\ old.frontier <= new.frontier
  /\ ~advancing => new.frontier = old.frontier
  /\ complete /\ advancing => target <= new.frontier
  /\ \A s \in Sub : new.watches[s] = None <=> old.watches[s] = None
  /\ \A s \in Sub : old.watches[s] # None =>
       /\ new.watches[s].frontier \in {old.watches[s].frontier, new.frontier}
       /\ ~new.watches[s].closed => ~old.watches[s].closed
       /\ ~advancing => /\ new.watches[s].frontier = old.watches[s].frontier
                        /\ new.watches[s].at = old.watches[s].at
       /\ complete /\ ~new.watches[s].closed =>
            /\ Authorized(c, s \in RoleSub, state, instant)
            /\ advancing => /\ new.watches[s].frontier = new.frontier
                            /\ new.watches[s].at = instant

LEMMA SweptConnectionIsSwept ==
  ASSUME SurfaceTypes, NEW c \in Conn, Open(c), NEW advancing \in BOOLEAN,
         NEW target \in Nat, NEW state, NEW instant \in Nat, NEW stop \in Stops
  PROVE  SweptTo(c, SweptConnection(c, advancing, target, state, instant, stop),
                 advancing, target, state, instant, stop = End)
<1> DEFINE old == connections[c]
           new == SweptConnection(c, advancing, target, state, instant, stop)
           frontier == Later(old.frontier, target)
           watch(s) == IF ~Visited(c, s, stop) THEN old.watches[s]
                       ELSE IF advancing THEN Advanced(c, s, old.watches[s], state, instant, frontier)
                       ELSE Checked(c, s, old.watches[s], state, instant)
<1>1. old \in Connection
  BY DEF SurfaceTypes, Open
<1>2. frontier \in Nat /\ old.frontier <= frontier /\ target <= frontier
  BY <1>1 DEF Connection, Later
<1>3. new = [old EXCEPT !.frontier = IF advancing THEN frontier ELSE @,
                        !.watches = [s \in Sub |-> watch(s)]]
  BY DEF SweptConnection
<1>4. ASSUME NEW s \in Sub
      PROVE  /\ old.watches[s] \in Watch \cup {None}
             /\ watch(s) \in Watch \cup {None}
             /\ watch(s) = None <=> old.watches[s] = None
             /\ old.watches[s] # None =>
                  /\ watch(s).frontier = old.watches[s].frontier
                       \/ (advancing /\ watch(s).frontier = frontier)
                  /\ ~watch(s).closed => ~old.watches[s].closed
                  /\ ~advancing => watch(s).at = old.watches[s].at
                  /\ stop = End /\ ~watch(s).closed =>
                       /\ Authorized(c, s \in RoleSub, state, instant)
                       /\ advancing => watch(s).frontier = frontier /\ watch(s).at = instant
  <2>1. old.watches[s] \in Watch \cup {None}
    BY <1>1 DEF Connection
  <2>2. stop = End => Visited(c, s, stop)
    BY EndIsPastAll
  <2>3. CASE ~Visited(c, s, stop)
    BY <2>1, <2>2, <2>3
  <2>4. CASE Visited(c, s, stop) /\ advancing
    <3>1. watch(s) = Advanced(c, s, old.watches[s], state, instant, frontier)
      BY <2>4
    <3> HIDE DEF watch, frontier, old
    <3> QED
      BY <1>2, <2>1, <2>4, <3>1, AdvancedWatch
  <2>5. CASE Visited(c, s, stop) /\ ~advancing
    <3>1. watch(s) = Checked(c, s, old.watches[s], state, instant)
      BY <2>5
    <3> HIDE DEF watch, frontier, old
    <3> QED
      BY <2>1, <2>5, <3>1, CheckedWatch
  <2> QED
    BY <2>3, <2>4, <2>5
<1> HIDE DEF watch, frontier
<1>5. /\ new.frontier = IF advancing THEN frontier ELSE old.frontier
      /\ new.bound = old.bound
      /\ new.watches = [s \in Sub |-> watch(s)]
  BY <1>1, <1>3 DEF Connection
<1>6. new \in Connection
  <2>1. [s \in Sub |-> watch(s)] \in [Sub -> Watch \cup {None}]
    BY <1>4
  <2> QED
    BY <1>1, <1>2, <1>3, <2>1 DEF Connection
<1>7. \A s \in Sub : new.watches[s] = watch(s)
  BY <1>5
<1>8. SweptTo(c, new, advancing, target, state, instant, stop = End)
  <2> HIDE DEF new, old
  <2>1. old = connections[c]
    BY DEF old
  <2>2. new.frontier \in Nat /\ old.frontier \in Nat /\ old.frontier <= new.frontier
    BY <1>1, <1>2, <1>5 DEF Connection
  <2>3. /\ ~advancing => new.frontier = old.frontier
        /\ stop = End /\ advancing => target <= new.frontier
    BY <1>2, <1>5
  <2>4. ASSUME NEW s \in Sub, old.watches[s] # None
        PROVE  /\ new.watches[s].frontier \in {old.watches[s].frontier, new.frontier}
               /\ ~new.watches[s].closed => ~old.watches[s].closed
               /\ ~advancing => /\ new.watches[s].frontier = old.watches[s].frontier
                                /\ new.watches[s].at = old.watches[s].at
               /\ stop = End /\ ~new.watches[s].closed =>
                    /\ Authorized(c, s \in RoleSub, state, instant)
                    /\ advancing => /\ new.watches[s].frontier = new.frontier
                                    /\ new.watches[s].at = instant
    BY <1>4, <1>5, <1>7, <2>4
  <2>5. \A s \in Sub : new.watches[s] = None <=> old.watches[s] = None
    BY <1>4, <1>7
  <2> QED
    BY <1>5, <1>6, <2>1, <2>2, <2>3, <2>4, <2>5 DEF SweptTo
<1> QED
  BY <1>8

\* A sweep that erred before a connection leaves it as it was.
LEMMA UnsweptIsSwept ==
  ASSUME SurfaceTypes, NEW c \in Conn, Open(c), NEW advancing, NEW target, NEW state, NEW instant
  PROVE  SweptTo(c, connections[c], advancing, target, state, instant, FALSE)
BY DEF SweptTo, SurfaceTypes, Open, Connection
-----------------------------------------------------------------------------
(* Steps.                                                                  *)

\* A step that sweeps, the connections in `advancing` up to some commit.
SweepStep(advancing, complete) ==
  /\ DOMAIN connections' = Conn /\ connections' = [c \in Conn |-> connections'[c]]
  /\ \A c \in Conn :
       IF Open(c)
       THEN \E target \in Nat :
              SweptTo(c, connections'[c], c \in advancing, target, history'[Latest'], now', complete)
       ELSE connections'[c] = None
  /\ settled' = complete
  /\ faults' = IF complete THEN faults ELSE faults + 1
  /\ advancing = Conn \/ now' = now
  /\ \A c \in Conn : /\ promised'[c] \in Nat
                      /\ \/ promised'[c] = promised[c]
                         \/ complete /\ c \in advancing /\ promised'[c] <= connections'[c].frontier

IsSweep == \E advancing \in SUBSET Conn, complete \in BOOLEAN : SweepStep(advancing, complete)

\* What the invariant says of connections and their subscriptions.
ConnectionsInv == WatchesFollow /\ PromisesKept /\ OneCutPerConnection /\ NoWatchOutlivesAuthority

LEMMA SweepKeepsConnections ==
  ASSUME SurfaceTypes, ConnectionsInv, NEW advancing \in SUBSET Conn, NEW complete \in BOOLEAN,
         SweepStep(advancing, complete)
  PROVE  /\ connections' \in [Conn -> Connection \cup {None}]
         /\ settled' \in BOOLEAN /\ faults' \in Nat
         /\ ConnectionsInv'
<1>1. ASSUME NEW c \in Conn, ~Open(c)
      PROVE  connections'[c] = None
  BY <1>1 DEF SweepStep
<1>2. ASSUME NEW c \in Conn, Open(c)
      PROVE  connections'[c] \in Connection /\ Open(c)'
  BY <1>2, NoneIsAbsent DEF SweepStep, SweptTo, Open
<1>3. connections' \in [Conn -> Connection \cup {None}]
  BY <1>1, <1>2 DEF SweepStep
<1>4. settled' \in BOOLEAN /\ faults' \in Nat
  BY DEF SweepStep, SurfaceTypes
<1>5. \A c \in Conn : Open(c)' => Open(c)
  BY <1>1 DEF Open
<1>6. ASSUME NEW c \in Conn, Open(c), NEW s \in Sub, connections'[c].watches[s] # None
      PROVE  /\ connections[c] \in Connection /\ connections'[c] \in Connection
             /\ connections[c].watches[s] \in Watch /\ connections'[c].watches[s] \in Watch
  BY <1>2, <1>6 DEF SweepStep, SweptTo, SurfaceTypes, Open, Connection
<1>7. WatchesFollow'
  <2> SUFFICES ASSUME NEW c \in Conn, NEW s \in Sub, HasWatch(c, s)'
               PROVE  connections'[c].watches[s].frontier <= connections'[c].frontier
    BY DEF WatchesFollow
  <2>1. Open(c) /\ connections'[c].watches[s] # None
    BY <1>5 DEF HasWatch
  <2>2. HasWatch(c, s)
    BY <2>1 DEF SweepStep, SweptTo, HasWatch
  <2>3. connections[c].watches[s].frontier <= connections[c].frontier
    BY <2>2 DEF ConnectionsInv, WatchesFollow
  <2>4. /\ connections[c].frontier <= connections'[c].frontier
        /\ connections'[c].watches[s].frontier
             \in {connections[c].watches[s].frontier, connections'[c].frontier}
    BY <2>1, <2>2 DEF SweepStep, SweptTo, HasWatch
  <2> QED
    BY <1>6, <2>1, <2>3, <2>4 DEF Connection, Watch
<1>8. PromisesKept'
  <2> SUFFICES ASSUME NEW c \in Conn, Open(c)'
               PROVE  /\ promised'[c] <= connections'[c].frontier
                      /\ \A s \in Sub : IsOpenWatch(c, s)' =>
                           promised'[c] <= connections'[c].watches[s].frontier
    BY DEF PromisesKept
  <2>1. Open(c) /\ promised[c] <= connections[c].frontier
    BY <1>5 DEF ConnectionsInv, PromisesKept
  <2>2. /\ connections[c] \in Connection /\ connections'[c] \in Connection
        /\ promised[c] \in Nat /\ promised'[c] \in Nat
    BY <1>2, <2>1 DEF SurfaceTypes, Open, SweepStep
  <2>3. connections[c].frontier <= connections'[c].frontier
    BY <2>1 DEF SweepStep, SweptTo
  <2>4. promised'[c] <= connections'[c].frontier
    BY <2>1, <2>2, <2>3 DEF SweepStep, Connection
  <2>5. ASSUME NEW s \in Sub, IsOpenWatch(c, s)'
        PROVE  promised'[c] <= connections'[c].watches[s].frontier
    <3>1. connections'[c].watches[s] # None /\ ~connections'[c].watches[s].closed
      BY <2>5 DEF IsOpenWatch, HasWatch
    <3>2. IsOpenWatch(c, s)
      BY <2>1, <3>1 DEF SweepStep, SweptTo, IsOpenWatch, HasWatch
    <3>3. promised[c] <= connections[c].watches[s].frontier
      BY <2>1, <3>2 DEF ConnectionsInv, PromisesKept
    <3>4. connections[c].watches[s].frontier <= connections[c].frontier
      BY <3>2 DEF ConnectionsInv, WatchesFollow, IsOpenWatch
    <3>5. connections'[c].watches[s].frontier
            \in {connections[c].watches[s].frontier, connections'[c].frontier}
      BY <2>1, <3>2 DEF SweepStep, SweptTo, IsOpenWatch, HasWatch
    <3>6. CASE promised'[c] = promised[c]
      BY <2>4, <3>3, <3>5, <3>6
    <3>7. CASE complete /\ c \in advancing /\ promised'[c] <= connections'[c].frontier
      <4>1. connections'[c].watches[s].frontier = connections'[c].frontier
        BY <2>1, <3>1, <3>2, <3>7 DEF SweepStep, SweptTo, IsOpenWatch, HasWatch
      <4> QED
        BY <3>7, <4>1
    <3> QED
      BY <3>6, <3>7 DEF SweepStep
  <2> QED
    BY <2>4, <2>5
<1>9. ASSUME NEW cs \in OpenWatches'
      PROVE  /\ cs \in OpenWatches /\ cs = <<cs[1], cs[2]>> /\ cs[1] \in Conn /\ cs[2] \in Sub
             /\ Open(cs[1]) /\ Open(cs[1])'
             /\ connections'[cs[1]].watches[cs[2]] # None
             /\ ~connections'[cs[1]].watches[cs[2]].closed
  <2>1. cs \in Conn \X Sub /\ Open(cs[1])' /\ connections'[cs[1]].watches[cs[2]] # None
         /\ ~connections'[cs[1]].watches[cs[2]].closed
    BY <1>9 DEF OpenWatches
  <2>2. cs[1] \in Conn /\ cs[2] \in Sub /\ cs = <<cs[1], cs[2]>>
    BY <2>1
  <2>3. Open(cs[1])
    BY <1>5, <2>1, <2>2
  <2>4. connections[cs[1]].watches[cs[2]] # None /\ ~connections[cs[1]].watches[cs[2]].closed
    BY <2>1, <2>2, <2>3 DEF SweepStep, SweptTo
  <2> QED
    BY <2>1, <2>2, <2>3, <2>4 DEF OpenWatches
<1>10. OneCutPerConnection'
  <2> SUFFICES ASSUME faults' = 0, NEW cs \in OpenWatches'
               PROVE  /\ WatchOf(cs)'.frontier = connections'[cs[1]].frontier
                      /\ WatchOf(cs)'.at = now'
    BY DEF OneCutPerConnection
  <2>1. complete /\ faults = 0
    BY <1>4 DEF SweepStep, SurfaceTypes
  <2>2. cs[1] \in Conn /\ cs[2] \in Sub /\ Open(cs[1])
    BY <1>9
  <2>3. /\ connections[cs[1]].watches[cs[2]].frontier = connections[cs[1]].frontier
        /\ connections[cs[1]].watches[cs[2]].at = now
    BY <1>9, <2>1 DEF ConnectionsInv, OneCutPerConnection, WatchOf
  <2>4. connections[cs[1]].watches[cs[2]] # None
    BY <1>9 DEF OpenWatches
  <2>5. CASE cs[1] \in advancing
    BY <1>9, <2>1, <2>2, <2>4, <2>5 DEF SweepStep, SweptTo, WatchOf
  <2>6. CASE cs[1] \notin advancing
    BY <1>9, <2>2, <2>3, <2>4, <2>6 DEF SweepStep, SweptTo, WatchOf
  <2> QED
    BY <2>5, <2>6
<1>11. NoWatchOutlivesAuthority'
  <2> SUFFICES ASSUME settled', NEW cs \in OpenWatches'
               PROVE  Authorized(cs[1], cs[2] \in RoleSub, history[Latest], now)'
    BY DEF NoWatchOutlivesAuthority
  <2>1. complete
    BY DEF SweepStep
  <2>2. cs[1] \in Conn /\ cs[2] \in Sub /\ Open(cs[1])
    BY <1>9
  <2>3. connections[cs[1]].watches[cs[2]] # None
    BY <1>9 DEF OpenWatches
  <2>4. Authorized(cs[1], cs[2] \in RoleSub, history'[Latest'], now')
    BY <1>9, <2>1, <2>2, <2>3 DEF SweepStep, SweptTo
  <2>5. connections'[cs[1]].bound = connections[cs[1]].bound
    BY <2>2 DEF SweepStep, SweptTo
  <2> QED
    BY <2>4, <2>5 DEF Authorized
<1> QED
  BY <1>3, <1>4, <1>7, <1>8, <1>10, <1>11 DEF ConnectionsInv

\* SurfaceHost::connect, with a context bound at once or not.
LEMMA FreshConnectionKeepsInv ==
  ASSUME SurfaceInv, NEW c \in Conn, ~Open(c), NEW new \in Connection,
         new.watches = [s \in Sub |-> None], new.frontier = Latest,
         connections' = [connections EXCEPT ![c] = new],
         promised' = [promised EXCEPT ![c] = 0],
         UNCHANGED <<history, now, operations, reported, settled, faults>>
  PROVE  SurfaceInv'
<1>1. new \in Connection /\ new.watches = [s \in Sub |-> None] /\ new.frontier = Latest
  OBVIOUS
<1>2. /\ connections'[c] = new
      /\ \A d \in Conn : d # c => connections'[d] = connections[d] /\ promised'[d] = promised[d]
      /\ promised'[c] = 0
  BY DEF SurfaceInv, SurfaceTypes
<1>3. SurfaceTypes'
  BY <1>1 DEF SurfaceInv, SurfaceTypes, Latest
<1>4. \A d \in Conn, s \in Sub : HasWatch(d, s)' => d # c /\ HasWatch(d, s)
  BY <1>1, <1>2 DEF HasWatch, Open
<1>5. WatchesFollow'
  BY <1>2, <1>4 DEF SurfaceInv, WatchesFollow
<1>6. PromisesKept'
  <2> SUFFICES ASSUME NEW d \in Conn, Open(d)'
               PROVE  /\ promised'[d] <= connections'[d].frontier
                      /\ \A s \in Sub : IsOpenWatch(d, s)' =>
                           promised'[d] <= connections'[d].watches[s].frontier
    BY DEF PromisesKept
  <2>1. CASE d = c
    BY <1>1, <1>2, <1>4, <2>1 DEF IsOpenWatch, SurfaceInv, SurfaceTypes, Latest
  <2>2. CASE d # c
    BY <1>2, <1>4, <2>2 DEF IsOpenWatch, Open, SurfaceInv, PromisesKept
  <2> QED
    BY <2>1, <2>2
<1>7. AnswersAreRetained'
  BY DEF SurfaceInv, AnswersAreRetained
<1>8. \A cs \in OpenWatches' : cs \in OpenWatches /\ cs[1] # c
                                 /\ connections'[cs[1]] = connections[cs[1]]
  <2> SUFFICES ASSUME NEW cs \in OpenWatches'
               PROVE  cs \in OpenWatches /\ cs[1] # c /\ connections'[cs[1]] = connections[cs[1]]
    OBVIOUS
  <2>1. cs \in Conn \X Sub /\ cs[1] \in Conn /\ cs[2] \in Sub /\ HasWatch(cs[1], cs[2])'
    BY DEF OpenWatches, HasWatch
  <2>2. cs[1] # c
    BY <1>4, <2>1
  <2> QED
    BY <1>2, <2>1, <2>2 DEF OpenWatches, Open
<1>9. OneCutPerConnection'
  BY <1>8 DEF SurfaceInv, OneCutPerConnection, WatchOf
<1>10. NoWatchOutlivesAuthority'
  BY <1>8 DEF SurfaceInv, NoWatchOutlivesAuthority, Authorized, Latest
<1> QED
  BY <1>3, <1>5, <1>6, <1>7, <1>9, <1>10 DEF SurfaceInv

LEMMA ConnectKeepsInv ==
  ASSUME SurfaceInv, NEW c \in Conn, Connect(c)
  PROVE  SurfaceInv'
<1>1. Fresh \in Connection /\ Fresh.watches = [s \in Sub |-> None] /\ Fresh.frontier = Latest
  BY DEF SurfaceInv, SurfaceTypes, Latest, Fresh, Connection
<1> QED
  BY <1>1, FreshConnectionKeepsInv DEF Connect

LEMMA DisconnectKeepsInv ==
  ASSUME SurfaceInv, NEW c \in Conn, Disconnect(c)
  PROVE  SurfaceInv'
<1>1. connections' = [connections EXCEPT ![c] = None]
  BY DEF Disconnect
<1>2. UNCHANGED <<history, now, operations, promised, reported, settled, faults>>
  BY DEF Disconnect
<1>3. \A d \in Conn : Open(d)' => Open(d) /\ connections'[d] = connections[d]
  BY <1>1 DEF SurfaceInv, SurfaceTypes, Open
<1>4. SurfaceTypes'
  BY <1>1, <1>2 DEF SurfaceInv, SurfaceTypes, Latest
<1>5. WatchesFollow' /\ PromisesKept'
  BY <1>2, <1>3 DEF SurfaceInv, WatchesFollow, PromisesKept, HasWatch, IsOpenWatch
<1>6. AnswersAreRetained'
  BY <1>2 DEF SurfaceInv, AnswersAreRetained
<1>7. \A cs \in OpenWatches' : cs \in OpenWatches /\ connections'[cs[1]] = connections[cs[1]]
  BY <1>3 DEF OpenWatches
<1>8. OneCutPerConnection' /\ NoWatchOutlivesAuthority'
  BY <1>2, <1>7 DEF SurfaceInv, OneCutPerConnection, NoWatchOutlivesAuthority, WatchOf, Authorized, Latest
<1> QED
  BY <1>4, <1>5, <1>6, <1>8 DEF SurfaceInv

\* Binding a context only adds authority.
LEMMA AuthenticateKeepsInv ==
  ASSUME SurfaceInv, NEW c \in Conn, Authenticate(c)
  PROVE  SurfaceInv'
<1>1. connections' = [connections EXCEPT ![c].bound = TRUE]
  BY DEF Authenticate
<1>2. UNCHANGED <<history, now, operations, promised, reported, settled, faults>>
  BY DEF Authenticate
<1>3. connections[c] \in Connection
  BY DEF Authenticate, SurfaceInv, SurfaceTypes, Open
<1>4. \A d \in Conn : Open(d)' =>
        /\ Open(d)
        /\ connections'[d].frontier = connections[d].frontier
        /\ connections'[d].watches = connections[d].watches
        /\ connections[d].bound => connections'[d].bound
  BY <1>1, <1>3 DEF SurfaceInv, SurfaceTypes, Open, Connection, Authenticate
<1>5. SurfaceTypes'
  BY <1>1, <1>2, <1>3 DEF SurfaceInv, SurfaceTypes, Latest, Connection
<1>6. WatchesFollow' /\ PromisesKept'
  BY <1>2, <1>4 DEF SurfaceInv, WatchesFollow, PromisesKept, HasWatch, IsOpenWatch
<1>7. AnswersAreRetained'
  BY <1>2 DEF SurfaceInv, AnswersAreRetained
<1>8. \A cs \in OpenWatches' : cs \in OpenWatches /\ cs[1] \in Conn /\ Open(cs[1])'
  BY <1>4 DEF OpenWatches
<1>9. OneCutPerConnection'
  BY <1>2, <1>4, <1>8 DEF SurfaceInv, OneCutPerConnection, WatchOf
<1>10. NoWatchOutlivesAuthority'
  BY <1>2, <1>4, <1>8 DEF SurfaceInv, NoWatchOutlivesAuthority, Authorized, Latest
<1> QED
  BY <1>5, <1>6, <1>7, <1>9, <1>10 DEF SurfaceInv

\* A subscription opens on the cut of its connection, authorized at the head.
LEMMA OpenWatchKeepsInv ==
  ASSUME SurfaceInv, NEW c \in Conn, NEW s \in Sub, OpenWatch(c, s)
  PROVE  SurfaceInv'
<1> DEFINE watch == [frontier |-> connections[c].frontier, at |-> now, closed |-> FALSE]
<1>1. connections' = [connections EXCEPT ![c].watches[s] = watch]
  BY DEF OpenWatch
<1>2. UNCHANGED <<history, now, operations, promised, reported, settled, faults>>
  BY DEF OpenWatch
<1>3. connections[c] \in Connection /\ Open(c)
  BY DEF OpenWatch, SurfaceInv, SurfaceTypes, Open
<1>4. watch \in Watch /\ watch # None
  <2>1. watch \in Watch
    BY <1>3 DEF Connection, Watch, SurfaceInv, SurfaceTypes
  <2> QED
    BY <2>1, NoneIsAbsent
<1>5. connections'[c] = [connections[c] EXCEPT !.watches[s] = watch]
  BY <1>1, <1>3 DEF SurfaceInv, SurfaceTypes
<1>6. /\ connections'[c] \in Connection
      /\ connections'[c].frontier = connections[c].frontier
      /\ connections'[c].bound = connections[c].bound
      /\ connections'[c].watches[s] = watch
      /\ \A r \in Sub : r # s => connections'[c].watches[r] = connections[c].watches[r]
  BY <1>3, <1>4, <1>5 DEF Connection
<1>7. \A d \in Conn : d # c => connections'[d] = connections[d]
  BY <1>1 DEF SurfaceInv, SurfaceTypes
<1>8. SurfaceTypes'
  BY <1>1, <1>2, <1>5, <1>6 DEF SurfaceInv, SurfaceTypes, Latest
<1> HIDE DEF watch
<1>9. ASSUME NEW d \in Conn, NEW r \in Sub, <<d, r>> # <<c, s>>, HasWatch(d, r)'
      PROVE  /\ HasWatch(d, r)
             /\ connections'[d].watches[r] = connections[d].watches[r]
             /\ connections'[d].frontier = connections[d].frontier
             /\ connections'[d].bound = connections[d].bound
  BY <1>3, <1>6, <1>7, <1>9 DEF HasWatch, Open
<1>10. watch.frontier = connections[c].frontier /\ watch.at = now /\ ~watch.closed
  BY DEF watch
<1>11. connections[c].frontier \in Nat
  BY <1>3 DEF Connection
<1>12. WatchesFollow'
  <2> SUFFICES ASSUME NEW d \in Conn, NEW r \in Sub, HasWatch(d, r)'
               PROVE  connections'[d].watches[r].frontier <= connections'[d].frontier
    BY DEF WatchesFollow
  <2>1. CASE <<d, r>> = <<c, s>>
    BY <1>6, <1>10, <1>11, <2>1
  <2>2. CASE <<d, r>> # <<c, s>>
    BY <1>9, <2>2 DEF SurfaceInv, WatchesFollow
  <2> QED
    BY <2>1, <2>2
<1>13. PromisesKept'
  <2> SUFFICES ASSUME NEW d \in Conn, Open(d)'
               PROVE  /\ promised'[d] <= connections'[d].frontier
                      /\ \A r \in Sub : IsOpenWatch(d, r)' =>
                           promised'[d] <= connections'[d].watches[r].frontier
    BY DEF PromisesKept
  <2>1. Open(d) /\ connections'[d].frontier = connections[d].frontier
    BY <1>3, <1>6, <1>7 DEF Open
  <2>2. promised'[d] <= connections'[d].frontier
    BY <1>2, <2>1 DEF SurfaceInv, PromisesKept
  <2>3. ASSUME NEW r \in Sub, IsOpenWatch(d, r)'
        PROVE  promised'[d] <= connections'[d].watches[r].frontier
    <3>1. CASE <<d, r>> = <<c, s>>
      BY <1>6, <1>10, <2>1, <2>2, <3>1
    <3>2. CASE <<d, r>> # <<c, s>>
      BY <1>2, <1>9, <2>1, <2>3, <3>2 DEF SurfaceInv, PromisesKept, IsOpenWatch
    <3> QED
      BY <3>1, <3>2
  <2> QED
    BY <2>2, <2>3
<1>14. AnswersAreRetained'
  BY <1>2 DEF SurfaceInv, AnswersAreRetained
<1>15. ASSUME NEW cs \in OpenWatches', cs # <<c, s>>
       PROVE  /\ cs \in OpenWatches
              /\ WatchOf(cs)' = WatchOf(cs)
              /\ connections'[cs[1]].frontier = connections[cs[1]].frontier
              /\ connections'[cs[1]].bound = connections[cs[1]].bound
  <2>1. cs[1] \in Conn /\ cs[2] \in Sub /\ cs = <<cs[1], cs[2]>> /\ HasWatch(cs[1], cs[2])'
    BY DEF OpenWatches, HasWatch
  <2>2. <<cs[1], cs[2]>> # <<c, s>>
    BY <1>15, <2>1
  <2> QED
    BY <1>9, <2>1, <2>2 DEF OpenWatches, HasWatch, WatchOf
<1>16. OneCutPerConnection'
  <2> SUFFICES ASSUME faults' = 0, NEW cs \in OpenWatches'
               PROVE  /\ WatchOf(cs)'.frontier = connections'[cs[1]].frontier
                      /\ WatchOf(cs)'.at = now'
    BY DEF OneCutPerConnection
  <2>1. CASE cs = <<c, s>>
    BY <1>2, <1>6, <1>10, <2>1 DEF WatchOf
  <2>2. CASE cs # <<c, s>>
    BY <1>2, <1>15, <2>2 DEF SurfaceInv, OneCutPerConnection
  <2> QED
    BY <2>1, <2>2
<1>17. NoWatchOutlivesAuthority'
  <2> SUFFICES ASSUME settled', NEW cs \in OpenWatches'
               PROVE  Authorized(cs[1], cs[2] \in RoleSub, history[Latest], now)'
    BY DEF NoWatchOutlivesAuthority
  <2>1. CASE cs = <<c, s>>
    BY <1>2, <1>6, <2>1 DEF OpenWatch, Authorized, Latest
  <2>2. CASE cs # <<c, s>>
    BY <1>2, <1>15, <2>2 DEF SurfaceInv, NoWatchOutlivesAuthority, Authorized, Latest
  <2> QED
    BY <2>1, <2>2
<1> QED
  BY <1>8, <1>12, <1>13, <1>14, <1>16, <1>17 DEF SurfaceInv

-----------------------------------------------------------------------------
(* Steps that sweep.                                                       *)

\* The sweep of a commit, and what the caller is told after it.
LEMMA SweepIsStep ==
  ASSUME SurfaceTypes, PromisesKept, NEW advancing \in SUBSET Conn, NEW target \in Nat,
         NEW stop \in Stops, Sweep(advancing, target, history'[Latest'], now, stop), now' = now,
         \A c \in Conn :
           \/ promised'[c] = promised[c]
           \/ stop = End /\ c \in advancing /\ Open(c) /\ promised'[c] = Later(promised[c], target)
  PROVE  SweepStep(advancing, stop = End)
<1>1. connections' = Swept(advancing, target, history'[Latest'], now, stop)
  BY DEF Sweep
<1>2. settled' = (stop = End) /\ faults' = IF stop = End THEN faults ELSE faults + 1
  BY DEF Sweep
<1>3. DOMAIN connections' = Conn /\ connections' = [c \in Conn |-> connections'[c]]
  BY <1>1 DEF Swept
<1>4. ASSUME NEW c \in Conn, ~Open(c)
      PROVE  connections'[c] = None
  BY <1>1, <1>4 DEF Swept, Open
<1>5. ASSUME NEW c \in Conn, Open(c)
      PROVE  SweptTo(c, connections'[c], c \in advancing, target, history'[Latest'], now', stop = End)
  <2>1. CASE c > stop[1]
    <3>1. connections'[c] = connections[c]
      BY <1>1, <2>1 DEF Swept
    <3>2. stop # End
      BY <2>1, EndIsPastAll
    <3> QED
      BY <1>5, <3>1, <3>2, UnsweptIsSwept
  <2>2. CASE ~(c > stop[1])
    <3> DEFINE moves == c \in advancing
               state == history'[Latest']
    <3>1. connections'[c] = SweptConnection(c, moves, target, state, now, stop)
      BY <1>1, <1>5, <2>2 DEF Swept
    <3>2. moves \in BOOLEAN /\ now \in Nat
      BY DEF SurfaceTypes
    <3>3. SweptTo(c, connections'[c], moves, target, state, now, stop = End)
      <4> HIDE DEF moves, state
      <4>1. SweptTo(c, SweptConnection(c, moves, target, state, now, stop),
                    moves, target, state, now, stop = End)
        BY <1>5, <3>2, SweptConnectionIsSwept
      <4> QED
        BY <3>1, <4>1
    <3> QED
      BY <3>3
  <2> QED
    BY <2>1, <2>2
<1>6. ASSUME NEW c \in Conn
      PROVE  /\ promised'[c] \in Nat
             /\ \/ promised'[c] = promised[c]
                \/ stop = End /\ c \in advancing /\ promised'[c] <= connections'[c].frontier
  <2>1. promised[c] \in Nat
    BY DEF SurfaceTypes
  <2>2. CASE promised'[c] = promised[c]
    BY <2>1, <2>2
  <2>3. CASE stop = End /\ c \in advancing /\ Open(c) /\ promised'[c] = Later(promised[c], target)
    <3>1. /\ connections'[c] \in Connection /\ target <= connections'[c].frontier
          /\ connections[c].frontier <= connections'[c].frontier
      BY <1>5, <2>3 DEF SweptTo
    <3>2. connections[c] \in Connection /\ promised[c] <= connections[c].frontier
      BY <2>3 DEF SurfaceTypes, Open, PromisesKept
    <3> QED
      BY <2>1, <2>3, <3>1, <3>2 DEF Later, Connection
  <2> QED
    BY <2>2, <2>3
<1> QED
  BY <1>2, <1>3, <1>4, <1>5, <1>6 DEF SweepStep

\* SurfaceHost::advance_time: every connection in place, at the next instant.
LEMMA AdvanceTimeIsStep ==
  ASSUME SurfaceTypes, NEW stop \in Stops,
         connections' = SweptInPlace(now + 1, stop), settled' = (stop = End),
         faults' = IF stop = End THEN faults ELSE faults + 1,
         now' = now + 1, UNCHANGED <<history, promised>>
  PROVE  SweepStep(Conn, stop = End)
<1>1. DOMAIN connections' = Conn /\ connections' = [c \in Conn |-> connections'[c]]
  BY DEF SweptInPlace
<1>2. ASSUME NEW c \in Conn, ~Open(c)
      PROVE  connections'[c] = None
  BY <1>2 DEF SweptInPlace, Open
<1>3. ASSUME NEW c \in Conn, Open(c)
      PROVE  \E target \in Nat :
               SweptTo(c, connections'[c], c \in Conn, target, history'[Latest'], now', stop = End)
  <2> DEFINE target == connections[c].frontier
             state == history[Latest]
             instant == now + 1
             moves == c \in Conn
  <2>1. target \in Nat /\ instant \in Nat /\ moves = TRUE
    BY <1>3 DEF SurfaceTypes, Open, Connection
  <2>2. history'[Latest'] = state /\ now' = instant
    BY DEF Latest
  <2>3. SweptTo(c, connections'[c], TRUE, target, state, instant, stop = End)
    <3>1. CASE c > stop[1]
      <4>1. connections'[c] = connections[c]
        BY <3>1 DEF SweptInPlace
      <4>2. stop # End
        BY <3>1, EndIsPastAll
      <4> QED
        BY <1>3, <4>1, <4>2, UnsweptIsSwept
    <3>2. CASE ~(c > stop[1])
      <4>1. connections'[c] = SweptConnection(c, TRUE, target, state, instant, stop)
        BY <1>3, <3>2 DEF SweptInPlace
      <4> HIDE DEF target, state, instant
      <4>2. SweptTo(c, SweptConnection(c, TRUE, target, state, instant, stop),
                    TRUE, target, state, instant, stop = End)
        BY <1>3, <2>1, SweptConnectionIsSwept
      <4> QED
        BY <4>1, <4>2
    <3> QED
      BY <3>1, <3>2
  <2>4. SweptTo(c, connections'[c], moves, target, history'[Latest'], now', stop = End)
    <3> HIDE DEF target, state, instant, moves
    <3> QED
      BY <2>1, <2>2, <2>3
  <2> QED
    BY <2>1, <2>4
<1>4. \A c \in Conn : promised'[c] \in Nat /\ promised'[c] = promised[c]
  BY DEF SurfaceTypes
<1> QED
  BY <1>1, <1>2, <1>3, <1>4 DEF SweepStep

LEMMA AdvanceTimeKeepsInv ==
  ASSUME SurfaceInv, AdvanceTime
  PROVE  SurfaceInv' /\ IsSweep
<1>1. PICK stop \in Stops :
        /\ connections' = SweptInPlace(now + 1, stop)
        /\ settled' = (stop = End)
        /\ faults' = IF stop = End THEN faults ELSE faults + 1
  BY DEF AdvanceTime
<1>2. now' = now + 1 /\ UNCHANGED <<history, operations, promised, reported>>
  BY DEF AdvanceTime
<1>3. SweepStep(Conn, stop = End)
  BY <1>1, <1>2, AdvanceTimeIsStep DEF SurfaceInv
<1>4. /\ connections' \in [Conn -> Connection \cup {None}]
      /\ settled' \in BOOLEAN /\ faults' \in Nat
      /\ ConnectionsInv'
  BY <1>3, SweepKeepsConnections DEF SurfaceInv, ConnectionsInv
<1>5. SurfaceTypes' /\ AnswersAreRetained'
  BY <1>2, <1>4 DEF SurfaceInv, SurfaceTypes, AnswersAreRetained, Latest
<1> QED
  BY <1>3, <1>4, <1>5 DEF SurfaceInv, ConnectionsInv, IsSweep

\* A commit takes the next place in the engine's log.
LEMMA ExtendKeepsHistory ==
  ASSUME SurfaceTypes, NEW content \in Content, NEW granted \in Grants,
         NEW key \in OperationKey \cup {None}, Extend(content, granted, key)
  PROVE  /\ history' \in Seq(CommitRecord) /\ Latest' >= 1
         /\ Latest' = Latest + 1 /\ Latest \in Nat
         /\ history'[Latest + 1] = [content |-> content, granted |-> granted, key |-> key]
BY DEF Extend, SurfaceTypes, Latest, CommitRecord

LEMMA OperateKeepsInv ==
  ASSUME SurfaceInv, NEW content \in Content, NEW granted \in Grants, Operate(content, granted)
  PROVE  SurfaceInv' /\ IsSweep
<1>1. Extend(content, granted, None)
  BY DEF Operate
<1>2. PICK stop \in Stops : Sweep(Conn, Latest + 1, history'[Latest + 1], now, stop)
  BY DEF Operate
<1>3. UNCHANGED <<now, operations, promised, reported>>
  BY DEF Operate
<1>4. /\ history' \in Seq(CommitRecord) /\ Latest' >= 1
      /\ Latest' = Latest + 1 /\ Latest \in Nat
  BY <1>1, ExtendKeepsHistory DEF SurfaceInv
<1>5. SweepStep(Conn, stop = End)
  <2>1. Sweep(Conn, Latest', history'[Latest'], now, stop)
    BY <1>2, <1>4
  <2> QED
    BY <1>3, <1>4, <2>1, SweepIsStep DEF SurfaceInv
<1>6. /\ connections' \in [Conn -> Connection \cup {None}]
      /\ settled' \in BOOLEAN /\ faults' \in Nat
      /\ ConnectionsInv'
  BY <1>5, SweepKeepsConnections DEF SurfaceInv, ConnectionsInv
<1>7. SurfaceTypes' /\ AnswersAreRetained'
  BY <1>3, <1>4, <1>6 DEF SurfaceInv, SurfaceTypes, AnswersAreRetained
<1> QED
  BY <1>5, <1>6, <1>7 DEF SurfaceInv, ConnectionsInv, IsSweep

LEMMA CommitUnsweptKeepsInv ==
  ASSUME SurfaceInv, NEW content \in Content, NEW granted \in Grants,
         CommitUnswept(content, granted)
  PROVE  SurfaceInv'
<1>1. Extend(content, granted, None) /\ settled' = FALSE
      /\ UNCHANGED <<now, connections, operations, promised, reported, faults>>
  BY DEF CommitUnswept
<1>2. history' \in Seq(CommitRecord) /\ Latest' >= 1
  BY <1>1, ExtendKeepsHistory DEF SurfaceInv
<1>3. SurfaceTypes'
  BY <1>1, <1>2 DEF SurfaceInv, SurfaceTypes
<1>4. OpenWatches' = OpenWatches
  BY <1>1 DEF OpenWatches, Open
<1>5. WatchesFollow' /\ PromisesKept' /\ AnswersAreRetained'
  BY <1>1 DEF SurfaceInv, WatchesFollow, PromisesKept, AnswersAreRetained, HasWatch, IsOpenWatch, Open
<1>6. OneCutPerConnection' /\ NoWatchOutlivesAuthority'
  BY <1>1, <1>4 DEF SurfaceInv, OneCutPerConnection, NoWatchOutlivesAuthority, WatchOf
<1> QED
  BY <1>3, <1>5, <1>6 DEF SurfaceInv

LEMMA RestartKeepsInv ==
  ASSUME SurfaceInv, Restart
  PROVE  SurfaceInv'
<1>1. \A c \in Conn : ~Open(c)'
  BY DEF Restart, Open
<1>2. OpenWatches' = {}
  BY <1>1 DEF OpenWatches
<1>3. SurfaceTypes'
  BY DEF SurfaceInv, SurfaceTypes, Restart, Latest
<1>4. WatchesFollow' /\ PromisesKept'
  BY <1>1 DEF WatchesFollow, PromisesKept, HasWatch
<1>5. AnswersAreRetained'
  BY DEF Restart, AnswersAreRetained
<1>6. OneCutPerConnection' /\ NoWatchOutlivesAuthority'
  BY <1>2 DEF OneCutPerConnection, NoWatchOutlivesAuthority
<1> QED
  BY <1>3, <1>4, <1>5, <1>6 DEF SurfaceInv
-----------------------------------------------------------------------------
(* Calls.                                                                  *)

LEMMA KeysOfRequests ==
  ASSUME NEW request \in Request, NEW id \in OpId \cup {None}
  PROVE  KeyOf(request, id) \in OperationKey \cup {None}
<1>1. CASE id = None
  BY <1>1 DEF KeyOf
<1>2. CASE id # None
  <2>1. (request \in RoleRequest) \in BOOLEAN /\ id \in OpId
    BY <1>2
  <2> QED
    BY <1>2, <2>1 DEF KeyOf, OperationKey
<1> QED
  BY <1>1, <1>2

LEMMA CallCommitsKeepsInv ==
  ASSUME SurfaceInv, NEW c \in Conn, NEW request \in Request, NEW id \in OpId \cup {None},
         NEW content \in Content, NEW granted \in Grants,
         CallCommits(c, request, id, content, granted)
  PROVE  SurfaceInv' /\ IsSweep
<1> DEFINE key == KeyOf(request, id)
           commit == Latest + 1
           outcome == [kind |-> "committed", commit |-> commit]
<1>1. key \in OperationKey \cup {None}
  BY KeysOfRequests
<1>2. Open(c) /\ key \notin Retained /\ Extend(content, granted, key) /\ now' = now
  BY DEF CallCommits, Admitted
<1>3. PICK stop \in Stops :
        /\ Sweep({c}, commit, history'[commit], now, stop)
        /\ IF stop = End THEN Record(key, request, outcome) /\ Answer(c, key, commit)
           ELSE UNCHANGED <<operations, promised, reported>>
  BY DEF CallCommits
<1> HIDE DEF key
<1>4. /\ history' \in Seq(CommitRecord) /\ Latest' >= 1
      /\ Latest' = commit /\ Latest \in Nat /\ commit \in Nat
  <2>1. /\ history' \in Seq(CommitRecord) /\ Latest' >= 1
        /\ Latest' = Latest + 1 /\ Latest \in Nat
    BY <1>1, <1>2, ExtendKeepsHistory DEF SurfaceInv
  <2> QED
    BY <2>1
<1>5. SweepStep({c}, stop = End)
  <2>1. Sweep({c}, commit, history'[Latest'], now, stop)
    BY <1>3, <1>4
  <2>2. \A d \in Conn :
          \/ promised'[d] = promised[d]
          \/ stop = End /\ d \in {c} /\ Open(d) /\ promised'[d] = Later(promised[d], commit)
    BY <1>2, <1>3 DEF Answer, SurfaceInv, SurfaceTypes
  <2> QED
    BY <1>2, <1>4, <2>1, <2>2, SweepIsStep DEF SurfaceInv
<1>6. /\ connections' \in [Conn -> Connection \cup {None}]
      /\ settled' \in BOOLEAN /\ faults' \in Nat
      /\ ConnectionsInv'
  BY <1>5, SweepKeepsConnections DEF SurfaceInv, ConnectionsInv
<1>7. /\ promised' \in [Conn -> Nat]
      /\ operations' \in [OperationKey -> OperationRecord \cup {None}]
      /\ reported' \in [OperationKey -> SUBSET Nat]
      /\ AnswersAreRetained'
  <2>1. promised \in [Conn -> Nat] /\ promised[c] \in Nat
        /\ operations \in [OperationKey -> OperationRecord \cup {None}]
        /\ reported \in [OperationKey -> SUBSET Nat]
    BY DEF SurfaceInv, SurfaceTypes
  <2>2. CASE stop # End
    BY <1>3, <2>1, <2>2 DEF SurfaceInv, AnswersAreRetained
  <2>3. CASE stop = End /\ key = None
    BY <1>3, <1>4, <2>1, <2>3 DEF Record, Answer, Later, SurfaceInv, AnswersAreRetained
  <2>4. CASE stop = End /\ key # None
    <3> DEFINE record == [request |-> request, outcome |-> outcome]
    <3>1. key \in OperationKey /\ operations[key] = None
      BY <1>1, <1>2, <2>4 DEF Retained
    <3>2. operations' = [operations EXCEPT ![key] = record]
      BY <1>3, <2>4 DEF Record
    <3>3. /\ promised' = [promised EXCEPT ![c] = Later(@, commit)]
          /\ reported' = [reported EXCEPT ![key] = @ \cup {commit}]
      BY <1>3, <2>4 DEF Answer
    <3>4. record \in OperationRecord /\ record.outcome = outcome
      BY <1>4 DEF OperationRecord, Outcome
    <3>5. record # None
      BY <3>4, NoneIsAbsent
    <3>6. reported[key] = {}
      BY <3>1 DEF SurfaceInv, AnswersAreRetained
    <3>7. /\ operations'[key] = record /\ reported'[key] = {commit}
          /\ \A k \in OperationKey : k # key => operations'[k] = operations[k] /\ reported'[k] = reported[k]
      BY <2>1, <3>1, <3>2, <3>3, <3>6
    <3>8. AnswersAreRetained'
      <4> HIDE DEF record
      <4>1. outcome.kind = "committed" /\ outcome.commit = commit
        OBVIOUS
      <4> HIDE DEF outcome, commit
      <4> QED
        BY <3>4, <3>5, <3>7, <4>1 DEF SurfaceInv, AnswersAreRetained
    <3> QED
      BY <1>4, <2>1, <3>1, <3>2, <3>3, <3>4, <3>8 DEF Later
  <2> QED
    BY <2>2, <2>3, <2>4
<1>8. SurfaceTypes'
  BY <1>2, <1>4, <1>6, <1>7 DEF SurfaceInv, SurfaceTypes
<1> QED
  BY <1>5, <1>6, <1>7, <1>8 DEF SurfaceInv, ConnectionsInv, IsSweep

LEMMA CallChangesNothingKeepsInv ==
  ASSUME SurfaceInv, NEW c \in Conn, NEW request \in Request, NEW id \in OpId \cup {None},
         NEW kind \in {"unchanged", "rejected"}, CallChangesNothing(c, request, id, kind)
  PROVE  SurfaceInv'
<1> DEFINE key == KeyOf(request, id)
           record == [request |-> request, outcome |-> [kind |-> kind]]
<1>1. key \in OperationKey /\ operations[key] = None
  BY KeysOfRequests DEF CallChangesNothing, Retained
<1>2. operations' = [operations EXCEPT ![key] = record]
      /\ UNCHANGED <<history, now, connections, promised, reported, settled, faults>>
  BY DEF CallChangesNothing, Record
<1>3. record \in OperationRecord /\ record.outcome.kind # "committed"
  BY DEF OperationRecord, Outcome
<1>4. SurfaceTypes'
  BY <1>1, <1>2, <1>3 DEF SurfaceInv, SurfaceTypes, Latest
<1>5. OpenWatches' = OpenWatches
  BY <1>2 DEF OpenWatches, Open
<1>6. WatchesFollow' /\ PromisesKept'
  BY <1>2 DEF SurfaceInv, WatchesFollow, PromisesKept, HasWatch, IsOpenWatch, Open
<1>7. OneCutPerConnection' /\ NoWatchOutlivesAuthority'
  BY <1>2, <1>5 DEF SurfaceInv, OneCutPerConnection, NoWatchOutlivesAuthority, WatchOf, Authorized, Latest
<1>8. AnswersAreRetained'
  <2> HIDE DEF key, record
  <2>1. reported[key] = {}
    BY <1>1 DEF SurfaceInv, AnswersAreRetained
  <2>2. operations'[key] = record
        /\ \A k \in OperationKey : k # key => operations'[k] = operations[k]
    BY <1>1, <1>2 DEF SurfaceInv, SurfaceTypes
  <2> QED
    BY <1>2, <1>3, <2>1, <2>2 DEF SurfaceInv, AnswersAreRetained
<1> QED
  BY <1>4, <1>6, <1>7, <1>8 DEF SurfaceInv

\* A replay settles its commit at the connection's own frontier, and names
\* the commit its record retains.
LEMMA CallReplaysKeepsInv ==
  ASSUME SurfaceInv, NEW c \in Conn, NEW request \in Request, NEW id \in OpId \cup {None},
         CallReplays(c, request, id)
  PROVE  SurfaceInv' /\ IsSweep
<1> DEFINE key == KeyOf(request, id)
           record == operations[key]
           commit == record.outcome.commit
<1>1. /\ Open(c) /\ key \in OperationKey /\ record # None
      /\ record.outcome.kind = "committed"
      /\ UNCHANGED <<history, now, operations>>
  BY DEF CallReplays, Admitted, Retained
<1>2. PICK stop \in Stops :
        /\ Sweep({c}, commit, history[Latest], now, stop)
        /\ IF stop = End THEN Answer(c, key, commit) ELSE UNCHANGED <<promised, reported>>
  BY DEF CallReplays
<1> HIDE DEF key
<1>3. commit \in Nat
  <2>1. record \in OperationRecord
    BY <1>1 DEF SurfaceInv, SurfaceTypes
  <2> QED
    BY <1>1, <2>1 DEF OperationRecord, Outcome
<1> HIDE DEF commit
<1>4. history'[Latest'] = history[Latest] /\ Latest' = Latest
  BY <1>1 DEF Latest
<1>5. SweepStep({c}, stop = End)
  <2>1. Sweep({c}, commit, history'[Latest'], now, stop)
    BY <1>2, <1>4
  <2>2. \A d \in Conn :
          \/ promised'[d] = promised[d]
          \/ stop = End /\ d \in {c} /\ Open(d) /\ promised'[d] = Later(promised[d], commit)
    BY <1>1, <1>2 DEF Answer, SurfaceInv, SurfaceTypes
  <2> QED
    BY <1>1, <1>3, <2>1, <2>2, SweepIsStep DEF SurfaceInv
<1>6. /\ connections' \in [Conn -> Connection \cup {None}]
      /\ settled' \in BOOLEAN /\ faults' \in Nat
      /\ ConnectionsInv'
  BY <1>5, SweepKeepsConnections DEF SurfaceInv, ConnectionsInv
<1>7. /\ promised' \in [Conn -> Nat]
      /\ reported' \in [OperationKey -> SUBSET Nat]
      /\ \A k \in OperationKey : reported'[k] = reported[k] \/ (k = key /\ reported'[k] = reported[k] \cup {commit})
  <2>1. promised \in [Conn -> Nat] /\ promised[c] \in Nat /\ reported \in [OperationKey -> SUBSET Nat]
    BY DEF SurfaceInv, SurfaceTypes
  <2>2. CASE stop # End
    BY <1>2, <2>1, <2>2
  <2>3. CASE stop = End
    <3>1. /\ promised' = [promised EXCEPT ![c] = Later(@, commit)]
          /\ reported' = IF key = None THEN reported ELSE [reported EXCEPT ![key] = @ \cup {commit}]
      BY <1>2, <2>3 DEF Answer
    <3> QED
      BY <1>1, <1>3, <2>1, <3>1 DEF Later
  <2> QED
    BY <2>2, <2>3
<1>8. AnswersAreRetained'
  <2>1. reported[key] \subseteq {commit}
    BY <1>1 DEF SurfaceInv, AnswersAreRetained, commit
  <2>2. operations' = operations
    BY <1>1
  <2> SUFFICES ASSUME NEW k \in OperationKey
               PROVE  IF operations[k] # None /\ operations[k].outcome.kind = "committed"
                      THEN reported'[k] \subseteq {operations[k].outcome.commit}
                      ELSE reported'[k] = {}
    BY <2>2 DEF AnswersAreRetained
  <2>3. CASE reported'[k] = reported[k]
    BY <2>3 DEF SurfaceInv, AnswersAreRetained
  <2>4. CASE k = key /\ reported'[k] = reported[k] \cup {commit}
    BY <1>1, <2>1, <2>4 DEF commit
  <2> QED
    BY <1>7, <2>3, <2>4
<1>9. SurfaceTypes'
  BY <1>1, <1>6, <1>7 DEF SurfaceInv, SurfaceTypes, Latest
<1> QED
  BY <1>5, <1>6, <1>8, <1>9 DEF SurfaceInv, ConnectionsInv, IsSweep
-----------------------------------------------------------------------------

LEMMA InitHasInv == Init => SurfaceInv
<1> SUFFICES ASSUME Init PROVE SurfaceInv
  OBVIOUS
<1>1. PICK g \in Grants : history = <<[content |-> Genesis, granted |-> g, key |-> None]>>
  BY DEF Init
<1>2. history \in Seq(CommitRecord) /\ Latest = 1
  BY <1>1, SurfaceIds DEF CommitRecord, Latest
<1>3. \A c \in Conn : ~Open(c)
  BY DEF Init, Open
<1>4. OpenWatches = {}
  BY <1>3 DEF OpenWatches
<1>5. SurfaceTypes
  BY <1>2 DEF Init, SurfaceTypes
<1>6. WatchesFollow /\ PromisesKept /\ OneCutPerConnection /\ NoWatchOutlivesAuthority
  BY <1>3, <1>4 DEF WatchesFollow, PromisesKept, HasWatch, OneCutPerConnection, NoWatchOutlivesAuthority
<1>7. AnswersAreRetained
  BY DEF Init, AnswersAreRetained
<1> QED
  BY <1>5, <1>6, <1>7 DEF SurfaceInv

LEMMA NextKeepsInv == SurfaceInv /\ [Next]_surfaceVars => SurfaceInv'
<1> SUFFICES ASSUME SurfaceInv, [Next]_surfaceVars PROVE SurfaceInv'
  OBVIOUS
<1>1. CASE UNCHANGED surfaceVars
  <2>1. /\ UNCHANGED <<history, now, connections, operations, promised, reported, settled, faults>>
        /\ OpenWatches' = OpenWatches
    BY <1>1 DEF surfaceVars, OpenWatches, Open
  <2>2. SurfaceTypes' /\ WatchesFollow' /\ PromisesKept' /\ AnswersAreRetained'
    BY <2>1 DEF SurfaceInv, SurfaceTypes, WatchesFollow, PromisesKept, AnswersAreRetained,
                HasWatch, IsOpenWatch, Open, Latest
  <2>3. OneCutPerConnection' /\ NoWatchOutlivesAuthority'
    BY <2>1 DEF SurfaceInv, OneCutPerConnection, NoWatchOutlivesAuthority, WatchOf, Authorized, Latest
  <2> QED
    BY <2>2, <2>3 DEF SurfaceInv
<1>2. ASSUME NEW c \in Conn, Connect(c) PROVE SurfaceInv'
  BY <1>2, ConnectKeepsInv
<1>3. ASSUME NEW c \in Conn, Disconnect(c) PROVE SurfaceInv'
  BY <1>3, DisconnectKeepsInv
<1>4. ASSUME NEW c \in Conn, Authenticate(c) PROVE SurfaceInv'
  BY <1>4, AuthenticateKeepsInv
<1>5. ASSUME NEW c \in Conn, NEW s \in Sub, OpenWatch(c, s) PROVE SurfaceInv'
  BY <1>5, OpenWatchKeepsInv
<1>6. ASSUME NEW c \in Conn, Call(c) PROVE SurfaceInv'
  <2>1. PICK request \in Request, id \in OpId \cup {None} :
          \/ \E content \in Content, granted \in Grants :
               CallCommits(c, request, id, content, granted)
          \/ \E kind \in {"unchanged", "rejected"} : CallChangesNothing(c, request, id, kind)
          \/ CallReplays(c, request, id)
    BY <1>6 DEF Call
  <2> QED
    BY <2>1, CallCommitsKeepsInv, CallChangesNothingKeepsInv, CallReplaysKeepsInv
<1>7. CASE AdvanceTime
  BY <1>7, AdvanceTimeKeepsInv
<1>8. ASSUME NEW content \in Content, NEW granted \in Grants, Operate(content, granted)
      PROVE  SurfaceInv'
  BY <1>8, OperateKeepsInv
<1>9. ASSUME NEW content \in Content, NEW granted \in Grants, CommitUnswept(content, granted)
      PROVE  SurfaceInv'
  BY <1>9, CommitUnsweptKeepsInv
<1>10. CASE Restart
  BY <1>10, RestartKeepsInv
<1> QED
  BY <1>1, <1>2, <1>3, <1>4, <1>5, <1>6, <1>7, <1>8, <1>9, <1>10 DEF Next

\* The facts the host's promises rest on: types, subscriptions never ahead of
\* their connection, promises at or below what is shown, answers as retained.
THEOREM SurfaceInvariant == Spec => []SurfaceInv
<1> QED
  BY InitHasInv, NextKeepsInv, PTL DEF Spec

LEMMA InvGivesBarrier == SurfaceInv => CompletionBarrier
<1> SUFFICES ASSUME SurfaceInv, NEW cs \in OpenWatches
             PROVE  promised[cs[1]] <= WatchOf(cs).frontier
  BY DEF CompletionBarrier
<1>1. cs[1] \in Conn /\ cs[2] \in Sub /\ Open(cs[1]) /\ IsOpenWatch(cs[1], cs[2])
  BY DEF OpenWatches, IsOpenWatch, HasWatch
<1> QED
  BY <1>1 DEF SurfaceInv, PromisesKept, WatchOf

\* call.rs settle_commit, barrier.rs sweep: a connection that was told of a
\* commit shows it, or a later one, on every subscription still open.
THEOREM BarrierCompletes == Spec => []CompletionBarrier
<1> QED
  BY SurfaceInvariant, InvGivesBarrier, PTL

\* barrier.rs sweep, call.rs watch: without a failed sweep the subscriptions
\* of a connection show its frontier at the present instant.
THEOREM SubscriptionsShowOneCut == Spec => []OneCutPerConnection
<1>1. SurfaceInv => OneCutPerConnection
  BY DEF SurfaceInv
<1> QED
  BY <1>1, SurfaceInvariant, PTL

\* barrier.rs close_lost_authority: after a complete sweep every open
\* subscription is authorized by the state at head at the present instant.
THEOREM WatchesAreAuthorized == Spec => []NoWatchOutlivesAuthority
<1>1. SurfaceInv => NoWatchOutlivesAuthority
  BY DEF SurfaceInv
<1> QED
  BY <1>1, SurfaceInvariant, PTL

LEMMA InvGivesOneCommit == SurfaceInv => RetryReobservesOneCommit
<1> SUFFICES ASSUME SurfaceInv, NEW k \in OperationKey
             PROVE  \A one, other \in reported[k] : one = other
  BY DEF RetryReobservesOneCommit
<1>1. PICK n : reported[k] \subseteq {n}
  BY DEF SurfaceInv, AnswersAreRetained
<1> QED
  BY <1>1

\* operation.rs decide, call.rs settle_commit: whatever connections retry an
\* operation, and however often, every committed answer names one commit.
THEOREM RetriesNameOneCommit == Spec => []RetryReobservesOneCommit
<1> QED
  BY SurfaceInvariant, InvGivesOneCommit, PTL
-----------------------------------------------------------------------------
(* Frontiers.                                                              *)

\* One connection from a step to the next.
KeepsFrontiers(old, new) ==
  /\ old.frontier <= new.frontier
  /\ \A s \in Sub : old.watches[s] # None =>
       new.watches[s] # None /\ old.watches[s].frontier <= new.watches[s].frontier

NothingRegresses ==
  \A c \in Conn : Open(c) /\ connections'[c] # None => KeepsFrontiers(connections[c], connections'[c])

LEMMA SameConnectionKeeps ==
  ASSUME SurfaceTypes, NEW c \in Conn, Open(c), connections'[c] = connections[c]
  PROVE  KeepsFrontiers(connections[c], connections'[c])
<1>1. connections[c] \in Connection
  BY DEF SurfaceTypes, Open
<1> QED
  BY <1>1 DEF KeepsFrontiers, Connection, Watch

LEMMA SweepsDoNotRegress ==
  ASSUME SurfaceInv, IsSweep
  PROVE  NothingRegresses
<1>1. PICK advancing \in SUBSET Conn, complete \in BOOLEAN : SweepStep(advancing, complete)
  BY DEF IsSweep
<1> SUFFICES ASSUME NEW c \in Conn, Open(c)
             PROVE  KeepsFrontiers(connections[c], connections'[c])
  BY DEF NothingRegresses
<1>2. PICK target \in Nat :
        SweptTo(c, connections'[c], c \in advancing, target, history'[Latest'], now', complete)
  BY <1>1 DEF SweepStep
<1>3. /\ connections[c] \in Connection /\ connections'[c] \in Connection
      /\ connections[c].frontier <= connections'[c].frontier
  BY <1>2 DEF SurfaceInv, SurfaceTypes, Open, SweptTo
<1>4. ASSUME NEW s \in Sub, connections[c].watches[s] # None
      PROVE  /\ connections'[c].watches[s] # None
             /\ connections[c].watches[s].frontier <= connections'[c].watches[s].frontier
  <2>1. /\ connections'[c].watches[s] # None
        /\ connections'[c].watches[s].frontier
             \in {connections[c].watches[s].frontier, connections'[c].frontier}
    BY <1>2, <1>4 DEF SweptTo
  <2>2. connections[c].watches[s] \in Watch
    BY <1>3, <1>4 DEF Connection
  <2>3. connections[c].watches[s].frontier <= connections[c].frontier
    BY <1>4 DEF SurfaceInv, WatchesFollow, HasWatch
  <2> QED
    BY <1>3, <2>1, <2>2, <2>3 DEF Connection, Watch
<1> QED
  BY <1>3, <1>4 DEF KeepsFrontiers

LEMMA StepsDoNotRegress == SurfaceInv /\ [Next]_surfaceVars => NothingRegresses
<1> SUFFICES ASSUME SurfaceInv, [Next]_surfaceVars PROVE NothingRegresses
  OBVIOUS
<1>0. SurfaceTypes
  BY DEF SurfaceInv
<1>1. CASE UNCHANGED connections
  BY <1>0, <1>1, SameConnectionKeeps DEF NothingRegresses
<1>2. ASSUME NEW c \in Conn, Connect(c) \/ Disconnect(c) \/ Authenticate(c)
                            \/ \E s \in Sub : OpenWatch(c, s)
      PROVE  NothingRegresses
  <2> SUFFICES ASSUME NEW d \in Conn, Open(d), connections'[d] # None
               PROVE  KeepsFrontiers(connections[d], connections'[d])
    BY DEF NothingRegresses
  <2>1. connections[d] \in Connection /\ connections \in [Conn -> Connection \cup {None}]
    BY <1>0 DEF SurfaceTypes, Open
  <2>2. CASE d # c
    <3>1. connections'[d] = connections[d]
      BY <1>2, <2>1, <2>2 DEF Connect, Disconnect, Authenticate, OpenWatch
    <3> QED
      BY <1>0, <3>1, SameConnectionKeeps
  <2>3. CASE d = c /\ Authenticate(c)
    <3>1. connections'[c] = [connections[c] EXCEPT !.bound = TRUE]
      BY <2>1, <2>3 DEF Authenticate
    <3> QED
      BY <2>1, <2>3, <3>1 DEF KeepsFrontiers, Connection, Watch
  <2>4. ASSUME d = c, NEW s \in Sub, OpenWatch(c, s)
        PROVE  KeepsFrontiers(connections[d], connections'[d])
    <3> DEFINE watch == [frontier |-> connections[c].frontier, at |-> now, closed |-> FALSE]
    <3>1. connections'[c] = [connections[c] EXCEPT !.watches[s] = watch]
      BY <2>1, <2>4 DEF OpenWatch
    <3>2. watch # None
      <4>1. watch \in Watch
        BY <2>1, <2>4 DEF Watch, Connection, SurfaceInv, SurfaceTypes
      <4> QED
        BY <4>1, NoneIsAbsent
    <3>3. watch.frontier = connections[c].frontier
      OBVIOUS
    <3> HIDE DEF watch
    <3>4. /\ connections'[c].frontier = connections[c].frontier
          /\ connections'[c].watches[s] = watch
          /\ \A r \in Sub : r # s => connections'[c].watches[r] = connections[c].watches[r]
      BY <2>1, <2>4, <3>1 DEF Connection
    <3>5. ASSUME NEW r \in Sub, connections[c].watches[r] # None
          PROVE  /\ connections'[c].watches[r] # None
                 /\ connections[c].watches[r].frontier <= connections'[c].watches[r].frontier
      <4>1. connections[c].watches[r] \in Watch
        BY <2>1, <2>4, <3>5 DEF Connection
      <4>2. connections[c].watches[r].frontier <= connections[c].frontier
        BY <2>4, <3>5 DEF SurfaceInv, WatchesFollow, HasWatch
      <4> QED
        BY <3>2, <3>3, <3>4, <3>5, <4>1, <4>2 DEF Watch
    <3> QED
      BY <2>1, <2>4, <3>4, <3>5 DEF KeepsFrontiers, Connection
  <2>5. CASE d = c /\ Connect(c)
    BY <2>5 DEF Connect
  <2>6. CASE d = c /\ Disconnect(c)
    BY <2>1, <2>6 DEF Disconnect
  <2> QED
    BY <1>2, <2>2, <2>3, <2>4, <2>5, <2>6
<1>3. ASSUME NEW c \in Conn, Call(c) PROVE NothingRegresses
  <2>1. PICK request \in Request, id \in OpId \cup {None} :
          \/ \E content \in Content, granted \in Grants :
               CallCommits(c, request, id, content, granted)
          \/ \E kind \in {"unchanged", "rejected"} : CallChangesNothing(c, request, id, kind)
          \/ CallReplays(c, request, id)
    BY <1>3 DEF Call
  <2>2. UNCHANGED connections \/ IsSweep
    BY <2>1, CallCommitsKeepsInv, CallReplaysKeepsInv DEF CallChangesNothing
  <2> QED
    BY <1>1, <2>2, SweepsDoNotRegress
<1>4. CASE AdvanceTime
  BY <1>4, AdvanceTimeKeepsInv, SweepsDoNotRegress
<1>5. ASSUME NEW content \in Content, NEW granted \in Grants,
             Operate(content, granted) \/ CommitUnswept(content, granted)
      PROVE  NothingRegresses
  BY <1>1, <1>5, OperateKeepsInv, SweepsDoNotRegress DEF CommitUnswept
<1>6. CASE Restart
  BY <1>6 DEF Restart, NothingRegresses
<1> QED
  BY <1>1, <1>2, <1>3, <1>4, <1>5, <1>6 DEF Next, surfaceVars

\* barrier.rs advance_one, call.rs settle_commit: no step, a replay of an old
\* commit included, moves a connection or a subscription to an earlier commit.
THEOREM FrontiersAdvance == Spec => FrontiersNeverRegress
<1>1. SurfaceInv /\ [Next]_surfaceVars =>
        [\A c \in Conn : Open(c) /\ connections'[c] # None =>
           /\ connections[c].frontier <= connections'[c].frontier
           /\ \A s \in Sub : connections[c].watches[s] # None =>
                /\ connections'[c].watches[s] # None
                /\ connections[c].watches[s].frontier <= connections'[c].watches[s].frontier]_connections
  BY StepsDoNotRegress DEF NothingRegresses, KeepsFrontiers
<1> QED
  BY <1>1, SurfaceInvariant, PTL DEF Spec, FrontiersNeverRegress

-----------------------------------------------------------------------------
(* Roles, selections and coverage.                                         *)

BoundContext == [role : DOMAIN Role, member : BOOLEAN, selection : Selection]

(* Every grant is remembered, and so is the one a context was bound under  *)
(* when its actor was found to be a member.                                *)
AccessInv ==
  /\ grants = [r \in DOMAIN Role |-> grants[r]]
  /\ contexts # Nothing => contexts \in [Context -> BoundContext \cup {Nothing}]
  /\ bound = [c \in Context |-> bound[c]]
  /\ \A r \in DOMAIN Role : \A g \in grants[r] : <<r, g.actor>> \in held
  /\ contexts # Nothing =>
       \A c \in Context :
         contexts[c] # Nothing /\ contexts[c].member => <<contexts[c].role, bound[c]>> \in held

-----------------------------------------------------------------------------
LEMMA DenialsAreDenied ==
  /\ IsDenied(Unresolved) /\ IsDenied(NotExposed) /\ ~IsDenied(Malformed)
  /\ ~IsServed(Unresolved) /\ ~IsServed(NotExposed) /\ ~IsServed(Malformed)
BY DEF IsDenied, Unresolved, NotExposed, Malformed, Denial, IsServed

(* The contexts and selections of requests are those of the model          *)
LEMMA RequestFields ==
  ASSUME NEW request \in AnyRequest
  PROVE  /\ contexts # Nothing
         /\ request.context \in Context
         /\ request.auth \in Selection \cup {Nothing}
<1> contexts # Nothing /\ request \in SurfaceRequest
  BY DEF AnyRequest
<1>1. CASE request \in SurfaceCall
  BY <1>1 DEF SurfaceCall, AuthSelection
<1>2. CASE request \in SurfaceWatch
  BY <1>2 DEF SurfaceWatch, AuthSelection
<1>3. CASE request \in SurfaceResume
  <2>1. PICK watch \in SurfaceWatch : request = [watch EXCEPT !.scope = <<>>]
    BY <1>3 DEF SurfaceResume
  <2>2. request.context = watch.context /\ request.auth = watch.auth
    BY <2>1 DEF SurfaceWatch
  <2> QED BY <2>2 DEF SurfaceWatch, AuthSelection
<1> QED BY <1>1, <1>2, <1>3 DEF SurfaceRequest

(* authorize_role: an actor that is not denied holds the role              *)
LEMMA AuthorizedHolds ==
  ASSUME NEW role, NEW selection, NEW scope,
         ~IsDenied(AuthorizeRole(role, selection, scope))
  PROVE  /\ AuthorizeRole(role, selection, scope) = VerifySelection(role, selection)
         /\ ~IsDenied(VerifySelection(role, selection))
         /\ Holds(role, VerifySelection(role, selection).actor, scope)
BY DenialsAreDenied DEF AuthorizeRole

(* A request to a role that is not refused as unresolved comes from a      *)
(* member, or from a context that was established over that role           *)
LEMMA AuthorityIsGrounded ==
  ASSUME NEW request, IsDenied(Authorize(request)), Authorize(request) # Unresolved
  PROVE  Established(request)
BY DEF Authorize, HideUnenumerable

LEMMA AuthorizeIsVerified ==
  ASSUME NEW request, ~IsDenied(Authorize(request))
  PROVE  /\ CallSelection(request) # Nothing
         /\ ~IsDenied(AuthorizeRole(RoleOf(request), CallSelection(request), request.scope))
         /\ Authorize(request)
              = AuthorizeRole(RoleOf(request), CallSelection(request), request.scope)
<1>1. CallSelection(request) # Nothing
  BY DenialsAreDenied DEF Authorize, HideUnenumerable
<1>2. ~IsDenied(AuthorizeRole(RoleOf(request), CallSelection(request), request.scope))
  BY <1>1, DenialsAreDenied DEF Authorize, HideUnenumerable
<1> QED BY <1>1, <1>2 DEF Authorize

LEMMA AnswerOfRole ==
  ASSUME NEW request, IsRole(request)
  PROVE  AnswerTo(request) = IF IsCall(request.address)
                           THEN ResolveCall(request, Authorize(request))
                           ELSE ResolveView(request, Authorize(request))
BY DEF AnswerTo, IsRole

(* Denied callers are told the denial and nothing else                     *)
LEMMA DeniedIsAnswered ==
  ASSUME NEW request, IsRole(request), IsDenied(Authorize(request))
  PROVE  AnswerTo(request) = Authorize(request)
BY AnswerOfRole DEF ResolveCall, ResolveView

LEMMA NothingRevealed ==
  ASSUME AccessInv
  PROVE  AnswersRevealNoRole
<1> SUFFICES ASSUME NEW request \in AnyRequest, IsRole(request), AnswerTo(request) # Unresolved
             PROVE  \E a \in SpeaksFor(request) : <<RoleOf(request), a>> \in held
  BY DEF AnswersRevealNoRole
<1>1. CASE IsDenied(Authorize(request))
  <2>1. Established(request)
    BY <1>1, DeniedIsAnswered, AuthorityIsGrounded
  <2>2. <<RoleOf(request), bound[request.context]>> \in held
    BY <2>1, RequestFields DEF AccessInv, Established
  <2>3. bound[request.context] \in SpeaksFor(request)
    BY <2>1 DEF SpeaksFor, Established
  <2> QED BY <2>2, <2>3
<1>2. CASE ~IsDenied(Authorize(request))
  <2> DEFINE context == VerifySelection(RoleOf(request), CallSelection(request))
  <2>1. CallSelection(request) # Nothing /\ ~IsDenied(context)
          /\ Holds(RoleOf(request), context.actor, request.scope)
    BY <1>2, AuthorizeIsVerified, AuthorizedHolds
  <2>2. PICK g \in grants[RoleOf(request)] : g.actor = context.actor
    BY <2>1 DEF Holds
  <2>3. <<RoleOf(request), context.actor>> \in held
    BY <2>2 DEF AccessInv, IsRole
  <2>4. context.actor \in SpeaksFor(request)
    BY <2>1 DEF SpeaksFor
  <2> QED BY <2>3, <2>4
<1> QED BY <1>1, <1>2

-----------------------------------------------------------------------------
(* The invariant is one of the specification.                              *)

LEMMA GrantedIs ==
  ASSUME NEW held0
  PROVE  Granted \subseteq held0 <=>
           \A r \in DOMAIN Role : \A g \in grants[r] : <<r, g.actor>> \in held0
BY DEF Granted

LEMMA InitInv == AccessInit => AccessInv
<1> SUFFICES ASSUME AccessInit PROVE AccessInv
  OBVIOUS
<1>1. grants = [r \in DOMAIN Role |-> grants[r]]
  BY DEF AccessInit
<1>2. contexts = Nothing
  BY DEF AccessInit
<1>3. bound = [c \in Context |-> bound[c]]
  BY DEF AccessInit
<1>4. \A r \in DOMAIN Role : \A g \in grants[r] : <<r, g.actor>> \in held
  BY GrantedIs DEF AccessInit
<1> QED BY <1>1, <1>2, <1>3, <1>4 DEF AccessInv

LEMMA AuthenticateInv ==
  ASSUME AccessInv, NEW name \in Context, NEW role \in DOMAIN Role, NEW selection \in Selection,
         VerifyAndBind(name, role, selection)
  PROVE  AccessInv'
<1> DEFINE actor == VerifySelection(role, selection).actor
           new == [role |-> role, member |-> HoldsAnywhere(role, actor), selection |-> selection]
<1>0. contexts # Nothing
  BY DEF VerifyAndBind
<1>1. contexts' = [contexts EXCEPT ![name] = new] /\ bound' = [bound EXCEPT ![name] = actor]
  BY DEF VerifyAndBind
<1>2. grants' = grants /\ held' = held
  BY DEF VerifyAndBind, rowVars
<1>3. HoldsAnywhere(role, actor) \in BOOLEAN
  BY DEF HoldsAnywhere
<1>4. new \in BoundContext
  BY <1>3 DEF BoundContext
<1>5. HoldsAnywhere(role, actor) => <<role, actor>> \in held
  BY DEF HoldsAnywhere, AccessInv
<1>6. contexts' \in [Context -> BoundContext \cup {Nothing}]
  BY <1>0, <1>1, <1>4 DEF AccessInv
<1>7. bound' = [c \in Context |-> bound'[c]] /\ bound'[name] = actor
  BY <1>1 DEF AccessInv
<1>8. ASSUME NEW c \in Context, contexts'[c] # Nothing, contexts'[c].member
      PROVE  <<contexts'[c].role, bound'[c]>> \in held'
  <2>1. CASE c = name
    <3>1. contexts'[c] = new
      BY <2>1, <1>0, <1>1 DEF AccessInv
    <3>2. contexts'[c].role = role /\ HoldsAnywhere(role, actor)
      BY <3>1, <1>8
    <3> QED BY <3>2, <1>5, <1>7, <1>2, <2>1
  <2>2. CASE c # name
    <3>1. contexts'[c] = contexts[c] /\ bound'[c] = bound[c]
      BY <2>2, <1>0, <1>1 DEF AccessInv
    <3> QED BY <3>1, <1>0, <1>8, <1>2 DEF AccessInv
  <2> QED BY <2>1, <2>2
<1> QED BY <1>2, <1>6, <1>7, <1>8 DEF AccessInv

LEMMA ConnectionInv == AccessInv /\ (OpenConnection \/ CloseConnection) => AccessInv'
<1> SUFFICES ASSUME AccessInv, OpenConnection \/ CloseConnection PROVE AccessInv'
  OBVIOUS
<1>1. grants' = grants /\ held' = held
  BY DEF OpenConnection, CloseConnection, rowVars
<1>2. CASE OpenConnection
  <2>1. contexts' = [c \in Context |-> Nothing] /\ bound' = bound
    BY <1>2 DEF OpenConnection
  <2>2. \A c \in Context : contexts'[c] = Nothing
    BY <2>1
  <2>3. contexts' \in [Context -> BoundContext \cup {Nothing}]
    BY <2>1
  <2> QED BY <1>1, <2>1, <2>2, <2>3 DEF AccessInv
<1>3. CASE CloseConnection
  <2>1. contexts' = Nothing /\ bound' = [c \in Context |-> Nothing]
    BY <1>3 DEF CloseConnection
  <2>2. bound' = [c \in Context |-> bound'[c]]
    BY <2>1
  <2> QED BY <1>1, <2>1, <2>2 DEF AccessInv
<1> QED BY <1>2, <1>3

LEMMA WriteGrantInv ==
  ASSUME AccessInv, NEW role \in DOMAIN Role, NEW g \in Grant, WriteGrant(role, g)
  PROVE  AccessInv'
<1>1. grants' = [grants EXCEPT ![role] = IF g \in @ THEN @ \ {g} ELSE @ \cup {g}]
  BY DEF WriteGrant
<1>2. grants' = [r \in DOMAIN Role |-> grants'[r]]
  BY <1>1 DEF AccessInv
<1>3. contexts' = contexts /\ bound' = bound
  BY DEF WriteGrant, contextVars
<1>4. held \subseteq held' /\ Granted' \subseteq held'
  BY DEF WriteGrant
<1>5. \A r \in DOMAIN Role : \A h \in grants'[r] : <<r, h.actor>> \in held'
  BY <1>4 DEF Granted
<1> QED BY <1>2, <1>3, <1>4, <1>5 DEF AccessInv

(* The rows that decide who a caller is do not touch grants or contexts    *)
LEMMA OtherStepsInv ==
  ASSUME AccessInv, UNCHANGED <<grants, contexts, bound, held>>
  PROVE  AccessInv'
BY DEF AccessInv

LEMMA StepInv == AccessInv /\ [AccessNext]_accessVars => AccessInv'
<1> SUFFICES ASSUME AccessInv, [AccessNext]_accessVars PROVE AccessInv'
  OBVIOUS
<1> DEFINE kept == UNCHANGED <<grants, contexts, bound, held>>
<1>1. ASSUME NEW name \in Context, NEW role \in DOMAIN Role, NEW selection \in Selection,
             VerifyAndBind(name, role, selection)
      PROVE  AccessInv'
  BY <1>1, AuthenticateInv
<1>2. CASE OpenConnection \/ CloseConnection
  BY <1>2, ConnectionInv
<1>3. ASSUME NEW row, WriteAccount(row) PROVE kept
  BY <1>3 DEF WriteAccount, contextVars
<1>4. ASSUME NEW row, OpenSession(row) PROVE kept
  BY <1>4 DEF OpenSession, contextVars
<1>5. ASSUME NEW row, RevokeSession(row) PROVE kept
  BY <1>5 DEF RevokeSession, contextVars
<1>6. ASSUME NEW row, RemoveSession(row) PROVE kept
  BY <1>6 DEF RemoveSession, contextVars
<1>7. ASSUME NEW role \in DOMAIN Role, NEW g \in Grant, WriteGrant(role, g) PROVE AccessInv'
  BY <1>7, WriteGrantInv
<1>8. ASSUME NEW path, NEW node, WriteNode(path, node) PROVE kept
  BY <1>8 DEF WriteNode, contextVars
<1>9. ASSUME NEW path, DeleteNode(path) PROVE kept
  BY <1>9 DEF DeleteNode, contextVars
<1>10. CASE Tick
  <2>1. kept
    BY <1>10 DEF Tick, contextVars
  <2> QED BY <2>1, OtherStepsInv
<1>11. CASE UNCHANGED accessVars
  <2>1. kept
    BY <1>11 DEF accessVars, rowVars, contextVars
  <2> QED BY <2>1, OtherStepsInv
<1>12. kept => AccessInv'
  BY OtherStepsInv
<1> HIDE DEF kept
<1> QED BY <1>1, <1>2, <1>3, <1>4, <1>5, <1>6, <1>7, <1>8, <1>9, <1>10, <1>11, <1>12 DEF AccessNext

(* The inductive invariant of the accesses: what was ever granted, and     *)
(* what each bound context was found to hold, is remembered                *)
(* (connection.rs set_context and establishes).                            *)
THEOREM AccessInvariant == AccessSpec => []AccessInv
<1> QED BY InitInv, StepInv, PTL DEF AccessSpec

(* For every router, package and request, a caller that none of the actors *)
(* it speaks for ever made a member of a role is answered as if the role   *)
(* did not exist (call.rs hide_unenumerable_denial).                       *)
THEOREM RolesAreNotRevealed == AccessSpec => []AnswersRevealNoRole
<1> QED BY AccessInvariant, NothingRevealed, PTL

-----------------------------------------------------------------------------
(* Service needs authority, and the manifest says what it will be.         *)

LEMMA ActorIs ==
  ASSUME NEW auth, NEW key, NEW session, ~IsDenied(ActorOf(auth, key, session))
  PROVE  ActorOf(auth, key, session).actor = key /\ ActorOf(auth, key, session).session = session
<1>1. IsDenied(Denial("actor unresolved"))
  BY DEF IsDenied, Denial
<1>2. ActorOf(auth, key, session) = [auth |-> auth, actor |-> key, session |-> session]
  BY <1>1 DEF ActorOf
<1> QED BY <1>2

(* An authenticator resolves a credential made for it, and the actor of a  *)
(* session that is live is the account of that session                     *)
LEMMA ResolvedIsLive ==
  ASSUME NEW auth, NEW credential, ~IsDenied(Resolve(auth, credential))
  PROVE  LET context == Resolve(auth, credential)
         IN  /\ credential.auth = auth
             /\ context.session # Nothing =>
                  \E s \in sessions : /\ s.key = context.session /\ s.account = context.actor
                                      /\ IsActive(s)
<1> DEFINE context == Resolve(auth, credential)
<1>1. IsDenied(Denial("unverified")) /\ IsDenied(Denial("check failed"))
        /\ IsDenied(Denial("session invalid")) /\ IsDenied(Denial("actor unresolved"))
  BY DEF IsDenied, Denial
<1>2. credential # Forged /\ credential.auth = auth
  BY <1>1 DEF Resolve
<1>3. CASE Authenticator[auth]
  <2>1. context = ResolveSession(auth, credential.session)
    BY <1>2, <1>3 DEF Resolve
  <2>2. credential.session # Nothing /\ SessionResolves(credential.session)
    BY <2>1, <1>1 DEF ResolveSession
  <2> DEFINE row == CHOOSE s \in sessions : s.key = credential.session
  <2>3. context = ActorOf(auth, row.account, credential.session)
    BY <2>1, <2>2 DEF ResolveSession
  <2>4. context.actor = row.account /\ context.session = credential.session
    BY <2>3, ActorIs
  <2>5. \E s \in sessions : s.key = credential.session
    <3>1. RowsWith(sessions, credential.session) # {}
      <4>1. Cardinality(RowsWith(sessions, credential.session)) = 1
        BY <2>2 DEF SessionResolves
      <4> QED BY <4>1, FS_EmptySet
    <3> QED BY <3>1 DEF RowsWith
  <2>6. row \in sessions /\ row.key = credential.session
    BY <2>5
  <2>7. IsActive(row)
    BY <2>6, <2>2 DEF SessionResolves, RowsWith
  <2> QED BY <1>2, <2>4, <2>6, <2>7
<1>4. CASE ~Authenticator[auth]
  <2>1. context = ResolveAccount(auth, credential.account)
    BY <1>2, <1>4 DEF Resolve
  <2>2. context = ActorOf(auth, credential.account, Nothing)
    BY <2>1, <1>1 DEF ResolveAccount
  <2>3. context.session = Nothing
    BY <2>2, ActorIs
  <2> QED BY <1>2, <2>3
<1> QED BY <1>3, <1>4

(* Every context an authenticator answers with is a denial or an actor.    *)
IsContext(x) ==
  \/ \E reason : x = Denial(reason)
  \/ \E auth, actor, session : x = [auth |-> auth, actor |-> actor, session |-> session]

LEMMA DeniedIsNotServed ==
  ASSUME NEW x, IsContext(x), IsDenied(x)
  PROVE  ~IsServed(x)
<1>1. CASE \E reason : x = Denial(reason)
  BY <1>1 DEF Denial, IsServed
<1>2. CASE \E auth, actor, session : x = [auth |-> auth, actor |-> actor, session |-> session]
  BY <1>2 DEF IsDenied
<1> QED BY <1>1, <1>2 DEF IsContext

LEMMA ActorIsContext ==
  ASSUME NEW auth, NEW key, NEW session
  PROVE  IsContext(ActorOf(auth, key, session))
<1>1. CASE Cardinality(RowsWith(accounts, key)) = 1
  BY <1>1, ActorOf(auth, key, session) = [auth |-> auth, actor |-> key, session |-> session]
  DEF IsContext, ActorOf
<1>2. CASE Cardinality(RowsWith(accounts, key)) # 1
  BY <1>2, ActorOf(auth, key, session) = Denial("actor unresolved") DEF IsContext, ActorOf
<1> QED BY <1>1, <1>2

LEMMA DenialIsContext ==
  ASSUME NEW reason
  PROVE  IsContext(Denial(reason))
BY DEF IsContext

LEMMA VerifiedIsContext ==
  ASSUME NEW role, NEW selection
  PROVE  IsContext(VerifySelection(role, selection))
<1>1. \A auth, key : IsContext(ResolveSession(auth, key)) /\ IsContext(ResolveAccount(auth, key))
  BY ActorIsContext, DenialIsContext DEF ResolveSession, ResolveAccount
<1>2. \A auth, credential : IsContext(Resolve(auth, credential))
  BY <1>1, DenialIsContext DEF Resolve
<1> QED BY <1>2, DenialIsContext DEF VerifySelection

LEMMA AuthorizedIsContext ==
  ASSUME NEW request
  PROVE  IsContext(Authorize(request))
<1>1. \A role, selection, scope : IsContext(AuthorizeRole(role, selection, scope))
  BY VerifiedIsContext, DenialIsContext DEF AuthorizeRole, Unresolved
<1> QED BY <1>1, DenialIsContext DEF Authorize, HideUnenumerable, Unresolved

(* What is served carries the actor and the session of the caller          *)
LEMMA ServedIsTheCaller ==
  ASSUME NEW request, IsRole(request), IsServed(AnswerTo(request))
  PROVE  /\ ~IsDenied(Authorize(request))
         /\ AnswerTo(request).actor = Authorize(request).actor
         /\ AnswerTo(request).session = Authorize(request).session
<1>1. ~IsDenied(Authorize(request))
  BY DeniedIsAnswered, DeniedIsNotServed, AuthorizedIsContext
<1>2. ~IsServed(Denial("malformed"))
  BY DEF IsServed, Denial
<1>3. CASE IsCall(request.address)
  <2>1. AnswerTo(request) = ResolveCall(request, Authorize(request))
    BY <1>3, AnswerOfRole
  <2>2. \E receiver, binding :
          AnswerTo(request) = BuildRequest(request, binding, Authorize(request), receiver)
    BY <2>1, <1>1, DenialsAreDenied DEF ResolveCall
  <2>3. \E receiver :
          AnswerTo(request) = [actor |-> Authorize(request).actor,
                             session |-> Authorize(request).session, receiver |-> receiver]
    BY <2>2, DenialsAreDenied DEF BuildRequest
  <2> QED BY <2>3, <1>1
<1>4. CASE ~IsCall(request.address)
  <2>1. AnswerTo(request) = ResolveView(request, Authorize(request))
    BY <1>4, AnswerOfRole
  <2>2. \E rows : AnswerTo(request) = [actor |-> Authorize(request).actor,
                                      session |-> Authorize(request).session, rows |-> rows]
    BY <2>1, <1>1, <1>2, DenialsAreDenied DEF ResolveView
  <2> QED BY <2>2, <1>1
<1> QED BY <1>3, <1>4

(* The first half of ReachIsWhatIsShown: nothing is served without         *)
(* authority, and the manifest lists what is authorized.                   *)
ServiceNeedsAuthority ==
  \A request \in AnyRequest :
    IsRole(request) /\ IsServed(AnswerTo(request)) => IsAuthorized(request, AnswerTo(request))

(* A call or a subscription through a role is served only to an actor that *)
(* holds it now, under the scope it names, with a credential made for its  *)
(* authenticator and a session that is neither revoked nor expired         *)
(* (call.rs authorize_role, authn session.rs resolve_session).             *)
THEOREM ServedIsAuthorized == ServiceNeedsAuthority
<1> SUFFICES ASSUME NEW request \in AnyRequest, IsRole(request), IsServed(AnswerTo(request))
             PROVE  IsAuthorized(request, AnswerTo(request))
  BY DEF ServiceNeedsAuthority
<1> DEFINE selection == CallSelection(request)
           context == VerifySelection(RoleOf(request), selection)
<1>1. ~IsDenied(Authorize(request)) /\ AnswerTo(request).actor = Authorize(request).actor
        /\ AnswerTo(request).session = Authorize(request).session
  BY ServedIsTheCaller
<1>2. Authorize(request) = context /\ ~IsDenied(context)
        /\ Holds(RoleOf(request), context.actor, request.scope)
  BY <1>1, AuthorizeIsVerified, AuthorizedHolds
<1>3. context = Resolve(selection.auth, selection.credential)
  BY <1>2, IsDenied(Denial("authenticator not accepted")) DEF VerifySelection, IsDenied, Denial
<1>4. /\ selection.credential.auth = selection.auth
      /\ context.session # Nothing =>
           \E s \in sessions : /\ s.key = context.session /\ s.account = context.actor
                               /\ IsActive(s)
  BY <1>2, <1>3, ResolvedIsLive
<1> QED BY <1>1, <1>2, <1>4 DEF IsAuthorized, Holds, IsActive

(* The manifest lists the surfaces of a role to a context exactly when     *)
(* admission would authorize that context under some scope of the role     *)
(* (host/mod.rs manifest and append_role_surfaces, role.rs holds_anywhere  *)
(* against call.rs authorize_role and role.rs holds).                      *)
THEOREM ManifestIsAuthority == ListedIsHeld
<1> SUFFICES ASSUME contexts # Nothing, NEW name \in Context, NEW r \in (DOMAIN Role) \ {Public},
                    NEW s \in DOMAIN Role[r].surfaces
             PROVE  <<r, s>> \in Manifest(name) <=>
                      /\ contexts[name] # Nothing
                      /\ \E g \in grants[r] :
                           ~IsDenied(AuthorizeRole(r, contexts[name].selection, <<g.scope>>))
  BY DEF ListedIsHeld
<1> DEFINE selection == contexts[name].selection
           context == VerifySelection(r, selection)
<1>1. <<r, s>> \in Manifest(name) <=> r \in ListedRoles(name)
  BY DEF Manifest
<1>2. ~IsDenied(context) <=>
        /\ selection.auth \in Role[r].accepts /\ selection.auth \in DOMAIN Authenticator
        /\ ~IsDenied(Resolve(selection.auth, selection.credential))
  BY IsDenied(Denial("authenticator not accepted")) DEF VerifySelection, IsDenied, Denial
<1>3. ~IsDenied(context) => context = Resolve(selection.auth, selection.credential)
  BY <1>2 DEF VerifySelection
<1>4. r \in ListedRoles(name) <=>
        contexts[name] # Nothing /\ ~IsDenied(context) /\ HoldsAnywhere(r, context.actor)
  BY <1>2, <1>3 DEF ListedRoles
<1>5. HoldsAnywhere(r, context.actor) <=>
        \E g \in grants[r] : Holds(r, context.actor, <<g.scope>>)
  <2>1. \A g : <<g.scope>> # <<>> /\ <<g.scope>>[1] = g.scope
    OBVIOUS
  <2> QED BY <2>1 DEF HoldsAnywhere, Holds
<1>6. \A g : ~IsDenied(AuthorizeRole(r, selection, <<g.scope>>)) <=>
               ~IsDenied(context) /\ Holds(r, context.actor, <<g.scope>>)
  BY DenialsAreDenied DEF AuthorizeRole
<1> HIDE DEF selection, context
<1> QED BY <1>1, <1>4, <1>5, <1>6 DEF selection
=============================================================================
