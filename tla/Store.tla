------------------------------- MODULE Store -------------------------------
(***************************************************************************)
(* The storage contract of one package instance and its reference          *)
(* implementation MemoryStore (crates/liasse-store): an incrementally      *)
(* maintained map of current rows, an append-only commit log, a frontier   *)
(* snapshot that replays the log, and at most one staged transition, whose *)
(* overlay gives read-your-writes until it commits or is dropped.          *)
(*                                                                         *)
(* One writer: a transition borrows the store mutably, so every mutation   *)
(* of the store outside the transition needs `phase = "idle"`.             *)
(* Calls that return an error without touching anything (Conflict,         *)
(* NotFound, a position past head) are steps that are not enabled.         *)
(***************************************************************************)
EXTENDS StoreRows

CONSTANTS
  DefaultNow,    \* DEFAULT_NOW, the instant of a transition given no `set_now`
  Definition,    \* definition texts
  Composition,   \* compositions of mounted children
  Point,         \* history points
  Blob,          \* blob contents; a content is its own digest
  Absent,        \* "no overlay entry", as opposed to a staged delete (None)
  MaxOps,        \* bound: row operations one transition may stage
  MaxCommits,    \* bound: commits in one behaviour
  MaxIncarnation \* bound: incarnation tokens ever allocated

VARIABLES
  head, current, log, next_incarnation, points, blobs, definition, composition,
  phase, overlay, ops, now, staged_definition, staged_composition

store == <<head, current, log, points, blobs, definition, composition>>
transition ==
  <<phase, overlay, ops, now, staged_definition, staged_composition>>
vars == <<store, next_incarnation, transition>>

ASSUME SentinelAssumption ==
  /\ None \notin Definition \cup Composition
  /\ Absent \notin MaybeRow
ASSUME InstantAssumption == DefaultNow \in Instant
ASSUME BoundAssumption ==
  MaxOps \in Nat /\ MaxCommits \in Nat /\ MaxIncarnation \in Nat

NoOverlay == [a \in Addr |-> Absent]
-----------------------------------------------------------------------------
(* MemoryStore::apply_current: staging established occupancy, so it never  *)
(* checks; an update or a rekey keeps the row's recorded `created`.        *)

CreatedOr(row, instant) == IF row = None THEN instant ELSE row.created

\* Mutant: an update restamps the row's creation instant.
ApplyCurrentRestampingUpdates(rows, op, instant) == ApplyRestampingUpdates(rows, op, instant)

ApplyCurrent(rows, op, instant) ==
  CASE op.kind = "insert" ->
         [rows EXCEPT ![op.to] = [inc |-> op.inc, created |-> instant, val |-> op.val]]
    [] op.kind = "update" ->
         [rows EXCEPT ![op.to] = [inc |-> op.inc, val |-> op.val,
                                  created |-> CreatedOr(rows[op.to], instant)]]
    [] op.kind = "delete" -> [rows EXCEPT ![op.to] = None]
    [] op.kind = "rekey" ->
         [rows EXCEPT ![op.from] = None,
                      ![op.to] = [inc |-> op.inc, val |-> op.val,
                                  created |-> CreatedOr(rows[op.from], instant)]]

Current == INSTANCE SeqFold WITH Step <- ApplyCurrent

\* InstanceStore::snapshot.
Snapshot(frontier) == IF frontier > head THEN Corrupt ELSE Replay(log, frontier)
-----------------------------------------------------------------------------
Init ==
  /\ head = 0 /\ current = EmptyRows /\ log = << >> /\ next_incarnation = 0
  /\ points = [p \in Point |-> None] /\ blobs = {}
  /\ definition = None /\ composition = None
  /\ phase = "idle" /\ overlay = NoOverlay /\ ops = << >> /\ now = DefaultNow
  /\ staged_definition = None /\ staged_composition = None

\* MemoryTransition::resolve: a staged entry, a delete included, shadows current state.
Resolve(a) == IF overlay[a] # Absent THEN overlay[a] ELSE current[a]
Effective == [a \in Addr |-> Resolve(a)]

Stage(op, entries) ==
  /\ ops' = Append(ops, op)
  /\ overlay' = entries

\* begin + set_now: the engine fixes the instant before it stages anything.
Begin(instant) ==
  /\ phase = "idle" /\ phase' = "open" /\ now' = instant
  /\ overlay' = NoOverlay /\ ops' = << >>
  /\ staged_definition' = None /\ staged_composition' = None
  /\ UNCHANGED <<store, next_incarnation>>

Staging == phase = "open" /\ Len(ops) < MaxOps

\* Mutant: the token is the number of staged operations, not a durable counter.
InsertReusingTokens(a, v) ==
  /\ Staging /\ Resolve(a) = None
  /\ Stage([kind |-> "insert", from |-> a, to |-> a, inc |-> Len(ops), val |-> v],
           [overlay EXCEPT ![a] = [inc |-> Len(ops), created |-> now, val |-> v]])
  /\ UNCHANGED <<next_incarnation, store, phase, now, staged_definition, staged_composition>>

\* The token is allocated at once: an abort burns it.
Insert(a, v) ==
  /\ Staging /\ next_incarnation < MaxIncarnation
  /\ Resolve(a) = None
  /\ next_incarnation' = next_incarnation + 1
  /\ Stage([kind |-> "insert", from |-> a, to |-> a, inc |-> next_incarnation, val |-> v],
           [overlay EXCEPT ![a] = [inc |-> next_incarnation, created |-> now, val |-> v]])
  /\ UNCHANGED <<store, phase, now, staged_definition, staged_composition>>

Update(a, v) ==
  /\ Staging /\ Resolve(a) # None
  /\ Stage([kind |-> "update", from |-> a, to |-> a, inc |-> Resolve(a).inc, val |-> v],
           [overlay EXCEPT ![a] = [inc |-> Resolve(a).inc,
                                   created |-> Resolve(a).created, val |-> v]])
  /\ UNCHANGED <<store, next_incarnation, phase, now, staged_definition, staged_composition>>

Delete(a) ==
  /\ Staging /\ Resolve(a) # None
  /\ Stage([kind |-> "delete", from |-> a, to |-> a, inc |-> Resolve(a).inc, val |-> None],
           [overlay EXCEPT ![a] = None])
  /\ UNCHANGED <<store, next_incarnation, phase, now, staged_definition, staged_composition>>

\* Mutant: the rekey's source stays visible to the open transition.
RekeyLeavingSourceStaged(a, b, v) ==
  /\ Staging /\ Resolve(a) # None /\ Resolve(b) = None
  /\ Stage([kind |-> "rekey", from |-> a, to |-> b, inc |-> Resolve(a).inc, val |-> v],
           [overlay EXCEPT ![b] = [inc |-> Resolve(a).inc,
                                   created |-> Resolve(a).created, val |-> v]])
  /\ UNCHANGED <<store, next_incarnation, phase, now, staged_definition, staged_composition>>

Rekey(a, b, v) ==
  /\ Staging /\ Resolve(a) # None /\ Resolve(b) = None
  /\ Stage([kind |-> "rekey", from |-> a, to |-> b, inc |-> Resolve(a).inc, val |-> v],
           [overlay EXCEPT ![a] = None,
                           ![b] = [inc |-> Resolve(a).inc,
                                   created |-> Resolve(a).created, val |-> v]])
  /\ UNCHANGED <<store, next_incarnation, phase, now, staged_definition, staged_composition>>

SetDefinition(d) ==
  /\ phase = "open" /\ staged_definition' = d
  /\ UNCHANGED <<store, next_incarnation, phase, overlay, ops, now, staged_composition>>

SetComposition(c) ==
  /\ phase = "open" /\ staged_composition' = c
  /\ UNCHANGED <<store, next_incarnation, phase, overlay, ops, now, staged_definition>>

IsEmpty == ops = << >> /\ staged_definition = None /\ staged_composition = None

Close ==
  /\ phase' = "idle" /\ overlay' = NoOverlay /\ ops' = << >>
  /\ staged_definition' = None /\ staged_composition' = None /\ now' = DefaultNow

Or(staged, old) == IF staged = None THEN old ELSE staged

\* Mutant: the position is read before it is advanced.
AdmitAtCurrentHead ==
  /\ head' = head + 1
  /\ current' = Current!Fold(current, ops, now)
  /\ log' = Append(log, [seq |-> head, ops |-> ops, created |-> now])
  /\ UNCHANGED <<definition, composition, points, blobs>>

\* Admit the staged set at the next position.
Admit ==
  /\ head' = head + 1
  /\ current' = Current!Fold(current, ops, now)
  /\ definition' = Or(staged_definition, definition)
  /\ composition' = Or(staged_composition, composition)
  /\ log' = Append(log, [seq |-> head + 1, ops |-> ops, created |-> now])
  /\ UNCHANGED <<points, blobs>>

\* An empty transition consumes no position (CommitOutcome::Unchanged).
Commit ==
  /\ phase = "open" /\ head < MaxCommits
  /\ IF IsEmpty THEN UNCHANGED store ELSE Admit
  /\ Close /\ UNCHANGED next_incarnation

\* Dropping the transition, explicitly or on an error of its owner.
Abort == phase = "open" /\ Close /\ UNCHANGED <<store, next_incarnation>>

\* record_point may name any committed position, and re-points an existing name.
RecordPoint(p, at) ==
  /\ phase = "idle" /\ at <= head
  /\ points' = [points EXCEPT ![p] = at]
  /\ UNCHANGED <<head, current, log, blobs, definition, composition,
                 next_incarnation, transition>>

PutBlob(b) ==
  /\ phase = "idle" /\ blobs' = blobs \cup {b}
  /\ UNCHANGED <<head, current, log, points, definition, composition,
                 next_incarnation, transition>>

Next ==
  \/ \E t \in Instant : Begin(t)
  \/ \E a \in Addr, v \in Val : Insert(a, v)
  \/ \E a \in Addr, v \in Val : Update(a, v)
  \/ \E a \in Addr : Delete(a)
  \/ \E a, b \in Addr, v \in Val : Rekey(a, b, v)
  \/ \E d \in Definition : SetDefinition(d)
  \/ \E c \in Composition : SetComposition(c)
  \/ Commit
  \/ Abort
  \/ \E p \in Point, at \in 0..MaxCommits : RecordPoint(p, at)
  \/ \E b \in Blob : PutBlob(b)

Spec == Init /\ [][Next]_vars

Contract == INSTANCE StoreContract
-----------------------------------------------------------------------------
(* Properties.                                                             *)

\* The types of the store's fields and of the staged transition.
TypeOK ==
  /\ head \in Nat /\ current \in Rows /\ log \in Seq(CommittedTransition)
  /\ next_incarnation \in Nat
  /\ points \in [Point -> Nat \cup {None}] /\ blobs \subseteq Blob
  /\ definition \in Definition \cup {None} /\ composition \in Composition \cup {None}
  /\ phase \in {"idle", "open"} /\ overlay \in [Addr -> MaybeRow \cup {Absent}]
  /\ ops \in Seq(RowOp) /\ now \in Instant
  /\ staged_definition \in Definition \cup {None}
  /\ staged_composition \in Composition \cup {None}

\* The incrementally maintained map and a strict replay of the whole log are two
\* independent answers to "the state at head", and they are the same answer
\* (memory.rs:5-10); in particular no log the store writes is ever corrupt.
CurrentIsReplay == Snapshot(head) = current

\* Read-your-writes: what the open transition reads through its overlay is what a
\* commit of its operations leaves in current state, payload, identity and created.
StagedIsWhatCommits == phase = "open" => Current!Fold(current, ops, now) = Effective

\* No two live rows share an incarnation, staged state included: tokens burned by
\* aborted transitions, deletes and rekeys never bring one back.
IdentityIsUnique ==
  \A a, b \in Addr :
    Effective[a] # None /\ Effective[b] # None /\ Effective[a].inc = Effective[b].inc
      => a = b

\* Staging, aborts and empty commits are invisible from outside: the store does what
\* the contract of a store promises (contract.rs), no more.
ImplementsContract == Contract!Spec

\* A frontier read is repeatable: no step changes what an already committed
\* frontier replays to.
HistoryIsImmutable == [][\A f \in 0..head : Replay(log', f) = Replay(log, f)]_<<head, log>>
=============================================================================
