------------------------------ MODULE PgStore ------------------------------
(***************************************************************************)
(* The PostgreSQL backend of one instance (crates/liasse-pg): no state in  *)
(* memory but the open transition's overlay; every durable field is a      *)
(* table, the rows are the `nodes` tree, a commit is one SQL transaction,  *)
(* a token is burned by one autocommit statement.                          *)
(*                                                                         *)
(* What can go wrong is the process and its connection.  A statement that  *)
(* fails either left nothing behind or took effect and lost its answer;    *)
(* the store handle is then useless and the instance is reopened.          *)
(***************************************************************************)
EXTENDS NodeTree
LOCAL INSTANCE SequencesExt

CONSTANTS DefaultNow, Definition, Composition, Point, Blob, Absent,
          MaxOps,          \* bound: row operations in a behaviour, staged or committed
          MaxCommits,      \* bound: commits in a behaviour
          MaxIncarnation,  \* bound: tokens ever allocated
          MaxCalls         \* bound: definition, composition, point and blob calls in a behaviour

ASSUME SentinelAssumption == Absent \notin MaybeRow
ASSUME InstantAssumption == DefaultNow \in Instant
ASSUME BoundAssumption ==
  MaxOps \in Nat /\ MaxCommits \in Nat /\ MaxIncarnation \in Nat /\ MaxCalls \in Nat

VARIABLES
  nodes, head, log, next_incarnation, points, blobs, definition, composition,
  phase, overlay, ops, now, staged_definition, staged_composition,
  up,        \* the process runs and its writer connection is alive
  calls      \* how many of the calls MaxCalls bounds were made

\* The committed row set a point lookup of every address answers.
TreeRows == [a \in Addr |-> RowAt(nodes, a)]

durable == <<nodes, head, log, next_incarnation, points, blobs, definition, composition>>
transition == <<phase, overlay, ops, now, staged_definition, staged_composition>>
vars == <<durable, transition, up, calls>>

\* factory create: an empty schema, the meta row and the root sentinel seeded.
Init ==
  /\ nodes = << >> /\ head = 0 /\ log = << >> /\ next_incarnation = 0
  /\ points = [p \in Point |-> None] /\ blobs = {}
  /\ definition = None /\ composition = None
  /\ phase = "idle" /\ overlay = [a \in Addr |-> Absent] /\ ops = << >> /\ now = DefaultNow
  /\ staged_definition = None /\ staged_composition = None
  /\ up = TRUE /\ calls = 0
-----------------------------------------------------------------------------
(* PgTransition: staging touches no table but the counter.                 *)

\* A staged entry, a delete included, shadows the committed row, read live from SQL.
Resolve(a) == IF overlay[a] # Absent THEN overlay[a] ELSE RowAt(nodes, a)

tables == <<nodes, head, log, points, blobs, definition, composition>>

\* The operations of the committed transitions.
Logged == FoldSeq(LAMBDA t, n : n + Len(t.ops), 0, log)

Begin(instant) ==
  /\ up /\ phase = "idle" /\ phase' = "open" /\ now' = instant
  /\ UNCHANGED <<tables, next_incarnation, overlay, ops, staged_definition,
                 staged_composition, up, calls>>

Staging == phase = "open" /\ Len(ops) + Logged < MaxOps

Stage(op, entries) ==
  /\ ops' = Append(ops, op) /\ overlay' = entries
  /\ UNCHANGED <<tables, phase, now, staged_definition, staged_composition, up, calls>>

Insert(a, v) ==
  /\ Staging /\ next_incarnation < MaxIncarnation /\ Resolve(a) = None
  /\ next_incarnation' = next_incarnation + 1
  /\ Stage([kind |-> "insert", from |-> a, to |-> a, inc |-> next_incarnation, val |-> v],
           [overlay EXCEPT ![a] = [inc |-> next_incarnation, created |-> now, val |-> v]])

Update(a, v) ==
  /\ Staging /\ Resolve(a) # None
  /\ Stage([kind |-> "update", from |-> a, to |-> a, inc |-> Resolve(a).inc, val |-> v],
           [overlay EXCEPT ![a] = [Resolve(a) EXCEPT !.val = v]])
  /\ UNCHANGED next_incarnation

Delete(a) ==
  /\ Staging /\ Resolve(a) # None
  /\ Stage([kind |-> "delete", from |-> a, to |-> a, inc |-> Resolve(a).inc, val |-> None],
           [overlay EXCEPT ![a] = None])
  /\ UNCHANGED next_incarnation

Rekey(a, b, v) ==
  /\ Staging /\ Resolve(a) # None /\ Resolve(b) = None
  /\ Stage([kind |-> "rekey", from |-> a, to |-> b, inc |-> Resolve(a).inc, val |-> v],
           [overlay EXCEPT ![a] = None, ![b] = [Resolve(a) EXCEPT !.val = v]])
  /\ UNCHANGED next_incarnation

Call == calls < MaxCalls /\ calls' = calls + 1

SetDefinition(d) ==
  /\ phase = "open" /\ Call /\ staged_definition' = d
  /\ UNCHANGED <<durable, phase, overlay, ops, now, staged_composition, up>>

SetComposition(c) ==
  /\ phase = "open" /\ Call /\ staged_composition' = c
  /\ UNCHANGED <<durable, phase, overlay, ops, now, staged_definition, up>>

Close ==
  /\ phase' = "idle" /\ overlay' = [a \in Addr |-> Absent] /\ ops' = << >>
  /\ staged_definition' = None /\ staged_composition' = None /\ now' = DefaultNow
  /\ UNCHANGED calls

IsEmpty == ops = << >> /\ staged_definition = None /\ staged_composition = None

Abort == phase = "open" /\ Close /\ UNCHANGED <<durable, up>>

\* The statement of alloc_incarnation committed and its answer was lost: the token is
\* burned, the caller's insert failed and its transition is dropped.
InsertLost(a) ==
  /\ Staging /\ next_incarnation < MaxIncarnation /\ Resolve(a) = None
  /\ next_incarnation' = next_incarnation + 1
  /\ Close /\ up' = FALSE
  /\ UNCHANGED <<nodes, head, log, points, blobs, definition, composition>>

\* The admission transaction: the log record, the tree, then head and the staged texts.
Admit ==
  /\ nodes' = Admission!Fold(nodes, ops, now) /\ nodes' # Corrupt
  /\ head' = head + 1
  /\ log' = Append(log, [seq |-> head + 1, ops |-> ops, created |-> now])
  /\ definition' = IF staged_definition = None THEN definition ELSE staged_definition
  /\ composition' = IF staged_composition = None THEN composition ELSE staged_composition
  /\ UNCHANGED <<next_incarnation, points, blobs>>

Committing == phase = "open" /\ head < MaxCommits

CommitUnchanged ==
  /\ Committing /\ IsEmpty /\ Close
  /\ UNCHANGED <<durable, up>>

Committed ==
  /\ Committing /\ ~IsEmpty /\ Admit /\ Close
  /\ UNCHANGED up

\* COMMIT took effect and the connection died before the answer arrived.
CommitLost ==
  /\ Committing /\ ~IsEmpty /\ Admit /\ Close
  /\ up' = FALSE

\* Any statement of the admission failed: the SQL transaction is rolled back.
CommitRolledBack ==
  /\ Committing /\ ~IsEmpty /\ Close
  /\ up' \in BOOLEAN /\ UNCHANGED durable
-----------------------------------------------------------------------------
RecordPoint(p, at) ==
  /\ up /\ phase = "idle" /\ Call /\ at <= head
  /\ points' = [points EXCEPT ![p] = at]
  /\ UNCHANGED <<nodes, head, log, next_incarnation, blobs, definition, composition,
                 transition, up>>

PutBlob(b) ==
  /\ up /\ phase = "idle" /\ Call /\ blobs' = blobs \cup {b}
  /\ UNCHANGED <<nodes, head, log, next_incarnation, points, definition, composition,
                 transition, up>>

\* The process dies, or loses its connection between two statements.
Crash == up /\ up' = FALSE /\ Close /\ UNCHANGED <<durable>>

\* Mutant: the counter is derived from the retained log instead of its own column.
ReopenRederivingCounter ==
  /\ ~up /\ up' = TRUE
  /\ next_incarnation' = Cardinality({inc \in 0..next_incarnation : \E i \in DOMAIN log :
       \E j \in DOMAIN log[i].ops : log[i].ops[j].kind = "insert" /\ log[i].ops[j].inc = inc})
  /\ UNCHANGED <<nodes, head, log, points, blobs, definition, composition, transition, calls>>

\* factory reopen: every seed is ON CONFLICT DO NOTHING and nothing is loaded.
Reopen == ~up /\ up' = TRUE /\ UNCHANGED <<durable, transition, calls>>

Next ==
  \/ \E t \in Instant : Begin(t)
  \/ \E a \in Addr, v \in Val : Insert(a, v)
  \/ \E a \in Addr : InsertLost(a)
  \/ \E a \in Addr, v \in Val : Update(a, v)
  \/ \E a \in Addr : Delete(a)
  \/ \E a, b \in Addr, v \in Val : Rekey(a, b, v)
  \/ \E d \in Definition : SetDefinition(d)
  \/ \E c \in Composition : SetComposition(c)
  \/ Abort
  \/ CommitUnchanged
  \/ Committed
  \/ CommitLost
  \/ CommitRolledBack
  \/ \E p \in Point, at \in 0..MaxCommits : RecordPoint(p, at)
  \/ \E b \in Blob : PutBlob(b)
  \/ Crash
  \/ Reopen

Spec == Init /\ [][Next]_vars
-----------------------------------------------------------------------------
(* Properties.  A transition leaves the tables alone until it commits, so  *)
(* what is said of the tables is said between transitions.                 *)

\* The head fast path and the point lookup are the fold of the log: the tree, with its
\* tombstones, revived nodes and orphans, is the state the commits describe.
TreeIsLogFold ==
  phase = "idle" =>
    LET rows == Replay(log, head)
    IN  /\ TreeRows = rows
        /\ MaterializeHead(nodes) = {<<a, rows[a]>> : a \in {b \in Addr : rows[b] # None}}

\* The row an address set holds, as the reference store's scans list them.
LiveAt(S) == {<<a, TreeRows[a]>> : a \in {b \in S : TreeRows[b] # None}}

\* A collection scan and a subtree scan see exactly the rows the reference's flat map
\* lists under that prefix, whatever became of the ancestors in between.
ScansMatchReference ==
  phase = "idle" =>
    /\ \A parent \in {Front(a) : a \in Addr}, name \in {s.name : s \in AddressStep} :
         Scan(nodes, parent, name)
           = LiveAt({a \in Addr : Front(a) = parent /\ Last(a).name = name})
    /\ \A root \in Addr, names \in SUBSET {s.name : s \in AddressStep} :
         ScanSubtree(nodes, root, names)
           = LiveAt({a \in Addr : /\ Len(a) > Len(root) /\ SubSeq(a, 1, Len(root)) = root
                                  /\ \A i \in Len(root) + 1..Len(a) : a[i].name \in names})

Contract == INSTANCE StoreContract WITH current <- TreeRows

\* With crashes, lost answers and rollbacks between any two statements the durable
\* tables still do what a store promises; no token is handed out twice, reopened or not.
\* (Stuttering is over the tables, of which the rows are a function: this implies
\* Contract!Spec.)
ImplementsContract == Contract!Init /\ [][Contract!Next]_durable
=============================================================================
