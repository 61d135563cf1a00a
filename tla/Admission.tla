----------------------------- MODULE Admission -----------------------------
(***************************************************************************)
(* One engine instance admitting mutations: Engine::call                   *)
(* (crates/liasse-runtime/src/engine.rs), the prospective state it works   *)
(* on (state.rs), the statements of a program (interp.rs) and the final    *)
(* rule pass (rules.rs).                                                   *)
(*                                                                         *)
(* A call gathers the committed rows, runs its statements on that working  *)
(* copy, re-validates the rows they marked, and stages the difference as   *)
(* one store transition. A call that rejects drops the working copy. The   *)
(* engine is borrowed exclusively for the whole call, so calls never       *)
(* overlap; what interleaves is the statements of one program.             *)
(*                                                                         *)
(* Values are those after defaults, coercion and $normalize. The program   *)
(* may reject at any statement (assert, a type error, a missing target).   *)
(***************************************************************************)
EXTENDS Deletion

CONSTANTS
  Schemas,          \* the packages the engine may have loaded
  Level,            \* the levels of an address
  Address(_),       \* Address(schema): the addresses its rows may take
  Seeds(_),         \* Seeds(schema): the row sets its `$data` may hold
  MaxBatch,         \* bound: rows one statement inserts or replaces
  MaxStatements,    \* bound: statements of one program
  MaxCalls        \* bound: admitted calls

ASSUME BoundsAreNaturals == {MaxBatch, MaxStatements, MaxCalls} \subseteq Nat
ASSUME AddressesHaveLevels == \A s \in Schemas : Address(s) \subseteq Seq(Level) \ {<< >>}
ASSUME LevelsAreNamed == \A l \in Level : l = [name |-> l.name, key |-> l.key]
ASSUME NoneIsNoAddress == \A s \in Schemas : Nil \notin Address(s)
ASSUME SeedsAreAddressed ==
  \A s \in Schemas : \A seed \in Seeds(s) : DOMAIN seed \subseteq Address(s)
ASSUME PoliciesAreKnown ==
  \A s \in Schemas : \A a \in Address(s) : \A f \in RefFields(s, a) :
    s[Decl(a)].refs[f].policy \in Policies

VARIABLES
  schema,      \* the loaded package's declarations
  committed,   \* the store: a [value, incarnation] record by address
  admitted,        \* the number of calls committed
  open,        \* whether a call is running
  working,     \* its working rows: Prospective.working
  touched,     \* the addresses its statements marked: Interp.touched
  origin,      \* by working row, the incarnation it was gathered with, Nil for a new row
  exported,    \* the <<address, row>> pairs its erasures captured
  statements   \* the number of statements it has run

engine == <<schema, committed, admitted>>
call == <<open, working, touched, origin, exported, statements>>
engineVars == <<engine, call>>

\* The rows of the collections declared at the top level and everything stored under
\* one of them, an address whose parent is gone included.
Gathered == {a \in DOMAIN committed : Ancestor(a, 1) \in DOMAIN committed}
Base == [a \in Gathered |-> committed[a].value]

\* The row at address a whose other fields are data.
RowAt(s, a, data) ==
  LET key == s[Decl(a)].key
      KeyField(f) == \E i \in DOMAIN key : key[i] = f
  IN  [f \in DOMAIN data \cup {key[i] : i \in DOMAIN key} |->
         IF KeyField(f) THEN a[Len(a)].key[CHOOSE i \in DOMAIN key : key[i] = f] ELSE data[f]]

RowsAt(s, a) == {RowAt(s, a, data) : data \in s[Decl(a)].data}

\* Every row set over the addresses of batch, which are all in one collection.
RowSets(s, batch) ==
  IF batch = {} THEN {<< >>}
  ELSE LET d == Decl(CHOOSE a \in batch : TRUE)
       IN  {[a \in batch |-> RowAt(s, a, data[a])] : data \in [batch -> s[d].data]}

Batches(s) ==
  {b \in SUBSET Address(s) :
     Cardinality(b) <= MaxBatch /\ \A a1, a2 \in b : InOneCollection(a1, a2)}

\* Genesis: the seed rows are inserted into an empty working copy, all of them marked,
\* and validated by the same rule pass. A seed nests every row under its parent.
IsGenesis(s, seed) ==
  /\ \A a \in DOMAIN seed : \A n \in 1 .. Len(a) - 1 : Ancestor(a, n) \in DOMAIN seed
  /\ Finalizes(s, seed, DOMAIN seed)

CallsInit ==
  /\ schema \in Schemas
  /\ \E seed \in Seeds(schema) :
       /\ IsGenesis(schema, seed)
       /\ committed = [a \in DOMAIN seed |-> [value |-> seed[a], incarnation |-> <<a, 0>>]]
  /\ admitted = 0 /\ open = FALSE /\ statements = 0
  /\ working = << >> /\ touched = {} /\ origin = << >> /\ exported = {}

\* Prospective::gather at the head.
Gather ==
  /\ ~open /\ admitted < MaxCalls
  /\ open' = TRUE
  /\ working' = Base
  /\ origin' = [a \in Gathered |-> committed[a].incarnation]
  /\ touched' = {} /\ exported' = {} /\ statements' = 0
  /\ UNCHANGED engine

Statement ==
  /\ open /\ statements < MaxStatements
  /\ statements' = statements + 1
  /\ UNCHANGED <<engine, open>>

\* New rows under new addresses; every one is marked.
StageRows(new) ==
  /\ DOMAIN new \cap DOMAIN working = {}
  /\ working' = [a \in DOMAIN working \cup DOMAIN new |->
                   IF a \in DOMAIN new THEN new[a] ELSE working[a]]
  /\ origin' = [a \in DOMAIN working' |-> IF a \in DOMAIN new THEN Nil ELSE origin[a]]
  /\ touched' = MarkAll(DOMAIN working', touched, DOMAIN new)
  /\ UNCHANGED exported

\* `collection + view`: every row of the view, or none. The parent is not looked up.
InsertFromView ==
  /\ Statement
  /\ \E batch \in Batches(schema) \ {{}} : \E new \in RowSets(schema, batch) : StageRows(new)

\* `collection + { .. }` with initializers for the row's child collections.
InsertRow ==
  /\ Statement
  /\ \E a \in Address(schema) : \E children \in Batches(schema) :
       /\ \A c \in children : IsUnder(c, a) /\ Len(c) = Len(a) + 1
       /\ \E row \in RowsAt(schema, a), under \in RowSets(schema, children) :
            StageRows([b \in {a} \cup children |-> IF b = a THEN row ELSE under[b]])

\* Interp::place: the row keeps its address, or it moves with everything under it and
\* every reference into what moved is rewritten.
Place(a, row) ==
  LET to == KeyAddress(schema, a, row)
      moved == IF to = a THEN {} ELSE SubtreeOf(working, a)
      Goes(b) == IF b \in moved THEN Reroot(b, a, to) ELSE b
      arrivals == {Goes(b) : b \in moved}
      Source(b) == IF b \in arrivals THEN Reroot(b, to, a) ELSE b
      Written(b) == IF b = a THEN row ELSE working[b]
      Rewritten(b) == Renamed(schema, b, Written(b), moved, a, to)
      changed == {b \in DOMAIN working : Rewritten(b) # Written(b)}
  IN  /\ arrivals \cap DOMAIN working = {}
      /\ arrivals \subseteq Address(schema)  \* bound: the addresses of the instance
      /\ working' = [b \in (DOMAIN working \ moved) \cup arrivals |-> Rewritten(Source(b))]
      /\ origin' = [b \in DOMAIN working' |-> origin[Source(b)]]
      /\ touched' = MarkAll(DOMAIN working', touched,
                            {Goes(b) : b \in {a} \cup moved \cup changed})

\* write_field, apply_patch: the row at a with the fields w assigns.
Patched(a, w) == [f \in DOMAIN working[a] |-> IF f \in DOMAIN w THEN w[f] ELSE working[a][f]]

\* A field write, a clear, a set `+`/`-` or a block patch on one live row.
WriteFields ==
  /\ Statement
  /\ \E a \in DOMAIN working : \E w \in schema[Decl(a)].writes : Place(a, Patched(a, w))
  /\ UNCHANGED exported

\* Mutant: the erasure captures the planned rows and not what is under them.
CapturedAlone(rows, deletes) == {<<a, rows[a]>> : a \in deletes \cap DOMAIN rows}

\* What an erasure of the planned rows captures.
Captured(rows, deletes) ==
  {<<a, rows[a]>> : a \in UNION {SubtreeOf(rows, d) : d \in deletes \cap DOMAIN rows}}

\* delete_rows: plan on rows, then apply. `written` are the addresses the statement marked
\* before planning.
RemoveRows(rows, written, initial) ==
  LET deletes == CascadeClosure(schema, rows, initial)
  IN  /\ ~IsBlocked(schema, rows, deletes)
      /\ ~HasConflict(schema, rows, deletes)
      /\ working' = AfterDeletion(schema, rows, deletes)
      /\ origin' = [a \in DOMAIN working' |-> IF a \in DOMAIN origin THEN origin[a] ELSE Nil]
      /\ touched' = MarkAll(DOMAIN working', touched,
                            written \cup Affected(schema, rows, deletes))

TopKeys == {b \in Batches(schema) \ {{}} : \A a \in b : Len(a) = 1}

\* `collection - keys` on a top-level collection. A key that names no row is ignored.
DeleteRows ==
  /\ Statement
  /\ \E initial \in TopKeys : RemoveRows(working, {}, initial)
  /\ UNCHANGED exported

\* Rows of a nested collection go with their subtrees; no policy is consulted. A parent
\* that is still live is marked.
RemoveNested(rows, written, gone) ==
  LET removed == UNION {SubtreeOf(rows, a) : a \in gone \cap DOMAIN rows}
      parents == {Ancestor(a, Len(a) - 1) : a \in gone \cap DOMAIN rows}
  IN  /\ working' = [a \in DOMAIN rows \ removed |-> rows[a]]
      /\ origin' = [a \in DOMAIN working' |-> IF a \in DOMAIN origin THEN origin[a] ELSE Nil]
      /\ touched' = MarkAll(DOMAIN working', touched, written \cup (parents \cap DOMAIN working'))

DeleteNested ==
  /\ Statement
  /\ \E gone \in Batches(schema) \ {{}} :
       (\A a \in gone : Len(a) # 1) /\ RemoveNested(working, {}, gone)
  /\ UNCHANGED exported

\* `erase(row)`: the same removal, each removed row captured first.
Erase ==
  /\ Statement
  /\ \E initial \in TopKeys :
       /\ RemoveRows(working, {}, initial)
       /\ exported' =
            exported \cup Captured(working, CascadeClosure(schema, working, initial))

\* `collection = view`: a matching key is overwritten, a new key inserted, an absent key
\* deleted - by the planner at the top level, directly below it.
ReplaceCollection ==
  /\ Statement
  /\ \E a \in Address(schema) : \E batch \in Batches(schema) :
       /\ \A b \in batch : InOneCollection(a, b)
       /\ \E new \in RowSets(schema, batch) :
            LET rows == [b \in DOMAIN working \cup batch |->
                           IF b \in batch THEN new[b] ELSE working[b]]
                dropped == {b \in DOMAIN working \ batch : InOneCollection(a, b)}
            IN  IF Len(a) = 1 THEN RemoveRows(rows, batch, dropped)
                ELSE RemoveNested(rows, batch, dropped)
  /\ UNCHANGED exported

CloseCall ==
  /\ open' = FALSE /\ statements' = 0
  /\ working' = << >> /\ touched' = {} /\ origin' = << >> /\ exported' = {}

\* A rejection at any point, a call that changed nothing, and the store refusing to insert
\* over a stored row that was not gathered: the working copy is dropped.
Reject == open /\ CloseCall /\ UNCHANGED engine

\* finalize, diff, stage, commit. A row gathered at its address keeps its incarnation, any
\* other is inserted with a fresh one; a stored row that was not gathered stays.
AdmitCall ==
  /\ open
  /\ Finalizes(schema, working, touched)
  /\ working # Base
  /\ DOMAIN working \cap (DOMAIN committed \ Gathered) = {}
  /\ committed' =
       [a \in DOMAIN working \cup (DOMAIN committed \ Gathered) |->
          IF a \notin DOMAIN working THEN committed[a]
          ELSE [value |-> working[a],
                incarnation |-> IF a \in Gathered THEN committed[a].incarnation
                                ELSE <<a, admitted + 1>>]]
  /\ admitted' = admitted + 1
  /\ CloseCall
  /\ UNCHANGED schema

CallsNext ==
  \/ Gather \/ InsertFromView \/ InsertRow \/ WriteFields \/ DeleteRows \/ DeleteNested
  \/ Erase \/ ReplaceCollection \/ Reject \/ AdmitCall

CallsSpec == CallsInit /\ [][CallsNext]_engineVars

(***************************************************************************)
(* Properties.                                                             *)
(***************************************************************************)

\* The top-level targets of a row are live.
Governed(s, rows, a) ==
  \A f \in RefFields(s, a) : \A t \in RefersTo(s, rows, a, f) :
    Len(t) = 1 => t \in DOMAIN rows

\* A committed reference between top-level rows resolves, although rules::finalize looks
\* only at the rows the program marked: the deletion planner and the rekey rewrite must
\* have marked or removed every row whose target went.
GovernedReferencesResolve == \A a \in TopRows(Base) : Governed(schema, Base, a)

\* The same inside a program: what a statement leaves unmarked refers to live rows only.
UnmarkedReferencesResolve == \A a \in TopRows(working) \ touched : Governed(schema, working, a)

\* A row the program left unmarked is, value and identity, the row the call found at its
\* address: the final pass may skip it (Interp::mark on every path that writes).
EveryChangeIsMarked ==
  \A a \in DOMAIN working \ touched :
    /\ a \in Gathered
    /\ working[a] = Base[a]
    /\ origin[a] = committed[a].incarnation

ConstraintsHold(rows) ==
  \A a \in DOMAIN rows : ChecksPass(schema, rows, a) /\ IsUnique(schema, rows, a)

\* A call admitted over rows that all satisfy their checks and uniqueness leaves all rows
\* satisfying them, although it re-validated the marked ones alone. The checks are over a
\* row and what is under it; the precondition is needed because a stored row without a
\* parent is not gathered, so it is in nobody's check until its parent comes back.
AdmissionKeepsConstraints ==
  [][admitted' # admitted /\ ConstraintsHold(Base) => ConstraintsHold(working)]_engineVars

\* An erasure captures every row it removes, those a cascade reaches and those nested
\* under them included, with the value it had (exec_erase captures before apply_deletion).
ErasureCapturesWhatItRemoves ==
  [][exported' # exported /\ open' =>
       exported' = exported \cup {<<a, working[a]>> : a \in DOMAIN working \ DOMAIN working'}]_engineVars

\* Which gathered row refers to which, by the identity each was gathered with.
Relations(rows, org) ==
  LET Known(a) == a \in DOMAIN rows /\ org[a] # Nil
  IN  UNION {UNION {{<<org[a], f, org[t]>> : t \in {u \in RefersTo(schema, rows, a, f) : Known(u)}} :
               f \in RefFields(schema, a)} : a \in {b \in DOMAIN rows : Known(b)}}

\* A write that moves its row loses no reference: whatever referred to the row, or to a row
\* under it, refers to it at its new address (Interp::place and rewrite_inbound_refs). Only
\* the fields the write itself assigns may refer elsewhere.
RekeyKeepsReferences ==
  [][\A a \in DOMAIN working : \A w \in schema[Decl(a)].writes :
       DOMAIN working' # DOMAIN working /\ Place(a, Patched(a, w)) =>
         \A r \in Relations(working, origin) :
           r[1] # origin[a] \/ r[2] \notin DOMAIN w => r \in Relations(working', origin')]_engineVars

\* SPEC.md says a rekey preserves the incarnation of the row and of its descendants.
\* Prospective::diff compares addresses, so a moved row is deleted and inserted anew.
RekeyingPreservesIncarnation ==
  [][admitted' # admitted => \A a \in DOMAIN working :
       origin[a] # Nil => committed'[a].incarnation = origin[a]]_engineVars
=============================================================================
