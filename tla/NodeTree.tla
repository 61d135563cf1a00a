------------------------------ MODULE NodeTree ------------------------------
(***************************************************************************)
(* The `nodes` adjacency tree, the one durable representation of rows in   *)
(* the PostgreSQL backend (crates/liasse-pg): node_write.rs writes it,     *)
(* read.rs and node_load.rs read it.                                       *)
(*                                                                         *)
(* A tree is the sequence of nodes by surrogate id; 0 is the root          *)
(* sentinel.  A node whose `row` is None is a tombstone: a structural      *)
(* position, kept so that the rows below it stay addressable.  A level is  *)
(* looked up by (parent, step_name, key_enc) and an address is rebuilt     *)
(* from key_wire, so both columns are kept.                                *)
(***************************************************************************)
EXTENDS StoreRows, FiniteSets
LOCAL INSTANCE SequencesExt

CONSTANTS
  AddressStep,  \* address levels: [name, key] records; Addr is a set of sequences of them
  KeyEnc(_)     \* key_enc::encode_key_value, the byte encoding the unique index is over

ASSUME AddressAssumption == Addr \subseteq Seq(AddressStep) \ {<< >>}
ASSUME StepAssumption == \A s \in AddressStep : s = [name |-> s.name, key |-> s.key]
ASSUME KeyEncAssumption ==
  \A s, t \in AddressStep : KeyEnc(s.key) = KeyEnc(t.key) => s.key = t.key

\* A record of the nodes table, whose surrogate id is its place in the tree.
Columns == [parent : Nat,
            step_name : {s.name : s \in AddressStep},
            key_enc : {KeyEnc(s.key) : s \in AddressStep},
            key_wire : {s.key : s \in AddressStep},
            row : MaybeRow]
ASSUME TreeSentinelAssumption == Corrupt \notin Seq(Columns)
-----------------------------------------------------------------------------
(* Reads.                                                                  *)

\* The node_key_lookup index: the node at one level below `id`, tombstone or not.
Children(tree, id, step) ==
  {n \in DOMAIN tree : /\ tree[n].parent = id /\ tree[n].step_name = step.name
                       /\ tree[n].key_enc = KeyEnc(step.key)}

\* One hop of the chained subquery; a missing level makes the whole lookup NULL.
Hop(id, step, tree) ==
  IF id = None \/ Children(tree, id, step) = {} THEN None
  ELSE CHOOSE n \in Children(tree, id, step) : TRUE

Chain == INSTANCE SeqFold WITH Step <- Hop

\* read::resolve_id: no level filters tombstones.
ResolveId(tree, a) == Chain!Fold(0, a, tree)

\* read::row: only the outermost level requires a value.
RowAt(tree, a) ==
  LET id == ResolveId(tree, a) IN IF id = None THEN None ELSE tree[id].row

\* read::scan: the live children of the collection's parent, under one step name.
Scan(tree, parent, name) ==
  LET id == ResolveId(tree, parent)
  IN  {<<Append(parent, [name |-> name, key |-> tree[n].key_wire]), tree[n].row>> :
         n \in {m \in DOMAIN tree : /\ tree[m].parent = id /\ tree[m].step_name = name
                                    /\ tree[m].row # None}}

\* Mutant: a tombstone is a barrier to the descent.
ScanSubtreeStoppingAtTombstones(tree, root, names) ==
  LET anchor == {[id |-> n, path |-> root] : n \in Children(tree, ResolveId(tree, Front(root)), Last(root))}
      below[k \in 0..Len(tree)] ==
        IF k = 0 THEN anchor
        ELSE UNION {{[id |-> n, path |-> Append(p.path, [name |-> tree[n].step_name,
                                                         key |-> tree[n].key_wire])] :
                       n \in {m \in DOMAIN tree : /\ tree[m].parent = p.id
                                                  /\ tree[m].step_name \in names}} :
                    p \in {q \in below[k - 1] : tree[q.id].row # None}}
  IN  {<<p.path, tree[p.id].row>> :
         p \in {q \in UNION {below[k] : k \in 1..Len(tree)} : tree[q.id].row # None}}

\* read::scan_subtree: descend from the root, tombstoned or not, through the named
\* levels; emit the live nodes strictly below it with their relative path appended.
ScanSubtree(tree, root, names) ==
  LET anchor == {[id |-> n, path |-> root] : n \in Children(tree, ResolveId(tree, Front(root)), Last(root))}
      below[k \in 0..Len(tree)] ==
        IF k = 0 THEN anchor
        ELSE UNION {{[id |-> n, path |-> Append(p.path, [name |-> tree[n].step_name,
                                                         key |-> tree[n].key_wire])] :
                       n \in {m \in DOMAIN tree : /\ tree[m].parent = p.id
                                                  /\ tree[m].step_name \in names}} :
                    p \in below[k - 1]}
  IN  {<<p.path, tree[p.id].row>> :
         p \in {q \in UNION {below[k] : k \in 1..Len(tree)} : tree[q.id].row # None}}

\* node_load::reconstruct: the parent walk up to the sentinel, through tombstones.
Reconstruct(tree, id) ==
  LET walk[n \in 0..Len(tree)] ==
        IF n = 0 THEN << >>
        ELSE Append(walk[tree[n].parent], [name |-> tree[n].step_name, key |-> tree[n].key_wire])
  IN  walk[id]

\* node_load::materialize_head: every live node at its reconstructed address.
MaterializeHead(tree) ==
  {<<Reconstruct(tree, n), tree[n].row>> : n \in {m \in DOMAIN tree : tree[m].row # None}}
-----------------------------------------------------------------------------
(* Writes: NodeWriter, inside the admission transaction.  The writer's id  *)
(* memo is left out: ids never change, so it answers what a lookup would.  *)

Node(parent, step, row) ==
  [parent |-> parent, step_name |-> step.name, key_enc |-> KeyEnc(step.key),
   key_wire |-> step.key, row |-> row]

\* resolve_or_create / create_tombstone, one level: the existing node, else a new
\* tombstone.
ResolveOrCreate(at, step, nothing) ==
  LET found == Children(at.tree, at.id, step)
  IN  IF found # {} THEN [at EXCEPT !.id = CHOOSE n \in found : TRUE]
      ELSE [tree |-> Append(at.tree, Node(at.id, step, None)), id |-> Len(at.tree) + 1]

Ancestors == INSTANCE SeqFold WITH Step <- ResolveOrCreate

\* NodeWriter::place: the upsert revives a tombstone in place, with its descendants.
Place(tree, a, row) ==
  LET parent == Ancestors!Fold([tree |-> tree, id |-> 0], Front(a), None)
      found == Children(parent.tree, parent.id, Last(a))
  IN  IF found = {} THEN Append(parent.tree, Node(parent.id, Last(a), row))
      ELSE [parent.tree EXCEPT ![CHOOSE n \in found : TRUE].row = row]

\* NodeWriter::tombstone.
Tombstone(tree, id) == [tree EXCEPT ![id].row = None]

\* node_created, and the commit's instant where the node carries none.
NodeCreated(tree, id, instant) ==
  IF tree[id].row = None THEN instant ELSE tree[id].row.created

\* Mutant: the rekeyed row takes its subtree with it instead of leaving orphans.
NodeApplyMovingSubtree(tree, op, instant) ==
  IF tree = Corrupt \/ (op.kind # "insert" /\ ResolveId(tree, op.from) = None) THEN Corrupt
  ELSE LET id == ResolveId(tree, op.from)
       IN  CASE op.kind = "insert" ->
                  Place(tree, op.to, [inc |-> op.inc, created |-> instant, val |-> op.val])
             [] op.kind = "update" ->
                  [tree EXCEPT ![id].row = [@ EXCEPT !.inc = op.inc, !.val = op.val]]
             [] op.kind = "delete" -> Tombstone(tree, id)
             [] op.kind = "rekey" ->
                  LET parent == Ancestors!Fold([tree |-> tree, id |-> 0], Front(op.to), None)
                  IN  [parent.tree EXCEPT ![id] = Node(parent.id, Last(op.to),
                         [inc |-> op.inc, created |-> NodeCreated(tree, id, instant),
                          val |-> op.val])]

\* NodeWriter::apply.  An operation on an address without a node is a durable
\* inconsistency; an update leaves the `created` column alone.
NodeApply(tree, op, instant) ==
  IF tree = Corrupt \/ (op.kind # "insert" /\ ResolveId(tree, op.from) = None) THEN Corrupt
  ELSE LET id == ResolveId(tree, op.from)
       IN  CASE op.kind = "insert" ->
                  Place(tree, op.to, [inc |-> op.inc, created |-> instant, val |-> op.val])
             [] op.kind = "update" ->
                  [tree EXCEPT ![id].row = [inc |-> op.inc, val |-> op.val,
                     created |-> IF tree[id].row = None THEN None ELSE tree[id].row.created]]
             [] op.kind = "delete" -> Tombstone(tree, id)
             [] op.kind = "rekey" ->
                  Tombstone(Place(tree, op.to, [inc |-> op.inc, val |-> op.val,
                                                created |-> NodeCreated(tree, id, instant)]), id)

Admission == INSTANCE SeqFold WITH Step <- NodeApply
=============================================================================
