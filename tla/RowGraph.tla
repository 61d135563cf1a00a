------------------------------ MODULE RowGraph ------------------------------
(***************************************************************************)
(* Row addresses, the references rows hold, and the constraints a row is   *)
(* under (crates/liasse-runtime/src: rules.rs, refwalk.rs, interp.rs).     *)
(*                                                                         *)
(* An address is a sequence of levels [name, key], the root collection     *)
(* first. A reference value is the address of its target: the declaration  *)
(* path is the one its field declares, the keys are the ones it carries.   *)
(* A schema maps a declaration path to what its collection declares:       *)
(*   key     the sequence of its key fields                                *)
(*   refs    [kind, optional, policy] by reference field; a field of a     *)
(*           static struct is a field with kind "struct_set" or "scalar"   *)
(*   unique  the groups of fields whose values may not repeat              *)
(*   checks  the names of its $check conditions                            *)
(*   data    the values an inserted row's other fields may take            *)
(*   writes  the assignments a mutation may make to a row                  *)
(***************************************************************************)
EXTENDS Naturals, Sequences, FiniteSets

CONSTANTS
  Nil,               \* the value of an optional field that is absent
  CheckPasses(_, _, _) \* CheckPasses(check, rows, a): the condition over row a of rows

Decl(a) == [i \in DOMAIN a |-> a[i].name]
Ancestor(a, n) == SubSeq(a, 1, n)
IsUnder(a, root) == Len(root) < Len(a) /\ Ancestor(a, Len(root)) = root
SubtreeOf(rows, root) == {a \in DOMAIN rows : a = root \/ IsUnder(a, root)}
InOneCollection(a, b) ==
  Decl(a) = Decl(b) /\ Ancestor(a, Len(a) - 1) = Ancestor(b, Len(b) - 1)

\* The address a row takes in the collection of a: its ancestors are kept, its own
\* level is read from its key fields.
KeyAddress(schema, a, row) ==
  LET key == schema[Decl(a)].key
  IN  [a EXCEPT ![Len(a)].key = [i \in DOMAIN key |-> row[key[i]]]]

RefFields(schema, a) == DOMAIN schema[Decl(a)].refs

\* The rows a reference value names: one or none for a scalar, every member of a set.
Targets(ref, value) == IF ref.kind = "scalar" THEN {value} \ {Nil} ELSE value

\* A row may lack the field.
RefersTo(schema, rows, a, f) ==
  IF f \in DOMAIN rows[a] THEN Targets(schema[Decl(a)].refs[f], rows[a][f]) ELSE {}

ReferencesResolve(schema, rows, a) ==
  \A f \in RefFields(schema, a) :
    LET ref == schema[Decl(a)].refs[f]
    IN  /\ ref.kind = "scalar" /\ rows[a][f] = Nil => ref.optional
        /\ RefersTo(schema, rows, a, f) \subseteq DOMAIN rows

\* Uniqueness is scoped to the siblings under one parent; an absent component never
\* conflicts.
IsUnique(schema, rows, a) ==
  \A group \in schema[Decl(a)].unique :
    (\A f \in group : rows[a][f] # Nil) =>
      \A b \in DOMAIN rows \ {a} :
        InOneCollection(a, b) => \E f \in group : rows[b][f] # rows[a][f]

ChecksPass(schema, rows, a) ==
  \A c \in schema[Decl(a)].checks : CheckPasses(c, rows, a)

\* The final rule pass: every touched row that is still live.
Finalizes(schema, rows, touched) ==
  \A a \in touched \cap DOMAIN rows :
    ChecksPass(schema, rows, a) /\ ReferencesResolve(schema, rows, a)
      /\ IsUnique(schema, rows, a)

\* Mutant: the ancestors are not marked.
MarkedAlone(live, touched, a) == {a}

\* A row that is written is marked, and so is each of its ancestors up to the first
\* that is not live or already marked.
Marked(live, touched, a) ==
  {a} \cup {Ancestor(a, n) : n \in
    {m \in 1 .. Len(a) - 1 :
       \A k \in m .. Len(a) - 1 :
         Ancestor(a, k) \in live /\ Ancestor(a, k + 1) \notin touched}}

MarkAll(live, touched, written) ==
  touched \cup UNION {Marked(live, touched, a) : a \in written}

\* Moving a row moves what is under it: the new ancestor, then the descendant's own levels.
Reroot(a, from, to) == to \o SubSeq(a, Len(from) + 1, Len(a))

\* Mutant: only the scalar references follow, not the members of a set.
RenamedScalars(schema, a, row, moved, from, to) ==
  [f \in DOMAIN row |->
     IF f \in RefFields(schema, a) /\ schema[Decl(a)].refs[f].kind = "scalar" /\ row[f] \in moved
     THEN Reroot(row[f], from, to) ELSE row[f]]

\* A row with every reference into moved pointed at where its target went.
Renamed(schema, a, row, moved, from, to) ==
  LET Follow(t) == IF t \in moved THEN Reroot(t, from, to) ELSE t
  IN  [f \in DOMAIN row |->
         IF f \notin RefFields(schema, a) THEN row[f]
         ELSE IF schema[Decl(a)].refs[f].kind = "scalar" THEN Follow(row[f])
         ELSE {Follow(t) : t \in row[f]}]
=============================================================================
