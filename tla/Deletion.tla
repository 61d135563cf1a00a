------------------------------ MODULE Deletion ------------------------------
(***************************************************************************)
(* What deleting rows does to the rows that refer to them: the planner of  *)
(* crates/liasse-runtime/src/deletion.rs over the graph cascade.rs builds. *)
(*                                                                         *)
(* Only top-level rows are nodes, so only their references are edges. A    *)
(* reference's policy is "restrict", "cascade", "clear", "patch" or        *)
(* "undecided".                                                            *)
(***************************************************************************)
EXTENDS RowGraph

Policies == {"restrict", "cascade", "clear", "patch", "undecided"}

CONSTANT PatchOf(_, _, _)
  \* PatchOf(f, row, target): the <<field, value>> assignments a `= {..}` policy of field f
  \* makes to row when target is deleted. A patch assigns no key field.

TopRows(rows) == {a \in DOMAIN rows : Len(a) = 1}

\* A set member's "cascade" drops the member and keeps the row.
DeletesRow(ref) == ref.kind = "scalar" /\ ref.policy = "cascade"
DropsMember(ref) == ref.kind # "scalar" /\ ref.policy \in {"cascade", "clear"}

\* Mutant: a cascade reaches the rows that refer to the initial ones and stops.
CascadeOneHop(schema, rows, initial) ==
  initial \cup {a \in TopRows(rows) : \E f \in RefFields(schema, a) :
    DeletesRow(schema[Decl(a)].refs[f]) /\ RefersTo(schema, rows, a, f) \cap initial # {}}

\* The initial rows and every row a cascade reaches from them: the least set that holds
\* the initial rows and the rows whose cascading reference names a member.
CascadeClosure(schema, rows, initial) ==
  LET nodes == initial \cup TopRows(rows)
      Closed(s) ==
        /\ initial \subseteq s
        /\ \A a \in TopRows(rows) :
             (\E f \in RefFields(schema, a) :
                /\ DeletesRow(schema[Decl(a)].refs[f])
                /\ RefersTo(schema, rows, a, f) \cap s # {}) => a \in s
  IN  {a \in nodes : \A s \in SUBSET nodes : Closed(s) => a \in s}

\* A surviving row still refers to a deleted one under a policy that forbids it.
IsBlocked(schema, rows, deletes) ==
  \E a \in TopRows(rows) \ deletes : \E f \in RefFields(schema, a) :
    /\ schema[Decl(a)].refs[f].policy \in {"restrict", "undecided"}
    /\ RefersTo(schema, rows, a, f) \cap deletes # {}

\* The assignments the deletion of t makes through field f of the surviving row a.
Assignments(schema, rows, a, f, t) ==
  LET ref == schema[Decl(a)].refs[f]
  IN  CASE ref.policy = "patch" /\ t \in DOMAIN rows -> PatchOf(f, rows[a], rows[t])
        [] ref.policy = "clear" /\ ref.kind = "scalar" -> {<<f, Nil>>}
        [] DropsMember(ref) /\ ref.kind = "struct_set" -> {<<f, rows[a][f] \ {t}>>}
        [] OTHER -> {}

PatchesOn(schema, rows, deletes, a) ==
  UNION {UNION {Assignments(schema, rows, a, f, t) :
           t \in RefersTo(schema, rows, a, f) \cap deletes} : f \in RefFields(schema, a)}

\* Two effects give one field different values.
HasConflict(schema, rows, deletes) ==
  \E a \in TopRows(rows) \ deletes :
    \E p, q \in PatchesOn(schema, rows, deletes, a) : p[1] = q[1] /\ p[2] # q[2]

\* The surviving rows a deletion writes. A patch whose target is not live has no effect.
Affected(schema, rows, deletes) ==
  {a \in TopRows(rows) \ deletes : \E f \in RefFields(schema, a) :
     \E t \in RefersTo(schema, rows, a, f) \cap deletes :
       LET ref == schema[Decl(a)].refs[f]
       IN  DropsMember(ref) \/ ref.policy = "clear" \/ (ref.policy = "patch" /\ t \in DOMAIN rows)}

MembersDropped(schema, rows, deletes, a, f) ==
  IF f \in RefFields(schema, a) /\ schema[Decl(a)].refs[f].kind = "set"
       /\ DropsMember(schema[Decl(a)].refs[f])
  THEN RefersTo(schema, rows, a, f) \cap deletes ELSE {}

\* A surviving row after the patches, then the member drops.
Survivor(schema, rows, deletes, a) ==
  [f \in DOMAIN rows[a] |->
     LET assigned == {p \in PatchesOn(schema, rows, deletes, a) : p[1] = f}
         value == IF assigned = {} THEN rows[a][f] ELSE (CHOOSE p \in assigned : TRUE)[2]
         dropped == MembersDropped(schema, rows, deletes, a, f)
     IN  IF dropped = {} THEN value ELSE value \ dropped]

\* A deleted row takes its whole subtree with it; a key that names no row takes nothing.
RemovedBy(rows, deletes) == UNION {SubtreeOf(rows, a) : a \in deletes \cap DOMAIN rows}

AfterDeletion(schema, rows, deletes) ==
  [a \in DOMAIN rows \ RemovedBy(rows, deletes) |->
     IF a \in Affected(schema, rows, deletes) THEN Survivor(schema, rows, deletes, a)
     ELSE rows[a]]
=============================================================================
