----------------------------- MODULE Reconcile -----------------------------
(***************************************************************************)
(* An instance was exported at `base` and restored elsewhere.  `local` and *)
(* `incoming` went on from there by commits the rules of the package       *)
(* admit, and the local side merges what the other exported: Engine::merge *)
(* of history.rs and Engine::activate_merge of engine.rs.                  *)
(*                                                                         *)
(* A table gives every address a row or Absent, a row gives every field a  *)
(* value or Absent (a field that is absent or holds none).  Addresses are  *)
(* numbers because the uniqueness pass reads the rows in address order.    *)
(***************************************************************************)
EXTENDS Naturals, FiniteSets

CONSTANTS Address, Field, Value,
          Absent,       \* no row, no value
          Unique,       \* the $unique groups, as sets of fields
          Ref,          \* the field that refers to a row of the collection
          MaxEdits      \* bound on the commits of both sides

ASSUME AddressesAreOrdered == Address \subseteq Nat
ASSUME GroupsOfFields == Unique \subseteq SUBSET Field
ASSUME ReferencesAreAddresses == Ref \in Field /\ Address \subseteq Value

-----------------------------------------------------------------------------
(* ThreeWayMerge of history.rs, as operators over tables.                  *)

Row == [Field -> Value \cup {Absent}]
ASSUME AbsentIsNoRow == Absent \notin Row
Table == [Address -> Row \cup {Absent}]

RowConflict(address, kind) == [address |-> address, field |-> Absent, kind |-> kind]
FieldConflict(address, field, kind) == [address |-> address, field |-> field, kind |-> kind]

(* merge_field: a change of one side wins, equal changes agree             *)
FieldClashes(base, local, incoming) == local # incoming /\ local # base /\ incoming # base

MergeField(base, local, incoming) == IF local = base THEN incoming ELSE local

(* A mutant: a deletion on one side wins over any change on the other      *)
DeletingWins(base, local, incoming) ==
  CASE local = incoming -> {}
    [] base = Absent /\ local # Absent /\ incoming # Absent -> {"CompetingInsert"}
    [] OTHER -> {}

(* resolve_row: why a row cannot be combined as a whole                    *)
WholeRowClash(base, local, incoming) ==
  CASE local = incoming -> {}
    [] base = Absent /\ local # Absent /\ incoming # Absent /\ local # incoming ->
         {"CompetingInsert"}
    [] base # Absent /\ local # Absent /\ incoming = Absent /\ local # base -> {"DeleteVsModify"}
    [] base # Absent /\ local = Absent /\ incoming # Absent /\ incoming # base ->
         {"DeleteVsModify"}
    [] OTHER -> {}

FieldClashesOf(base, local, incoming) ==
  IF base = Absent \/ local = Absent \/ incoming = Absent \/ local = incoming THEN {}
  ELSE {f \in Field : FieldClashes(base[f], local[f], incoming[f])}

RowConflicts(address, base, local, incoming) ==
  {RowConflict(address, kind) : kind \in WholeRowClash(base, local, incoming)}
    \cup {FieldConflict(address, f, "IncompatibleValue") :
            f \in FieldClashesOf(base, local, incoming)}

(* resolve_row and merge_fields: the combined row; one that conflicts is   *)
(* left out of the result                                                  *)
ResolveRow(address, base, local, incoming) ==
  IF RowConflicts(address, base, local, incoming) # {} THEN Absent
  ELSE IF local = incoming THEN local
  ELSE IF base = Absent THEN (IF local = Absent THEN incoming ELSE local)
  ELSE IF local = Absent \/ incoming = Absent THEN Absent
  ELSE [f \in Field |-> MergeField(base[f], local[f], incoming[f])]

(* unique_tuple: a group with an absent component collides with nothing    *)
UniqueTuple(group, row) ==
  IF row = Absent \/ \E f \in group : row[f] = Absent THEN Absent ELSE [f \in group |-> row[f]]

(* check_combined_uniqueness: reported at every row whose tuple an earlier *)
(* row already has, at the field when the group is one field               *)
UniquenessConflicts(merged) ==
  UNION {{FieldConflict(a, IF Cardinality(group) = 1 THEN CHOOSE f \in group : TRUE ELSE Absent,
                        "Uniqueness") :
            a \in {b \in Address : \E c \in Address :
               c < b /\ UniqueTuple(group, merged[b]) # Absent
                     /\ UniqueTuple(group, merged[b]) = UniqueTuple(group, merged[c])}} :
         group \in Unique}

(* ThreeWayMerge::resolve                                                  *)
Resolve(base, local, incoming) ==
  LET merged == [a \in Address |-> ResolveRow(a, base[a], local[a], incoming[a])] IN
  [merged |-> merged,
   conflicts |-> (UNION {RowConflicts(a, base[a], local[a], incoming[a]) : a \in Address})
                   \cup UniquenessConflicts(merged)]

-----------------------------------------------------------------------------

VARIABLES base, local, incoming,
          edits         \* commits of both sides since the base

sides == <<base, local, incoming, edits>>

Unambiguous(table) ==
  \A group \in Unique : \A a, b \in Address :
    (a # b /\ UniqueTuple(group, table[a]) # Absent)
      => UniqueTuple(group, table[a]) # UniqueTuple(group, table[b])

ReferencesResolve(table) ==
  \A a \in {b \in Address : table[b] # Absent} :
    \/ table[a][Ref] = Absent
    \/ table[a][Ref] \in Address /\ table[table[a][Ref]] # Absent

Admitted(table) == Unambiguous(table) /\ ReferencesResolve(table)

SidesInit ==
  /\ base \in {t \in Table : Admitted(t)}
  /\ local = base /\ incoming = base
  /\ edits = 0

(* One admitted commit of either side writes, inserts or deletes a row     *)
EditLocal(a, row) ==
  /\ edits < MaxEdits /\ row # local[a]
  /\ Admitted([local EXCEPT ![a] = row])
  /\ local' = [local EXCEPT ![a] = row]
  /\ edits' = edits + 1
  /\ UNCHANGED <<base, incoming>>

EditIncoming(a, row) ==
  /\ edits < MaxEdits /\ row # incoming[a]
  /\ Admitted([incoming EXCEPT ![a] = row])
  /\ incoming' = [incoming EXCEPT ![a] = row]
  /\ edits' = edits + 1
  /\ UNCHANGED <<base, local>>

(* Engine::merge and, when it reports nothing to correct, activate_merge   *)
MergeIncoming ==
  LET outcome == Resolve(base, local, incoming) IN
  /\ outcome.conflicts = {}
  /\ local' = outcome.merged
  /\ UNCHANGED <<base, incoming, edits>>

SidesNext ==
  \/ \E a \in Address, row \in Row \cup {Absent} : EditLocal(a, row)
  \/ \E a \in Address, row \in Row \cup {Absent} : EditIncoming(a, row)
  \/ MergeIncoming

SidesSpec == SidesInit /\ [][SidesNext]_sides

----------------------------------------------------------------------------
(* Properties                                                              *)

Cell(table, a, f) == IF table[a] = Absent THEN Absent ELSE table[a][f]

Kept(merged, side) ==
  \A a \in Address :
    /\ (side[a] = Absent) # (base[a] = Absent) => ((merged[a] = Absent) <=> (side[a] = Absent))
    /\ \A f \in Field : Cell(side, a, f) # Cell(base, a, f)
                          => Cell(merged, a, f) = Cell(side, a, f)

(* ThreeWayMerge::resolve accepts a result without conflict only when it   *)
(* carries every change either side made, to a field or to a row as a      *)
(* whole, leaves what neither touched, and keeps every $unique group       *)
(* although two sides that each keep it can collide once combined; merging *)
(* the same artifact again then changes nothing.                           *)
CleanMergeKeepsBothSides ==
  LET outcome == Resolve(base, local, incoming)
      merged == outcome.merged IN
  outcome.conflicts = {} =>
    /\ Kept(merged, local) /\ Kept(merged, incoming) /\ Unambiguous(merged)
    /\ \A a \in Address : (local[a] = base[a] /\ incoming[a] = base[a]) => merged[a] = base[a]
    /\ Resolve(base, merged, incoming) = [merged |-> merged, conflicts |-> {}]
=============================================================================
