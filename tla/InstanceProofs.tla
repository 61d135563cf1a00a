--------------------------- MODULE InstanceProofs ---------------------------
(***************************************************************************)
(* What becomes of an instance, for any package: the relation it reads off *)
(* two points of a history is true unless one lineage was continued twice  *)
(* (Lineage), a merge without conflict drops no change (Reconcile), a      *)
(* token outlives the rotations of its ring (Keyring), and peers and       *)
(* clients keep what a release promised them (Modules, with Contracts).    *)
(***************************************************************************)
EXTENDS Lineage, Reconcile, Keyring, Modules, FiniteSetTheorems, TLAPS

-----------------------------------------------------------------------------
(* The three-way merge, row by row.                                        *)

MaybeRow == Row \cup {Absent}

CellOf(row, f) == IF row = Absent THEN Absent ELSE row[f]

(* What Kept says of one row                                               *)
KeepsRow(merged, b, side) ==
  /\ (side = Absent) # (b = Absent) => ((merged = Absent) <=> (side = Absent))
  /\ \A f \in Field : CellOf(side, f) # CellOf(b, f) => CellOf(merged, f) = CellOf(side, f)

LEMMA NoClash ==
  ASSUME NEW address, NEW b, NEW l, NEW i
  PROVE  RowConflicts(address, b, l, i) = {}
           <=> WholeRowClash(b, l, i) = {} /\ FieldClashesOf(b, l, i) = {}
BY DEF RowConflicts

(* The rows of which neither side left the other's as it was               *)
LEMMA WholeRows ==
  ASSUME NEW b \in MaybeRow, NEW l \in MaybeRow, NEW i \in MaybeRow,
         WholeRowClash(b, l, i) = {}, l # i
  PROVE  \/ b = Absent /\ (l = Absent \/ i = Absent)
         \/ b # Absent /\ l # Absent /\ i # Absent
         \/ b # Absent /\ l = b /\ i = Absent
         \/ b # Absent /\ l = Absent /\ i = b
BY DEF WholeRowClash

(* Fields merged one by one                                                *)
LEMMA MergedFields ==
  ASSUME NEW b \in Row, NEW l \in Row, NEW i \in Row, l # i,
         FieldClashesOf(b, l, i) = {},
         NEW m, m = [f \in Field |-> MergeField(b[f], l[f], i[f])]
  PROVE  /\ m \in Row
         /\ \A f \in Field : /\ l[f] # b[f] => m[f] = l[f]
                             /\ i[f] # b[f] => m[f] = i[f]
                             /\ l[f] = b[f] /\ i[f] = b[f] => m[f] = b[f]
                             /\ ~FieldClashes(b[f], m[f], i[f])
                             /\ MergeField(b[f], m[f], i[f]) = m[f]
<1>1. \A f \in Field : ~FieldClashes(b[f], l[f], i[f])
  BY AbsentIsNoRow DEF FieldClashesOf
<1>2. m \in Row
  BY DEF Row, MergeField
<1>3. \A f \in Field : m[f] = IF l[f] = b[f] THEN i[f] ELSE l[f]
  BY DEF MergeField
<1> QED BY <1>1, <1>2, <1>3 DEF FieldClashes, MergeField

(* A row resolved without conflict keeps what either side changed, and     *)
(* resolves to itself against the same incoming row                        *)
LEMMA ResolvedRow ==
  ASSUME NEW a, NEW b \in MaybeRow, NEW l \in MaybeRow, NEW i \in MaybeRow,
         RowConflicts(a, b, l, i) = {},
         NEW m, m = ResolveRow(a, b, l, i)
  PROVE  /\ m \in MaybeRow
         /\ KeepsRow(m, b, l) /\ KeepsRow(m, b, i)
         /\ l = b /\ i = b => m = b
         /\ RowConflicts(a, b, m, i) = {}
         /\ ResolveRow(a, b, m, i) = m
<1>1. WholeRowClash(b, l, i) = {} /\ FieldClashesOf(b, l, i) = {}
  BY NoClash
<1>2. RowConflicts(a, b, m, m) = {} /\ ResolveRow(a, b, m, m) = m
  <2>1. RowConflicts(a, b, m, m) = {}
    BY NoClash DEF WholeRowClash, FieldClashesOf
  <2> QED BY <2>1 DEF ResolveRow
<1>3. CASE l = i
  <2>1. m = l
    BY <1>3 DEF ResolveRow
  <2> QED BY <2>1, <1>2, <1>3 DEF KeepsRow, CellOf
<1>4. CASE l # i /\ b = Absent
  <2>1. m = IF l = Absent THEN i ELSE l
    BY <1>4 DEF ResolveRow
  <2>2. l = Absent \/ i = Absent
    BY <1>1, <1>4, WholeRows
  <2>3. KeepsRow(m, b, l) /\ KeepsRow(m, b, i)
    BY <2>1, <2>2, <1>4 DEF KeepsRow, CellOf
  <2>4. CASE l = Absent
    BY <2>1, <2>3, <2>4, <1>2, <1>4
  <2>5. CASE l # Absent
    <3>1. m = l /\ i = Absent
      BY <2>1, <2>2, <2>5
    <3> QED BY <3>1, <2>3, <1>4
  <2> QED BY <2>4, <2>5
<1>5. CASE l # i /\ b # Absent /\ l # Absent /\ i # Absent
  <2>1. b \in Row /\ l \in Row /\ i \in Row
    BY <1>5 DEF MaybeRow
  <2>2. m = [f \in Field |-> MergeField(b[f], l[f], i[f])]
    BY <1>5 DEF ResolveRow
  <2>3. /\ m \in Row
        /\ \A f \in Field : /\ l[f] # b[f] => m[f] = l[f]
                            /\ i[f] # b[f] => m[f] = i[f]
                            /\ l[f] = b[f] /\ i[f] = b[f] => m[f] = b[f]
                            /\ ~FieldClashes(b[f], m[f], i[f])
                            /\ MergeField(b[f], m[f], i[f]) = m[f]
    BY <2>1, <2>2, <1>1, <1>5, MergedFields
  <2>4. m # Absent
    BY <2>3, AbsentIsNoRow
  <2>5. KeepsRow(m, b, l) /\ KeepsRow(m, b, i)
    BY <2>3, <2>4, <1>5 DEF KeepsRow, CellOf
  <2>6. RowConflicts(a, b, m, i) = {}
    <3>1. WholeRowClash(b, m, i) = {}
      BY <2>4, <1>5 DEF WholeRowClash
    <3>2. FieldClashesOf(b, m, i) = {}
      BY <2>3 DEF FieldClashesOf
    <3> QED BY <3>1, <3>2, NoClash
  <2>7. ResolveRow(a, b, m, i) = m
    <3>1. [f \in Field |-> MergeField(b[f], m[f], i[f])] = m
      BY <2>3 DEF Row
    <3> QED BY <3>1, <2>4, <2>6, <1>5, <1>2 DEF ResolveRow
  <2>8. l = b /\ i = b => m = b
    BY <1>5
  <2> QED BY <2>3, <2>5, <2>6, <2>7, <2>8 DEF MaybeRow
<1>6. CASE l # i /\ b # Absent /\ (l = Absent \/ i = Absent)
  <2>1. m = Absent
    BY <1>6 DEF ResolveRow
  <2>2. (l = b /\ i = Absent) \/ (l = Absent /\ i = b)
    BY <1>1, <1>6, WholeRows
  <2>3. KeepsRow(m, b, l) /\ KeepsRow(m, b, i)
    BY <2>1, <2>2, <1>6 DEF KeepsRow, CellOf
  <2>4. RowConflicts(a, b, m, i) = {}
    <3>1. WholeRowClash(b, m, i) = {}
      BY <2>1, <2>2, <1>6 DEF WholeRowClash
    <3>2. FieldClashesOf(b, m, i) = {}
      BY <2>1 DEF FieldClashesOf
    <3> QED BY <3>1, <3>2, NoClash
  <2>5. ResolveRow(a, b, m, i) = m
    BY <2>1, <1>6, <2>2 DEF ResolveRow
  <2> QED BY <2>1, <2>3, <2>4, <2>5, <1>6 DEF MaybeRow
<1> QED BY <1>3, <1>4, <1>5, <1>6

-----------------------------------------------------------------------------
(* The tables.                                                             *)

SidesInv == base \in Table /\ local \in Table /\ incoming \in Table

LEMMA RowsOfTable ==
  ASSUME NEW t \in Table, NEW a \in Address
  PROVE  t[a] \in MaybeRow
BY DEF Table, MaybeRow

(* check_combined_uniqueness: two rows in conflict are found in address    *)
(* order                                                                   *)
LEMMA UniqueIsChecked ==
  ASSUME NEW merged, UniquenessConflicts(merged) = {}
  PROVE  Unambiguous(merged)
<1> SUFFICES ASSUME NEW group \in Unique, NEW a \in Address, NEW b \in Address,
                    a # b, UniqueTuple(group, merged[a]) # Absent,
                    UniqueTuple(group, merged[a]) = UniqueTuple(group, merged[b])
             PROVE  FALSE
  BY DEF Unambiguous
<1>1. \A g \in Unique : \A p \in Address : \A q \in Address :
        q < p /\ UniqueTuple(g, merged[p]) # Absent
          => UniqueTuple(g, merged[p]) # UniqueTuple(g, merged[q])
  <2> DEFINE field(g) == IF Cardinality(g) = 1 THEN CHOOSE f \in g : TRUE ELSE Absent
             clashing(g) == {p \in Address : \E q \in Address :
                               q < p /\ UniqueTuple(g, merged[p]) # Absent
                                     /\ UniqueTuple(g, merged[p]) = UniqueTuple(g, merged[q])}
             found(g) == {FieldConflict(p, field(g), "Uniqueness") : p \in clashing(g)}
  <2>1. UNION {found(g) : g \in Unique} = {}
    BY DEF UniquenessConflicts
  <2> HIDE DEF field
  <2>2. ASSUME NEW g \in Unique PROVE clashing(g) = {}
    <3> HIDE DEF clashing
    <3>1. found(g) = {}
      <4> HIDE DEF found
      <4> QED BY <2>1
    <3> QED BY <3>1
  <2> QED BY <2>2
<1>2. a < b \/ b < a
  BY AddressesAreOrdered
<1> QED BY <1>1, <1>2

LEMMA CleanResolution ==
  ASSUME SidesInv, NEW outcome, outcome = Resolve(base, local, incoming),
         outcome.conflicts = {}
  PROVE  /\ \A a \in Address : RowConflicts(a, base[a], local[a], incoming[a]) = {}
         /\ UniquenessConflicts(outcome.merged) = {}
         /\ outcome.merged
              = [a \in Address |-> ResolveRow(a, base[a], local[a], incoming[a])]
         /\ outcome.merged \in Table
<1>1. outcome.merged = [a \in Address |-> ResolveRow(a, base[a], local[a], incoming[a])]
  BY DEF Resolve
<1> DEFINE rows == {RowConflicts(a, base[a], local[a], incoming[a]) : a \in Address}
           uniques == UniquenessConflicts(outcome.merged)
<1>2. outcome.conflicts = (UNION rows) \cup uniques
  BY <1>1 DEF Resolve
<1>3. (\A r \in rows : r = {}) /\ uniques = {}
  <2> HIDE DEF rows, uniques
  <2> QED BY <1>2
<1>4. ASSUME NEW a \in Address PROVE outcome.merged[a] \in MaybeRow
  <2>1. base[a] \in MaybeRow /\ local[a] \in MaybeRow /\ incoming[a] \in MaybeRow
    BY RowsOfTable DEF SidesInv
  <2>2. RowConflicts(a, base[a], local[a], incoming[a]) = {}
    BY <1>3
  <2>3. outcome.merged[a] = ResolveRow(a, base[a], local[a], incoming[a])
    BY <1>1
  <2> QED BY <2>1, <2>2, <2>3, ResolvedRow
<1> QED BY <1>1, <1>3, <1>4 DEF Table, MaybeRow

LEMMA MergeIsClean == SidesInv => CleanMergeKeepsBothSides
<1> DEFINE outcome == Resolve(base, local, incoming)
           merged == outcome.merged
<1> SUFFICES ASSUME SidesInv, outcome.conflicts = {}
             PROVE  /\ Kept(merged, local) /\ Kept(merged, incoming) /\ Unambiguous(merged)
                    /\ \A a \in Address :
                         (local[a] = base[a] /\ incoming[a] = base[a]) => merged[a] = base[a]
                    /\ Resolve(base, merged, incoming) = [merged |-> merged, conflicts |-> {}]
  BY DEF CleanMergeKeepsBothSides
<1>1. /\ \A a \in Address : RowConflicts(a, base[a], local[a], incoming[a]) = {}
      /\ UniquenessConflicts(merged) = {}
      /\ merged = [a \in Address |-> ResolveRow(a, base[a], local[a], incoming[a])]
  BY CleanResolution
<1> HIDE DEF outcome
<1>2. ASSUME NEW a \in Address
      PROVE  /\ KeepsRow(merged[a], base[a], local[a]) /\ KeepsRow(merged[a], base[a], incoming[a])
             /\ local[a] = base[a] /\ incoming[a] = base[a] => merged[a] = base[a]
             /\ RowConflicts(a, base[a], merged[a], incoming[a]) = {}
             /\ ResolveRow(a, base[a], merged[a], incoming[a]) = merged[a]
  <2>1. merged[a] = ResolveRow(a, base[a], local[a], incoming[a])
    BY <1>1
  <2>2. base[a] \in MaybeRow /\ local[a] \in MaybeRow /\ incoming[a] \in MaybeRow
    BY RowsOfTable DEF SidesInv
  <2> QED BY <2>1, <2>2, <1>1, ResolvedRow
<1>3. Kept(merged, local) /\ Kept(merged, incoming)
  BY <1>2 DEF Kept, KeepsRow, Cell, CellOf
<1>4. Unambiguous(merged)
  BY <1>1, UniqueIsChecked
<1>5. Resolve(base, merged, incoming) = [merged |-> merged, conflicts |-> {}]
  <2>1. [a \in Address |-> ResolveRow(a, base[a], merged[a], incoming[a])] = merged
    BY <1>1, <1>2
  <2>2. UNION {RowConflicts(a, base[a], merged[a], incoming[a]) : a \in Address} = {}
    BY <1>2
  <2> QED BY <2>1, <2>2, <1>1 DEF Resolve
<1> QED BY <1>2, <1>3, <1>4, <1>5

LEMMA SidesStep == SidesInv /\ [SidesNext]_sides => SidesInv'
<1> SUFFICES ASSUME SidesInv, [SidesNext]_sides PROVE SidesInv'
  OBVIOUS
<1>1. ASSUME NEW a \in Address, NEW row \in Row \cup {Absent}, EditLocal(a, row)
      PROVE  SidesInv'
  BY <1>1 DEF EditLocal, SidesInv, Table
<1>2. ASSUME NEW a \in Address, NEW row \in Row \cup {Absent}, EditIncoming(a, row)
      PROVE  SidesInv'
  BY <1>2 DEF EditIncoming, SidesInv, Table
<1>3. CASE MergeIncoming
  <2>1. local' \in Table
    BY <1>3, CleanResolution DEF MergeIncoming
  <2> QED BY <2>1, <1>3 DEF MergeIncoming, SidesInv
<1>4. CASE UNCHANGED sides
  BY <1>4 DEF sides, SidesInv
<1> QED BY <1>1, <1>2, <1>3, <1>4 DEF SidesNext

(* For every package, base and sequence of admitted commits of both sides: *)
(* a merge that reports no conflict carries each change of either side,    *)
(* leaves the rest, keeps every $unique group, and merging again changes   *)
(* nothing (history.rs ThreeWayMerge::resolve).                            *)
THEOREM CleanMergesKeepBothSides == SidesSpec => []CleanMergeKeepsBothSides
<1>1. SidesInit => SidesInv
  BY DEF SidesInit, SidesInv
<1> QED BY <1>1, SidesStep, MergeIsClean, PTL DEF SidesSpec

-----------------------------------------------------------------------------
(* The versions of a ring.                                                 *)

VersionState == {"pending", "active", "retired", "revoked", "destroyed"}
Version == [state : VersionState, created : Int,
            activated : Int \cup {Never}, retired : Int \cup {Never}]

(* At most one version signs, and at most one waits to                     *)
RingOK(vs) ==
  /\ vs \in Seq(Version)
  /\ \A i, j \in DOMAIN vs : vs[i].state = "active" /\ vs[j].state = "active" => i = j
  /\ \A i, j \in DOMAIN vs : vs[i].state = "pending" /\ vs[j].state = "pending" => i = j
  /\ \A i \in DOMAIN vs : vs[i].state \in {"active", "retired"} => vs[i].activated \in Int
  /\ \A i \in DOMAIN vs : vs[i].state = "retired" => vs[i].retired \in Int

Ring == [versions : Seq(Version), supply : Int]

Settled == {"retired", "revoked", "destroyed"}

(* What becomes of the versions of a ring when its active one is retired   *)
Retires(old, new, at) ==
  \A i \in DOMAIN old :
    /\ i \in DOMAIN new
    /\ old[i].state \in Settled => new[i] = old[i]
    /\ old[i].state = "active" => /\ new[i].state = "retired" /\ new[i].retired = at
                                 /\ new[i].activated = old[i].activated

LEMMA FreshVersion ==
  ASSUME NEW at \in Int
  PROVE  Fresh(at) \in Version /\ Fresh(at).state = "pending"
BY DEF Fresh, Version, VersionState

(* What activate does to one version                                       *)
LEMMA Activated ==
  ASSUME NEW vs \in Seq(Version), NEW v \in DOMAIN vs, NEW at \in Int, NEW new, new = Activate(vs, v, at)
  PROVE  /\ new \in Seq(Version) /\ DOMAIN new = DOMAIN vs /\ Len(new) = Len(vs)
         /\ new[v].state = "active" /\ new[v].activated = at
         /\ \A i \in DOMAIN vs : i # v =>
              /\ vs[i].state # "active" => new[i] = vs[i]
              /\ vs[i].state = "active" => /\ new[i].state = "retired" /\ new[i].retired = at
                                          /\ new[i].activated = vs[i].activated
<1>1. DOMAIN vs = 1 .. Len(vs) /\ Len(vs) \in Nat
  OBVIOUS
<1>2. new = [i \in DOMAIN vs |->
               IF i = v THEN [vs[i] EXCEPT !.state = "active", !.activated = at]
               ELSE IF vs[i].state = "active" THEN [vs[i] EXCEPT !.state = "retired", !.retired = at]
               ELSE vs[i]]
  BY DEF Activate
<1>3. ASSUME NEW i \in DOMAIN vs
      PROVE  /\ [vs[i] EXCEPT !.state = "active", !.activated = at] \in Version
             /\ [vs[i] EXCEPT !.state = "active", !.activated = at].state = "active"
             /\ [vs[i] EXCEPT !.state = "active", !.activated = at].activated = at
             /\ [vs[i] EXCEPT !.state = "retired", !.retired = at] \in Version
             /\ [vs[i] EXCEPT !.state = "retired", !.retired = at].state = "retired"
             /\ [vs[i] EXCEPT !.state = "retired", !.retired = at].retired = at
             /\ [vs[i] EXCEPT !.state = "retired", !.retired = at].activated = vs[i].activated
  <2>1. vs[i] \in Version
    OBVIOUS
  <2> QED BY <2>1 DEF Version, VersionState
<1>4. ASSUME NEW i \in DOMAIN vs PROVE new[i] \in Version
  <2>1. vs[i] \in Version
    OBVIOUS
  <2>2. \/ new[i] = [vs[i] EXCEPT !.state = "active", !.activated = at]
        \/ new[i] = [vs[i] EXCEPT !.state = "retired", !.retired = at]
        \/ new[i] = vs[i]
    BY <1>2
  <2> QED BY <2>1, <2>2, <1>3
<1>5. new \in [1 .. Len(vs) -> Version]
  BY <1>1, <1>2, <1>4
<1>6. new \in Seq(Version) /\ DOMAIN new = DOMAIN vs /\ Len(new) = Len(vs)
  BY <1>1, <1>5
<1> QED BY <1>2, <1>3, <1>6

LEMMA ActivatedRing ==
  ASSUME NEW vs \in Seq(Version), NEW v \in DOMAIN vs, NEW at \in Int, vs[v].state = "pending",
         \A i, j \in DOMAIN vs : i # v /\ j # v /\ vs[i].state = "pending" /\ vs[j].state = "pending" => i = j,
         \A i \in DOMAIN vs : vs[i].state \in {"active", "retired"} => vs[i].activated \in Int,
         \A i \in DOMAIN vs : vs[i].state = "retired" => vs[i].retired \in Int
  PROVE  RingOK(Activate(vs, v, at)) /\ Retires(vs, Activate(vs, v, at), at)
<1> DEFINE new == Activate(vs, v, at)
<1>1. /\ new \in Seq(Version) /\ DOMAIN new = DOMAIN vs
      /\ new[v].state = "active" /\ new[v].activated = at
      /\ \A i \in DOMAIN vs : i # v =>
           /\ vs[i].state # "active" => new[i] = vs[i]
           /\ vs[i].state = "active" => /\ new[i].state = "retired" /\ new[i].retired = at
                                       /\ new[i].activated = vs[i].activated
  BY Activated
<1> HIDE DEF new
<1>2. \A i \in DOMAIN vs : i # v => new[i].state # "active"
  BY <1>1
<1>3. \A i \in DOMAIN vs : new[i].state = "pending" => i # v /\ vs[i].state = "pending"
  BY <1>1
<1>4. RingOK(new)
  BY <1>1, <1>2, <1>3 DEF RingOK
<1>5. Retires(vs, new, at)
  BY <1>1 DEF Retires, Settled
<1> QED BY <1>4, <1>5 DEF new

LEMMA RotateRing ==
  ASSUME NEW r \in Ring, RingOK(r.versions), NEW at \in Int, NEW out, out = Rotate(r, at), out # Never
  PROVE  out \in Ring /\ RingOK(out.versions) /\ Retires(r.versions, out.versions, at)
<1> DEFINE vs == r.versions
           pending == InState(vs, "pending")
<1>0. vs \in Seq(Version) /\ DOMAIN vs = 1 .. Len(vs) /\ Len(vs) \in Nat
  BY DEF Ring
<1>1. CASE pending # {}
  <2> DEFINE v == Min(pending)
  <2>1. PICK p \in DOMAIN vs : vs[p].state = "pending"
    BY <1>1 DEF InState
  <2>2. pending = {p}
    BY <2>1 DEF InState, RingOK
  <2>3. v = p
    BY <2>2, <1>0 DEF Min
  <2>4. out = [r EXCEPT !.versions = Activate(@, v, at)]
    BY <1>1 DEF Rotate
  <2>5. RingOK(Activate(vs, p, at)) /\ Retires(vs, Activate(vs, p, at), at)
    BY <2>1, <1>0, ActivatedRing DEF RingOK
  <2>6. out.versions = Activate(vs, p, at) /\ out.supply = r.supply
          /\ out = [versions |-> out.versions, supply |-> out.supply]
    BY <2>3, <2>4 DEF Ring
  <2>7. out.versions \in Seq(Version) /\ r.supply \in Int
    BY <2>5, <2>6 DEF RingOK, Ring
  <2> QED BY <2>5, <2>6, <2>7 DEF Ring
<1>2. CASE pending = {}
  <2> DEFINE made == Append(vs, Fresh(at))
  <2>1. /\ made \in Seq(Version) /\ DOMAIN made = 1 .. Len(vs) + 1 /\ Len(made) = Len(vs) + 1
        /\ \A i \in DOMAIN vs : made[i] = vs[i]
        /\ made[Len(vs) + 1].state = "pending"
    BY <1>0, FreshVersion
  <2>2. out = [[versions |-> made, supply |-> r.supply - 1] EXCEPT !.versions = Activate(@, Len(@), at)]
    BY <1>2 DEF Rotate, Recorded
  <2>3. out = [versions |-> Activate(made, Len(made), at), supply |-> r.supply - 1]
    BY <2>2
  <2> HIDE DEF made
  <2>4. PICK v \in DOMAIN made : v = Len(made) /\ v \notin DOMAIN vs
    BY <2>1, <1>0
  <2>5. \A i \in DOMAIN made : i # v => i \in DOMAIN vs /\ made[i] = vs[i]
    BY <2>1, <2>4, <1>0
  <2>6. /\ \A i \in DOMAIN vs : vs[i].state # "pending"
        /\ made[v].state = "pending"
    BY <1>2, <2>1, <2>4 DEF InState
  <2>7. RingOK(Activate(made, v, at)) /\ Retires(made, Activate(made, v, at), at)
    BY <2>1, <2>5, <2>6, ActivatedRing DEF RingOK
  <2>8. Retires(vs, Activate(made, v, at), at)
    BY <2>7, <2>1, <1>0 DEF Retires
  <2>9. out.versions = Activate(made, v, at) /\ out \in Ring
    BY <2>3, <2>4, <2>7 DEF Ring, RingOK
  <2> QED BY <2>7, <2>8, <2>9
<1> QED BY <1>1, <1>2

(* A due rotation retires at its own boundary                              *)
LEMMA RetiresTwice ==
  ASSUME NEW old, NEW mid, NEW new, NEW at, NEW later,
         Retires(old, mid, at), Retires(mid, new, later)
  PROVE  Retires(old, new, at)
BY DEF Retires, Settled

CutP == INSTANCE SeqFoldProofs WITH Step <- Cutover

(* A catch-up after its first n cutovers                                   *)
CaughtUp(c, r, due, n) ==
  /\ c \in [ring : Ring, done : Nat, failed : BOOLEAN]
  /\ RingOK(c.ring.versions)
  /\ ~c.failed => c.done = n
  /\ c.done = 0 => c.ring = r
  /\ c.done > 0 => Retires(r.versions, c.ring.versions, due)

LEMMA OneMoreCutover ==
  ASSUME NEW r \in Ring, NEW due \in Int, NEW at, NEW n \in Nat, NEW c, CaughtUp(c, r, due, n),
         NEW boundary \in Int, n = 0 => boundary = due
  PROVE  CaughtUp(Cutover(c, boundary, at), r, due, n + 1)
<1> DEFINE after == Rotate(c.ring, boundary)
           new == Cutover(c, boundary, at)
<1>1. /\ c.ring \in Ring /\ c.done \in Nat /\ c.failed \in BOOLEAN
      /\ c = [ring |-> c.ring, done |-> c.done, failed |-> c.failed]
  BY DEF CaughtUp
<1>2. CASE c.failed
  <2>1. new = c
    BY <1>2 DEF Cutover
  <2> HIDE DEF new
  <2> QED BY <2>1, <1>2 DEF CaughtUp, new
<1>3. CASE ~c.failed /\ after = Never
  <2>1. new = [ring |-> c.ring, done |-> c.done, failed |-> TRUE]
    BY <1>1, <1>3 DEF Cutover
  <2> HIDE DEF new
  <2>2. new.ring = c.ring /\ new.done = c.done /\ new.failed
    BY <2>1
  <2>3. new \in [ring : Ring, done : Nat, failed : BOOLEAN]
    BY <2>1, <1>1
  <2> QED BY <2>2, <2>3 DEF CaughtUp, new
<1>4. CASE ~c.failed /\ after # Never
  <2>1. new = [ring |-> after, done |-> c.done + 1, failed |-> FALSE]
    BY <1>4 DEF Cutover
  <2>2. after \in Ring /\ RingOK(after.versions) /\ Retires(c.ring.versions, after.versions, boundary)
    BY <1>1, <1>4, RotateRing DEF CaughtUp
  <2> HIDE DEF new, after
  <2>3. c.done = n
    BY <1>4 DEF CaughtUp
  <2>4. Retires(r.versions, after.versions, due)
    <3>1. CASE n = 0
      BY <3>1, <2>2, <2>3 DEF CaughtUp
    <3>2. CASE n # 0
      <4>1. Retires(r.versions, c.ring.versions, due)
        BY <3>2, <2>3 DEF CaughtUp
      <4> QED BY <4>1, <2>2, RetiresTwice
    <3> QED BY <3>1, <3>2
  <2>5. new.ring = after /\ new.done = n + 1 /\ ~new.failed
    BY <2>1, <2>3
  <2>6. new \in [ring : Ring, done : Nat, failed : BOOLEAN]
    BY <2>1, <2>2, <2>3
  <2> QED BY <2>2, <2>4, <2>5, <2>6 DEF CaughtUp, new
<1> QED BY <1>1, <1>2, <1>3, <1>4

LEMMA BoundariesExtend ==
  ASSUME NEW due \in Int, NEW at, NEW n \in Nat
  PROVE  /\ Boundaries(due, n, at) \in Seq(Int)
         /\ Boundary(due, n + 1, at) \in Int
         /\ n = 0 => Boundary(due, n + 1, at) = due
         /\ Boundaries(due, n + 1, at) = Append(Boundaries(due, n, at), Boundary(due, n + 1, at))
<1>1. \A k \in Int : Boundary(due, k, at) \in Int
  BY PolicyIsOfDurations DEF Boundary
<1>2. Boundary(due, 0 + 1, at) = due
  BY PolicyIsOfDurations DEF Boundary
<1> QED BY <1>1, <1>2 DEF Boundaries

(* The catch-up performs the cutovers in the order of their boundaries     *)
LEMMA CatchUpIsCaughtUp ==
  ASSUME NEW r \in Ring, RingOK(r.versions), NEW due \in Int, NEW at, NEW count \in Nat
  PROVE  CaughtUp(CatchUp(r, due, count, at), r, due, count)
<1> DEFINE S == {n \in Nat : CaughtUp(CatchUp(r, due, n, at), r, due, n)}
<1>1. \A n \in Nat : CatchUp(r, due, n, at) = CutP!Fold(Idle(r), Boundaries(due, n, at), at)
  BY DEF CatchUp, Cutovers!Fold, CutP!Fold
<1>2. 0 \in S
  <2>1. Boundaries(due, 0, at) = << >>
    BY DEF Boundaries
  <2>2. CatchUp(r, due, 0, at) = Idle(r)
    BY <1>1, <2>1, CutP!FoldEmpty
  <2>3. CaughtUp(Idle(r), r, due, 0)
    BY DEF CaughtUp, Idle
  <2> QED BY <2>2, <2>3
<1>3. ASSUME NEW n \in Nat, n \in S PROVE n + 1 \in S
  <2> DEFINE c == CatchUp(r, due, n, at)
             b == Boundary(due, n + 1, at)
  <2>1. CatchUp(r, due, n + 1, at) = Cutover(c, b, at)
    <3> DEFINE bs == Boundaries(due, n, at)
    <3>1. bs \in Seq(Int) /\ b \in Int /\ Boundaries(due, n + 1, at) = Append(bs, b)
      BY BoundariesExtend
    <3> HIDE DEF bs, b, c
    <3>2. CutP!Fold(Idle(r), Append(bs, b), at) = Cutover(CutP!Fold(Idle(r), bs, at), b, at)
      BY <3>1, CutP!FoldAppend
    <3>3. c = CutP!Fold(Idle(r), bs, at)
      BY <1>1 DEF c, bs
    <3>4. CatchUp(r, due, n + 1, at) = CutP!Fold(Idle(r), Boundaries(due, n + 1, at), at)
      BY <1>1
    <3> QED BY <3>1, <3>2, <3>3, <3>4
  <2>2. CaughtUp(c, r, due, n)
    BY <1>3
  <2>3. b \in Int /\ (n = 0 => b = due)
    BY BoundariesExtend
  <2> HIDE DEF b, c
  <2>4. CaughtUp(Cutover(c, b, at), r, due, n + 1)
    BY <2>2, <2>3, OneMoreCutover
  <2> QED BY <2>1, <2>4
<1> HIDE DEF S
<1>4. Nat \subseteq S
  BY <1>2, <1>3, CutP!NatSetInduction
<1> QED BY <1>4 DEF S

(* A catch-up after all its cutovers exposes the next version at most      *)
LEMMA ExposedRing ==
  ASSUME NEW r \in Ring, RingOK(r.versions), NEW at \in Int, NEW due,
         NEW out, out = ExposePending(r, at, due)
  PROVE  /\ RingOK(out.versions)
         /\ \A i \in DOMAIN r.versions : i \in DOMAIN out.versions /\ out.versions[i] = r.versions[i]
<1> DEFINE vs == r.versions
<1>0. vs \in Seq(Version) /\ DOMAIN vs = 1 .. Len(vs) /\ Len(vs) \in Nat
  BY DEF Ring
<1>1. CASE out = r
  BY <1>1
<1>2. CASE out # r
  <2>1. InState(vs, "pending") = {} /\ out = Recorded(r, at)
    BY <1>2 DEF ExposePending
  <2>2. out.versions = Append(vs, Fresh(at))
    BY <2>1 DEF Recorded
  <2> DEFINE made == Append(vs, Fresh(at))
  <2>3. /\ made \in Seq(Version) /\ DOMAIN made = 1 .. Len(vs) + 1
        /\ \A i \in DOMAIN vs : made[i] = vs[i]
        /\ made[Len(vs) + 1].state = "pending"
    BY <1>0, FreshVersion
  <2>4. \A i \in DOMAIN vs : vs[i].state # "pending"
    BY <2>1 DEF InState
  <2> HIDE DEF made
  <2>5. \A i \in DOMAIN made : i = Len(vs) + 1 \/ (i \in DOMAIN vs /\ made[i] = vs[i])
    BY <2>3, <1>0
  <2>6. RingOK(made)
    BY <2>3, <2>4, <2>5 DEF RingOK
  <2> QED BY <2>2, <2>3, <2>6, <1>0 DEF made
<1> QED BY <1>1, <1>2

LEMMA CutoversAreCounted ==
  ASSUME NEW due \in Int, NEW at \in Int
  PROVE  CutoversDue(due, at) \in Nat
<1>1. CASE at < due
  BY <1>1 DEF CutoversDue
<1>2. CASE at >= due /\ Every <= 0
  BY <1>2, PolicyIsOfDurations DEF CutoversDue
<1>3. CASE at >= due /\ Every > 0
  <2>1. CutoversDue(due, at) = (at - due) \div Every + 1
    BY <1>3, PolicyIsOfDurations DEF CutoversDue
  <2>2. at - due \in Nat /\ Every \in Nat \ {0}
    BY <1>3, PolicyIsOfDurations
  <2>3. \A a \in Nat, b \in Nat \ {0} : a \div b \in Nat
    BY SMT
  <2> QED BY <2>1, <2>2, <2>3
<1> QED BY <1>1, <1>2, <1>3, PolicyIsOfDurations

(* What ensure_current leaves of the versions it found                     *)
Rotated(old, new) ==
  \A i \in DOMAIN old :
    /\ i \in DOMAIN new
    /\ old[i].state \in Settled => new[i] = old[i]
    /\ old[i].state = "active" =>
         \/ new[i] = old[i]
         \/ /\ mode = "automatic"
            /\ new[i].state = "retired"
            /\ new[i].activated = old[i].activated
            /\ new[i].retired = old[i].activated + Every

LEMMA EnsureRing ==
  ASSUME NEW r \in Ring, RingOK(r.versions), NEW at \in Int, NEW new,
         new = EnsureCurrent(r, at).ring.versions
  PROVE  RingOK(new) /\ Rotated(r.versions, new)
<1> DEFINE vs == r.versions
           active == InState(vs, "active")
           due == vs[Min(active)].activated + Every
           count == CutoversDue(due, at)
           next == due + count * Every
           caught == CatchUp(r, due, count, at)
<1>0. vs \in Seq(Version)
  BY DEF Ring
<1>1. EnsureCurrent(r, at) = IF mode # "automatic" \/ active = {} THEN Idle(r)
                             ELSE IF caught.failed \/ at >= next THEN caught
                             ELSE [caught EXCEPT !.ring = ExposePending(@, at, next)]
  BY DEF EnsureCurrent
<1>2. CASE mode # "automatic" \/ active = {}
  <2>1. new = vs
    BY <1>1, <1>2 DEF Idle
  <2> QED BY <2>1 DEF Rotated
<1>3. CASE mode = "automatic" /\ active # {}
  <2>1. PICK a \in DOMAIN vs : vs[a].state = "active"
    BY <1>3 DEF InState
  <2>2. active = {a}
    BY <2>1 DEF InState, RingOK
  <2>3. Min(active) = a
    <3>1. a \in Int
      BY <1>0
    <3> QED BY <2>2, <3>1 DEF Min
  <2>4. vs[a].activated \in Int /\ due = vs[a].activated + Every
    BY <2>1, <2>3 DEF RingOK
  <2>5. due \in Int
    BY <2>4, PolicyIsOfDurations
  <2> HIDE DEF due
  <2>6. count \in Nat
    BY <2>5, CutoversAreCounted
  <2> HIDE DEF count
  <2>7. CaughtUp(caught, r, due, count)
    BY <2>5, <2>6, CatchUpIsCaughtUp
  <2> HIDE DEF caught, next
  <2> DEFINE ring == caught.ring
  <2>8. /\ ring \in Ring /\ RingOK(ring.versions)
        /\ caught = [ring |-> ring, done |-> caught.done, failed |-> caught.failed]
    BY <2>7 DEF CaughtUp
  <2>9. Rotated(vs, ring.versions)
    <3>1. caught.done = 0 \/ caught.done > 0
      BY <2>7 DEF CaughtUp
    <3>2. CASE caught.done = 0
      <4>1. ring = r
        BY <3>2, <2>7 DEF CaughtUp
      <4> HIDE DEF ring
      <4> QED BY <4>1 DEF Rotated
    <3>3. CASE caught.done > 0
      <4>1. Retires(vs, ring.versions, due)
        BY <3>3, <2>7 DEF CaughtUp
      <4>2. \A i \in DOMAIN vs : vs[i].state = "active" => due = vs[i].activated + Every
        BY <2>1, <2>4 DEF RingOK
      <4> HIDE DEF ring
      <4> QED BY <4>1, <4>2, <1>3 DEF Rotated, Retires
    <3> QED BY <3>1, <3>2, <3>3
  <2>10. CASE caught.failed \/ at >= next
    <3>1. new = ring.versions
      BY <1>1, <1>3, <2>10
    <3> QED BY <3>1, <2>8, <2>9
  <2>11. CASE ~caught.failed /\ ~(at >= next)
    <3> DEFINE out == ExposePending(ring, at, next)
    <3>1. new = out.versions
      <4>1. EnsureCurrent(r, at) = [caught EXCEPT !.ring = ExposePending(@, at, next)]
        BY <1>1, <1>3, <2>11
      <4>2. EnsureCurrent(r, at).ring = out
        BY <4>1, <2>8
      <4> QED BY <4>2
    <3>2. /\ RingOK(out.versions)
          /\ \A i \in DOMAIN ring.versions :
               i \in DOMAIN out.versions /\ out.versions[i] = ring.versions[i]
      BY <2>8, ExposedRing
    <3> HIDE DEF out, ring
    <3>3. Rotated(vs, out.versions)
      BY <3>2, <2>9 DEF Rotated
    <3> QED BY <3>1, <3>2, <3>3
  <2> QED BY <2>10, <2>11
<1> QED BY <1>2, <1>3

-----------------------------------------------------------------------------
(* A token's version signs, or was retired no earlier than the token counts *)
(* as signed, or its operator took it away                                 *)
Held(t) ==
  /\ t.at \in Int /\ t.at <= now
  /\ t.version \in DOMAIN versions
  /\ \/ versions[t.version].state \in {"active", "revoked", "destroyed"}
     \/ versions[t.version].state = "retired" /\ Signed(t) <= versions[t.version].retired

KeyInv == now \in Int /\ RingOK(versions) /\ \A t \in tokens : Held(t)

LEMMA SetTimeStep ==
  ASSUME KeyInv, NEW to \in now .. MaxTime, NEW supply \in 0 .. MaxVersions, SetTime(to, supply)
  PROVE  KeyInv'
<1> DEFINE r == [versions |-> versions, supply |-> supply]
           new == EnsureCurrent(r, to).ring.versions
<1>1. to \in Int /\ now \in Int /\ now <= to
  BY RingBounds DEF KeyInv, SetTime
<1>2. r \in Ring /\ RingOK(r.versions) /\ r.versions = versions
  BY RingBounds DEF KeyInv, RingOK, Ring
<1>3. versions' = new /\ now' = to /\ tokens' = tokens /\ mode' = mode
  BY DEF SetTime
<1> HIDE DEF r
<1>4. RingOK(new) /\ Rotated(versions, new)
  BY <1>1, <1>2, EnsureRing
<1> HIDE DEF new
<1>5. RingOK(versions')
  BY <1>3, <1>4
<1>6. ASSUME NEW t \in tokens PROVE Held(t)'
  <2> DEFINE v == versions[t.version]
             w == new[t.version]
  <2>1. t.at \in Int /\ t.at <= now /\ t.version \in DOMAIN versions
    BY DEF KeyInv, Held
  <2>2. \/ v.state \in {"active", "revoked", "destroyed"}
        \/ v.state = "retired" /\ Signed(t) <= v.retired
    BY DEF KeyInv, Held
  <2>3. /\ t.version \in DOMAIN new
        /\ v.state \in Settled => w = v
        /\ v.state = "active" =>
             \/ w = v
             \/ /\ mode = "automatic" /\ w.state = "retired"
                /\ w.activated = v.activated /\ w.retired = v.activated + Every
    BY <2>1, <1>4 DEF Rotated
  <2>4. Signed(t) = IF mode = "automatic" /\ v.activated + Every < t.at THEN v.activated + Every ELSE t.at
    BY DEF Signed
  <2>5. Signed(t)' = IF mode = "automatic" /\ w.activated + Every < t.at THEN w.activated + Every ELSE t.at
    BY <1>3 DEF Signed
  <2>6. v.state \in {"active", "retired"} => v.activated \in Int
    BY <2>1 DEF KeyInv, RingOK
  <2>7. t.at <= to
    BY <1>1, <2>1
  <2> HIDE DEF v, w
  <2>8. w.state \in {"active", "revoked", "destroyed"} \/ (w.state = "retired" /\ Signed(t)' <= w.retired)
    BY <2>1, <2>2, <2>3, <2>4, <2>5, <2>6, PolicyIsOfDurations DEF Settled
  <2> QED BY <1>3, <2>1, <2>3, <2>7, <2>8 DEF Held, w
<1> QED BY <1>1, <1>3, <1>5, <1>6 DEF KeyInv

LEMMA BindActivateStep == ASSUME KeyInv, BindActivate PROVE KeyInv'
<1> DEFINE made == Append(versions, Fresh(now))
           new == Activate(made, Len(versions) + 1, now)
<1>1. now \in Int /\ RingOK(versions)
  BY DEF KeyInv
<1>2. versions \in Seq(Version) /\ DOMAIN versions = 1 .. Len(versions) /\ Len(versions) \in Nat
  BY <1>1 DEF RingOK
<1>3. /\ made \in Seq(Version) /\ DOMAIN made = 1 .. Len(versions) + 1
      /\ \A i \in DOMAIN versions : made[i] = versions[i]
      /\ made[Len(versions) + 1].state = "pending"
  BY <1>1, <1>2, FreshVersion
<1>4. versions' = new /\ now' = now /\ tokens' = tokens /\ mode' = mode
  BY DEF BindActivate
<1> HIDE DEF made
<1>5. PICK v \in DOMAIN made : v = Len(versions) + 1
  BY <1>2, <1>3
<1>6. \A i \in DOMAIN made : i # v => i \in DOMAIN versions /\ made[i] = versions[i]
  BY <1>2, <1>3, <1>5
<1>7. RingOK(new) /\ Retires(made, new, now)
  <2>1. made[v].state = "pending"
    BY <1>3, <1>5
  <2> QED BY <1>1, <1>3, <1>5, <1>6, <2>1, ActivatedRing DEF RingOK
<1> HIDE DEF new
<1>8. Retires(versions, new, now)
  BY <1>2, <1>3, <1>7 DEF Retires
<1>9. ASSUME NEW t \in tokens PROVE Held(t)'
  <2> DEFINE u == versions[t.version]
             w == new[t.version]
  <2>1. /\ t.at \in Int /\ t.at <= now /\ t.version \in DOMAIN versions
        /\ \/ u.state \in {"active", "revoked", "destroyed"}
           \/ u.state = "retired" /\ Signed(t) <= u.retired
    BY DEF KeyInv, Held
  <2>2. /\ t.version \in DOMAIN new
        /\ u.state \in Settled => w = u
        /\ u.state = "active" => /\ w.state = "retired" /\ w.retired = now
                                /\ w.activated = u.activated
    BY <2>1, <1>8 DEF Retires
  <2>3. Signed(t) = IF mode = "automatic" /\ u.activated + Every < t.at THEN u.activated + Every ELSE t.at
    BY DEF Signed
  <2>4. Signed(t)' = IF mode = "automatic" /\ w.activated + Every < t.at THEN w.activated + Every ELSE t.at
    BY <1>4 DEF Signed
  <2>5. u.state \in {"active", "retired"} => u.activated \in Int
    BY <2>1, <1>1 DEF RingOK
  <2> HIDE DEF u, w
  <2>6. w.state \in {"active", "revoked", "destroyed"} \/ (w.state = "retired" /\ Signed(t)' <= w.retired)
    BY <1>1, <2>1, <2>2, <2>3, <2>4, <2>5, PolicyIsOfDurations DEF Settled
  <2> QED BY <1>4, <2>1, <2>2, <2>6 DEF Held, w
<1> QED BY <1>1, <1>4, <1>7, <1>9 DEF KeyInv

(* Revoking and destroying take a version away for good                    *)
LEMMA TakenAway ==
  ASSUME KeyInv, NEW v \in DOMAIN versions, NEW s \in {"revoked", "destroyed"},
         versions' = [versions EXCEPT ![v].state = s], UNCHANGED <<mode, now, tokens>>
  PROVE  KeyInv'
<1>1. RingOK(versions) /\ versions \in Seq(Version)
  BY DEF KeyInv, RingOK
<1>2. \A i \in DOMAIN versions : versions[i] \in Version
  BY <1>1
<1>3. [versions[v] EXCEPT !.state = s] \in Version /\ [versions[v] EXCEPT !.state = s].state = s
  BY <1>2 DEF Version, VersionState
<1>4. /\ versions' \in Seq(Version) /\ DOMAIN versions' = DOMAIN versions
      /\ versions'[v].state = s
      /\ \A i \in DOMAIN versions : i # v => versions'[i] = versions[i]
  <2> DEFINE w == [versions[v] EXCEPT !.state = s]
  <2>1. versions' = [versions EXCEPT ![v] = w]
    OBVIOUS
  <2>2. w \in Version /\ w.state = s
    BY <1>3
  <2> HIDE DEF w
  <2> QED BY <1>1, <2>1, <2>2
<1>5. RingOK(versions')
  BY <1>1, <1>4 DEF RingOK
<1>6. ASSUME NEW t \in tokens PROVE Held(t)'
  <2>1. Held(t) /\ t.version \in DOMAIN versions
    BY DEF KeyInv, Held
  <2>2. CASE t.version = v
    BY <1>4, <2>1, <2>2 DEF Held
  <2>3. CASE t.version # v
    <3>1. versions'[t.version] = versions[t.version]
      BY <1>4, <2>1, <2>3
    <3>2. Signed(t)' = Signed(t)
      BY <3>1 DEF Signed
    <3> QED BY <1>4, <2>1, <3>1, <3>2 DEF Held
  <2> QED BY <2>2, <2>3
<1> QED BY <1>5, <1>6 DEF KeyInv

LEMMA SignStep == ASSUME KeyInv, Sign PROVE KeyInv'
<1>1. PICK v \in InState(versions, "active") : tokens' = tokens \cup {[version |-> v, at |-> now]}
  BY DEF Sign
<1>2. v \in DOMAIN versions /\ versions[v].state = "active"
  BY DEF InState
<1>3. now' = now /\ versions' = versions /\ mode' = mode
  BY DEF Sign
<1>4. ASSUME NEW t \in tokens' PROVE Held(t)'
  <2>1. CASE t \in tokens
    BY <2>1, <1>3 DEF KeyInv, Held, Signed
  <2>2. CASE t = [version |-> v, at |-> now]
    BY <2>2, <1>2, <1>3 DEF KeyInv, Held
  <2> QED BY <1>1, <2>1, <2>2
<1> QED BY <1>3, <1>4 DEF KeyInv

LEMMA KeyInit == RingInit => KeyInv
<1> SUFFICES ASSUME RingInit PROVE KeyInv
  OBVIOUS
<1>1. CASE versions = << >>
  <2>1. << >> \in Seq(Version) /\ DOMAIN << >> = {}
    OBVIOUS
  <2>2. RingOK(versions)
    BY <1>1, <2>1 DEF RingOK
  <2> QED BY <2>2 DEF RingInit, KeyInv
<1>2. CASE versions = Activate(<<Fresh(0)>>, 1, 0)
  <2> DEFINE vs == <<Fresh(0)>>
  <2>1. vs \in Seq(Version) /\ DOMAIN vs = {1} /\ vs[1].state = "pending"
    BY FreshVersion
  <2> HIDE DEF vs
  <2>2. RingOK(Activate(vs, 1, 0))
    BY <2>1, ActivatedRing
  <2> QED BY <1>2, <2>2 DEF RingInit, KeyInv, vs
<1> QED BY <1>1, <1>2 DEF RingInit

LEMMA KeyStep == KeyInv /\ [RingNext]_ringVars => KeyInv'
<1> SUFFICES ASSUME KeyInv, [RingNext]_ringVars PROVE KeyInv'
  OBVIOUS
<1>1. ASSUME NEW to \in now .. MaxTime, NEW supply \in 0 .. MaxVersions, SetTime(to, supply)
      PROVE  KeyInv'
  BY <1>1, SetTimeStep
<1>2. CASE BindActivate
  BY <1>2, BindActivateStep
<1>3. ASSUME NEW v \in DOMAIN versions, Revoke(v) PROVE KeyInv'
  BY <1>3, TakenAway DEF Revoke
<1>4. ASSUME NEW v \in DOMAIN versions, Destroy(v) PROVE KeyInv'
  BY <1>4, TakenAway DEF Destroy
<1>5. CASE Sign
  BY <1>5, SignStep
<1>6. CASE UNCHANGED ringVars
  BY <1>6 DEF ringVars, KeyInv, RingOK, Held, Signed
<1> QED BY <1>1, <1>2, <1>3, <1>4, <1>5, <1>6 DEF RingNext

(* However the host moves the clock and the provider fails, a ring has one *)
(* signing version at most, and the version of a token it once signed      *)
(* signs still, was retired no earlier than the token counts as signed, or *)
(* was revoked or destroyed (keyring.rs rotate, ensure_current).           *)
THEOREM KeyringInvariant == RingSpec => []KeyInv
BY KeyInit, KeyStep, PTL DEF RingSpec

(* For every rotation and retention policy, every jump of the clock and    *)
(* every failure of the provider: a token verifies for $retain after it    *)
(* counts as signed, unless its version is revoked or destroyed            *)
(* (keyring.rs is_accepted).                                               *)
THEOREM TokensOutliveRotations == RingSpec => []TokensOutliveRotation
<1>1. KeyInv => TokensOutliveRotation
  <2> SUFFICES ASSUME KeyInv, NEW t \in tokens,
                      versions[t.version].state \notin {"revoked", "destroyed"},
                      now < Signed(t) + Retain
               PROVE  Accepted(t.version)
    BY DEF TokensOutliveRotation
  <2>1. now \in Int /\ t.at \in Int /\ t.version \in DOMAIN versions
    BY DEF KeyInv, Held
  <2>2. CASE versions[t.version].state = "active"
    BY <2>2 DEF Accepted
  <2>3. CASE versions[t.version].state = "retired"
    <3>1. versions[t.version].retired \in Int /\ versions[t.version].activated \in Int
      BY <2>1, <2>3 DEF KeyInv, RingOK
    <3>2. Signed(t) <= versions[t.version].retired
      BY <2>3 DEF KeyInv, Held
    <3>3. Signed(t) \in Int
      BY <2>1, <3>1, PolicyIsOfDurations DEF Signed
    <3> QED BY <2>1, <2>3, <3>1, <3>2, <3>3, PolicyIsOfDurations DEF Accepted
  <2> QED BY <2>2, <2>3 DEF KeyInv, Held
<1> QED BY <1>1, KeyringInvariant, PTL

-----------------------------------------------------------------------------
(* The contracts of releases: what one release owes the clients of an      *)
(* earlier one is what the releases in between did not narrow, one after   *)
(* the other; none narrows itself.                                         *)

LEMMA ParamsStayUpheld ==
  ASSUME NEW first, NEW since, NEW mid \in since, NEW cand,
         ParamsUpheld(first, since, mid), ~ParamsNarrow(mid, cand)
  PROVE  ParamsUpheld(first, since \cup {cand}, cand)
<1> SUFFICES ASSUME NEW q \in DOMAIN cand
             PROVE  /\ cand[q].required => q \in DOMAIN first /\ first[q].required
                    /\ (\A params \in since \cup {cand} : q \in DOMAIN params)
                         => ~InputNarrows(first[q].type, cand[q].type)
  BY DEF ParamsUpheld
<1>1. cand[q].required => q \in DOMAIN first /\ first[q].required
  <2> SUFFICES ASSUME cand[q].required PROVE q \in DOMAIN first /\ first[q].required
    OBVIOUS
  <2>1. q \in DOMAIN mid /\ mid[q].required
    BY DEF ParamsNarrow
  <2> QED BY <2>1 DEF ParamsUpheld
<1>2. ASSUME \A params \in since : q \in DOMAIN params
      PROVE  ~InputNarrows(first[q].type, cand[q].type)
  <2>1. q \in DOMAIN mid
    BY <1>2
  <2>2. ~InputNarrows(first[q].type, mid[q].type)
    BY <1>2, <2>1 DEF ParamsUpheld
  <2>3. ~InputNarrows(mid[q].type, cand[q].type)
    BY <2>1 DEF ParamsNarrow
  <2> QED BY <2>2, <2>3 DEF InputNarrows
<1> QED BY <1>1, <1>2

LEMMA OutputsNarrowInTurn ==
  ASSUME NEW s, NEW t, NEW u, ~OutputNarrows(s, t), ~OutputNarrows(t, u)
  PROVE  ~OutputNarrows(s, u)
BY DEF OutputNarrows

LEMMA ProjectionsNarrowInTurn ==
  ASSUME NEW s, NEW t, NEW u, ~ProjectionNarrows(s, t), ~ProjectionNarrows(t, u)
  PROVE  ~ProjectionNarrows(s, u)
<1>1. ASSUME NEW m \in DOMAIN s PROVE m \in DOMAIN u /\ ~OutputNarrows(s[m], u[m])
  <2>1. m \in DOMAIN t /\ ~OutputNarrows(s[m], t[m])
    BY DEF ProjectionNarrows
  <2>2. m \in DOMAIN u /\ ~OutputNarrows(t[m], u[m])
    BY <2>1 DEF ProjectionNarrows
  <2> QED BY <2>1, <2>2, OutputsNarrowInTurn
<1> QED BY <1>1 DEF ProjectionNarrows

LEMMA KeysNarrowInTurn ==
  ASSUME NEW s, NEW t, NEW u, ~KeyNarrows(s, t), ~KeyNarrows(t, u)
  PROVE  ~KeyNarrows(s, u)
<1>1. DOMAIN s = DOMAIN t /\ DOMAIN t = DOMAIN u
  BY DEF KeyNarrows
<1>2. ASSUME NEW k \in DOMAIN s PROVE u[k][1] = s[k][1] /\ ~OutputNarrows(s[k][2], u[k][2])
  <2>1. t[k][1] = s[k][1] /\ ~OutputNarrows(s[k][2], t[k][2])
    BY DEF KeyNarrows
  <2>2. u[k][1] = t[k][1] /\ ~OutputNarrows(t[k][2], u[k][2])
    BY <1>1 DEF KeyNarrows
  <2> QED BY <2>1, <2>2, OutputsNarrowInTurn
<1> QED BY <1>1, <1>2 DEF KeyNarrows

LEMMA OutputStaysUpheld ==
  ASSUME NEW first, NEW since, NEW mid \in since, NEW cand, mid # Nothing,
         OutputUpheld(first, since, mid), ~OutputsNarrow(mid, cand)
  PROVE  cand # Nothing /\ OutputUpheld(first, since \cup {cand}, cand)
<1>1. cand # Nothing /\ ~ProjectionNarrows(mid.members, cand.members)
  BY DEF OutputsNarrow
<1>2. ~ProjectionNarrows(first.members, cand.members)
  BY <1>1, ProjectionsNarrowInTurn DEF OutputUpheld
<1>3. ASSUME \A out \in since \cup {cand} : out.identity # Nothing
      PROVE  ~KeyNarrows(first.identity, cand.identity)
  <2>1. mid.identity # Nothing /\ cand.identity # Nothing /\ ~KeyNarrows(first.identity, mid.identity)
    BY <1>3 DEF OutputUpheld
  <2>2. ~KeyNarrows(mid.identity, cand.identity)
    BY <2>1 DEF OutputsNarrow
  <2> QED BY <2>1, <2>2, KeysNarrowInTurn
<1>4. ASSUME \A out \in since \cup {cand} : out.ordering # Nothing
      PROVE  cand.ordering = first.ordering
  <2>1. mid.ordering # Nothing /\ cand.ordering # Nothing /\ mid.ordering = first.ordering
    BY <1>4 DEF OutputUpheld
  <2> QED BY <2>1 DEF OutputsNarrow
<1> QED BY <1>1, <1>2, <1>3, <1>4 DEF OutputUpheld

LEMMA OperationStaysUpheld ==
  ASSUME NEW first, NEW since, NEW mid \in since, NEW cand,
         OperationUpheld(first, since, mid), ~OperationNarrows(mid, cand)
  PROVE  OperationUpheld(first, since \cup {cand}, cand)
<1> DEFINE asked == {op.params : op \in since}
<1>1. ParamsUpheld(first.params, asked \cup {cand.params}, cand.params)
  <2>1. mid.params \in asked
    OBVIOUS
  <2>2. ParamsUpheld(first.params, asked, mid.params) /\ ~ParamsNarrow(mid.params, cand.params)
    BY DEF OperationUpheld, OperationNarrows
  <2> HIDE DEF asked
  <2> QED BY <2>1, <2>2, ParamsStayUpheld
<1>2. asked \cup {cand.params} = {op.params : op \in since \cup {cand}}
  OBVIOUS
<1>3. ASSUME \A op \in since \cup {cand} : op.response # Nothing
      PROVE  ~ProjectionNarrows(first.response, cand.response)
  <2>1. mid.response # Nothing /\ cand.response # Nothing /\ ~ProjectionNarrows(first.response, mid.response)
    BY <1>3 DEF OperationUpheld
  <2>2. ~ProjectionNarrows(mid.response, cand.response)
    BY <2>1 DEF OperationNarrows
  <2> QED BY <2>1, <2>2, ProjectionsNarrowInTurn
<1> QED BY <1>1, <1>2, <1>3 DEF OperationUpheld

LEMMA SurfaceStaysUpheld ==
  ASSUME NEW first, NEW since, NEW mid \in since, NEW cand,
         SurfaceUpheld(first, since, mid), ~SurfaceNarrows(mid, cand)
  PROVE  SurfaceUpheld(first, since \cup {cand}, cand)
<1> DEFINE outputs == {s.output : s \in since}
           asked == {s.params : s \in since}
           ops(o) == {s.operations[o] : s \in since}
<1>1. /\ outputs \cup {cand.output} = {s.output : s \in since \cup {cand}}
      /\ asked \cup {cand.params} = {s.params : s \in since \cup {cand}}
      /\ \A o : ops(o) \cup {cand.operations[o]} = {s.operations[o] : s \in since \cup {cand}}
  OBVIOUS
<1>2. mid.output \in outputs /\ mid.params \in asked /\ \A o : mid.operations[o] \in ops(o)
  OBVIOUS
<1>3. /\ first.output # Nothing =>
           mid.output # Nothing /\ OutputUpheld(first.output, outputs, mid.output)
      /\ ParamsUpheld(first.params, asked, mid.params)
      /\ \A o \in DOMAIN first.operations :
           /\ o \in DOMAIN mid.operations
           /\ OperationUpheld(first.operations[o], ops(o), mid.operations[o])
  BY DEF SurfaceUpheld
<1>4. /\ ~OutputsNarrow(mid.output, cand.output)
      /\ ~ParamsNarrow(mid.params, cand.params)
      /\ \A o \in DOMAIN mid.operations :
           o \in DOMAIN cand.operations /\ ~OperationNarrows(mid.operations[o], cand.operations[o])
  BY DEF SurfaceNarrows
<1> HIDE DEF outputs, asked, ops
<1>5. first.output # Nothing =>
        cand.output # Nothing /\ OutputUpheld(first.output, outputs \cup {cand.output}, cand.output)
  BY <1>2, <1>3, <1>4, OutputStaysUpheld
<1>6. ParamsUpheld(first.params, asked \cup {cand.params}, cand.params)
  BY <1>2, <1>3, <1>4, ParamsStayUpheld
<1>7. ASSUME NEW o \in DOMAIN first.operations
      PROVE  /\ o \in DOMAIN cand.operations
             /\ OperationUpheld(first.operations[o], ops(o) \cup {cand.operations[o]}, cand.operations[o])
  BY <1>2, <1>3, <1>4, OperationStaysUpheld
<1> QED BY <1>1, <1>5, <1>6, <1>7 DEF SurfaceUpheld

(* A release that does not narrow the one before it owes no more to anyone *)
LEMMA BoundaryStaysUpheld ==
  ASSUME NEW first, NEW since, NEW mid \in since, NEW cand,
         BoundaryUpheld(first, since, mid), ~BoundaryNarrows(mid, cand)
  PROVE  BoundaryUpheld(first, since \cup {cand}, cand)
<1> SUFFICES ASSUME NEW a \in DOMAIN first
             PROVE  a \in DOMAIN cand /\ SurfaceUpheld(first[a], {b[a] : b \in since \cup {cand}}, cand[a])
  BY DEF BoundaryUpheld
<1> DEFINE at == {b[a] : b \in since}
<1>1. a \in DOMAIN mid /\ SurfaceUpheld(first[a], at, mid[a])
  BY DEF BoundaryUpheld
<1>2. a \in DOMAIN cand /\ ~SurfaceNarrows(mid[a], cand[a])
  BY <1>1 DEF BoundaryNarrows
<1>3. mid[a] \in at /\ at \cup {cand[a]} = {b[a] : b \in since \cup {cand}}
  OBVIOUS
<1> HIDE DEF at
<1>4. SurfaceUpheld(first[a], at \cup {cand[a]}, cand[a])
  BY <1>1, <1>2, <1>3, SurfaceStaysUpheld
<1> QED BY <1>2, <1>3, <1>4

LEMMA NothingNarrowsItself ==
  /\ \A s : ~ProjectionNarrows(s, s)
  /\ \A s : ~KeyNarrows(s, s)
  /\ \A s, since : s \in since => ParamsUpheld(s, since, s)
BY DEF ProjectionNarrows, KeyNarrows, OutputNarrows, ParamsUpheld, InputNarrows

LEMMA EveryReleaseUpholdsItself ==
  ASSUME NEW b PROVE BoundaryUpheld(b, {b}, b)
<1>1. ASSUME NEW s, NEW since, s \in since PROVE OutputUpheld(s, since, s)
  BY NothingNarrowsItself DEF OutputUpheld
<1>2. ASSUME NEW s, NEW since, s \in since PROVE OperationUpheld(s, since, s)
  <2>1. s.params \in {op.params : op \in since}
    BY <1>2
  <2> QED BY <2>1, NothingNarrowsItself DEF OperationUpheld
<1>3. ASSUME NEW s, NEW since, s \in since PROVE SurfaceUpheld(s, since, s)
  <2>1. /\ s.output \in {t.output : t \in since} /\ s.params \in {t.params : t \in since}
        /\ \A o : s.operations[o] \in {t.operations[o] : t \in since}
    BY <1>3
  <2>2. \A t, u : t \in u => ParamsUpheld(t, u, t)
    BY NothingNarrowsItself
  <2>3. \A t, u : t \in u => OutputUpheld(t, u, t)
    BY <1>1
  <2>4. \A t, u : t \in u => OperationUpheld(t, u, t)
    BY <1>2
  <2> QED BY <2>1, <2>2, <2>3, <2>4 DEF SurfaceUpheld
<1>4. \A a : b[a] \in {c[a] : c \in {b}}
  OBVIOUS
<1>5. \A t, u : t \in u => SurfaceUpheld(t, u, t)
  BY <1>3
<1> QED BY <1>4, <1>5 DEF BoundaryUpheld

-----------------------------------------------------------------------------
(* The module host: an interface only widens from release to release of an *)
(* instance, its surfaces serve the clients of the releases before, what   *)
(* its views read is a handle it has, and a handle knows which instance,   *)
(* at which release, it was resolved to.                                   *)

IsChild(c) ==
  c = [space |-> c.space, name |-> c.name, inc |-> c.inc,
       releases |-> c.releases, enabled |-> c.enabled, peers |-> c.peers]

(* What an interface of release j is at release k of the same instance     *)
Widened(releases, i, j, k) ==
  /\ Exposed(releases[k], i)
  /\ DOMAIN Binds(releases[j], i) \subseteq DOMAIN Binds(releases[k], i)
  /\ \/ \E m \in j..k : PassesThrough(releases[m], i)
     \/ Names(releases[j], i) \subseteq Names(releases[k], i)

Widening(releases) ==
  \A i \in Interface : \A k \in 1..Len(releases) : \A j \in 1..k :
    Exposed(releases[j], i) => Widened(releases, i, j, k)

Serving(releases) == \A k \in 1..Len(releases) : Forward(releases, k) => Served(releases, k)

(* What the views of an instance read is offered by the row, or is a peer  *)
OfferedHandles(p) == {h \in DOMAIN Parents(p) : Parents(p)[h] \in Offered}

ReadsHandles(c) ==
  \A i \in Interface : Reads(Running(c), i) \subseteq OfferedHandles(c.releases[1]) \cup DOMAIN c.peers

WellHosted(c) ==
  /\ IsChild(c)
  /\ c.inc \in minted
  /\ c.releases \in Seq(Package)
  /\ Len(c.releases) \in Nat \ {0}
  /\ Widening(c.releases)
  /\ Serving(c.releases)
  /\ ReadsHandles(c)

(* A peer that is bound names an interface that could be read of its       *)
(* instance at the release the handle was resolved at                      *)
ResolvedOn(peer, d) ==
  /\ peer.was.at <= Len(d.releases)
  /\ Readable(d.releases[peer.was.at], peer.interface)

WellBound(peer) ==
  peer.to # Nothing =>
    /\ peer.interface \in Interface
    /\ peer.was.inc \in minted
    /\ peer.was.at \in Nat \ {0}
    /\ \A d \in children : d.inc = peer.was.inc => ResolvedOn(peer, d)

Bindings(c) == \A h \in DOMAIN c.peers : WellBound(c.peers[h])

MintedInOrder == IsFiniteSet(minted) /\ \A m \in minted : m[3] \in Nat /\ m[3] < Cardinality(minted)

HostInv ==
  /\ MintedInOrder
  /\ \A c \in children : WellHosted(c)
  /\ \A c, d \in children : c.inc = d.inc => c = d
  /\ \A c, d \in children : c.space = d.space /\ c.name = d.name => c = d
  /\ \A c \in children : Bindings(c)

PackagesAreWellFormed == NeedsAreInterfaces /\ ViewsAreExposed

(* What the instance of a handle has kept since the handle was resolved    *)
StillKeeps(peer, d) ==
  LET i == peer.interface  then == d.releases[peer.was.at]
  IN /\ d \in children /\ i \in Interface /\ Readable(then, i)
     /\ Exposed(Running(d), i)
     /\ DOMAIN Binds(then, i) \subseteq DOMAIN Binds(Running(d), i)
     /\ \/ \E p \in Since(peer.was, d) : PassesThrough(p, i)
        \/ Names(then, i) \subseteq Names(Running(d), i)
     /\ then \in Since(peer.was, d)

LEMMA ResolvedWidens ==
  ASSUME HostInv, PackagesAreWellFormed,
         NEW c \in children, NEW h \in DOMAIN c.peers, NEW d \in Resolved(c, h)
  PROVE  StillKeeps(c.peers[h], d)
<1> DEFINE peer == c.peers[h]
           at == peer.was.at
           k == Len(d.releases)
<1>1. peer.to # Nothing /\ d \in children /\ d.inc = peer.was.inc
  BY DEF Resolved, Reached, At
<1>2. WellBound(peer)
  BY DEF HostInv, Bindings
<1>3. peer.interface \in Interface /\ at \in Nat \ {0} /\ ResolvedOn(peer, d)
  BY <1>1, <1>2 DEF WellBound
<1>4. at <= k /\ Readable(d.releases[at], peer.interface)
  BY <1>3 DEF ResolvedOn
<1>5. /\ k \in Nat \ {0} /\ Running(d) = d.releases[k] /\ Widening(d.releases)
      /\ d.releases \in Seq(Package)
  BY <1>1 DEF HostInv, WellHosted, Running
<1>6. k \in 1..k /\ at \in 1..k /\ at \in at..k /\ d.releases[at] \in Package
  BY <1>3, <1>4, <1>5
<1>7. Exposed(d.releases[at], peer.interface)
  BY <1>3, <1>4, <1>6 DEF PackagesAreWellFormed, ViewsAreExposed
<1>8. Widened(d.releases, peer.interface, at, k)
  BY <1>3, <1>5, <1>6, <1>7 DEF Widening
<1>9. d.releases[at] \in Since(peer.was, d)
  BY <1>6 DEF Since
<1>10. (\E m \in at..k : PassesThrough(d.releases[m], peer.interface))
         => \E p \in Since(peer.was, d) : PassesThrough(p, peer.interface)
  BY DEF Since
<1>11. /\ Exposed(Running(d), peer.interface)
       /\ DOMAIN Binds(d.releases[at], peer.interface) \subseteq DOMAIN Binds(Running(d), peer.interface)
       /\ \/ \E m \in at..k : PassesThrough(d.releases[m], peer.interface)
          \/ Names(d.releases[at], peer.interface) \subseteq Names(Running(d), peer.interface)
  BY <1>5, <1>8 DEF Widened
<1> HIDE DEF peer
<1>12. \/ \E p \in Since(peer.was, d) : PassesThrough(p, peer.interface)
       \/ Names(d.releases[at], peer.interface) \subseteq Names(Running(d), peer.interface)
  <2>1. CASE \E m \in at..k : PassesThrough(d.releases[m], peer.interface)
    BY <1>10, <2>1
  <2> QED BY <1>11, <2>1
<1>13. StillKeeps(peer, d)
  BY <1>1, <1>3, <1>4, <1>9, <1>11, <1>12 DEF StillKeeps
<1> QED BY <1>13 DEF peer

LEMMA HostedKeepFields == PackagesAreWellFormed /\ HostInv => PeersKeepTheirFields
BY ResolvedWidens DEF PeersKeepTheirFields, StillKeeps

LEMMA HostedServe == HostInv => ClientsAreServed
<1> SUFFICES ASSUME HostInv, NEW c \in children, NEW k \in DOMAIN c.releases, Forward(c.releases, k)
             PROVE  Served(c.releases, k)
  BY DEF ClientsAreServed
<1>1. c.releases \in Seq(Package) /\ Serving(c.releases)
  BY DEF HostInv, WellHosted
<1>2. k \in 1..Len(c.releases)
  BY <1>1
<1> QED BY <1>1, <1>2 DEF Serving

(* A fault is a handle that is not bound: the row is gone, or a required   *)
(* peer is not what it was resolved to, or reads a peer itself             *)
LEMMA HostedFaults == PackagesAreWellFormed /\ HostInv => FaultsHaveAReason
<1> SUFFICES ASSUME PackagesAreWellFormed, HostInv, NEW c \in children, NEW i \in Interface,
                    InterfaceRead(c, i) = "fault", c.space \in containing,
                    \A h \in DOMAIN c.peers : ~c.peers[h].optional => Resolved(c, h) # {},
                    \A h \in DOMAIN c.peers : ~c.peers[h].optional =>
                      \A d \in Resolved(c, h) : \A p \in Since(c.peers[h].was, d) :
                        ~Opaque(p, c.peers[h].interface)
             PROVE  \E h \in DOMAIN c.peers :
                      /\ ~c.peers[h].optional
                      /\ \E d \in Resolved(c, h) : Reads(Running(d), c.peers[h].interface) \cap DOMAIN d.peers # {}
  BY DEF FaultsHaveAReason
<1>1. ImportsFault(c) \/ ~(Reads(Running(c), i) \subseteq Handles(c))
  BY DEF InterfaceRead, ReadThrough
<1>2. \A d \in children : ReadsHandles(d)
  BY DEF HostInv, WellHosted
<1>3. \A p : ParentHandles(p, c.space) = OfferedHandles(p)
  BY DEF ParentHandles, OfferedHandles
<1>4. ASSUME NEW h \in DOMAIN c.peers, ~c.peers[h].optional, NEW d \in Reached(c, h)
      PROVE  d \in Resolved(c, h) /\ d \in children /\ d.space = c.space
  <2>1. PICK e \in Resolved(c, h) : TRUE
    BY <1>4
  <2>2. e \in Reached(c, h)
    BY DEF Resolved
  <2>3. d \in At(c.space, c.peers[h].to) /\ e \in At(c.space, c.peers[h].to)
    BY <1>4, <2>2 DEF Reached
  <2>4. d = e
    BY <2>3 DEF At, HostInv
  <2> QED BY <2>1, <2>3, <2>4 DEF At
<1>5. CASE ImportsFault(c)
  <2>1. PICK h \in DOMAIN c.peers : ~c.peers[h].optional /\ \E d \in Reached(c, h) :
          ~(Reads(Running(d), c.peers[h].interface) \subseteq ParentHandles(d.releases[1], d.space))
    BY <1>5 DEF ImportsFault
  <2>2. PICK d \in Reached(c, h) :
          ~(Reads(Running(d), c.peers[h].interface) \subseteq ParentHandles(d.releases[1], d.space))
    BY <2>1
  <2>3. d \in Resolved(c, h) /\ d \in children /\ d.space = c.space
    BY <1>4, <2>1
  <2>4. c.peers[h].interface \in Interface
    BY <2>3, ResolvedWidens DEF StillKeeps
  <2>5. Reads(Running(d), c.peers[h].interface) \subseteq OfferedHandles(d.releases[1]) \cup DOMAIN d.peers
    BY <1>2, <2>3, <2>4 DEF ReadsHandles
  <2>6. ~(Reads(Running(d), c.peers[h].interface) \subseteq OfferedHandles(d.releases[1]))
    BY <1>3, <2>2, <2>3
  <2> QED BY <2>1, <2>3, <2>5, <2>6
<1>6. CASE ~(Reads(Running(c), i) \subseteq Handles(c))
  <2>1. PICK h \in Reads(Running(c), i) : h \notin Handles(c)
    BY <1>6
  <2>2. h \notin OfferedHandles(c.releases[1]) /\ h \notin PeerHandles(c)
    BY <1>3, <2>1 DEF Handles
  <2>3. h \in DOMAIN c.peers
    BY <1>2, <2>1, <2>2 DEF ReadsHandles
  <2> DEFINE via == c.peers[h].interface
  <2>4. ~c.peers[h].optional /\ \A d \in Reached(c, h) : ~Readable(Running(d), via)
    BY <2>2, <2>3 DEF PeerHandles
  <2>5. PICK d \in Resolved(c, h) : TRUE
    BY <2>3, <2>4
  <2>6. d \in Reached(c, h)
    BY DEF Resolved
  <2> DEFINE then == d.releases[c.peers[h].was.at]
  <2>7. /\ Readable(then, via) /\ then \in Since(c.peers[h].was, d)
        /\ \/ \E p \in Since(c.peers[h].was, d) : PassesThrough(p, via)
           \/ Names(then, via) \subseteq Names(Running(d), via)
    BY <2>3, <2>5, ResolvedWidens DEF StillKeeps
  <2>8. \A p \in Since(c.peers[h].was, d) : ~PassesThrough(p, via) /\ View(p, via) # {}
    BY <2>3, <2>4, <2>5 DEF Opaque
  <2>9. Names(Running(d), via) = {}
    BY <2>4, <2>6 DEF Names
  <2>10. Names(then, via) # {}
    BY <2>7, <2>8 DEF Names
  <2> QED BY <2>7, <2>8, <2>9, <2>10
<1> QED BY <1>1, <1>5, <1>6

LEMMA OneReleaseWidens ==
  ASSUME NEW p \in Package
  PROVE  <<p>> \in Seq(Package) /\ Len(<<p>>) = 1 /\ <<p>>[1] = p /\ Widening(<<p>>) /\ Serving(<<p>>)
<1>1. <<p>> \in Seq(Package) /\ Len(<<p>>) = 1 /\ <<p>>[1] = p
  OBVIOUS
<1> DEFINE r == <<p>>
<1>2. Len(r) = 1 /\ 1..1 = {1}
  BY <1>1
<1> HIDE DEF r
<1>3. ASSUME NEW i \in Interface, Exposed(r[1], i) PROVE Widened(r, i, 1, 1)
  BY <1>3 DEF Widened
<1>4. Widening(r)
  BY <1>2, <1>3 DEF Widening
<1>5. Serving(r)
  <2>1. {Promised[r[j]] : j \in 1..1} = {Promised[r[1]]}
    BY <1>2
  <2>2. Served(r, 1)
    BY <1>2, <2>1, EveryReleaseUpholdsItself DEF Served
  <2> QED BY <1>2, <2>2 DEF Serving
<1> QED BY <1>1, <1>4, <1>5 DEF r

(* An update that is not refused widens every interface once more          *)
LEMMA UpdatesWiden ==
  ASSUME NEW r \in Seq(Package), Len(r) \in Nat \ {0}, Widening(r), NEW p \in Package,
         ~ExposedNarrowing(r[Len(r)], p)
  PROVE  /\ Append(r, p) \in Seq(Package) /\ Len(Append(r, p)) = Len(r) + 1
         /\ Append(r, p)[Len(r) + 1] = p
         /\ \A k \in 1..Len(r) : Append(r, p)[k] = r[k]
         /\ Widening(Append(r, p))
<1> DEFINE s == Append(r, p)
           n == Len(r)
           l == n + 1
<1>1. s \in Seq(Package) /\ Len(s) = l /\ s[l] = p /\ \A k \in 1..n : s[k] = r[k]
  OBVIOUS
<1>2. n \in Nat \ {0} /\ l = n + 1
  OBVIOUS
<1>3. ~ExposedNarrowing(r[n], p)
  OBVIOUS
<1> HIDE DEF s, n, l
<1>4. ASSUME NEW i \in Interface, NEW k \in 1..Len(s), NEW j \in 1..k, Exposed(s[j], i)
      PROVE  Widened(s, i, j, k)
  <2>1. CASE k \in 1..n
    <3>1. j \in 1..n /\ s[j] = r[j] /\ s[k] = r[k] /\ \A m \in j..k : m \in 1..n /\ s[m] = r[m]
      BY <1>1, <1>2, <2>1
    <3>2. Widened(r, i, j, k)
      BY <1>4, <2>1, <3>1 DEF Widening, n
    <3> QED BY <3>1, <3>2 DEF Widened
  <2>2. CASE k = l /\ j = l
    BY <1>2, <1>4, <2>2 DEF Widened
  <2>3. CASE k = l /\ j \in 1..n
    <3>1. n \in 1..n /\ s[j] = r[j] /\ s[n] = r[n] /\ s[k] = p /\ Exposed(r[j], i)
      BY <1>1, <1>2, <1>4, <2>3
    <3>2. Widened(r, i, j, n)
      BY <2>3, <3>1 DEF Widening, n
    <3>3. Exposed(r[n], i)
      BY <3>2 DEF Widened
    <3>4. Exposed(p, i) /\ ~Drops(r[n], p, i) /\ ~Unbinds(r[n], p, i)
      BY <1>3, <3>3 DEF ExposedNarrowing
    <3>11. DOMAIN Binds(r[j], i) \subseteq DOMAIN Binds(p, i)
      BY <3>2, <3>4 DEF Widened, Unbinds
    <3>5. ASSUME NEW m \in j..n, PassesThrough(r[m], i)
          PROVE  \E q \in j..k : PassesThrough(s[q], i)
      <4>1. m \in j..k /\ s[m] = r[m]
        BY <1>1, <1>2, <2>3, <3>5
      <4> QED BY <3>5, <4>1
    <3>6. n \in j..k /\ k \in j..k
      BY <1>2, <2>3
    <3>7. CASE PassesThrough(r[n], i) \/ PassesThrough(p, i)
      BY <3>1, <3>4, <3>6, <3>7, <3>11 DEF Widened
    <3>8. CASE ~PassesThrough(r[n], i) /\ ~PassesThrough(p, i)
      <4>1. Names(r[n], i) \subseteq Names(p, i)
        BY <3>4, <3>8 DEF Drops
      <4>2. CASE \E m \in j..n : PassesThrough(r[m], i)
        BY <3>1, <3>4, <3>5, <3>11, <4>2 DEF Widened
      <4>3. CASE Names(r[j], i) \subseteq Names(r[n], i)
        <5>1. Names(s[j], i) \subseteq Names(s[k], i)
          BY <3>1, <4>1, <4>3
        <5> QED BY <3>1, <3>4, <3>11, <5>1 DEF Widened
      <4> QED BY <3>2, <4>2, <4>3 DEF Widened
    <3> QED BY <3>7, <3>8
  <2> QED BY <1>1, <1>2, <2>1, <2>2, <2>3
<1>5. Widening(s)
  BY <1>4 DEF Widening
<1> QED BY <1>1, <1>5 DEF s, n, l

(* An update that may not narrow and does not serves every earlier client  *)
LEMMA UpdatesServe ==
  ASSUME NEW r \in Seq(Package), Len(r) \in Nat \ {0}, Serving(r), NEW p \in Package,
         RequiresNonNarrowing(r[Len(r)], p) => ~BoundaryNarrows(Promised[r[Len(r)]], Promised[p])
  PROVE  Serving(Append(r, p))
<1> DEFINE s == Append(r, p)
           n == Len(r)
           l == n + 1
<1>1. s \in Seq(Package) /\ Len(s) = l /\ s[l] = p /\ \A k \in 1..n : s[k] = r[k]
  OBVIOUS
<1>2. n \in Nat \ {0} /\ l = n + 1 /\ l - 1 = n /\ Len(r) = n
  OBVIOUS
<1>3. RequiresNonNarrowing(r[n], p) => ~BoundaryNarrows(Promised[r[n]], Promised[p])
  OBVIOUS
<1> HIDE DEF s, n, l
<1>4. ASSUME NEW k \in 1..n, Forward(s, k) PROVE Served(s, k)
  <2>1. k..n = {j \in 1..n : k <= j} /\ n \in k..n /\ n \in 1..n /\ k..l = (k..n) \cup {l}
    BY <1>2
  <2>2. \A j \in k..n : RequiresNonNarrowing(s[j], s[j + 1])
    BY <1>1, <1>2, <1>4 DEF Forward
  <2>3. RequiresNonNarrowing(r[n], p)
    BY <1>1, <1>2, <2>1, <2>2
  <2>4. \A j \in k..(n - 1) : RequiresNonNarrowing(r[j], r[j + 1])
    <3>1. ASSUME NEW j \in k..(n - 1) PROVE j \in k..n /\ s[j] = r[j] /\ s[j + 1] = r[j + 1]
      BY <1>1, <1>2, <3>1
    <3> QED BY <2>2, <3>1
  <2>5. Served(r, k)
    BY <1>2, <2>4 DEF Serving, Forward
  <2> DEFINE since == {Promised[r[j]] : j \in k..n}
             first == Promised[r[k]]
             mid == Promised[r[n]]
             cand == Promised[p]
  <2>6. mid \in since
    BY <2>1
  <2>7. since \cup {cand} = {Promised[s[j]] : j \in k..l}
    <3>1. \A j \in k..n : s[j] = r[j]
      BY <1>1, <2>1
    <3> QED BY <1>1, <2>1, <3>1
  <2>8. BoundaryUpheld(first, since, mid)
    BY <1>2, <2>5 DEF Served
  <2>9. ~BoundaryNarrows(mid, cand) /\ first = Promised[s[k]] /\ cand = Promised[s[l]]
    BY <1>1, <1>3, <2>3
  <2> HIDE DEF since, first, mid, cand
  <2>10. BoundaryUpheld(first, since \cup {cand}, cand)
    BY <2>6, <2>8, <2>9, BoundaryStaysUpheld
  <2> QED BY <1>1, <2>7, <2>9, <2>10 DEF Served
<1>5. Served(s, l)
  <2>1. {Promised[s[j]] : j \in l..l} = {Promised[s[l]]}
    BY <1>2
  <2> QED BY <1>1, <2>1, EveryReleaseUpholdsItself DEF Served
<1>6. 1..l = (1..n) \cup {l}
  BY <1>2
<1> QED BY <1>1, <1>4, <1>5, <1>6 DEF Serving, s

(* An instance that stays the one it was, whatever else changes of it      *)
LEMMA InstanceChanges ==
  ASSUME HostInv, NEW c \in children, NEW d, Becomes(c, d),
         IsChild(d), d.inc = c.inc, d.peers = c.peers, d.space = c.space,
         d.name = c.name \/ At(c.space, d.name) = {},
         d.releases \in Seq(Package), Len(d.releases) \in Nat \ {0},
         Widening(d.releases), Serving(d.releases), ReadsHandles(d),
         Len(c.releases) <= Len(d.releases),
         \A k \in 1..Len(c.releases) : d.releases[k] = c.releases[k]
  PROVE  HostInv'
<1>1. children' = (children \ {c}) \cup {d} /\ minted' = minted
  BY DEF Becomes
<1>2. MintedInOrder'
  BY <1>1 DEF HostInv, MintedInOrder
<1>3. \A e \in children : WellHosted(e)
  BY DEF HostInv
<1>4. WellHosted(d)'
  BY <1>1, <1>3 DEF WellHosted
<1>5. \A e \in children' : WellHosted(e)'
  BY <1>1, <1>3, <1>4 DEF WellHosted
<1>6. \A e, f \in children' : e.inc = f.inc => e = f
  BY <1>1 DEF HostInv
<1>9. \A e, f \in children' : e.space = f.space /\ e.name = f.name => e = f
  BY <1>1 DEF HostInv, At
<1>7. ASSUME NEW peer, WellBound(peer) PROVE WellBound(peer)'
  <2>1. ASSUME peer.to # Nothing, NEW e \in children', e.inc = peer.was.inc
        PROVE  ResolvedOn(peer, e)
    <3>1. CASE e \in children
      BY <1>7, <2>1, <3>1 DEF WellBound
    <3>2. CASE e = d
      <4>1. ResolvedOn(peer, c) /\ peer.was.at \in Nat \ {0}
        BY <1>7, <2>1, <3>2 DEF WellBound
      <4>2. Len(c.releases) \in Nat
        BY <1>3 DEF WellHosted
      <4>3. peer.was.at \in 1..Len(c.releases) /\ peer.was.at <= Len(d.releases)
        BY <4>1, <4>2 DEF ResolvedOn
      <4> QED BY <3>2, <4>1, <4>3 DEF ResolvedOn
    <3> QED BY <1>1, <2>1, <3>1, <3>2
  <2> QED BY <1>1, <1>7, <2>1 DEF WellBound
<1>8. \A e \in children' : Bindings(e)'
  <2>1. \A e \in children : Bindings(e)
    BY DEF HostInv
  <2>2. Bindings(d)
    BY <2>1 DEF Bindings
  <2>3. ASSUME NEW e \in children' PROVE Bindings(e)
    BY <1>1, <2>1, <2>2
  <2> QED BY <1>7, <2>3 DEF Bindings
<1> QED BY <1>2, <1>5, <1>6, <1>8, <1>9 DEF HostInv

(* What its views read depends on the releases and the peers alone         *)
LEMMA SameReads ==
  ASSUME NEW c, NEW d, d.releases = c.releases, d.peers = c.peers, ReadsHandles(c)
  PROVE  ReadsHandles(d)
BY DEF ReadsHandles, Running

LEMMA EnabledChild ==
  ASSUME NEW c, IsChild(c), NEW b
  PROVE  LET d == [c EXCEPT !.enabled = b]
         IN /\ IsChild(d) /\ d.inc = c.inc /\ d.peers = c.peers /\ d.releases = c.releases
            /\ d.space = c.space /\ d.name = c.name
BY DEF IsChild

LEMMA UpdatedChild ==
  ASSUME NEW c, IsChild(c), NEW s
  PROVE  LET d == [c EXCEPT !.releases = s]
         IN /\ IsChild(d) /\ d.inc = c.inc /\ d.peers = c.peers /\ d.releases = s
            /\ d.space = c.space /\ d.name = c.name
BY DEF IsChild

LEMMA DisableStep == ASSUME HostInv, NEW c \in children, Disable(c) PROVE HostInv'
<1> DEFINE d == [c EXCEPT !.enabled = FALSE]
<1>1. Becomes(c, d) /\ WellHosted(c)
  BY DEF Disable, HostInv
<1>2. /\ IsChild(d) /\ d.inc = c.inc /\ d.peers = c.peers /\ d.releases = c.releases
      /\ d.space = c.space /\ d.name = c.name
  BY <1>1, EnabledChild DEF WellHosted
<1> HIDE DEF d
<1>3. ReadsHandles(d)
  BY <1>1, <1>2, SameReads DEF WellHosted
<1> QED BY <1>1, <1>2, <1>3, InstanceChanges DEF WellHosted

LEMMA EnableStep == ASSUME HostInv, NEW c \in children, Enable(c) PROVE HostInv'
<1> DEFINE d == [c EXCEPT !.enabled = TRUE]
<1>1. Becomes(c, d) /\ WellHosted(c)
  BY DEF Enable, HostInv
<1>2. /\ IsChild(d) /\ d.inc = c.inc /\ d.peers = c.peers /\ d.releases = c.releases
      /\ d.space = c.space /\ d.name = c.name
  BY <1>1, EnabledChild DEF WellHosted
<1> HIDE DEF d
<1>3. ReadsHandles(d)
  BY <1>1, <1>2, SameReads DEF WellHosted
<1> QED BY <1>1, <1>2, <1>3, InstanceChanges DEF WellHosted

LEMMA RenameStep == ASSUME HostInv, NEW c \in children, NEW n \in Name, Rename(c, n) PROVE HostInv'
<1> DEFINE d == [c EXCEPT !.name = n]
<1>1. Becomes(c, d) /\ WellHosted(c) /\ At(c.space, n) = {}
  BY DEF Rename, HostInv
<1>2. /\ IsChild(d) /\ d.inc = c.inc /\ d.peers = c.peers /\ d.releases = c.releases
      /\ d.space = c.space /\ d.name = n
  BY <1>1 DEF WellHosted, IsChild
<1> HIDE DEF d
<1>3. ReadsHandles(d)
  BY <1>1, <1>2, SameReads DEF WellHosted
<1> QED BY <1>1, <1>2, <1>3, InstanceChanges DEF WellHosted

LEMMA UpdateStep == ASSUME HostInv, NEW c \in children, NEW p \in Package, Update(c, p) PROVE HostInv'
<1> DEFINE s == Append(c.releases, p)
           d == [c EXCEPT !.releases = s]
<1>1. /\ Becomes(c, d) /\ ~ExposedNarrowing(Running(c), p) /\ WellHosted(c)
      /\ RequiresNonNarrowing(Running(c), p) => ~BoundaryNarrows(Promised[Running(c)], Promised[p])
      /\ \A i \in Interface : Reads(p, i) = {}
  BY DEF Update, HostInv
<1> HIDE DEF s
<1>2. /\ IsChild(d) /\ d.inc = c.inc /\ d.peers = c.peers /\ d.releases = s
      /\ d.space = c.space /\ d.name = c.name
  <2>1. IsChild(c)
    BY <1>1 DEF WellHosted
  <2> QED BY <2>1, UpdatedChild
<1> USE DEF s
<1>3. /\ c.releases \in Seq(Package) /\ Len(c.releases) \in Nat \ {0} /\ Widening(c.releases)
      /\ ~ExposedNarrowing(c.releases[Len(c.releases)], p) /\ Serving(c.releases)
      /\ RequiresNonNarrowing(c.releases[Len(c.releases)], p) =>
           ~BoundaryNarrows(Promised[c.releases[Len(c.releases)]], Promised[p])
  BY <1>1 DEF WellHosted, Running
<1>4. /\ s \in Seq(Package) /\ Len(s) = Len(c.releases) + 1 /\ s[Len(c.releases) + 1] = p
      /\ \A k \in 1..Len(c.releases) : s[k] = c.releases[k]
      /\ Widening(s)
  BY <1>3, UpdatesWiden
<1>6. Serving(s)
  BY <1>3, UpdatesServe
<1> HIDE DEF s, d
<1>5. /\ Len(d.releases) \in Nat \ {0}
      /\ Len(c.releases) <= Len(d.releases)
  BY <1>2, <1>3, <1>4
<1>7. ReadsHandles(d)
  <2>1. Running(d) = p
    BY <1>2, <1>4 DEF Running
  <2> QED BY <1>1, <2>1 DEF ReadsHandles
<1> QED BY <1>1, <1>2, <1>4, <1>5, <1>6, <1>7, InstanceChanges

LEMMA UninstallStep == ASSUME HostInv, NEW c \in children, Uninstall(c) PROVE HostInv'
<1>1. children' = children \ {c} /\ minted' = minted
  BY DEF Uninstall
<1>2. /\ MintedInOrder' /\ \A e \in children' : WellHosted(e)'
      /\ \A e, f \in children' : e.inc = f.inc => e = f
      /\ \A e, f \in children' : e.space = f.space /\ e.name = f.name => e = f
  BY <1>1 DEF HostInv, MintedInOrder, WellHosted
<1>3. \A e \in children' : Bindings(e)'
  BY <1>1 DEF HostInv, Bindings, WellBound
<1> QED BY <1>2, <1>3 DEF HostInv

(* A name minted now was never minted before                               *)
LEMMA FreshIncarnation ==
  ASSUME MintedInOrder, NEW s, NEW n
  PROVE  /\ Mint(s, n) \notin minted
         /\ IsFiniteSet(minted \cup {Mint(s, n)})
         /\ Cardinality(minted \cup {Mint(s, n)}) = Cardinality(minted) + 1
         /\ Mint(s, n)[3] = Cardinality(minted) /\ Cardinality(minted) \in Nat
<1> DEFINE inc == Mint(s, n)
<1>1. inc[3] = Cardinality(minted)
  BY DEF Mint
<1>2. IsFiniteSet(minted) /\ Cardinality(minted) \in Nat
  BY FS_CardinalityType DEF MintedInOrder
<1>3. inc \notin minted
  BY <1>1, <1>2 DEF MintedInOrder
<1> HIDE DEF inc
<1>4. IsFiniteSet(minted \cup {inc}) /\ Cardinality(minted \cup {inc}) = Cardinality(minted) + 1
  BY <1>2, <1>3, FS_AddElement
<1> QED BY <1>1, <1>2, <1>3, <1>4 DEF inc

(* The peers of an instance that is installed now                          *)
LEMMA NewBindings ==
  ASSUME HostInv, NeedsAreInterfaces, NEW s, NEW p \in Package, NEW explicit,
         NEW h \in DOMAIN Uses(p), NEW c \in Resolutions(s, Uses(p)[h], explicit)
  PROVE  WellBound(Bound(Uses(p)[h], c))
<1> DEFINE need == Uses(p)[h]
           peer == Bound(need, c)
<1>1. need.interface \in Interface
  BY DEF NeedsAreInterfaces
<1> HIDE DEF need
<1> SUFFICES ASSUME peer.to # Nothing PROVE WellBound(peer)
  BY DEF WellBound, need
<1>2. c # Nothing
  BY DEF Bound
<1>3. c \in children /\ Readable(Running(c), need.interface)
  BY <1>2 DEF Resolutions, Satisfies, Siblings, need
<1>4. /\ peer.interface = need.interface
      /\ peer.was.inc = c.inc /\ peer.was.at = Len(c.releases)
  BY <1>2 DEF Bound
<1>5. WellHosted(c) /\ Len(c.releases) \in Nat \ {0} /\ c.inc \in minted
  BY <1>3 DEF HostInv, WellHosted
<1>6. ResolvedOn(peer, c)
  BY <1>3, <1>4, <1>5 DEF ResolvedOn, Running
<1>7. \A d \in children : d.inc = c.inc => d = c
  BY <1>3 DEF HostInv
<1> QED BY <1>1, <1>4, <1>5, <1>6, <1>7 DEF WellBound

LEMMA InstallStep ==
  ASSUME HostInv, NeedsAreInterfaces, NEW s \in Space, NEW n \in Name, NEW p \in Package, NEW explicit,
         Install(s, n, p, explicit)
  PROVE  HostInv'
<1> DEFINE inc == Mint(s, n)
           needs == Uses(p)
           to == [h \in DOMAIN needs |-> CHOOSE c \in Resolutions(s, needs[h], explicit) : TRUE]
           peers == [h \in DOMAIN needs |-> Bound(needs[h], to[h])]
           new == [space |-> s, name |-> n, inc |-> inc, releases |-> <<p>>, enabled |-> TRUE, peers |-> peers]
<1>1. children' = children \cup {new} /\ minted' = minted \cup {inc}
  BY DEF Install
<1>2. \A h \in DOMAIN needs : Resolutions(s, needs[h], explicit) # {}
  BY DEF Install
<1>3. \A h \in DOMAIN needs : to[h] \in Resolutions(s, needs[h], explicit)
  BY <1>2
<1>4. \A h \in DOMAIN needs : WellBound(peers[h])
  BY <1>3, NewBindings
<1>5. /\ new.inc = inc /\ new.releases = <<p>> /\ new.peers = peers /\ IsChild(new)
      /\ new.space = s /\ new.name = n
  BY DEF IsChild
<1>6. DOMAIN peers = DOMAIN needs
  OBVIOUS
<1>7. /\ inc \notin minted /\ IsFiniteSet(minted \cup {inc})
      /\ Cardinality(minted \cup {inc}) = Cardinality(minted) + 1
      /\ inc[3] = Cardinality(minted) /\ Cardinality(minted) \in Nat
  BY FreshIncarnation DEF HostInv
<1>16. At(s, n) = {} /\ \A i \in Interface : Reads(p, i) \subseteq ParentHandles(p, s) \cup DOMAIN needs
  BY DEF Install
<1> HIDE DEF inc, needs, to, peers, new
<1>8. MintedInOrder'
  <2>1. \A m \in minted : m[3] \in Nat /\ m[3] < Cardinality(minted)
    BY DEF HostInv, MintedInOrder
  <2>2. \A m \in minted' : m[3] \in Nat /\ m[3] < Cardinality(minted')
    BY <1>1, <1>7, <2>1
  <2> QED BY <1>1, <1>7, <2>2 DEF MintedInOrder
<1>9. ASSUME NEW e, e = new PROVE WellHosted(e)'
  <2>1. /\ <<p>> \in Seq(Package) /\ Len(<<p>>) = 1 /\ <<p>>[1] = p
        /\ Widening(<<p>>) /\ Serving(<<p>>)
    BY OneReleaseWidens
  <2>2. /\ new.releases \in Seq(Package) /\ Len(new.releases) \in Nat \ {0}
        /\ Widening(new.releases) /\ Serving(new.releases)
        /\ Running(new) = p /\ new.releases[1] = p
    BY <1>5, <2>1 DEF Running
  <2>3. new.inc \in minted'
    BY <1>1, <1>5
  <2>4. \A q : ParentHandles(q, s) \subseteq OfferedHandles(q)
    BY DEF ParentHandles, OfferedHandles
  <2>5. ReadsHandles(new)
    BY <1>5, <1>6, <1>16, <2>2, <2>4 DEF ReadsHandles
  <2> QED BY <1>5, <1>9, <2>2, <2>3, <2>5 DEF WellHosted
<1>10. \A e \in children' : WellHosted(e)'
  <2>1. ASSUME NEW e \in children PROVE WellHosted(e)'
    BY <1>1 DEF HostInv, WellHosted
  <2> QED BY <1>1, <1>9, <2>1
<1>11. \A e \in children : e.inc \in minted
  BY DEF HostInv, WellHosted
<1>12. \A e, f \in children' : e.inc = f.inc => e = f
  BY <1>1, <1>5, <1>7, <1>11 DEF HostInv
<1>17. \A e, f \in children' : e.space = f.space /\ e.name = f.name => e = f
  BY <1>1, <1>5, <1>16 DEF HostInv, At
<1>13. ASSUME NEW peer, WellBound(peer) PROVE WellBound(peer)'
  BY <1>1, <1>5, <1>7, <1>13 DEF WellBound
<1>14. ASSUME NEW e \in children' PROVE Bindings(e)
  BY <1>1, <1>4, <1>5, <1>6 DEF HostInv, Bindings
<1>15. \A e \in children' : Bindings(e)'
  BY <1>13, <1>14 DEF Bindings
<1> QED BY <1>8, <1>10, <1>12, <1>15, <1>17 DEF HostInv

LEMMA HostInit == ModulesInit => HostInv
<1> SUFFICES ASSUME ModulesInit PROVE HostInv
  OBVIOUS
<1>1. children = {} /\ minted = {}
  BY DEF ModulesInit
<1> QED BY <1>1, FS_EmptySet DEF HostInv, MintedInOrder

LEMMA HostStep == NeedsAreInterfaces /\ HostInv /\ [ModulesNext]_hostVars => HostInv'
<1> SUFFICES ASSUME NeedsAreInterfaces, HostInv, [ModulesNext]_hostVars PROVE HostInv'
  OBVIOUS
<1>1. ASSUME UNCHANGED <<children, minted>> PROVE HostInv'
  BY <1>1 DEF HostInv, MintedInOrder, WellHosted, Bindings, WellBound
<1>2. ASSUME NEW s \in Space, NEW n \in Name, NEW p \in Package, NEW e \in Name \cup {Nothing}, Install(s, n, p, e)
      PROVE  HostInv'
  BY <1>2, InstallStep
<1>3. ASSUME NEW c \in children, Disable(c) PROVE HostInv'
  BY <1>3, DisableStep
<1>4. ASSUME NEW c \in children, Enable(c) PROVE HostInv'
  BY <1>4, EnableStep
<1>5. ASSUME NEW c \in children, NEW n \in Name, Rename(c, n) PROVE HostInv'
  BY <1>5, RenameStep
<1>6. ASSUME NEW c \in children, Uninstall(c) PROVE HostInv'
  BY <1>6, UninstallStep
<1>7. ASSUME NEW c \in children, NEW p \in Package, Update(c, p) PROVE HostInv'
  BY <1>7, UpdateStep
<1>8. ASSUME NEW r \in Space, DeleteRow(r) \/ InsertRow(r) PROVE HostInv'
  BY <1>1, <1>8 DEF DeleteRow, InsertRow
<1>9. CASE UNCHANGED hostVars
  BY <1>1, <1>9 DEF hostVars
<1> QED BY <1>2, <1>3, <1>4, <1>5, <1>6, <1>7, <1>8, <1>9 DEF ModulesNext

(* Modules: under every sequence of installs, updates, renames and         *)
(* uninstalls, and whatever the packages expose, a handle keeps the fields *)
(* it was resolved with while its name still leads to that instance, unless*)
(* a release passed the whole row through in between (compat.rs            *)
(* exposed_narrowing).                                                     *)
THEOREM HandlesKeepTheirFields == ASSUME PackagesAreWellFormed PROVE ModulesSpec => []PeersKeepTheirFields
<1>1. ModulesSpec => []HostInv
  BY HostInit, HostStep, PTL DEF ModulesSpec, PackagesAreWellFormed
<1> QED BY <1>1, HostedKeepFields, PTL

(* Modules: a client that was written against the surfaces of a release is *)
(* served by every release the instance reaches by updates that may not    *)
(* narrow, and a read through an interface faults only when a handle is no *)
(* longer what it was resolved to (contract/mod.rs narrowing, migrate.rs   *)
(* boundary_narrowing, modules/host.rs child_imports).                     *)
THEOREM PromisesKept == ASSUME PackagesAreWellFormed PROVE ModulesSpec => []PromisesAreKept
<1>1. ModulesSpec => []HostInv
  BY HostInit, HostStep, PTL DEF ModulesSpec, PackagesAreWellFormed
<1>2. HostInv => PromisesAreKept
  BY HostedKeepFields, HostedServe, HostedFaults DEF PromisesAreKept
<1> QED BY <1>1, <1>2, PTL

-----------------------------------------------------------------------------
(* Lineages.                                                               *)

LineageId == Seq({"b", "m"} \X Nat)
(* The first point on a lineage, which is part of its name                 *)
Birth(lineage) == IF lineage = << >> THEN GenesisPoint ELSE Last(lineage)[2]

Place == {at \in [lineage : LineageId, point : Nat] : Birth(at.lineage) <= at.point}
Link == {link \in [lineage : LineageId, origin : Nat] : link.origin < Birth(link.lineage)}
Entry == [commit : Nat, at : Place]
Cursor == [ancestors : Seq(Link), active : Link, point : Nat, next : Nat,
           branch_pending : BOOLEAN]

(* Whoever names a point of a history, an engine or an artifact: the       *)
(* lineages that lead to it, root first, the point, and the past there     *)
Holder == [chain : Seq(Link), point : Nat, past : Seq(Entry), misled : BOOLEAN]

HolderOf(x) == [chain |-> Append(x.cursor.ancestors, x.cursor.active),
                point |-> x.cursor.point, past |-> x.past, misled |-> x.misled]
HeldBy(a) == [chain |-> RestoredChain(a.selected.lineage, a.index),
              point |-> a.selected.point, past |-> a.past, misled |-> a.misled]

(* Along a past points grow and lineages only branch deeper                *)
Sorted(past) ==
  \A i, j \in 1..Len(past) : i < j =>
    /\ past[i].at.point < past[j].at.point
    /\ Len(past[i].at.lineage) <= Len(past[j].at.lineage)

(* A commit is made once: two pasts that have it share all before it       *)
SharesCommits(p, q) ==
  \A i \in 1..Len(p), j \in 1..Len(q) : p[i].commit = q[j].commit =>
    /\ i = j
    /\ \A k \in 1..i : p[k] = q[k]

(* Where the chain leaves a lineage is the last the past has of it         *)
BranchesRecorded(h) ==
  \A i \in 1..Len(h.chain) : i < Len(h.chain) =>
    /\ \E m \in 1..Len(h.past) :
         /\ h.past[m].at.lineage = h.chain[i].lineage
         /\ h.past[m].at.point = h.chain[i + 1].origin
    /\ \A m \in 1..Len(h.past) :
         h.past[m].at.lineage = h.chain[i].lineage
           => h.past[m].at.point <= h.chain[i + 1].origin

HolderOK(h) ==
  /\ h \in Holder
  /\ Len(h.chain) > 0 /\ h.chain[1].origin = 0
  /\ \A i \in 1..Len(h.chain) : Len(h.chain[i].lineage) = i - 1
  /\ \A i, j \in 1..Len(h.chain) : i <= j => h.chain[i].origin <= h.chain[j].origin
  /\ Len(h.past) > 0 /\ Sorted(h.past)
  /\ Last(h.past).at = [lineage |-> Last(h.chain).lineage, point |-> h.point]
  /\ ~h.misled => BranchesRecorded(h)

IsIndexOf(index, h) ==
  /\ DOMAIN index = {h.chain[i].lineage : i \in 1..Len(h.chain)}
  /\ \A i \in 1..Len(h.chain) :
       /\ i = 1 => index[h.chain[i].lineage].origin = << >>
       /\ i # 1 => index[h.chain[i].lineage].origin
                     = <<h.chain[i - 1].lineage, h.chain[i].origin>>

EngineOK(x) ==
  /\ x = [cursor |-> x.cursor, past |-> x.past, misled |-> x.misled]
  /\ x.cursor \in Cursor /\ x.cursor.point < x.cursor.next

ArtifactOK(a) ==
  /\ a.selected = [lineage |-> Last(HeldBy(a).chain).lineage, point |-> HeldBy(a).point]
  /\ IsIndexOf(a.index, HeldBy(a))

Named(engs, arts) ==
  {HolderOf(engs[e]) : e \in {d \in Engine : engs[d] # None}} \cup {HeldBy(a) : a \in arts}

LineageOK(engs, arts, n) ==
  /\ engs = [e \in Engine |-> engs[e]]
  /\ n \in Nat
  /\ \A h \in Named(engs, arts) : HolderOK(h) /\ \A i \in 1..Len(h.past) : h.past[i].commit <= n
  /\ \A g, h \in Named(engs, arts) : SharesCommits(g.past, h.past)
  /\ \A e \in Engine : engs[e] # None => EngineOK(engs[e])
  /\ \A a \in arts : ArtifactOK(a)

LineageInv == LineageOK(engines, artifacts, commits)

-----------------------------------------------------------------------------
(* The chain of a cursor                                                   *)
LEMMA ChainOfCursor ==
  ASSUME NEW x, EngineOK(x)
  PROVE  /\ HolderOf(x).chain \in Seq(Link)
         /\ Len(HolderOf(x).chain) = Len(x.cursor.ancestors) + 1
         /\ HolderOf(x).chain[Len(x.cursor.ancestors) + 1] = x.cursor.active
         /\ \A i \in 1..Len(x.cursor.ancestors) : HolderOf(x).chain[i] = x.cursor.ancestors[i]
         /\ HolderOf(x).point = x.cursor.point /\ HolderOf(x).past = x.past
         /\ HolderOf(x).misled = x.misled
BY DEF EngineOK, HolderOf, Cursor

LEMMA HolderTypes ==
  ASSUME NEW h, HolderOK(h)
  PROVE  /\ h.chain \in Seq(Link) /\ h.point \in Nat /\ h.past \in Seq(Entry)
         /\ h.misled \in BOOLEAN
         /\ Len(h.chain) \in Nat /\ Len(h.chain) > 0 /\ Len(h.chain) \in 1..Len(h.chain)
         /\ Len(h.past) \in Nat /\ Len(h.past) > 0 /\ Len(h.past) \in 1..Len(h.past)
         /\ h = [chain |-> h.chain, point |-> h.point, past |-> h.past, misled |-> h.misled]
<1>1. h \in Holder /\ Len(h.chain) > 0 /\ Len(h.past) > 0
  BY DEF HolderOK
<1>2. h.chain \in Seq(Link) /\ h.point \in Nat /\ h.past \in Seq(Entry) /\ h.misled \in BOOLEAN
  BY <1>1 DEF Holder
<1>3. h = [chain |-> h.chain, point |-> h.point, past |-> h.past, misled |-> h.misled]
  BY <1>1 DEF Holder
<1> QED BY <1>1, <1>2, <1>3

LEMMA EntryTypes ==
  ASSUME NEW p \in Seq(Entry), NEW i \in 1..Len(p)
  PROVE  /\ p[i] \in Entry /\ p[i].commit \in Nat /\ p[i].at \in Place
         /\ p[i].at.point \in Nat /\ p[i].at.lineage \in LineageId /\ Len(p[i].at.lineage) \in Nat
<1>1. p[i] \in Entry
  OBVIOUS
<1>2. p[i].commit \in Nat /\ p[i].at \in Place
  BY <1>1 DEF Entry
<1>3. p[i].at.point \in Nat /\ p[i].at.lineage \in LineageId
  BY <1>2 DEF Place
<1> QED BY <1>1, <1>2, <1>3 DEF LineageId

LEMMA BirthTypes ==
  ASSUME NEW l \in LineageId
  PROVE  Birth(l) \in Nat
<1>1. CASE l = << >>
  BY <1>1 DEF Birth, GenesisPoint
<1>2. CASE l # << >>
  <2>1. Len(l) \in 1..Len(l)
    BY <1>2 DEF LineageId
  <2>2. l[Len(l)] \in {"b", "m"} \X Nat
    BY <2>1 DEF LineageId
  <2> QED BY <2>2, <1>2 DEF Birth, Last
<1> QED BY <1>1, <1>2

(* Every lineage that leads to a point was left before it                  *)
LEMMA OriginsPrecede ==
  ASSUME NEW h, HolderOK(h), NEW i \in 1..Len(h.chain)
  PROVE  /\ h.chain[i] \in Link /\ h.chain[i].origin \in Nat
         /\ h.chain[i].origin < h.point
<1> DEFINE n == Len(h.chain)
<1>1. /\ h.chain \in Seq(Link) /\ n \in Nat /\ n \in 1..n /\ h.past \in Seq(Entry)
      /\ Len(h.past) \in 1..Len(h.past) /\ h.point \in Nat
  BY HolderTypes
<1>2. Last(h.past).at = [lineage |-> h.chain[n].lineage, point |-> h.point]
  BY DEF HolderOK, Last
<1>3. Last(h.past).at \in Place
  BY <1>1, EntryTypes DEF Last
<1>4. Birth(h.chain[n].lineage) <= h.point
  BY <1>2, <1>3 DEF Place
<1>5. \A k \in 1..n : h.chain[k] \in Link
  BY <1>1
<1>6. \A k \in 1..n : h.chain[k].origin \in Nat /\ h.chain[k].lineage \in LineageId
                       /\ h.chain[k].origin < Birth(h.chain[k].lineage)
  BY <1>5 DEF Link
<1>7. h.chain[i].origin <= h.chain[n].origin
  BY <1>1 DEF HolderOK
<1>8. Birth(h.chain[n].lineage) \in Nat
  BY <1>1, <1>6, BirthTypes
<1> QED BY <1>1, <1>4, <1>5, <1>6, <1>7, <1>8

(* HistoryCursor::lineages writes the index of the cursor's own history    *)
LEMMA LineagesOfCursor ==
  ASSUME NEW x, EngineOK(x), HolderOK(HolderOf(x))
  PROVE  IsIndexOf(Lineages(x.cursor), HolderOf(x))
<1> DEFINE c == x.cursor
           h == HolderOf(x)
           chain == Append(c.ancestors, c.active)
           at(l) == CHOOSE i \in DOMAIN chain : chain[i].lineage = l
           entry(i) == [origin |-> IF i = 1 THEN <<>>
                                   ELSE <<chain[i - 1].lineage, chain[i].origin>>,
                        head |-> IF i = Len(chain) THEN c.point
                                 ELSE chain[i + 1].origin]
           index == [l \in {chain[i].lineage : i \in DOMAIN chain} |-> entry(at(l))]
<1>1. Lineages(c) = index
  BY DEF Lineages
<1>2. h.chain = chain /\ h.point = c.point /\ chain \in Seq(Link) /\ DOMAIN chain = 1..Len(chain)
  BY DEF EngineOK, HolderOf, Cursor
<1>3. \A i \in 1..Len(chain) : Len(chain[i].lineage) = i - 1
  BY <1>2 DEF HolderOK
<1> HIDE DEF h, chain, c
<1>4. ASSUME NEW i \in 1..Len(chain) PROVE at(chain[i].lineage) = i
  BY <1>2, <1>3, <1>4
<1> HIDE DEF at
<1>5. ASSUME NEW i \in 1..Len(chain) PROVE index[chain[i].lineage] = entry(i)
  BY <1>2, <1>4
<1>6. DOMAIN index = {chain[i].lineage : i \in 1..Len(chain)}
  BY <1>2
<1> HIDE DEF index
<1>7. ASSUME NEW i \in 1..Len(chain)
      PROVE  /\ i = 1 => entry(i).origin = << >>
             /\ i # 1 => entry(i).origin = <<chain[i - 1].lineage, chain[i].origin>>
  BY <1>2
<1> HIDE DEF entry
<1>8. IsIndexOf(index, h)
  BY <1>2, <1>5, <1>6, <1>7 DEF IsIndexOf
<1> QED BY <1>1, <1>8 DEF c, h

(* restored_chain leads back through the index to the chain it was made of *)
LEMMA RestoredIsTheChain ==
  ASSUME NEW h, HolderOK(h), NEW index, IsIndexOf(index, h)
  PROVE  RestoredChain(Last(h.chain).lineage, index) = h.chain
<1> DEFINE chain == h.chain
           D == DOMAIN index
           IsChain(f) == f = [l \in D |->
              IF index[l].origin = <<>> THEN <<[lineage |-> l, origin |-> 0]>>
              ELSE Append(f[index[l].origin[1]], [lineage |-> l, origin |-> index[l].origin[2]])]
           c == CHOOSE f : IsChain(f)
           at(l) == CHOOSE i \in 1..Len(chain) : chain[i].lineage = l
           w == [l \in D |-> SubSeq(chain, 1, at(l))]
<1>0. RestoredChain(Last(h.chain).lineage, index) = c[Last(h.chain).lineage]
  BY DEF RestoredChain
<1>1. /\ chain \in Seq(Link) /\ Len(chain) \in Nat /\ Len(chain) > 0 /\ chain[1].origin = 0
      /\ \A i \in 1..Len(chain) : Len(chain[i].lineage) = i - 1
  <2>1. h \in Holder
    BY DEF HolderOK
  <2>2. chain \in Seq(Link) /\ Len(chain) \in Nat
    BY <2>1 DEF Holder
  <2>3. /\ Len(chain) > 0 /\ chain[1].origin = 0
        /\ \A i \in 1..Len(chain) : Len(chain[i].lineage) = i - 1
    BY DEF HolderOK
  <2> QED BY <2>2, <2>3
<1>2. D = {chain[i].lineage : i \in 1..Len(chain)}
  BY DEF IsIndexOf
<1>3. \A i \in 1..Len(chain) :
        /\ i = 1 => index[chain[i].lineage].origin = <<>>
        /\ i # 1 => index[chain[i].lineage].origin = <<chain[i - 1].lineage, chain[i].origin>>
  BY DEF IsIndexOf
<1> HIDE DEF chain, D
<1>4. \A i \in 1..Len(chain) : at(chain[i].lineage) = i
  <2> SUFFICES ASSUME NEW i \in 1..Len(chain) PROVE at(chain[i].lineage) = i
    OBVIOUS
  <2> QED BY <1>1
<1> HIDE DEF at
<1>5. \A i \in 1..Len(chain) :
        chain[i] = [lineage |-> chain[i].lineage, origin |-> chain[i].origin]
  <2> SUFFICES ASSUME NEW i \in 1..Len(chain)
               PROVE  chain[i] = [lineage |-> chain[i].lineage, origin |-> chain[i].origin]
    OBVIOUS
  <2>1. chain[i] \in Link
    BY <1>1
  <2> QED BY <2>1 DEF Link
<1>6. \A i \in 1..Len(chain) : i # 1 =>
        SubSeq(chain, 1, i) = Append(SubSeq(chain, 1, i - 1), chain[i])
  BY <1>1
<1>7. SubSeq(chain, 1, 1) = <<chain[1]>>
  <2>1. chain[1] \in Link
    BY <1>1
  <2> DEFINE one == <<chain[1]>>
             sub == SubSeq(chain, 1, 1)
  <2>2. one \in Seq(Link) /\ Len(one) = 1 /\ one[1] = chain[1]
    BY <2>1
  <2>3. sub \in Seq(Link) /\ Len(sub) = 1 /\ sub[1] = chain[1]
    BY <1>1
  <2> HIDE DEF one, sub
  <2>4. one = sub
    BY <2>2, <2>3
  <2> QED BY <2>4 DEF one, sub
<1>8. IsChain(w)
  <2> SUFFICES ASSUME NEW l \in D
               PROVE  SubSeq(chain, 1, at(l)) =
                 IF index[l].origin = <<>> THEN <<[lineage |-> l, origin |-> 0]>>
                 ELSE Append(w[index[l].origin[1]], [lineage |-> l, origin |-> index[l].origin[2]])
    OBVIOUS
  <2>1. PICK i \in 1..Len(chain) : l = chain[i].lineage
    BY <1>2
  <2>2. at(l) = i
    BY <2>1, <1>4
  <2>3. CASE i = 1
    BY <2>1, <2>2, <2>3, <1>1, <1>3, <1>5, <1>7
  <2>4. CASE i # 1
    <3>1. /\ i - 1 \in 1..Len(chain)
          /\ index[l].origin = <<chain[i - 1].lineage, chain[i].origin>>
      <4>1. Len(chain) \in Nat
        BY <1>1
      <4>2. i - 1 \in 1..Len(chain)
        BY <4>1, <2>4
      <4>3. index[chain[i].lineage].origin = <<chain[i - 1].lineage, chain[i].origin>>
        BY <2>4, <1>3
      <4> QED BY <4>2, <4>3, <2>1
    <3>2. chain[i - 1].lineage \in D /\ w[chain[i - 1].lineage] = SubSeq(chain, 1, i - 1)
      BY <3>1, <1>2, <1>4
    <3> DEFINE o == index[l].origin
               before == SubSeq(chain, 1, i - 1)
    <3>3. o # <<>> /\ o[1] = chain[i - 1].lineage /\ o[2] = chain[i].origin
      BY <3>1
    <3>4. chain[i] = [lineage |-> l, origin |-> o[2]]
      BY <2>1, <3>3, <1>5
    <3>5. SubSeq(chain, 1, at(l)) = Append(before, chain[i])
      BY <2>2, <2>4, <1>6
    <3>6. w[o[1]] = before
      BY <3>2, <3>3
    <3> HIDE DEF w, o, before
    <3>7. SubSeq(chain, 1, at(l)) = Append(w[o[1]], [lineage |-> l, origin |-> o[2]])
      BY <3>4, <3>5, <3>6, Zenon
    <3> QED BY <3>3, <3>7 DEF o
  <2> QED BY <2>3, <2>4
<1>9. IsChain(c)
  BY <1>8
<1> HIDE DEF c, w
<1> DEFINE Leads(i) == c[chain[i].lineage] = SubSeq(chain, 1, i)
           S == {n \in Nat : n + 1 <= Len(chain) => Leads(n + 1)}
<1>10. Leads(1)
  <2>1. 1 \in 1..Len(chain) /\ chain[1].lineage \in D /\ index[chain[1].lineage].origin = <<>>
    BY <1>1, <1>2, <1>3
  <2>2. c[chain[1].lineage] = <<[lineage |-> chain[1].lineage, origin |-> 0]>>
    BY <2>1, <1>9
  <2> QED BY <2>1, <2>2, <1>1, <1>5, <1>7
<1>11. ASSUME NEW i \in 1..Len(chain), i # 1, Leads(i - 1) PROVE Leads(i)
  <2>1. /\ chain[i].lineage \in D
        /\ index[chain[i].lineage].origin = <<chain[i - 1].lineage, chain[i].origin>>
    BY <1>11, <1>2, <1>3
  <2> DEFINE o == index[chain[i].lineage].origin
  <2>2. o # <<>> /\ o[1] = chain[i - 1].lineage /\ o[2] = chain[i].origin
    BY <2>1
  <2>3. c[chain[i].lineage] = IF o = <<>> THEN <<[lineage |-> chain[i].lineage, origin |-> 0]>>
                ELSE Append(c[o[1]], [lineage |-> chain[i].lineage, origin |-> o[2]])
    BY <2>1, <1>9
  <2> HIDE DEF o
  <2>4. c[chain[i].lineage] = Append(SubSeq(chain, 1, i - 1), chain[i])
    BY <2>2, <2>3, <1>5, <1>11
  <2> QED BY <2>4, <1>6, <1>11
<1> HIDE DEF Leads
<1>12. 0 \in S
  BY <1>10
<1>13. ASSUME NEW n \in Nat, n \in S PROVE n + 1 \in S
  <2> SUFFICES ASSUME n + 2 <= Len(chain) PROVE Leads(n + 2)
    OBVIOUS
  <2> DEFINE i == n + 2
  <2>1. i \in 1..Len(chain) /\ i # 1 /\ i - 1 = n + 1 /\ n + 1 <= Len(chain)
    BY <1>1
  <2>2. Leads(i - 1)
    BY <2>1, <1>13
  <2> HIDE DEF i
  <2>3. Leads(i)
    BY <2>1, <2>2, <1>11
  <2> QED BY <2>3 DEF i
<1> HIDE DEF S
<1>14. Nat \subseteq S
  BY <1>12, <1>13, CutP!NatSetInduction
<1>15. c[chain[Len(chain)].lineage] = SubSeq(chain, 1, Len(chain))
  <2>1. Len(chain) - 1 \in Nat /\ (Len(chain) - 1) + 1 = Len(chain) /\ Len(chain) \in 1..Len(chain)
    BY <1>1
  <2>2. Len(chain) - 1 \in S
    BY <2>1, <1>14
  <2>3. Leads((Len(chain) - 1) + 1)
    BY <2>1, <2>2 DEF S
  <2> QED BY <2>1, <2>3 DEF Leads
<1>16. SubSeq(chain, 1, Len(chain)) = chain
  BY <1>1
<1> QED BY <1>0, <1>15, <1>16 DEF Last, chain
-----------------------------------------------------------------------------
(* Classification.                                                         *)

LEMMA PrefixElements ==
  ASSUME NEW s \in Seq(Entry), NEW t \in Seq(Entry)
  PROVE  IsPrefix(s, t) <=> Len(s) <= Len(t) /\ \A k \in 1..Len(s) : t[k] = s[k]
<1>1. SubSeq(s, 1, Len(s)) = s
  OBVIOUS
<1>2. Len(s) <= Len(t) => /\ SubSeq(t, 1, Len(s)) \in Seq(Entry)
                          /\ Len(SubSeq(t, 1, Len(s))) = Len(s)
                          /\ \A k \in 1..Len(s) : SubSeq(t, 1, Len(s))[k] = t[k]
  OBVIOUS
<1> DEFINE u == SubSeq(t, 1, Len(s))
<1>3. CASE Len(s) <= Len(t)
  <2>1. u \in Seq(Entry) /\ Len(u) = Len(s) /\ \A k \in 1..Len(s) : u[k] = t[k]
    BY <1>2, <1>3
  <2> HIDE DEF u
  <2>2. s = u <=> \A k \in 1..Len(s) : u[k] = s[k]
    BY <2>1
  <2> QED BY <1>1, <1>3, <2>1, <2>2 DEF IsPrefix, u
<1>4. CASE ~(Len(s) <= Len(t))
  BY <1>4 DEF IsPrefix
<1> QED BY <1>3, <1>4

(* A past that has another's last commit goes on where that one ends       *)
LEMMA LastBegins ==
  ASSUME NEW p \in Seq(Entry), NEW q \in Seq(Entry), Len(p) > 0, SharesCommits(p, q),
         Last(p) \in ToSet(q)
  PROVE  IsPrefix(p, q)
<1>1. Len(p) \in 1..Len(p) /\ Last(p) = p[Len(p)]
  BY DEF Last
<1>2. PICK j \in 1..Len(q) : q[j] = p[Len(p)]
  BY <1>1 DEF ToSet
<1>3. Len(p) = j /\ \A k \in 1..Len(p) : p[k] = q[k]
  BY <1>1, <1>2 DEF SharesCommits
<1>4. Len(p) <= Len(q)
  BY <1>3
<1> QED BY <1>3, <1>4, PrefixElements

(* Two pasts that end on one lineage, neither of which begins the other,   *)
(* have forked                                                             *)
LEMMA EndsForked ==
  ASSUME NEW p \in Seq(Entry), NEW q \in Seq(Entry), Len(p) > 0, Len(q) > 0,
         SharesCommits(p, q), SharesCommits(q, p), ~IsPrefix(p, q), ~IsPrefix(q, p),
         Last(p).at.lineage = Last(q).at.lineage
  PROVE  Forked(p, q)
<1>1. Last(p) \in ToSet(p) /\ Last(q) \in ToSet(q)
  BY DEF Last, ToSet
<1>2. Last(p) \notin ToSet(q) /\ Last(q) \notin ToSet(p)
  BY LastBegins
<1> QED BY <1>1, <1>2 DEF Forked

(* The beginning of a past ends on a lineage no deeper, and no later       *)
LEMMA BeginningsAreEarlier ==
  ASSUME NEW p \in Seq(Entry), NEW q \in Seq(Entry), Len(p) > 0, Len(q) > 0, Sorted(q),
         IsPrefix(p, q)
  PROVE  /\ Len(Last(p).at.lineage) <= Len(Last(q).at.lineage)
         /\ p = q \/ Last(p).at.point < Last(q).at.point
         /\ Last(p) = q[Len(p)] /\ Len(p) \in 1..Len(q)
<1>1. Len(p) <= Len(q) /\ \A k \in 1..Len(p) : q[k] = p[k]
  BY PrefixElements
<1>2. Len(p) \in 1..Len(q) /\ Len(q) \in 1..Len(q) /\ Last(p) = q[Len(p)] /\ Last(q) = q[Len(q)]
  BY <1>1 DEF Last
<1>3. CASE Len(p) = Len(q)
  <2>1. p = q
    BY <1>1, <1>3
  <2>2. Len(Last(q).at.lineage) \in Nat
    BY <1>2, EntryTypes
  <2> QED BY <2>1, <2>2, <1>2
<1>4. CASE Len(p) < Len(q)
  BY <1>2, <1>4 DEF Sorted
<1> QED BY <1>1, <1>2, <1>3, <1>4

(* The relation classify reads off the points of two histories is true     *)
(* where no lineage went on from both after they had parted                *)
LEMMA ClassifiedTruly ==
  ASSUME NEW x, EngineOK(x), HolderOK(HolderOf(x)), ~x.misled,
         NEW a, ArtifactOK(a), HolderOK(HeldBy(a)),
         SharesCommits(x.past, a.past), SharesCommits(a.past, x.past),
         ~Forked(x.past, a.past), Classify(x.cursor, a.selected) # "Unrelated"
  PROVE  Classify(x.cursor, a.selected) = Truth(x.past, a.past)
<1> DEFINE c == x.cursor
           to == a.selected
           h == HolderOf(x)
           g == HeldBy(a)
           p == x.past
           q == a.past
           m == Len(c.ancestors) + 1
<1>1. /\ h.chain \in Seq(Link) /\ Len(h.chain) = m /\ h.chain[m] = c.active
      /\ \A i \in 1..Len(c.ancestors) : h.chain[i] = c.ancestors[i]
      /\ h.point = c.point /\ h.past = p /\ h.misled = x.misled
  BY ChainOfCursor
<1>2. g.past = q /\ g.point = to.point
  BY DEF HeldBy
<1>3. /\ p \in Seq(Entry) /\ q \in Seq(Entry) /\ Len(p) > 0 /\ Len(q) > 0
      /\ Sorted(p) /\ Sorted(q) /\ c.point \in Nat /\ to.point \in Nat
  <2>1. p \in Seq(Entry) /\ Len(p) > 0 /\ c.point \in Nat
    BY <1>1, HolderTypes
  <2>2. q \in Seq(Entry) /\ Len(q) > 0 /\ to.point \in Nat
    BY <1>2, HolderTypes
  <2>3. Sorted(h.past) /\ Sorted(g.past)
    BY DEF HolderOK
  <2> QED BY <2>1, <2>2, <2>3, <1>1, <1>2
<1>4. c.ancestors \in Seq(Link) /\ Len(c.ancestors) \in Nat
  BY DEF EngineOK, Cursor
<1>5. Last(p).at = [lineage |-> c.active.lineage, point |-> c.point]
  <2>1. Last(h.past).at = [lineage |-> Last(h.chain).lineage, point |-> h.point]
    BY DEF HolderOK
  <2> QED BY <2>1, <1>1 DEF Last
<1>6. Last(q).at = to
  <2>1. Last(g.past).at = [lineage |-> Last(g.chain).lineage, point |-> g.point]
    BY DEF HolderOK
  <2> QED BY <2>1, <1>2 DEF ArtifactOK
<1>7. BranchesRecorded(h) /\ \A i \in 1..m : Len(h.chain[i].lineage) = i - 1
  <2>1. ~h.misled
    BY <1>1
  <2> QED BY <2>1, <1>1 DEF HolderOK
<1>8. SharesCommits(p, q) /\ SharesCommits(q, p) /\ ~Forked(p, q)
      /\ Classify(c, to) # "Unrelated"
  OBVIOUS
<1> HIDE DEF p, q, c, to, h, g
<1>9. CASE to.lineage = c.active.lineage
  <2>1. IsPrefix(p, q) \/ IsPrefix(q, p)
    BY <1>3, <1>5, <1>6, <1>8, <1>9, EndsForked
  <2>2. IsPrefix(p, q) => p = q \/ c.point < to.point
    BY <1>3, <1>5, <1>6, BeginningsAreEarlier
  <2>3. IsPrefix(q, p) => p = q \/ to.point < c.point
    BY <1>3, <1>5, <1>6, BeginningsAreEarlier
  <2>4. p = q => c.point = to.point
    BY <1>5, <1>6
  <2>5. CASE p = q
    <3>1. Classify(c, to) = "SamePoint"
      BY <2>4, <2>5, <1>3, <1>9 DEF Classify
    <3>2. Truth(p, q) = "SamePoint"
      BY <2>5 DEF Truth
    <3> QED BY <3>1, <3>2 DEF p, q, c, to
  <2>6. CASE p # q /\ IsPrefix(p, q)
    <3>1. c.point < to.point /\ ~IsPrefix(q, p)
      BY <2>2, <2>3, <2>6, <1>3
    <3>2. Classify(c, to) = "FastForward"
      BY <3>1, <1>3, <1>9 DEF Classify
    <3>3. Truth(p, q) = "FastForward"
      BY <3>1, <2>6 DEF Truth, Extends
    <3> QED BY <3>2, <3>3 DEF p, q, c, to
  <2>7. CASE p # q /\ IsPrefix(q, p)
    <3>1. to.point < c.point /\ ~IsPrefix(p, q)
      BY <2>2, <2>3, <2>7, <1>3
    <3>2. Classify(c, to) = "Rollback"
      BY <3>1, <1>3, <1>9 DEF Classify
    <3>3. Truth(p, q) = "Rollback"
      BY <3>1, <2>7 DEF Truth, Extends
    <3> QED BY <3>2, <3>3 DEF p, q, c, to
  <2> QED BY <2>1, <2>5, <2>6, <2>7
<1>10. CASE to.lineage # c.active.lineage
  <2> DEFINE known == Ancestor(c, to.lineage)
             i == CHOOSE j \in known : TRUE
  <2>1. known # {} /\ Classify(c, to) = IF to.point <= BranchAt(c, i) THEN "Rollback" ELSE "Merge"
    BY <1>8, <1>10 DEF Classify
  <2>2. i \in 1..Len(c.ancestors) /\ c.ancestors[i].lineage = to.lineage
    BY <2>1, <1>4 DEF Ancestor
  <2> HIDE DEF i, known
  <2>3. /\ i \in 1..Len(h.chain) /\ i < Len(h.chain) /\ h.chain[i].lineage = to.lineage
        /\ i + 1 \in 1..Len(h.chain) /\ i \in 1..m /\ i < m
    BY <2>2, <1>1, <1>4
  <2>4. BranchAt(c, i) = h.chain[i + 1].origin
    <3>1. i < Len(c.ancestors) => i + 1 \in 1..Len(c.ancestors)
      BY <2>2, <1>4
    <3>2. ~(i < Len(c.ancestors)) => i + 1 = m
      BY <2>2, <1>4
    <3> QED BY <3>1, <3>2, <1>1 DEF BranchAt
  <2> DEFINE b == h.chain[i + 1].origin
  <2>5. PICK n \in 1..Len(p) : p[n].at.lineage = to.lineage /\ p[n].at.point = b
    BY <2>3, <1>1, <1>7 DEF BranchesRecorded
  <2>6. \A k \in 1..Len(p) : p[k].at.lineage = to.lineage => p[k].at.point <= b
    BY <2>3, <1>1, <1>7 DEF BranchesRecorded
  <2>7. ~IsPrefix(p, q) /\ p # q
    <3>1. Len(to.lineage) = i - 1 /\ Len(c.active.lineage) = m - 1 /\ m \in Nat /\ i \in Nat
      <4>1. m \in 1..m /\ m \in Nat /\ i \in Nat
        BY <2>3, <1>4
      <4> HIDE DEF m
      <4> QED BY <4>1, <2>3, <1>1, <1>7
    <3>2. ~(Len(Last(p).at.lineage) <= Len(Last(q).at.lineage))
      BY <3>1, <2>3, <1>5, <1>6
    <3> QED BY <3>2, <1>3, <1>5, <1>6, <1>10, BeginningsAreEarlier
  <2>8. CASE to.point <= b
    <3>1. IsPrefix(q, p)
      <4> SUFFICES ASSUME ~IsPrefix(q, p) PROVE FALSE
        OBVIOUS
      <4>1. Last(q) \in ToSet(q) \ ToSet(p)
        <5>1. Last(q) \in ToSet(q)
          BY <1>3 DEF Last, ToSet
        <5> QED BY <5>1, <1>3, <1>8, LastBegins
      <4>2. p[n] \in ToSet(p)
        BY <2>5, <1>3 DEF ToSet
      <4>3. p[n] \in ToSet(q)
        BY <4>1, <4>2, <2>5, <1>6, <1>8 DEF Forked
      <4>4. PICK j \in 1..Len(q) : q[j] = p[n]
        BY <4>3, <1>3 DEF ToSet
      <4>5. j # Len(q)
        BY <4>1, <4>2, <4>4 DEF Last
      <4>6. j < Len(q) /\ Len(q) \in 1..Len(q) /\ Last(q) = q[Len(q)]
        BY <4>4, <4>5, <1>3 DEF Last
      <4>7. q[j].at.point < to.point
        BY <4>4, <4>6, <1>3, <1>6 DEF Sorted
      <4>8. q[j].at.point = b /\ b \in Nat
        <5>1. p[n].at.point \in Nat
          BY <1>3, EntryTypes
        <5> QED BY <5>1, <4>4, <2>5
      <4> HIDE DEF b
      <4> QED BY <4>7, <4>8, <2>8, <1>3
    <3>2. Truth(p, q) = "Rollback"
      BY <3>1, <2>7 DEF Truth, Extends
    <3> QED BY <3>2, <2>1, <2>4, <2>8 DEF p, q, c, to
  <2>9. CASE ~(to.point <= b)
    <3>1. ~IsPrefix(q, p)
      <4> SUFFICES ASSUME IsPrefix(q, p) PROVE FALSE
        OBVIOUS
      <4>1. Last(q) = p[Len(q)] /\ Len(q) \in 1..Len(p)
        BY <1>3, BeginningsAreEarlier
      <4> QED BY <4>1, <2>6, <2>9, <1>6
    <3>2. Truth(p, q) = "Merge"
      BY <3>1, <2>7 DEF Truth, Extends
    <3> QED BY <3>2, <2>1, <2>4, <2>9 DEF p, q, c, to
  <2> QED BY <2>8, <2>9
<1> QED BY <1>9, <1>10

-----------------------------------------------------------------------------
(* Steps.                                                                  *)

LEMMA NamedByEngine ==
  ASSUME NEW engs, NEW arts, NEW e \in Engine, engs[e] # None
  PROVE  HolderOf(engs[e]) \in Named(engs, arts)
BY DEF Named

LEMMA NamedByArtifact ==
  ASSUME NEW engs, NEW arts, NEW a \in arts
  PROVE  HeldBy(a) \in Named(engs, arts)
BY DEF Named

(* An engine moves to a history that shares its commits with the others    *)
LEMMA EngineMoves ==
  ASSUME NEW engs, NEW arts, NEW n, LineageOK(engs, arts, n), NEW k \in Nat, n <= k,
         NEW e \in Engine, NEW x, EngineOK(x), HolderOK(HolderOf(x)),
         \A i \in 1..Len(x.past) : x.past[i].commit <= k,
         SharesCommits(x.past, x.past),
         \A g \in Named(engs, arts) : SharesCommits(g.past, x.past) /\ SharesCommits(x.past, g.past)
  PROVE  LineageOK([engs EXCEPT ![e] = x], arts, k)
<1> DEFINE moved == [engs EXCEPT ![e] = x]
           h == HolderOf(x)
<1>1. engs = [d \in Engine |-> engs[d]] /\ n \in Nat
  BY DEF LineageOK
<1>2. /\ moved = [d \in Engine |-> moved[d]] /\ moved[e] = x
      /\ \A d \in Engine : d # e => moved[d] = engs[d]
  BY <1>1
<1>3. h.past = x.past
  BY DEF HolderOf
<1> HIDE DEF moved
<1>4. \A g \in Named(moved, arts) : g = h \/ g \in Named(engs, arts)
  <2> SUFFICES ASSUME NEW g \in Named(moved, arts), g # h
               PROVE  g \in Named(engs, arts)
    OBVIOUS
  <2>1. CASE \E d \in Engine : moved[d] # None /\ g = HolderOf(moved[d])
    <3>1. PICK d \in Engine : moved[d] # None /\ g = HolderOf(moved[d])
      BY <2>1
    <3>2. moved[d] = engs[d]
      BY <3>1, <1>2
    <3> QED BY <3>1, <3>2, NamedByEngine
  <2>2. CASE \E a \in arts : g = HeldBy(a)
    BY <2>2, NamedByArtifact
  <2> QED BY <2>1, <2>2 DEF Named
<1>5. ASSUME NEW g \in Named(engs, arts)
      PROVE  HolderOK(g) /\ \A i \in 1..Len(g.past) : g.past[i].commit <= k
  <2>1. HolderOK(g) /\ \A i \in 1..Len(g.past) : g.past[i].commit <= n
    BY DEF LineageOK
  <2>2. ASSUME NEW i \in 1..Len(g.past) PROVE g.past[i].commit <= k
    <3>1. g.past[i].commit \in Nat /\ g.past[i].commit <= n
      BY <2>1, HolderTypes, EntryTypes
    <3> QED BY <3>1, <1>1
  <2> QED BY <2>1, <2>2
<1>6. \A f, g \in Named(engs, arts) : SharesCommits(f.past, g.past)
  BY DEF LineageOK
<1>7. \A g \in Named(engs, arts) : SharesCommits(g.past, h.past) /\ SharesCommits(h.past, g.past)
  BY <1>3
<1>8. HolderOK(h) /\ SharesCommits(h.past, h.past) /\ \A i \in 1..Len(h.past) : h.past[i].commit <= k
  BY <1>3
<1>9. \A d \in Engine : moved[d] # None => EngineOK(moved[d])
  BY <1>2 DEF LineageOK
<1>10. \A a \in arts : ArtifactOK(a)
  BY DEF LineageOK
<1> HIDE DEF h
<1>11. \A g \in Named(moved, arts) : HolderOK(g) /\ \A i \in 1..Len(g.past) : g.past[i].commit <= k
  BY <1>4, <1>5, <1>8
<1>12. \A f, g \in Named(moved, arts) : SharesCommits(f.past, g.past)
  BY <1>4, <1>6, <1>7, <1>8
<1> QED BY <1>2, <1>9, <1>10, <1>11, <1>12 DEF LineageOK, moved

LEMMA NextOfCursor ==
  ASSUME NEW c \in Cursor
  PROVE  /\ ToNext(c) \in Cursor
         /\ ToNext(c).ancestors = c.ancestors /\ ToNext(c).active = c.active
         /\ ToNext(c).point = c.next /\ ToNext(c).next = c.next + 1
         /\ c.next \in Nat /\ c.point \in Nat
<1>1. c.next \in Nat /\ c.next + 1 \in Nat /\ c.point \in Nat
  BY DEF Cursor
<1>2. ToNext(c) = [c EXCEPT !.point = c.next, !.next = c.next + 1]
  BY DEF ToNext
<1> QED BY <1>1, <1>2 DEF Cursor

(* The commits of a past with one more, made now                           *)
LEMMA GrownShares ==
  ASSUME NEW p \in Seq(Entry), NEW n \in Nat, \A i \in 1..Len(p) : p[i].commit <= n,
         NEW at \in Place, NEW q \in Seq(Entry), \A i \in 1..Len(q) : q[i].commit <= n,
         SharesCommits(p, q), SharesCommits(q, p), SharesCommits(p, p)
  PROVE  LET grown == Append(p, [commit |-> n + 1, at |-> at]) IN
         /\ SharesCommits(grown, q) /\ SharesCommits(q, grown) /\ SharesCommits(grown, grown)
<1> DEFINE new == [commit |-> n + 1, at |-> at]
           grown == Append(p, new)
<1>1. new \in Entry /\ new.commit = n + 1
  BY DEF Entry
<1> HIDE DEF new
<1>2. /\ grown \in Seq(Entry) /\ Len(grown) = Len(p) + 1 /\ Len(p) \in Nat
      /\ grown[Len(p) + 1] = new /\ \A i \in 1..Len(p) : grown[i] = p[i]
  BY <1>1
<1>3. \A i \in 1..Len(grown) : i \in 1..Len(p) \/ i = Len(p) + 1
  BY <1>2
<1>4. \A i \in 1..Len(p) : p[i].commit \in Nat /\ p[i].commit <= n /\ p[i].commit # n + 1
                           /\ (\A k \in 1..i : k \in 1..Len(p))
  <2> SUFFICES ASSUME NEW i \in 1..Len(p)
               PROVE  /\ p[i].commit \in Nat /\ p[i].commit <= n /\ p[i].commit # n + 1
                      /\ (\A k \in 1..i : k \in 1..Len(p))
    OBVIOUS
  <2>1. p[i].commit \in Nat
    BY EntryTypes
  <2> QED BY <2>1
<1>5. \A i \in 1..Len(q) : q[i].commit # n + 1
  <2> SUFFICES ASSUME NEW i \in 1..Len(q) PROVE q[i].commit # n + 1
    OBVIOUS
  <2>1. q[i].commit \in Nat
    BY EntryTypes
  <2> QED BY <2>1
<1> HIDE DEF grown
<1>6. SharesCommits(grown, q)
  BY <1>1, <1>2, <1>3, <1>4, <1>5 DEF SharesCommits
<1>7. SharesCommits(q, grown)
  BY <1>1, <1>2, <1>3, <1>4, <1>5 DEF SharesCommits
<1>8. SharesCommits(grown, grown)
  <2> SUFFICES ASSUME NEW i \in 1..Len(grown), NEW j \in 1..Len(grown),
                      grown[i].commit = grown[j].commit
               PROVE  i = j /\ \A k \in 1..i : grown[k] = grown[k]
    BY DEF SharesCommits
  <2>1. CASE i \in 1..Len(p) /\ j \in 1..Len(p)
    BY <2>1, <1>2 DEF SharesCommits
  <2>2. CASE ~(i \in 1..Len(p) /\ j \in 1..Len(p))
    BY <2>2, <1>1, <1>2, <1>3, <1>4
  <2> QED BY <2>1, <2>2
<1> QED BY <1>6, <1>7, <1>8 DEF grown, new

(* What a commit makes of a history: it goes on where that one ends, on    *)
(* its last lineage or on one that starts there                            *)
LEMMA GrownHistory ==
  ASSUME NEW h, HolderOK(h), NEW t, t.chain \in Seq(Link), Len(t.chain) > 0,
         NEW point \in Nat, h.point < point, NEW n \in Nat,
         [lineage |-> Last(t.chain).lineage, point |-> point] \in Place,
         t = [chain |-> t.chain, point |-> point, misled |-> h.misled,
              past |-> Append(h.past, [commit |-> n,
                         at |-> [lineage |-> Last(t.chain).lineage, point |-> point]])],
         \/ t.chain = h.chain
         \/ \E l : /\ t.chain = Append(h.chain, [lineage |-> l, origin |-> h.point])
                   /\ Len(l) = Len(h.chain)
  PROVE  HolderOK(t)
<1> DEFINE L == Len(h.chain)
           N == Len(h.past)
           T == Len(t.chain)
           p == h.past
           q == t.past
           at == [lineage |-> Last(t.chain).lineage, point |-> point]
           new == [commit |-> n, at |-> at]
<1>1. /\ h.chain \in Seq(Link) /\ L \in Nat /\ L > 0 /\ L \in 1..L /\ h.point \in Nat
      /\ p \in Seq(Entry) /\ N \in Nat /\ N > 0 /\ N \in 1..N /\ h.misled \in BOOLEAN
  BY HolderTypes
<1>2. /\ h.chain[1].origin = 0 /\ (\A i \in 1..L : Len(h.chain[i].lineage) = i - 1)
      /\ Sorted(p) /\ Last(p).at = [lineage |-> h.chain[L].lineage, point |-> h.point]
      /\ (~h.misled => BranchesRecorded(h))
  BY <1>1 DEF HolderOK, Last
<1>3. /\ T \in Nat /\ T \in 1..T /\ Last(t.chain) = t.chain[T] /\ t.chain[T] \in Link
      /\ t.chain[T].lineage \in LineageId
  <2>1. T \in Nat /\ T \in 1..T /\ Last(t.chain) = t.chain[T] /\ t.chain[T] \in Link
    BY DEF Last
  <2> QED BY <2>1 DEF Link
<1>4. /\ \A i \in 1..L : t.chain[i] = h.chain[i]
      /\ T = L \/ (T = L + 1 /\ t.chain[T].origin = h.point)
      /\ Len(t.chain[T].lineage) = T - 1
  <2>1. CASE t.chain = h.chain
    BY <2>1, <1>1, <1>2
  <2>2. CASE \E l : /\ t.chain = Append(h.chain, [lineage |-> l, origin |-> h.point])
                    /\ Len(l) = Len(h.chain)
    <3>1. PICK l : /\ t.chain = Append(h.chain, [lineage |-> l, origin |-> h.point])
                   /\ Len(l) = Len(h.chain)
      BY <2>2
    <3> QED BY <3>1, <1>1
  <2> QED BY <2>1, <2>2
<1>5. at \in Place /\ new \in Entry /\ new.at = at
  BY DEF Entry
<1>6. t.past = Append(p, new) /\ t.point = point /\ t.misled = h.misled
  OBVIOUS
<1>7. at.lineage = t.chain[T].lineage /\ at.point = point
  BY <1>3
<1> HIDE DEF at, new, p, q, L, N, T
<1>8. /\ q \in Seq(Entry) /\ Len(q) = N + 1 /\ q[N + 1] = new /\ \A i \in 1..N : q[i] = p[i]
  BY <1>1, <1>5, <1>6 DEF q, N, p
<1>9. Last(p) = p[N]
  BY DEF Last, N, p
<1>10. \A i \in 1..N : /\ p[i].at.point \in Nat /\ p[i].at.point <= h.point
                       /\ Len(p[i].at.lineage) \in Nat /\ Len(p[i].at.lineage) <= L - 1
  <2> SUFFICES ASSUME NEW i \in 1..N
               PROVE  /\ p[i].at.point \in Nat /\ p[i].at.point <= h.point
                      /\ Len(p[i].at.lineage) \in Nat /\ Len(p[i].at.lineage) <= L - 1
    OBVIOUS
  <2>1. p[i].at.point \in Nat /\ Len(p[i].at.lineage) \in Nat
    BY <1>1, EntryTypes DEF N, p
  <2>2. p[N].at.point = h.point /\ Len(p[N].at.lineage) = L - 1
    <3>1. p[N].at.lineage = h.chain[L].lineage /\ p[N].at.point = h.point
      BY <1>2, <1>9
    <3>2. Len(h.chain[L].lineage) = L - 1
      BY <1>1, <1>2
    <3> QED BY <3>1, <3>2
  <2>3. i < N => p[i].at.point < p[N].at.point /\ Len(p[i].at.lineage) <= Len(p[N].at.lineage)
    BY <1>1, <1>2 DEF Sorted, N, p
  <2>4. N \in Nat /\ N > 0 /\ L \in Nat /\ h.point \in Nat
    BY <1>1 DEF N, L
  <2>5. CASE i = N
    <3>1. p[i].at.point = h.point /\ Len(p[i].at.lineage) = L - 1
      BY <2>2, <2>5
    <3> QED BY <3>1, <2>1, <2>4
  <2>6. CASE i # N
    <3>1. i < N
      BY <2>4, <2>6
    <3>2. p[i].at.point < h.point /\ Len(p[i].at.lineage) <= L - 1
      BY <3>1, <2>2, <2>3
    <3> QED BY <3>2, <2>1, <2>4
  <2> QED BY <2>5, <2>6
<1>11. Sorted(q)
  <2> SUFFICES ASSUME NEW i \in 1..Len(q), NEW j \in 1..Len(q), i < j
               PROVE  /\ q[i].at.point < q[j].at.point
                      /\ Len(q[i].at.lineage) <= Len(q[j].at.lineage)
    BY DEF Sorted
  <2>1. i \in 1..N
    BY <1>1, <1>8
  <2>2. CASE j \in 1..N
    BY <2>1, <2>2, <1>2, <1>8 DEF Sorted, N, p
  <2>3. CASE j = N + 1
    <3>1. q[j].at.point = point /\ Len(q[j].at.lineage) = T - 1
      BY <2>3, <1>4, <1>5, <1>7, <1>8
    <3>2. q[i].at.point <= h.point /\ Len(q[i].at.lineage) <= L - 1
      /\ q[i].at.point \in Nat /\ Len(q[i].at.lineage) \in Nat
      BY <2>1, <1>8, <1>10
    <3>3. L <= T /\ L \in Nat /\ T \in Nat
      BY <1>1, <1>3, <1>4
    <3>4. h.point \in Nat
      BY <1>1
    <3>5. q[i].at.point < q[j].at.point
      BY <3>1, <3>2, <3>4
    <3>6. Len(q[i].at.lineage) <= Len(q[j].at.lineage)
      BY <3>1, <3>2, <3>3
    <3> QED BY <3>5, <3>6
  <2>4. j \in 1..N \/ j = N + 1
    BY <1>1, <1>8
  <2> QED BY <2>2, <2>3, <2>4
<1>12. \A i \in 1..T : Len(t.chain[i].lineage) = i - 1
  <2> SUFFICES ASSUME NEW i \in 1..T PROVE Len(t.chain[i].lineage) = i - 1
    OBVIOUS
  <2>1. i \in 1..L \/ i = T
    BY <1>1, <1>3, <1>4
  <2> QED BY <2>1, <1>2, <1>4
<1>13. Last(q).at = [lineage |-> Last(t.chain).lineage, point |-> t.point]
  BY <1>1, <1>3, <1>5, <1>6, <1>8 DEF Last, at
<1>14. ASSUME ~h.misled PROVE BranchesRecorded(t)
  <2> SUFFICES ASSUME NEW i \in 1..T, i < T
               PROVE  /\ \E m \in 1..Len(q) : /\ q[m].at.lineage = t.chain[i].lineage
                                              /\ q[m].at.point = t.chain[i + 1].origin
                      /\ \A m \in 1..Len(q) : q[m].at.lineage = t.chain[i].lineage
                            => q[m].at.point <= t.chain[i + 1].origin
    BY DEF BranchesRecorded, q, T
  <2>1. i \in 1..L /\ t.chain[i] = h.chain[i] /\ Len(t.chain[i].lineage) = i - 1
    BY <1>1, <1>3, <1>4, <1>12
  <2>2. q[N + 1].at.lineage # t.chain[i].lineage
    <3>1. Len(q[N + 1].at.lineage) = T - 1
      BY <1>4, <1>5, <1>7, <1>8
    <3> QED BY <3>1, <2>1, <1>3
  <2>3. \A m \in 1..Len(q) : m \in 1..N \/ m = N + 1
    BY <1>1, <1>8
  <2>4. 1..N \subseteq 1..Len(q)
    BY <1>1, <1>8
  <2>5. CASE i < L
    <3>1. t.chain[i + 1] = h.chain[i + 1]
      <4>1. i + 1 \in 1..L
        BY <2>5, <1>1
      <4> QED BY <4>1, <1>4
    <3>2. /\ \E m \in 1..N : /\ p[m].at.lineage = h.chain[i].lineage
                             /\ p[m].at.point = h.chain[i + 1].origin
          /\ \A m \in 1..N : p[m].at.lineage = h.chain[i].lineage
                                => p[m].at.point <= h.chain[i + 1].origin
      BY <2>1, <2>5, <1>2, <1>14 DEF BranchesRecorded, N, p, L
    <3> QED BY <3>1, <3>2, <2>1, <2>2, <2>3, <2>4, <1>8
  <2>6. CASE i = L
    <3>1. t.chain[i + 1].origin = h.point
      BY <2>6, <1>1, <1>3, <1>4
    <3>2. N \in 1..Len(q) /\ q[N].at.lineage = t.chain[i].lineage /\ q[N].at.point = h.point
      <4>1. p[N].at.lineage = h.chain[L].lineage /\ p[N].at.point = h.point
        BY <1>2, <1>9
      <4>2. N \in 1..N /\ q[N] = p[N]
        BY <1>1, <1>8
      <4> QED BY <4>1, <4>2, <2>1, <2>4, <2>6
    <3>3. \A m \in 1..N : q[m].at.point <= h.point
      BY <1>8, <1>10
    <3> QED BY <3>1, <3>2, <3>3, <2>2, <2>3
  <2> QED BY <2>1, <2>5, <2>6, <1>1
<1>15. t.chain[1].origin = 0
  <2>1. 1 \in 1..L
    BY <1>1
  <2> QED BY <2>1, <1>2, <1>4
<1>17. ASSUME NEW i \in 1..T, NEW j \in 1..T, i <= j
       PROVE  t.chain[i].origin <= t.chain[j].origin
  <2>1. CASE j \in 1..L
    <3>1. i \in 1..L
      BY <2>1, <1>1, <1>17
    <3>2. h.chain[i].origin <= h.chain[j].origin
      BY <2>1, <3>1, <1>17 DEF HolderOK, L
    <3> QED BY <2>1, <3>1, <3>2, <1>4
  <2>2. CASE j \notin 1..L
    <3>1. j = T /\ T = L + 1 /\ t.chain[T].origin = h.point
      BY <2>2, <1>1, <1>3, <1>4
    <3>2. CASE i = j
      BY <3>1, <3>2, <1>1
    <3>3. CASE i # j
      <4>1. i \in 1..L
        BY <3>1, <3>3, <1>1, <1>17
      <4>2. h.chain[i].origin \in Nat /\ h.chain[i].origin < h.point
        BY <4>1, OriginsPrecede DEF L
      <4>3. t.chain[i].origin = h.chain[i].origin /\ t.chain[j].origin = h.point
        BY <3>1, <4>1, <1>4
      <4>4. h.point \in Nat
        BY <1>1
      <4> QED BY <4>2, <4>3, <4>4
    <3> QED BY <3>2, <3>3
  <2> QED BY <2>1, <2>2
<1>16. t \in Holder
  <2>1. t.past = q
    BY DEF q
  <2> QED BY <2>1, <1>1, <1>6, <1>8 DEF Holder
<1> QED BY <1>1, <1>6, <1>8, <1>11, <1>12, <1>13, <1>14, <1>15, <1>16, <1>17 DEF HolderOK, q, T

(* A commit on the lineage that is active, or on a new one                 *)
LEMMA CommitGrows ==
  ASSUME LineageInv, NEW e \in Engine, Live(e), NEW d \in Cursor, Committing(e, d),
         engines[e].cursor.point < d.point, d.point < d.next, Selected(d) \in Place,
         LET c == engines[e].cursor IN
           \/ d.ancestors = c.ancestors /\ d.active = c.active
           \/ /\ d.ancestors = Append(c.ancestors, c.active)
              /\ \E l : /\ d.active = [lineage |-> l, origin |-> c.point]
                        /\ Len(l) = Len(c.active.lineage) + 1
  PROVE  LineageInv'
<1> DEFINE y == engines[e]
           c == y.cursor
           new == [commit |-> commits + 1, at |-> Selected(d)]
           x == [cursor |-> d, past |-> Append(y.past, new), misled |-> y.misled]
           h == HolderOf(y)
           t == HolderOf(x)
<1>1. /\ EngineOK(y) /\ h \in Named(engines, artifacts) /\ HolderOK(h) /\ commits \in Nat
      /\ \A i \in 1..Len(h.past) : h.past[i].commit <= commits
  BY NamedByEngine DEF LineageInv, LineageOK, Live
<1>2. /\ h.chain \in Seq(Link) /\ Len(h.chain) \in Nat /\ Len(h.chain) > 0
      /\ h.past \in Seq(Entry) /\ h.point \in Nat
  BY <1>1, HolderTypes
<1>3. /\ c.ancestors \in Seq(Link) /\ c.active \in Link
      /\ h.chain = Append(c.ancestors, c.active) /\ h.point = c.point
      /\ h.past = y.past /\ h.misled = y.misled
  BY <1>1 DEF EngineOK, Cursor, HolderOf
<1>4. /\ d.ancestors \in Seq(Link) /\ d.active \in Link /\ d.point \in Nat
      /\ d.active.lineage \in LineageId
  <2>1. d.ancestors \in Seq(Link) /\ d.active \in Link /\ d.point \in Nat
    BY DEF Cursor
  <2> QED BY <2>1 DEF Link
<1>5. EngineOK(x)
  BY DEF EngineOK
<1>6. /\ t.chain = Append(d.ancestors, d.active) /\ t.point = d.point /\ t.past = x.past
      /\ t.misled = h.misled
      /\ t = [chain |-> t.chain, point |-> d.point, misled |-> h.misled,
              past |-> Append(h.past, new)]
  BY <1>3 DEF HolderOf
<1>7. /\ t.chain \in Seq(Link) /\ Len(t.chain) > 0 /\ Last(t.chain) = d.active
  <2> DEFINE s == Append(d.ancestors, d.active)
  <2>1. s \in Seq(Link) /\ Len(s) > 0 /\ s[Len(s)] = d.active
    BY <1>4
  <2> HIDE DEF s
  <2>2. t.chain = s
    BY <1>6 DEF s
  <2> QED BY <2>1, <2>2 DEF Last
<1>8. new = [commit |-> commits + 1, at |-> [lineage |-> Last(t.chain).lineage, point |-> d.point]]
  BY <1>7 DEF Selected
<1>9. \/ t.chain = h.chain
      \/ \E l : /\ t.chain = Append(h.chain, [lineage |-> l, origin |-> h.point])
                /\ Len(l) = Len(h.chain)
  <2>1. CASE d.ancestors = c.ancestors /\ d.active = c.active
    BY <2>1, <1>3, <1>6
  <2>2. CASE /\ d.ancestors = Append(c.ancestors, c.active)
             /\ \E l : /\ d.active = [lineage |-> l, origin |-> c.point]
                       /\ Len(l) = Len(c.active.lineage) + 1
    <3>1. PICK l : d.active = [lineage |-> l, origin |-> c.point]
                   /\ Len(l) = Len(c.active.lineage) + 1
      BY <2>2
    <3>2. t.chain = Append(h.chain, [lineage |-> l, origin |-> h.point])
      BY <3>1, <2>2, <1>3, <1>6
    <3>3. Len(h.chain) \in 1..Len(h.chain) /\ h.chain[Len(h.chain)] = c.active
      BY <1>3
    <3>4. Len(c.active.lineage) = Len(h.chain) - 1
      BY <3>3, <1>1 DEF HolderOK
    <3>5. Len(l) = Len(h.chain)
      BY <3>1, <3>4, <1>2
    <3> QED BY <3>2, <3>5
  <2> QED BY <2>1, <2>2
<1>10. h.point < d.point /\ commits + 1 \in Nat /\ d.point \in Nat
  BY <1>1, <1>3, <1>4
<1>11. engines' = [engines EXCEPT ![e] = x] /\ artifacts' = artifacts /\ commits' = commits + 1
  <2>1. engines = [f \in Engine |-> engines[f]]
    BY DEF LineageInv, LineageOK
  <2> QED BY <2>1 DEF Committing
<1>12. [lineage |-> Last(t.chain).lineage, point |-> d.point] \in Place
  BY <1>7 DEF Selected
<1>13. Len(x.past) = Len(h.past) + 1 /\ x.past = Append(h.past, new)
       /\ \A i \in 1..Len(x.past) : x.past[i].commit <= commits + 1
  <2>1. new \in Entry /\ new.commit = commits + 1
    BY <1>8, <1>10, <1>12 DEF Entry
  <2>2. x.past = Append(h.past, new)
    BY <1>3
  <2> HIDE DEF x, new, h
  <2>3. Len(x.past) = Len(h.past) + 1 /\ x.past[Len(h.past) + 1] = new
        /\ \A i \in 1..Len(h.past) : x.past[i] = h.past[i]
    BY <2>1, <2>2, <1>2
  <2>4. ASSUME NEW i \in 1..Len(x.past) PROVE x.past[i].commit <= commits + 1
    <3>1. CASE i \in 1..Len(h.past)
      <4>1. h.past[i].commit \in Nat /\ h.past[i].commit <= commits
        BY <3>1, <1>1, <1>2, EntryTypes
      <4> QED BY <4>1, <3>1, <2>3, <1>1
    <3>2. CASE i = Len(h.past) + 1
      BY <3>2, <2>1, <2>3, <1>10
    <3> QED BY <3>1, <3>2, <2>3, <1>2
  <2> QED BY <2>2, <2>3, <2>4
<1> HIDE DEF x, h, t, new, c, y
<1>14. HolderOK(t)
  <2> DEFINE n == commits + 1
             q == d.point
             at == [lineage |-> Last(t.chain).lineage, point |-> q]
  <2>1. t = [chain |-> t.chain, point |-> q, misled |-> h.misled,
             past |-> Append(h.past, [commit |-> n, at |-> at])]
    BY <1>6, <1>8
  <2>2. n \in Nat /\ q \in Nat /\ h.point < q /\ at \in Place
    BY <1>10, <1>12
  <2> HIDE DEF n, q
  <2>3. HolderOK(h) /\ t.chain \in Seq(Link) /\ Len(t.chain) > 0
    BY <1>1, <1>7
  <2> QED BY <2>1, <2>2, <2>3, <1>9, GrownHistory
<1>15. ASSUME NEW g \in Named(engines, artifacts)
       PROVE  /\ SharesCommits(g.past, x.past) /\ SharesCommits(x.past, g.past)
              /\ SharesCommits(x.past, x.past)
  <2>1. /\ SharesCommits(g.past, h.past) /\ SharesCommits(h.past, g.past)
        /\ SharesCommits(h.past, h.past) /\ HolderOK(g)
        /\ \A i \in 1..Len(g.past) : g.past[i].commit <= commits
    BY <1>1 DEF LineageInv, LineageOK
  <2>2. g.past \in Seq(Entry)
    BY <2>1, HolderTypes
  <2> QED BY <2>1, <2>2, <1>1, <1>2, <1>8, <1>12, <1>13, GrownShares
<1>16. LineageOK([engines EXCEPT ![e] = x], artifacts, commits + 1)
  <2>1. LineageOK(engines, artifacts, commits) /\ commits <= commits + 1
    BY <1>1 DEF LineageInv
  <2>2. HolderOK(HolderOf(x)) /\ SharesCommits(x.past, x.past)
    BY <1>1, <1>14, <1>15 DEF t
  <2> QED BY <2>1, <2>2, <1>5, <1>10, <1>13, <1>15, EngineMoves
<1> QED BY <1>11, <1>16 DEF LineageInv

(* A commit where the active lineage goes on                               *)
LEMMA ContinueStep ==
  ASSUME LineageInv, NEW e \in Engine, Live(e), Committing(e, ToNext(engines[e].cursor))
  PROVE  LineageInv'
<1> DEFINE c == engines[e].cursor
           d == ToNext(c)
<1>1. c \in Cursor /\ c.point < c.next
  BY DEF LineageInv, LineageOK, Live, EngineOK
<1>2. /\ d \in Cursor /\ d.ancestors = c.ancestors /\ d.active = c.active
      /\ d.point = c.next /\ d.next = c.next + 1 /\ c.next \in Nat
  BY <1>1, NextOfCursor
<1> HIDE DEF d
<1>3. d.point < d.next /\ c.point < d.point
  BY <1>1, <1>2
<1>4. Committing(e, d)
  BY DEF d
<1>5. Selected(d) \in Place
  <2> DEFINE h == HolderOf(engines[e])
  <2>1. EngineOK(engines[e]) /\ HolderOK(h)
    BY NamedByEngine DEF LineageInv, LineageOK, Live
  <2>2. Last(h.past).at = [lineage |-> c.active.lineage, point |-> c.point]
    BY <2>1, ChainOfCursor DEF HolderOK, Last
  <2>3. Last(h.past).at \in Place
    BY <2>1, HolderTypes, EntryTypes DEF Last
  <2>4. c.active.lineage \in LineageId /\ c.point \in Nat /\ Birth(c.active.lineage) <= c.point
    BY <2>2, <2>3 DEF Place
  <2>5. Birth(c.active.lineage) \in Nat
    BY <2>4, BirthTypes
  <2>6. Birth(c.active.lineage) <= d.point /\ d.point \in Nat
    BY <2>4, <2>5, <1>1, <1>2
  <2> QED BY <2>4, <2>6, <1>2 DEF Selected, Place
<1> QED BY <1>2, <1>3, <1>4, <1>5, CommitGrows

(* A commit on a lineage of its own                                        *)
LEMMA BranchStep ==
  ASSUME LineageInv, NEW e \in Engine, Live(e), NEW kind \in {"b", "m"},
         Committing(e, ToNext(Branch(engines[e].cursor, kind)))
  PROVE  LineageInv'
<1> DEFINE c == engines[e].cursor
           b == Branch(c, kind)
           d == ToNext(b)
           l == Branched(c, kind)
           link == [lineage |-> l, origin |-> c.point]
<1>1. c \in Cursor /\ c.point < c.next
  BY DEF LineageInv, LineageOK, Live, EngineOK
<1>2. c.ancestors \in Seq(Link) /\ c.active \in Link /\ c.point \in Nat /\ c.next \in Nat
  BY <1>1 DEF Cursor
<1>3. l \in LineageId /\ Len(l) = Len(c.active.lineage) + 1
  <2>1. c.active.lineage \in Seq({"b", "m"} \X Nat) /\ <<kind, c.next>> \in {"b", "m"} \X Nat
    BY <1>2 DEF Link, LineageId
  <2> QED BY <2>1 DEF Branched, LineageId
<1>4. link \in Link /\ Birth(l) = c.next
  <2>1. Birth(l) = c.next
    <3>1. l = Append(c.active.lineage, <<kind, c.next>>)
      BY DEF Branched
    <3>2. c.active.lineage \in Seq({"b", "m"} \X Nat)
      BY <1>2 DEF Link, LineageId
    <3> DEFINE s == c.active.lineage
               v == <<kind, c.next>>
    <3>4. s \in Seq({"b", "m"} \X Nat) /\ v \in {"b", "m"} \X Nat /\ l = Append(s, v)
      BY <3>1, <3>2, <1>2
    <3> HIDE DEF s, v, l
    <3>5. l # << >> /\ l[Len(l)] = v
      BY <3>4
    <3>3. l # << >> /\ l[Len(l)] = <<kind, c.next>>
      BY <3>5 DEF v
    <3>6. Birth(l) = <<kind, c.next>>[2]
      BY <3>3 DEF Birth, Last
    <3> QED BY <3>6
  <2> QED BY <2>1, <1>1, <1>2, <1>3 DEF Link
<1>5. /\ b \in Cursor /\ b.ancestors = Append(c.ancestors, c.active) /\ b.active = link
      /\ b.point = c.point /\ b.next = c.next
  <2>1. Append(c.ancestors, c.active) \in Seq(Link)
    BY <1>2
  <2> HIDE DEF l, link
  <2>2. b = [c EXCEPT !.ancestors = Append(c.ancestors, c.active), !.active = link,
                      !.branch_pending = FALSE]
    BY DEF Branch, l, link
  <2> QED BY <2>1, <2>2, <1>1, <1>4 DEF Cursor
<1> HIDE DEF b
<1>6. /\ d \in Cursor /\ d.ancestors = b.ancestors /\ d.active = b.active
      /\ d.point = c.next /\ d.next = c.next + 1
  BY <1>5, NextOfCursor
<1>7. Committing(e, d)
  BY DEF b
<1> HIDE DEF d, l
<1>8. /\ d.ancestors = Append(c.ancestors, c.active)
      /\ d.active = [lineage |-> l, origin |-> c.point]
  BY <1>5, <1>6
<1>9. d.point < d.next /\ c.point < d.point
  BY <1>1, <1>2, <1>6
<1>10. Selected(d) \in Place
  BY <1>2, <1>3, <1>4, <1>6, <1>8 DEF Selected, Place
<1> QED BY <1>3, <1>6, <1>7, <1>8, <1>9, <1>10, CommitGrows

LEMMA CommitStep ==
  ASSUME LineageInv, NEW e \in Engine, Commit(e)
  PROVE  LineageInv'
<1> DEFINE c == engines[e].cursor
<1>1. Live(e) /\ Committing(e, Advance(c))
  BY DEF Commit
<1>2. CASE c.branch_pending
  <2>1. Advance(c) = ToNext(Branch(c, "b"))
    BY <1>2 DEF Advance
  <2> QED BY <1>1, <2>1, BranchStep
<1>3. CASE ~c.branch_pending
  <2>1. Advance(c) = ToNext(c)
    BY <1>3 DEF Advance
  <2> QED BY <1>1, <2>1, ContinueStep
<1> QED BY <1>2, <1>3

LEMMA MergeStep ==
  ASSUME LineageInv, NEW e \in Engine, ActivateMerge(e)
  PROVE  LineageInv'
<1>1. Live(e) /\ Committing(e, ToNext(Branch(engines[e].cursor, "m")))
  BY DEF ActivateMerge, BeginReconciled
<1> QED BY <1>1, BranchStep

(* An engine takes the state an artifact holds                             *)
LEMMA EngineTakes ==
  ASSUME LineageInv, NEW e \in Engine, NEW a \in artifacts, NEW x, EngineOK(x),
         HolderOK(HolderOf(x)), x.past = a.past,
         engines' = [engines EXCEPT ![e] = x], UNCHANGED <<artifacts, commits>>
  PROVE  LineageInv'
<1> DEFINE g == HeldBy(a)
<1>1. commits \in Nat /\ commits <= commits /\ LineageOK(engines, artifacts, commits)
  BY DEF LineageInv, LineageOK
<1>2. g \in Named(engines, artifacts) /\ g.past = x.past
  BY NamedByArtifact DEF HeldBy
<1>3. \A i \in 1..Len(x.past) : x.past[i].commit <= commits
  BY <1>2 DEF LineageInv, LineageOK
<1>4. /\ SharesCommits(x.past, x.past)
      /\ \A f \in Named(engines, artifacts) :
           SharesCommits(f.past, x.past) /\ SharesCommits(x.past, f.past)
  BY <1>2 DEF LineageInv, LineageOK
<1>5. LineageOK([engines EXCEPT ![e] = x], artifacts, commits)
  BY <1>1, <1>3, <1>4, EngineMoves
<1> QED BY <1>5 DEF LineageInv

LEMMA RestoreStep ==
  ASSUME LineageInv, NEW e \in Engine, NEW a \in artifacts, Restore(e, a)
  PROVE  LineageInv'
<1> DEFINE g == HeldBy(a)
           d == Restored(a.selected, a.index)
           x == [cursor |-> d, past |-> a.past, misled |-> a.misled]
<1>1. HolderOK(g)
  BY NamedByArtifact DEF LineageInv, LineageOK
<1>2. g.chain \in Seq(Link) /\ g.point \in Nat /\ Len(g.chain) > 0
  BY <1>1, HolderTypes
<1>3. a.selected.point = g.point /\ RestoredChain(a.selected.lineage, a.index) = g.chain
      /\ g.past = a.past /\ g.misled = a.misled
  BY DEF HeldBy
<1>4. d = [ancestors |-> Front(g.chain), active |-> Last(g.chain), point |-> g.point,
           next |-> g.point + 1, branch_pending |-> FALSE]
  BY <1>3 DEF Restored
<1>5. Front(g.chain) \in Seq(Link) /\ Last(g.chain) \in Link
      /\ Append(Front(g.chain), Last(g.chain)) = g.chain
  <2> DEFINE chain == g.chain
  <2>1. chain \in Seq(Link) /\ Len(chain) > 0
    BY <1>2
  <2> HIDE DEF chain
  <2>2. /\ Front(chain) \in Seq(Link) /\ Last(chain) \in Link
        /\ Append(Front(chain), Last(chain)) = chain
    BY <2>1 DEF Front, Last
  <2> QED BY <2>2 DEF chain
<1> HIDE DEF d
<1>6. EngineOK(x)
  <2> HIDE DEF g
  <2> DEFINE p == Front(g.chain)
             q == Last(g.chain)
             r == g.point
  <2>1. p \in Seq(Link) /\ q \in Link /\ r \in Nat /\ r + 1 \in Nat /\ r < r + 1
    BY <1>2, <1>5
  <2>2. d = [ancestors |-> p, active |-> q, point |-> r, next |-> r + 1, branch_pending |-> FALSE]
    BY <1>4
  <2> HIDE DEF p, q, r
  <2> QED BY <2>1, <2>2 DEF EngineOK, Cursor
<1>7. HolderOf(x) = g
  <2>1. d.ancestors = Front(g.chain) /\ d.active = Last(g.chain) /\ d.point = g.point
    BY <1>4
  <2>2. g = [chain |-> g.chain, point |-> g.point, past |-> a.past, misled |-> a.misled]
    BY <1>3 DEF HeldBy
  <2> QED BY <2>1, <2>2, <1>5 DEF HolderOf
<1>8. engines' = [engines EXCEPT ![e] = x] /\ UNCHANGED <<artifacts, commits>>
  BY DEF Restore, d
<1>9. HolderOK(HolderOf(x)) /\ x.past = a.past
  BY <1>1, <1>7
<1> HIDE DEF x
<1> QED BY <1>6, <1>8, <1>9, EngineTakes

(* An engine takes over the state of an artifact where its own chain is on *)
(* the artifact's lineage                                                  *)
LEMMA TakenHistory ==
  ASSUME NEW h, HolderOK(h), NEW g, HolderOK(g), NEW i \in 1..Len(h.chain),
         h.chain[i].lineage = Last(g.chain).lineage,
         NEW t, t = [chain |-> SubSeq(h.chain, 1, i), point |-> g.point, past |-> g.past,
                     misled |-> t.misled],
         t.misled \in BOOLEAN,
         ~t.misled => /\ ~h.misled
                      /\ \/ IsPrefix(g.past, h.past)
                         \/ IsPrefix(h.past, g.past) /\ i = Len(h.chain)
  PROVE  HolderOK(t)
<1> DEFINE L == Len(h.chain)
           p == h.past
           q == g.past
           s == t.chain
<1>1. /\ h.chain \in Seq(Link) /\ L \in Nat /\ i \in Nat /\ i <= L /\ i > 0 /\ L \in 1..L
      /\ p \in Seq(Entry) /\ q \in Seq(Entry) /\ Len(p) > 0 /\ Len(q) > 0 /\ g.point \in Nat
  BY HolderTypes
<1>2. s = SubSeq(h.chain, 1, i) /\ t.point = g.point /\ t.past = q
  OBVIOUS
<1>3. /\ s \in Seq(Link) /\ Len(s) = i /\ \A k \in 1..i : s[k] = h.chain[k]
  <2> HIDE DEF s
  <2> QED BY <1>1, <1>2
<1>4. \A k \in 1..i : k \in 1..L
  BY <1>1
<1> HIDE DEF s, p, q, L
<1>5. Last(s) = h.chain[i]
  BY <1>1, <1>3 DEF Last
<1>6. s[1].origin = 0 /\ \A k \in 1..i : Len(s[k].lineage) = k - 1
  <2>1. h.chain[1].origin = 0 /\ \A k \in 1..L : Len(h.chain[k].lineage) = k - 1
    BY DEF HolderOK, L
  <2>2. 1 \in 1..i
    BY <1>1
  <2> QED BY <2>1, <2>2, <1>3, <1>4
<1>7. \A j, k \in 1..i : j <= k => s[j].origin <= s[k].origin
  BY <1>3, <1>4 DEF HolderOK, L
<1>8. Sorted(q) /\ Sorted(p)
  BY DEF HolderOK, p, q
<1>9. Last(q).at = [lineage |-> Last(s).lineage, point |-> t.point]
  BY <1>2, <1>5 DEF HolderOK, q
<1>10. Len(Last(q).at.lineage) = i - 1
  BY <1>1, <1>3, <1>5, <1>6, <1>9
<1>11. Len(Last(p).at.lineage) = L - 1
  <2>1. Last(p).at.lineage = h.chain[L].lineage
    BY DEF HolderOK, p, Last, L
  <2> QED BY <2>1, <1>1 DEF HolderOK, L
<1>12. ASSUME ~t.misled PROVE BranchesRecorded(t)
  <2> SUFFICES ASSUME NEW j \in 1..i, j < i
               PROVE  /\ \E m \in 1..Len(q) : /\ q[m].at.lineage = s[j].lineage
                                              /\ q[m].at.point = s[j + 1].origin
                      /\ \A m \in 1..Len(q) : q[m].at.lineage = s[j].lineage
                            => q[m].at.point <= s[j + 1].origin
    BY <1>2, <1>3 DEF BranchesRecorded, s
  <2>1. BranchesRecorded(h)
    BY <1>12 DEF HolderOK
  <2>2. /\ j \in 1..L /\ j < L /\ s[j] = h.chain[j] /\ s[j + 1] = h.chain[j + 1]
        /\ Len(s[j].lineage) = j - 1
    BY <1>1, <1>3, <1>4, <1>6
  <2>3. PICK n \in 1..Len(p) : p[n].at.lineage = s[j].lineage /\ p[n].at.point = s[j + 1].origin
    BY <2>1, <2>2 DEF BranchesRecorded, L, p
  <2>4. \A m \in 1..Len(p) : p[m].at.lineage = s[j].lineage => p[m].at.point <= s[j + 1].origin
    BY <2>1, <2>2 DEF BranchesRecorded, L, p
  <2>5. CASE IsPrefix(q, p)
    <3>1. Len(q) <= Len(p) /\ \A k \in 1..Len(q) : p[k] = q[k]
      BY <2>5, <1>1, PrefixElements
    <3>2. Last(q) = p[Len(q)] /\ Len(q) \in 1..Len(p)
      <4>1. Len(q) \in 1..Len(q) /\ Len(q) \in 1..Len(p)
        BY <3>1, <1>1
      <4> QED BY <4>1, <3>1 DEF Last
    <3>3. n \in 1..Len(q)
      <4> SUFFICES ASSUME Len(q) < n PROVE FALSE
        BY <1>1
      <4>1. Len(p[Len(q)].at.lineage) <= Len(p[n].at.lineage)
        BY <3>2, <1>8 DEF Sorted
      <4> QED BY <4>1, <3>2, <2>2, <2>3, <1>1, <1>10
    <3>4. \A k \in 1..Len(q) : k \in 1..Len(p)
      BY <3>1, <1>1
    <3> QED BY <3>1, <3>3, <3>4, <2>3, <2>4
  <2>6. CASE IsPrefix(p, q) /\ i = L
    <3>1. Len(p) <= Len(q) /\ \A k \in 1..Len(p) : q[k] = p[k]
      BY <2>6, <1>1, PrefixElements
    <3>2. Last(p) = q[Len(p)] /\ Len(p) \in 1..Len(q)
      <4>1. Len(p) \in 1..Len(p) /\ Len(p) \in 1..Len(q)
        BY <3>1, <1>1
      <4> QED BY <4>1, <3>1 DEF Last
    <3>3. n \in 1..Len(q)
      BY <3>1, <1>1
    <3>4. ASSUME NEW m \in 1..Len(q), q[m].at.lineage = s[j].lineage PROVE m \in 1..Len(p)
      <4> SUFFICES ASSUME Len(p) < m PROVE FALSE
        BY <1>1
      <4>1. Len(q[Len(p)].at.lineage) <= Len(q[m].at.lineage)
        BY <3>2, <1>8 DEF Sorted
      <4> QED BY <4>1, <3>2, <3>4, <2>2, <2>6, <1>1, <1>11
    <3> QED BY <3>1, <3>3, <3>4, <2>3, <2>4
  <2> QED BY <2>5, <2>6, <1>12 DEF L, p, q
<1>13. t \in Holder
  BY <1>1, <1>2, <1>3 DEF Holder, s
<1> QED BY <1>1, <1>2, <1>3, <1>6, <1>7, <1>8, <1>9, <1>12, <1>13 DEF HolderOK, s, q

LEMMA ImportStep ==
  ASSUME LineageInv, NEW e \in Engine, NEW a \in artifacts, Import(e, a)
  PROVE  LineageInv'
<1> DEFINE y == engines[e]
           c == y.cursor
           h == HolderOf(y)
           g == HeldBy(a)
           to == a.selected
           m == Len(c.ancestors) + 1
           relation == Classify(c, to)
           d == IF relation = "FastForward" THEN ApplyFastForward(c, to)
                ELSE ApplyRollback(c, to)
           misled == y.misled \/ relation # Truth(y.past, a.past)
           cut == IF to.lineage = c.active.lineage THEN {} ELSE Ancestor(c, to.lineage)
<1>1. /\ relation \in {"FastForward", "Rollback"} /\ y # None
      /\ engines' = [engines EXCEPT ![e] = [cursor |-> d, past |-> a.past, misled |-> misled]]
      /\ UNCHANGED <<artifacts, commits>>
  <2>1. engines = [f \in Engine |-> engines[f]]
    BY DEF LineageInv, LineageOK
  <2> QED BY <2>1 DEF Import, Live
<1>2. EngineOK(y) /\ ArtifactOK(a) /\ HolderOK(h) /\ HolderOK(g)
  BY <1>1, NamedByArtifact, NamedByEngine DEF LineageInv, LineageOK
<1>3. /\ c \in Cursor /\ c.ancestors \in Seq(Link) /\ c.active \in Link /\ c.next \in Nat
      /\ c.point \in Nat /\ c.point < c.next /\ Len(c.ancestors) \in Nat
  BY <1>2 DEF EngineOK, Cursor
<1>4. /\ h.chain \in Seq(Link) /\ Len(h.chain) = m /\ h.chain[m] = c.active
      /\ \A i \in 1..Len(c.ancestors) : h.chain[i] = c.ancestors[i]
      /\ h.point = c.point /\ h.past = y.past /\ h.misled = y.misled
  BY <1>2, ChainOfCursor
<1>5. h.chain = Append(c.ancestors, c.active)
  BY DEF HolderOf
<1>6. /\ to.point = g.point /\ g.point \in Nat /\ g.past = a.past
      /\ to.lineage = Last(g.chain).lineage
  BY <1>2, HolderTypes DEF HeldBy, ArtifactOK
<1>7. h.misled \in BOOLEAN /\ misled \in BOOLEAN
  BY <1>2, <1>4, HolderTypes
<1>8. relation = "Rollback" /\ ~misled => IsPrefix(a.past, y.past)
  BY DEF Truth, Extends
<1>9. relation = "FastForward" /\ ~misled => IsPrefix(y.past, a.past)
  BY DEF Truth, Extends
<1>10. ~misled => ~h.misled
  BY <1>4
<1> HIDE DEF misled
<1>11. ASSUME NEW z \in Cursor, z.point = to.point, z.point < z.next, d = z,
              NEW i \in 1..Len(h.chain), h.chain[i].lineage = to.lineage,
              Append(z.ancestors, z.active) = SubSeq(h.chain, 1, i),
              relation = "FastForward" => i = Len(h.chain)
      PROVE  LineageInv'
  <2> DEFINE x == [cursor |-> z, past |-> a.past, misled |-> misled]
             t == HolderOf(x)
  <2>1. EngineOK(x)
    BY <1>11 DEF EngineOK
  <2>2. t = [chain |-> SubSeq(h.chain, 1, i), point |-> g.point, past |-> g.past,
             misled |-> misled]
    BY <1>6, <1>11 DEF HolderOf
  <2>3. ~misled => /\ ~h.misled
                   /\ \/ IsPrefix(g.past, h.past)
                      \/ IsPrefix(h.past, g.past) /\ i = Len(h.chain)
    BY <1>1, <1>4, <1>6, <1>8, <1>9, <1>10, <1>11
  <2>4. t.misled = misled /\ h.chain[i].lineage = Last(g.chain).lineage
    BY <2>2, <1>6, <1>11
  <2> HIDE DEF t, h, g
  <2>5. HolderOK(t)
    BY <2>2, <2>3, <2>4, <1>2, <1>7, TakenHistory
  <2>6. engines' = [engines EXCEPT ![e] = x] /\ UNCHANGED <<artifacts, commits>>
    BY <1>1, <1>11
  <2>7. x.past = a.past /\ HolderOK(HolderOf(x))
    BY <2>5 DEF t
  <2> HIDE DEF x
  <2> QED BY <2>1, <2>6, <2>7, EngineTakes
<1> HIDE DEF h, g, c, d
<1>12. m \in 1..Len(h.chain) /\ m \in Nat
  BY <1>3, <1>4 DEF m
<1>13. CASE to.lineage = c.active.lineage
  <2>1. Append(c.ancestors, c.active) = SubSeq(h.chain, 1, m) /\ h.chain[m].lineage = to.lineage
    <3>1. SubSeq(h.chain, 1, m) = h.chain
      BY <1>4, <1>12
    <3> QED BY <3>1, <1>4, <1>5, <1>13
  <2> DEFINE next == IF c.next > to.point THEN c.next ELSE to.point + 1
             fast == [c EXCEPT !.point = to.point, !.next = next, !.branch_pending = FALSE]
             back == [c EXCEPT !.point = to.point, !.branch_pending = TRUE]
  <2>2. next \in Nat /\ to.point < next /\ to.point \in Nat
    BY <1>3, <1>6
  <2>3. CASE relation = "FastForward"
    <3>1. d = fast
      BY <2>3 DEF d, ApplyFastForward
    <3> HIDE DEF next, to, m
    <3>2. /\ fast \in Cursor /\ fast.point = to.point /\ fast.next = next
          /\ fast.ancestors = c.ancestors /\ fast.active = c.active
      BY <2>2, <1>3 DEF Cursor
    <3> HIDE DEF fast
    <3> QED BY <3>1, <3>2, <2>1, <2>2, <1>4, <1>11, <1>12
  <2>4. CASE relation # "FastForward"
    <3>1. d = ApplyRollback(c, to)
      BY <2>4 DEF d
    <3>2. ApplyRollback(c, to) =
            [c EXCEPT !.ancestors = @, !.active = @, !.point = to.point, !.branch_pending = TRUE]
      BY <1>13 DEF ApplyRollback
    <3>5. to.point < c.next
      <4>1. to.point <= c.point
        BY <2>4, <1>1, <1>3, <1>13, <2>2 DEF Classify, to
      <4> QED BY <4>1, <1>3, <2>2
    <3> HIDE DEF next, to, m, relation
    <3>3. d = back
      BY <3>1, <3>2, <1>3 DEF Cursor
    <3>4. /\ back \in Cursor /\ back.point = to.point /\ back.next = c.next
          /\ back.ancestors = c.ancestors /\ back.active = c.active
      BY <2>2, <1>3 DEF Cursor
    <3> HIDE DEF back
    <3> QED BY <3>3, <3>4, <3>5, <2>1, <2>4, <1>4, <1>11, <1>12
  <2> QED BY <2>3, <2>4
<1>14. CASE to.lineage # c.active.lineage
  <2>1. relation = "Rollback" /\ cut = Ancestor(c, to.lineage) /\ cut # {}
        /\ to.point <= BranchAt(c, CHOOSE i \in cut : TRUE)
    <3> HIDE DEF to
    <3> QED BY <1>1, <1>14 DEF Classify
  <2> DEFINE i == CHOOSE j \in cut : TRUE
  <2>2. i \in 1..Len(c.ancestors) /\ c.ancestors[i].lineage = to.lineage
    BY <2>1, <1>3 DEF Ancestor
  <2>3. to.point <= BranchAt(c, i)
    BY <2>1
  <2>4. d = [c EXCEPT !.ancestors = SubSeq(c.ancestors, 1, i - 1), !.active = c.ancestors[i],
                      !.point = to.point, !.branch_pending = TRUE]
    <3>1. d = ApplyRollback(c, to)
      BY <2>1 DEF d
    <3>2. ApplyRollback(c, to) =
            [c EXCEPT !.ancestors = IF cut = {} THEN @ ELSE SubSeq(@, 1, i - 1),
                      !.active = IF cut = {} THEN @ ELSE c.ancestors[i],
                      !.point = to.point, !.branch_pending = TRUE]
      BY DEF ApplyRollback
    <3> HIDE DEF cut, i
    <3> QED BY <3>1, <3>2, <2>1, <1>3 DEF Cursor
  <2> HIDE DEF i, cut
  <2>5. i \in 1..Len(h.chain) /\ h.chain[i].lineage = to.lineage /\ i \in Nat
    BY <2>2, <1>3, <1>4 DEF m
  <2>7. /\ SubSeq(c.ancestors, 1, i - 1) \in Seq(Link) /\ c.ancestors[i] \in Link
        /\ Append(SubSeq(c.ancestors, 1, i - 1), c.ancestors[i]) = SubSeq(h.chain, 1, i)
    <3> DEFINE s == c.ancestors
               t == h.chain
    <3>1. /\ s \in Seq(Link) /\ t \in Seq(Link) /\ i \in 1..Len(s) /\ Len(t) = Len(s) + 1
          /\ \A k \in 1..Len(s) : t[k] = s[k]
      BY <2>2, <1>3, <1>4 DEF m
    <3> HIDE DEF s, t
    <3>2. s[i] \in Link /\ SubSeq(s, 1, i - 1) \in Seq(Link) /\ Len(SubSeq(s, 1, i - 1)) = i - 1
      BY <3>1
    <3>3. Append(SubSeq(s, 1, i - 1), s[i]) = SubSeq(t, 1, i)
      BY <3>1, <3>2
    <3> QED BY <3>2, <3>3 DEF s, t
  <2>8. to.point < c.next /\ to.point \in Nat
    <3>1. BranchAt(c, i) = h.chain[i + 1].origin /\ i + 1 \in 1..Len(h.chain)
      <4>1. i + 1 \in 1..Len(h.chain)
        BY <2>2, <1>3, <1>4 DEF m
      <4>2. i < Len(c.ancestors) => h.chain[i + 1] = c.ancestors[i + 1]
        BY <2>2, <1>3, <1>4
      <4>3. ~(i < Len(c.ancestors)) => i + 1 = m
        BY <2>2, <1>3 DEF m
      <4> QED BY <4>1, <4>2, <4>3, <1>4 DEF BranchAt
    <3>2. h.chain[i + 1].origin \in Nat /\ h.chain[i + 1].origin < h.point
      BY <3>1, <1>2, OriginsPrecede
    <3> QED BY <2>3, <3>1, <3>2, <1>3, <1>4, <1>6
  <2> DEFINE p == SubSeq(c.ancestors, 1, i - 1)
             q == c.ancestors[i]
             back == [c EXCEPT !.ancestors = p, !.active = q,
                               !.point = to.point, !.branch_pending = TRUE]
  <2>9. d = back
    BY <2>4
  <2>10. p \in Seq(Link) /\ q \in Link /\ Append(p, q) = SubSeq(h.chain, 1, i)
    BY <2>7
  <2> HIDE DEF p, q, to, relation, m
  <2>11. /\ back \in Cursor /\ back.point = to.point /\ back.next = c.next
         /\ back.ancestors = p /\ back.active = q
    BY <2>8, <2>10, <1>3 DEF Cursor
  <2> HIDE DEF back
  <2> QED BY <2>1, <2>5, <2>8, <2>9, <2>10, <2>11, <1>11
<1> QED BY <1>13, <1>14

(* An export names the history of its engine                               *)
LEMMA ExportStep ==
  ASSUME LineageInv, NEW e \in Engine, Export(e)
  PROVE  LineageInv'
<1> DEFINE y == engines[e]
           c == y.cursor
           h == HolderOf(y)
           a == [selected |-> Selected(c), index |-> Lineages(c), past |-> y.past,
                 misled |-> y.misled]
<1>1. /\ y # None /\ artifacts' = artifacts \cup {a} /\ engines' = engines
      /\ commits' = commits
  BY DEF Export, Live
<1>2. EngineOK(y) /\ HolderOK(h) /\ h \in Named(engines, artifacts)
  BY <1>1, NamedByEngine DEF LineageInv, LineageOK
<1>3. IsIndexOf(Lineages(c), h)
  BY <1>2, LineagesOfCursor
<1>4. /\ h.point = c.point /\ Last(h.chain).lineage = c.active.lineage /\ h.past = y.past
      /\ h.misled = y.misled
      /\ h = [chain |-> h.chain, point |-> h.point, past |-> h.past, misled |-> h.misled]
  <2>1. Len(h.chain) = Len(c.ancestors) + 1 /\ h.chain[Len(c.ancestors) + 1] = c.active
        /\ h.point = c.point /\ h.past = y.past /\ h.misled = y.misled
    BY <1>2, ChainOfCursor
  <2>2. h = [chain |-> h.chain, point |-> h.point, past |-> h.past, misled |-> h.misled]
    BY DEF HolderOf
  <2> QED BY <2>1, <2>2 DEF Last
<1>5. RestoredChain(c.active.lineage, Lineages(c)) = h.chain
  <2>1. RestoredChain(Last(h.chain).lineage, Lineages(c)) = h.chain
    BY <1>2, <1>3, RestoredIsTheChain
  <2> QED BY <2>1, <1>4
<1>6. HeldBy(a) = h
  <2>1. /\ a.selected.lineage = c.active.lineage /\ a.selected.point = c.point
        /\ a.index = Lineages(c) /\ a.past = y.past /\ a.misled = y.misled
    BY DEF Selected
  <2> HIDE DEF a, c, h, y
  <2>2. HeldBy(a) = [chain |-> h.chain, point |-> h.point, past |-> h.past, misled |-> h.misled]
    BY <2>1, <1>4, <1>5 DEF HeldBy
  <2> QED BY <2>2, <1>4
<1>7. ArtifactOK(a)
  <2>1. a.selected = [lineage |-> c.active.lineage, point |-> c.point] /\ a.index = Lineages(c)
    BY DEF Selected
  <2> HIDE DEF a, c, h, y
  <2> QED BY <2>1, <1>3, <1>4, <1>6 DEF ArtifactOK
<1> HIDE DEF a, c, h, y
<1>8. Named(engines, artifacts \cup {a}) = Named(engines, artifacts)
  BY <1>2, <1>6 DEF Named
<1>9. LineageOK(engines, artifacts \cup {a}, commits)
  BY <1>7, <1>8 DEF LineageInv, LineageOK
<1> QED BY <1>1, <1>9 DEF LineageInv

LEMMA LineageInit == Init => LineageInv
<1> SUFFICES ASSUME Init PROVE LineageInv
  OBVIOUS
<1> DEFINE at == [lineage |-> << >>, point |-> 1]
           entry == [commit |-> 1, at |-> at]
           root == [lineage |-> << >>, origin |-> 0]
           h == [chain |-> <<root>>, point |-> 1, past |-> <<entry>>, misled |-> FALSE]
           x == [cursor |-> GenesisCursor, past |-> <<entry>>, misled |-> FALSE]
<1>1. << >> \in LineageId /\ Len(<< >>) = 0 /\ Birth(<< >>) = 1
  BY DEF LineageId, Birth, GenesisPoint
<1>2. root \in Link /\ at \in Place
  BY <1>1 DEF Link, Place
<1>3. entry \in Entry
  BY <1>2 DEF Entry
<1>4. GenesisCursor.point = 1 /\ GenesisCursor.next = 2 /\ Selected(GenesisCursor) = at
  BY DEF GenesisCursor, GenesisPoint, Selected
<1>5. EngineOK(x)
  <2>1. GenesisCursor \in Cursor
    BY <1>2 DEF GenesisCursor, GenesisPoint, Cursor
  <2> QED BY <2>1, <1>4 DEF EngineOK
<1>6. HolderOf(x) = h
  <2>1. Append(<< >>, root) = <<root>>
    <3> HIDE DEF root
    <3> QED BY <1>2
  <2>2. GenesisCursor.ancestors = << >> /\ GenesisCursor.active = root
    BY DEF GenesisCursor
  <2> HIDE DEF entry, root
  <2> QED BY <2>1, <2>2, <1>4 DEF HolderOf
<1>7. /\ HolderOK(h) /\ SharesCommits(h.past, h.past)
      /\ \A i \in 1..Len(h.past) : h.past[i].commit <= 1
  <2>1. h \in Holder
    <3>1. <<root>> \in Seq(Link) /\ <<entry>> \in Seq(Entry)
      BY <1>2, <1>3
    <3> HIDE DEF root, entry
    <3> QED BY <3>1 DEF Holder
  <2>2. /\ Len(h.chain) = 1 /\ h.chain[1] = root /\ Len(h.past) = 1 /\ h.past[1] = entry
        /\ h.point = 1 /\ h.misled = FALSE
    OBVIOUS
  <2>3. Last(h.chain) = root /\ Last(h.past) = entry
    BY <2>2 DEF Last
  <2>4. root.lineage = << >> /\ root.origin = 0 /\ entry.at = at /\ entry.commit = 1
    OBVIOUS
  <2> HIDE DEF h, root, entry
  <2>5. \A i \in 1..1 : i = 1
    OBVIOUS
  <2>6. Sorted(h.past) /\ BranchesRecorded(h) /\ SharesCommits(h.past, h.past)
    BY <2>2, <2>5 DEF Sorted, BranchesRecorded, SharesCommits
  <2>7. \A i \in 1..Len(h.chain) : Len(h.chain[i].lineage) = i - 1
    BY <2>2, <2>4, <2>5, <1>1
  <2>8. \A i, j \in 1..Len(h.chain) : i <= j => h.chain[i].origin <= h.chain[j].origin
    BY <2>2, <2>4, <2>5
  <2> QED BY <2>1, <2>2, <2>3, <2>4, <2>5, <2>6, <2>7, <2>8 DEF HolderOK
<1>8. Named(engines, artifacts) \subseteq {h}
  <2> SUFFICES ASSUME NEW g \in Named(engines, artifacts) PROVE g = h
    OBVIOUS
  <2>1. PICK e \in Engine : engines[e] # None /\ g = HolderOf(engines[e])
    BY DEF Named, Init
  <2>2. engines[e] = x
    BY <2>1, <1>4 DEF Init
  <2> QED BY <2>1, <2>2, <1>6
<1>9. \A e \in Engine : engines[e] # None => engines[e] = x
  BY <1>4 DEF Init
<1> HIDE DEF h, x, root, entry, at
<1>10. engines = [e \in Engine |-> engines[e]] /\ commits = 1 /\ artifacts = {}
  BY DEF Init
<1>11. LineageOK(engines, artifacts, commits)
  BY <1>5, <1>7, <1>8, <1>9, <1>10 DEF LineageOK
<1> QED BY <1>11 DEF LineageInv

LEMMA LineageStep == LineageInv /\ [Next]_vars => LineageInv'
<1> SUFFICES ASSUME LineageInv, [Next]_vars PROVE LineageInv'
  OBVIOUS
<1>1. ASSUME NEW e \in Engine, Commit(e) PROVE LineageInv'
  BY <1>1, CommitStep
<1>2. ASSUME NEW e \in Engine, Export(e) PROVE LineageInv'
  BY <1>2, ExportStep
<1>3. ASSUME NEW e \in Engine, NEW a \in artifacts, Restore(e, a) PROVE LineageInv'
  BY <1>3, RestoreStep
<1>4. ASSUME NEW e \in Engine, NEW a \in artifacts, Import(e, a) PROVE LineageInv'
  BY <1>4, ImportStep
<1>5. ASSUME NEW e \in Engine, ActivateMerge(e) PROVE LineageInv'
  BY <1>5, MergeStep
<1>6. CASE UNCHANGED vars
  BY <1>6 DEF LineageInv, vars
<1> QED BY <1>1, <1>2, <1>3, <1>4, <1>5, <1>6 DEF Next

(* Engines and artifacts name histories: pasts in which points grow, which *)
(* share all before a commit they share, and which, unless the holder was  *)
(* misled, left each lineage of its chain where the chain says             *)
THEOREM HistoriesHold == Spec => []LineageInv
<1>1. Init => LineageInv
  BY LineageInit
<1>2. LineageInv /\ [Next]_vars => LineageInv'
  BY LineageStep
<1> QED BY <1>1, <1>2, PTL DEF Spec

LEMMA AnswersFromHistories == LineageInv => OnlyForksMislead
<1> SUFFICES ASSUME LineageInv, NEW e \in Engine, NEW a \in artifacts,
                    Tells(e, a), ~engines[e].misled, ~Forked(engines[e].past, a.past)
             PROVE  IsTrue(e, a)
  BY DEF OnlyForksMislead
<1>1. engines[e] # None /\ Classify(engines[e].cursor, a.selected) # "Unrelated"
  BY DEF Tells, Told, Live
<1>2. HolderOf(engines[e]) \in Named(engines, artifacts) /\ HeldBy(a) \in Named(engines, artifacts)
  BY <1>1, NamedByEngine, NamedByArtifact
<1>3. /\ EngineOK(engines[e]) /\ ArtifactOK(a)
      /\ HolderOK(HolderOf(engines[e])) /\ HolderOK(HeldBy(a))
  BY <1>1, <1>2 DEF LineageInv, LineageOK
<1>4. SharesCommits(engines[e].past, a.past) /\ SharesCommits(a.past, engines[e].past)
  <2>1. HolderOf(engines[e]).past = engines[e].past /\ HeldBy(a).past = a.past
    BY DEF HolderOf, HeldBy
  <2> QED BY <2>1, <1>2 DEF LineageInv, LineageOK
<1> QED BY <1>1, <1>3, <1>4, ClassifiedTruly DEF IsTrue, Told

(* HistoryCursor::classify compares points of lineages; unless both states *)
(* went on upon one lineage after they parted, it says what they are to    *)
(* each other, for any number of engines, copies, commits and artifacts    *)
THEOREM FalseRelationsComeOfForks == Spec => []OnlyForksMislead
BY HistoriesHold, AnswersFromHistories, PTL

=============================================================================
