-------------------------- MODULE AdmissionProofs --------------------------
(***************************************************************************)
(* For every package, seed and bound: what a program left unmarked is what *)
(* the call found, and it refers to live rows, so the final pass may skip  *)
(* it; hence every committed reference between top-level rows resolves.    *)
(***************************************************************************)
EXTENDS Admission, TLAPS

Addressed ==
  /\ schema \in Schemas
  /\ DOMAIN working \subseteq Address(schema)
  /\ DOMAIN committed \subseteq Address(schema)
  /\ DOMAIN origin = DOMAIN working

Parent(a) == Ancestor(a, Len(a) - 1)

\* A mark climbs to the live parent: what is unmarked has nothing marked under it.
MarksClimb ==
  /\ touched \subseteq Seq(Level) \ {<< >>}
  /\ \A c \in touched : Len(c) > 1 /\ Parent(c) \in DOMAIN working => Parent(c) \in touched

\* An unmarked row has every row the call found under it.
ChildrenStay ==
  \A b \in Gathered : Len(b) > 1 /\ Parent(b) \in DOMAIN working \ touched => b \in DOMAIN working

IInv ==
  /\ Addressed
  /\ MarksClimb
  /\ ChildrenStay
  /\ EveryChangeIsMarked
  /\ UnmarkedReferencesResolve
  /\ GovernedReferencesResolve

-----------------------------------------------------------------------------
(* Addresses.                                                              *)

LEMMA AncestorOfTop ==
  ASSUME NEW a \in Seq(Level), Len(a) = 1
  PROVE  Ancestor(a, 1) = a
BY DEF Ancestor

LEMMA SubtreeHoldsOneTop ==
  ASSUME NEW rows, NEW root \in Seq(Level) \ {<< >>}, NEW t \in SubtreeOf(rows, root),
         Len(t) = 1
  PROVE  t = root
<1>1. Len(root) \in Nat /\ Len(root) # 0
  OBVIOUS
<1>2. ~IsUnder(t, root)
  BY <1>1 DEF IsUnder
<1> QED
  BY <1>2 DEF SubtreeOf

LEMMA RootIsInItsSubtree ==
  ASSUME NEW rows, NEW a \in DOMAIN rows
  PROVE  a \in SubtreeOf(rows, a)
BY DEF SubtreeOf

LEMMA SiblingsAreAsDeep ==
  ASSUME NEW a \in Seq(Level), NEW b \in Seq(Level), InOneCollection(a, b)
  PROVE  Len(a) = Len(b)
<1>1. DOMAIN Decl(a) = DOMAIN a /\ DOMAIN Decl(b) = DOMAIN b
  BY DEF Decl
<1>2. DOMAIN a = DOMAIN b
  BY <1>1 DEF InOneCollection
<1> QED
  BY <1>2

LEMMA AncestorIsPrefix ==
  ASSUME NEW a \in Seq(Level), NEW n \in 0 .. Len(a)
  PROVE  /\ Ancestor(a, n) \in Seq(Level) /\ Len(Ancestor(a, n)) = n
         /\ \A i \in 1 .. n : Ancestor(a, n)[i] = a[i]
<1>1. Len(a) \in Nat
  OBVIOUS
<1> QED
  BY <1>1 DEF Ancestor

LEMMA SameElements ==
  ASSUME NEW a \in Seq(Level), NEW b \in Seq(Level), Len(a) = Len(b),
         \A i \in 1 .. Len(a) : a[i] = b[i]
  PROVE  a = b
OBVIOUS

LEMMA AncestorOfAncestor ==
  ASSUME NEW a \in Seq(Level), NEW n \in 0 .. Len(a), NEW m \in 0 .. n
  PROVE  Ancestor(Ancestor(a, n), m) = Ancestor(a, m)
<1> DEFINE u == Ancestor(a, n)
           v == Ancestor(u, m)
           w == Ancestor(a, m)
<1>1. Len(a) \in Nat /\ m \in 0 .. Len(a)
  OBVIOUS
<1>2. u \in Seq(Level) /\ Len(u) = n /\ \A i \in 1 .. n : u[i] = a[i]
  BY AncestorIsPrefix
<1>3. w \in Seq(Level) /\ Len(w) = m /\ \A i \in 1 .. m : w[i] = a[i]
  BY <1>1, AncestorIsPrefix
<1> HIDE DEF u, w
<1>4. v \in Seq(Level) /\ Len(v) = m /\ \A i \in 1 .. m : v[i] = u[i]
  BY <1>2, AncestorIsPrefix
<1> HIDE DEF v
<1>5. \A i \in 1 .. m : v[i] = w[i]
  BY <1>1, <1>2, <1>3, <1>4
<1>6. v = w
  BY <1>3, <1>4, <1>5, SameElements
<1> QED
  BY <1>6 DEF u, v, w

LEMMA DeeperIsOther == ASSUME NEW a, NEW b, Len(a) > 1, Len(b) = 1 PROVE a # b
OBVIOUS

\* The parent of what is under a row is that row or is under it.
LEMMA ParentsAreUnder ==
  ASSUME NEW b \in Seq(Level), NEW d \in Seq(Level) \ {<< >>}, IsUnder(b, d)
  PROVE  Len(b) > 1 /\ (Parent(b) = d \/ IsUnder(Parent(b), d))
<1>1. Len(b) \in Nat /\ Len(d) \in Nat /\ Len(d) # 0 /\ Len(d) < Len(b) /\ Ancestor(b, Len(d)) = d
  BY DEF IsUnder
<1>2. Len(b) - 1 \in 0 .. Len(b) /\ Len(d) \in 0 .. Len(b) - 1
  BY <1>1
<1>3. Len(Parent(b)) = Len(b) - 1
  BY <1>2, AncestorIsPrefix DEF Parent
<1>4. Ancestor(Parent(b), Len(d)) = d
  BY <1>1, <1>2, AncestorOfAncestor DEF Parent
<1>5. CASE Len(d) = Len(b) - 1
  BY <1>1, <1>5 DEF Parent
<1>6. CASE Len(d) # Len(b) - 1
  BY <1>1, <1>2, <1>3, <1>4, <1>6 DEF IsUnder
<1> QED
  BY <1>1, <1>5, <1>6

\* Marking adds to the marks, the written rows among them.
LEMMA MarkAllMarks ==
  ASSUME NEW live, NEW marks, NEW written
  PROVE  marks \cup written \subseteq MarkAll(live, marks, written)
BY DEF MarkAll, Marked

-----------------------------------------------------------------------------
(* What every statement does to the rows it leaves unmarked.               *)

KeepsUnmarked ==
  /\ touched \subseteq touched'
  /\ DOMAIN origin' = DOMAIN working'
  /\ \A a \in DOMAIN working' \ touched' :
       a \in DOMAIN working /\ working'[a] = working[a] /\ origin'[a] = origin[a]

KeepsTargets ==
  \A a \in TopRows(working') \ touched' : \A f \in RefFields(schema, a) :
    \A t \in RefersTo(schema, working, a, f) :
      Len(t) = 1 /\ t \in DOMAIN working => t \in DOMAIN working'

\* It marks what it writes, the rows it makes live among them.
Marks(written) ==
  /\ written \subseteq Seq(Level) \ {<< >>}
  /\ touched' = MarkAll(DOMAIN working', touched, written)
  /\ DOMAIN working' \ DOMAIN working \subseteq written

\* It marks the live parent of each row it removes.
MarksParents ==
  \A b \in DOMAIN working \ DOMAIN working' :
    Len(b) > 1 /\ Parent(b) \in DOMAIN working' => Parent(b) \in touched'

LEMMA MarkAllClimbs ==
  ASSUME MarksClimb, NEW written, Marks(written)
  PROVE  MarksClimb'
<1> DEFINE Chain(a, n) ==
             \A k \in n .. Len(a) - 1 :
               Ancestor(a, k) \in DOMAIN working' /\ Ancestor(a, k + 1) \notin touched
<1>1. touched \subseteq Seq(Level) \ {<< >>} /\ written \subseteq Seq(Level) \ {<< >>}
  BY DEF MarksClimb, Marks
<1>2. touched \cup written \subseteq touched'
  BY MarkAllMarks DEF Marks
<1>3. ASSUME NEW a \in written, NEW n \in 1 .. Len(a), Chain(a, n)
      PROVE  Ancestor(a, n) \in touched'
  <2>1. CASE n = Len(a)
    <3>1. Ancestor(a, n) = a
      BY <1>1, <2>1 DEF Ancestor
    <3> QED
      BY <1>2, <3>1
  <2>2. CASE n # Len(a)
    <3>1. n \in 1 .. Len(a) - 1
      BY <1>1, <2>2
    <3>2. Ancestor(a, n) \in Marked(DOMAIN working', touched, a)
      BY <1>3, <3>1 DEF Marked
    <3> QED
      BY <3>2 DEF Marks, MarkAll
  <2> QED
    BY <2>1, <2>2
<1>4. ASSUME NEW c \in touched'
      PROVE  c \in touched \/ \E a \in written : \E n \in 1 .. Len(a) : c = Ancestor(a, n) /\ Chain(a, n)
  <2> SUFFICES ASSUME c \notin touched
               PROVE  \E a \in written : \E n \in 1 .. Len(a) : c = Ancestor(a, n) /\ Chain(a, n)
    OBVIOUS
  <2>1. PICK a \in written : c \in Marked(DOMAIN working', touched, a)
    BY <1>4 DEF Marks, MarkAll
  <2>2. a \in Seq(Level) /\ Len(a) \in Nat /\ Len(a) # 0
    BY <1>1
  <2>3. CASE c = a
    <3>1. Len(a) \in 1 .. Len(a) /\ a = Ancestor(a, Len(a)) /\ Chain(a, Len(a))
      BY <2>2 DEF Ancestor
    <3> HIDE DEF Chain
    <3> QED
      BY <2>3, <3>1
  <2>4. CASE c # a
    <3>1. PICK n \in 1 .. Len(a) - 1 : c = Ancestor(a, n) /\ Chain(a, n)
      BY <2>1, <2>4 DEF Marked
    <3>2. n \in 1 .. Len(a)
      BY <2>2
    <3> HIDE DEF Chain
    <3> QED
      BY <3>1, <3>2
  <2> QED
    BY <2>3, <2>4
<1>5. ASSUME NEW c \in touched'
      PROVE  c \in Seq(Level) \ {<< >>}
  <2>1. CASE c \in touched
    BY <1>1, <2>1
  <2>2. CASE c \notin touched
    <3>1. PICK a \in written : \E n \in 1 .. Len(a) : c = Ancestor(a, n)
      BY <1>4, <2>2
    <3>2. PICK n \in 1 .. Len(a) : c = Ancestor(a, n)
      BY <3>1
    <3>3. n \in 0 .. Len(a) /\ n # 0 /\ a \in Seq(Level)
      BY <1>1
    <3>4. c \in Seq(Level) /\ Len(c) = n
      BY <3>2, <3>3, AncestorIsPrefix
    <3> QED
      BY <3>3, <3>4
  <2> QED
    BY <2>1, <2>2
<1>6. ASSUME NEW c \in touched', Len(c) > 1, Parent(c) \in DOMAIN working'
      PROVE  Parent(c) \in touched'
  <2>1. CASE c \in touched
    <3>1. Parent(c) \in DOMAIN working \/ Parent(c) \in written
      BY <1>6 DEF Marks
    <3> QED
      BY <1>2, <1>6, <2>1, <3>1 DEF MarksClimb
  <2>2. CASE c \notin touched
    <3>1. PICK a \in written : \E n \in 1 .. Len(a) : c = Ancestor(a, n) /\ Chain(a, n)
      BY <1>4, <2>2
    <3>2. PICK n \in 1 .. Len(a) : c = Ancestor(a, n) /\ Chain(a, n)
      BY <3>1
    <3>3. a \in Seq(Level) /\ Len(a) \in Nat /\ n \in 0 .. Len(a) /\ n - 1 \in 0 .. n
      BY <1>1
    <3>4. Len(c) = n
      BY <3>2, <3>3, AncestorIsPrefix
    <3>5. Parent(c) = Ancestor(a, n - 1)
      BY <3>2, <3>3, <3>4, AncestorOfAncestor DEF Parent
    <3>6. n - 1 \in 1 .. Len(a) /\ n - 1 + 1 = n
      BY <1>6, <3>3, <3>4
    <3>7. Chain(a, n - 1)
      <4> SUFFICES ASSUME NEW k \in n - 1 .. Len(a) - 1
                   PROVE  Ancestor(a, k) \in DOMAIN working' /\ Ancestor(a, k + 1) \notin touched
        OBVIOUS
      <4>1. k = n - 1 \/ k \in n .. Len(a) - 1
        BY <3>3
      <4> QED
        BY <1>6, <2>2, <3>2, <3>5, <3>6, <4>1
    <3> HIDE DEF Chain
    <3> QED
      BY <1>3, <3>5, <3>6, <3>7
  <2> QED
    BY <2>1, <2>2
<1> QED
  BY <1>5, <1>6 DEF MarksClimb

LEMMA StatementPreserves ==
  ASSUME IInv, UNCHANGED engine, DOMAIN working' \subseteq Address(schema),
         NEW written, Marks(written), MarksParents, KeepsUnmarked, KeepsTargets
  PROVE  IInv'
<1>1. Addressed'
  BY DEF IInv, Addressed, KeepsUnmarked, engine
<1>2. EveryChangeIsMarked'
  <2> SUFFICES ASSUME NEW a \in DOMAIN working' \ touched'
               PROVE  /\ a \in Gathered' /\ working'[a] = Base'[a]
                      /\ origin'[a] = committed'[a].incarnation
    BY DEF EveryChangeIsMarked
  <2>1. a \in DOMAIN working \ touched /\ working'[a] = working[a] /\ origin'[a] = origin[a]
    BY DEF KeepsUnmarked
  <2>2. Base' = Base /\ Gathered' = Gathered /\ committed' = committed
    BY DEF engine, Base, Gathered
  <2> QED
    BY <2>1, <2>2 DEF IInv, EveryChangeIsMarked
<1>3. UnmarkedReferencesResolve'
  <2> SUFFICES ASSUME NEW a \in TopRows(working') \ touched', NEW f \in RefFields(schema, a),
                      NEW t \in RefersTo(schema, working', a, f), Len(t) = 1
               PROVE  t \in DOMAIN working'
    BY DEF UnmarkedReferencesResolve, Governed, engine
  <2>1. a \in TopRows(working) \ touched /\ working'[a] = working[a]
    BY DEF KeepsUnmarked, TopRows
  <2>2. t \in RefersTo(schema, working, a, f)
    BY <2>1 DEF RefersTo
  <2>3. t \in DOMAIN working
    BY <2>1, <2>2 DEF IInv, UnmarkedReferencesResolve, Governed
  <2> QED
    BY <2>2, <2>3 DEF KeepsTargets
<1>4. GovernedReferencesResolve'
  <2>1. Base' = Base /\ schema' = schema
    BY DEF engine, Base, Gathered
  <2> QED
    BY <2>1 DEF IInv, GovernedReferencesResolve
<1>5. MarksClimb'
  BY MarkAllClimbs DEF IInv
<1>6. ChildrenStay'
  <2> SUFFICES ASSUME NEW b \in Gathered', Len(b) > 1, Parent(b) \in DOMAIN working' \ touched'
               PROVE  b \in DOMAIN working'
    BY DEF ChildrenStay
  <2>1. b \in Gathered /\ Parent(b) \in DOMAIN working \ touched
    BY DEF KeepsUnmarked, engine, Gathered
  <2>2. b \in DOMAIN working
    BY <2>1 DEF IInv, ChildrenStay
  <2> QED
    BY <2>2 DEF MarksParents
<1> QED
  BY <1>1, <1>2, <1>3, <1>4, <1>5, <1>6 DEF IInv

-----------------------------------------------------------------------------
(* The statements.                                                         *)

LEMMA StageKeeps ==
  ASSUME IInv, UNCHANGED engine, NEW new, DOMAIN new \subseteq Address(schema), StageRows(new)
  PROVE  IInv'
<1>1. DOMAIN working' = DOMAIN working \cup DOMAIN new
  BY DEF StageRows
<1>2. touched \cup DOMAIN new \subseteq touched'
  BY MarkAllMarks DEF StageRows
<1>3. KeepsUnmarked
  <2>1. ASSUME NEW a \in DOMAIN working' \ touched'
        PROVE  a \in DOMAIN working /\ working'[a] = working[a] /\ origin'[a] = origin[a]
    BY <1>1, <1>2 DEF StageRows
  <2>2. DOMAIN origin' = DOMAIN working'
    BY DEF StageRows
  <2> QED
    BY <1>2, <2>1, <2>2 DEF KeepsUnmarked
<1>4. KeepsTargets
  BY <1>1 DEF KeepsTargets
<1>5. DOMAIN working' \subseteq Address(schema)
  BY <1>1 DEF IInv, Addressed
<1>6. Marks(DOMAIN new)
  BY <1>1, AddressesHaveLevels DEF StageRows, Marks, IInv, Addressed
<1>7. MarksParents
  BY <1>1 DEF MarksParents
<1> QED
  BY <1>3, <1>4, <1>5, <1>6, <1>7, StatementPreserves

\* Moving a row keeps the number of its levels.
LEMMA KeyAddressKeepsDepth ==
  ASSUME NEW a \in Seq(Level) \ {<< >>}, NEW row
  PROVE  LET to == KeyAddress(schema, a, row)
         IN  Len(to) = Len(a) /\ Reroot(a, a, to) = to
<1> DEFINE to == KeyAddress(schema, a, row)
           Any == {to[i] : i \in 1 .. Len(a)}
<1>1. Len(a) \in Nat /\ DOMAIN a = 1 .. Len(a)
  OBVIOUS
<1>2. to = [i \in 1 .. Len(a) |-> to[i]]
  BY <1>1 DEF KeyAddress
<1> HIDE DEF to
<1>3. to \in [1 .. Len(a) -> Any]
  BY <1>2
<1>4. to \in Seq(Any)
  BY <1>1, <1>3
<1>5. Len(to) = Len(a)
  BY <1>1, <1>3, <1>4
<1>6. SubSeq(a, Len(a) + 1, Len(a)) = << >>
  BY <1>1
<1>7. to \o << >> = to
  BY <1>4
<1>8. Reroot(a, a, to) = to
  BY <1>6, <1>7 DEF Reroot
<1> QED
  BY <1>5, <1>8 DEF to

\* The address a write gives its row differs in the last key alone.
LEMMA KeyAddressKeepsNames ==
  ASSUME NEW a \in Seq(Level) \ {<< >>}, NEW row, NEW i \in 1 .. Len(a)
  PROVE  /\ KeyAddress(schema, a, row)[i].name = a[i].name
         /\ i # Len(a) => KeyAddress(schema, a, row)[i] = a[i]
<1> DEFINE n == Len(a)
           key == schema[Decl(a)].key
           values == [k \in DOMAIN key |-> row[key[k]]]
           last == a[n]
<1>1. n \in Nat /\ n \in 1 .. n /\ DOMAIN a = 1 .. n /\ last \in Level
  OBVIOUS
<1>2. KeyAddress(schema, a, row) = [a EXCEPT ![n] = [last EXCEPT !.key = values]]
  BY <1>1 DEF KeyAddress
<1>3. last = [name |-> last.name, key |-> last.key]
  BY <1>1, LevelsAreNamed
<1> HIDE DEF values, last
<1>4. [last EXCEPT !.key = values].name = last.name
  BY <1>3
<1> QED
  BY <1>1, <1>2, <1>4 DEF last

\* So the row keeps its parent.
LEMMA KeyAddressKeepsParent ==
  ASSUME NEW a \in Seq(Level) \ {<< >>}, NEW row, KeyAddress(schema, a, row) \in Seq(Level)
  PROVE  Parent(KeyAddress(schema, a, row)) = Parent(a)
<1> DEFINE to == KeyAddress(schema, a, row)
           n == Len(a) - 1
           u == Ancestor(to, n)
           v == Ancestor(a, n)
<1>1. a \in Seq(Level) /\ Len(a) \in Nat /\ Len(a) # 0 /\ n \in 0 .. Len(a)
  OBVIOUS
<1>2. Len(to) = Len(a)
  BY KeyAddressKeepsDepth
<1>3. \A i \in 1 .. n : to[i] = a[i]
  <2> SUFFICES ASSUME NEW i \in 1 .. n
               PROVE  to[i] = a[i]
    OBVIOUS
  <2>1. i \in 1 .. Len(a) /\ i # Len(a)
    BY <1>1
  <2> HIDE DEF n
  <2> QED
    BY <2>1, KeyAddressKeepsNames
<1>4. to \in Seq(Level)
  OBVIOUS
<1> HIDE DEF to, n
<1>5. u \in Seq(Level) /\ Len(u) = n /\ \A i \in 1 .. n : u[i] = to[i]
  BY <1>1, <1>2, <1>4, AncestorIsPrefix
<1>6. v \in Seq(Level) /\ Len(v) = n /\ \A i \in 1 .. n : v[i] = a[i]
  BY <1>1, AncestorIsPrefix
<1> HIDE DEF u, v
<1>7. u = v
  BY <1>3, <1>5, <1>6, SameElements
<1> QED
  BY <1>2, <1>7 DEF u, v, n, to, Parent

LEMMA PlaceKeeps ==
  ASSUME IInv, UNCHANGED engine, NEW a \in DOMAIN working, NEW row, Place(a, row)
  PROVE  IInv'
<1> DEFINE to == KeyAddress(schema, a, row)
           moved == IF to = a THEN {} ELSE SubtreeOf(working, a)
           Goes(b) == IF b \in moved THEN Reroot(b, a, to) ELSE b
           arrivals == {Goes(b) : b \in moved}
           Source(b) == IF b \in arrivals THEN Reroot(b, to, a) ELSE b
           Written(b) == IF b = a THEN row ELSE working[b]
           Rewritten(b) == Renamed(schema, b, Written(b), moved, a, to)
           changed == {b \in DOMAIN working : Rewritten(b) # Written(b)}
           marks == {Goes(b) : b \in {a} \cup moved \cup changed}
<1>1. /\ arrivals \cap DOMAIN working = {}
      /\ arrivals \subseteq Address(schema)
      /\ working' = [b \in (DOMAIN working \ moved) \cup arrivals |-> Rewritten(Source(b))]
      /\ origin' = [b \in DOMAIN working' |-> origin[Source(b)]]
      /\ touched' = MarkAll(DOMAIN working', touched, marks)
  BY DEF Place
<1>2. touched \cup marks \subseteq touched'
  BY <1>1, MarkAllMarks
<1>3. DOMAIN working' = (DOMAIN working \ moved) \cup arrivals
  BY <1>1
<1>4. arrivals \subseteq marks
  OBVIOUS
<1>5. a \in Seq(Level) \ {<< >>}
  BY AddressesHaveLevels DEF IInv, Addressed
<1>6. ASSUME NEW b \in DOMAIN working' \ touched'
      PROVE  /\ b \in DOMAIN working \ moved /\ b # a
             /\ Renamed(schema, b, working[b], moved, a, to) = working[b]
             /\ working'[b] = working[b] /\ origin'[b] = origin[b]
  <2>1. b \in DOMAIN working \ moved /\ b \notin arrivals
    BY <1>2, <1>3, <1>4, <1>6
  <2>2. Goes(b) = b /\ Source(b) = b
    BY <2>1
  <2>3. b \notin {a} \cup moved \cup changed
    <3> SUFFICES ASSUME b \in {a} \cup moved \cup changed
                 PROVE  FALSE
      OBVIOUS
    <3>1. Goes(b) \in marks
      OBVIOUS
    <3> QED
      BY <1>2, <1>6, <2>2, <3>1
  <2>4. Rewritten(b) = Written(b) /\ Written(b) = working[b]
    BY <2>1, <2>3
  <2>5. working'[b] = Rewritten(b) /\ origin'[b] = origin[b]
    BY <1>1, <1>3, <2>1, <2>2
  <2> HIDE DEF moved, Goes, arrivals, Source, changed, marks, to
  <2> QED
    BY <2>1, <2>3, <2>4, <2>5
<1>7. KeepsUnmarked
  BY <1>1, <1>2, <1>6 DEF KeepsUnmarked
<1>8. KeepsTargets
  <2> SUFFICES ASSUME NEW b \in TopRows(working') \ touched', NEW f \in RefFields(schema, b),
                      NEW t \in RefersTo(schema, working, b, f), Len(t) = 1, t \in moved
               PROVE  t \in DOMAIN working'
    BY <1>3 DEF KeepsTargets
  <2>1. b \in DOMAIN working' \ touched'
    BY DEF TopRows
  <2>2. Renamed(schema, b, working[b], moved, a, to) = working[b]
    BY <1>6, <2>1
  <2>3. t = a /\ to # a
    BY <1>5, SubtreeHoldsOneTop
  <2>4. Len(to) = 1 /\ Reroot(a, a, to) = to
    BY <1>5, <2>3, KeyAddressKeepsDepth
  <2> DEFINE value == working[b][f]
             Follow(u) == IF u \in moved THEN Reroot(u, a, to) ELSE u
             ref == schema[Decl(b)].refs[f]
  <2>5. f \in DOMAIN working[b] /\ t \in Targets(ref, value)
    BY DEF RefersTo
  <2>6. value = IF ref.kind = "scalar" THEN Follow(value) ELSE {Follow(u) : u \in value}
    <3> HIDE DEF to, moved
    <3> QED
      BY <2>2, <2>5 DEF Renamed, RefFields
  <2>7. ref.kind # "scalar"
    <3> SUFFICES ASSUME ref.kind = "scalar"
                 PROVE  FALSE
      OBVIOUS
    <3>1. value = a /\ value = Follow(value)
      BY <2>3, <2>5, <2>6 DEF Targets
    <3> HIDE DEF to, moved, value
    <3> QED
      BY <2>3, <2>4, <3>1
  <2>8. PICK u \in value : a = Follow(u)
    BY <2>3, <2>5, <2>6, <2>7 DEF Targets
  <2>9. u \in moved
    BY <2>3, <2>8
  <2>10. Follow(u) \in arrivals
    BY <2>9
  <2> QED
    BY <1>1, <2>8, <2>10
<1>9. DOMAIN working' \subseteq Address(schema)
  BY <1>1, <1>3 DEF IInv, Addressed
<1>10. Marks(marks)
  <2>1. \A b \in DOMAIN working : Goes(b) \in DOMAIN working \cup arrivals
    OBVIOUS
  <2>2. marks \subseteq DOMAIN working \cup arrivals
    <3>1. {a} \cup moved \cup changed \subseteq DOMAIN working
      BY DEF SubtreeOf
    <3> HIDE DEF Goes, moved, changed, arrivals
    <3> QED
      BY <2>1, <3>1
  <2>3. DOMAIN working \cup arrivals \subseteq Seq(Level) \ {<< >>}
    BY <1>1, AddressesHaveLevels DEF IInv, Addressed
  <2>4. DOMAIN working' \ DOMAIN working \subseteq marks
    BY <1>3, <1>4
  <2> HIDE DEF marks, arrivals, moved
  <2> QED
    BY <1>1, <2>2, <2>3, <2>4 DEF Marks
<1>11. MarksParents
  <2> SUFFICES ASSUME NEW b \in DOMAIN working \ DOMAIN working', Len(b) > 1,
                      Parent(b) \in DOMAIN working'
               PROVE  Parent(b) \in touched'
    BY DEF MarksParents
  <2>1. b \in moved /\ to # a
    BY <1>3
  <2>2. arrivals \subseteq touched'
    BY <1>2, <1>4
  <2>3. CASE b = a
    <3>1. Goes(a) = to
      BY <1>5, <2>1, <2>3, KeyAddressKeepsDepth
    <3>2. to \in arrivals
      BY <2>1, <2>3, <3>1
    <3>3. to \in touched' /\ to \in Seq(Level)
      BY <1>1, <2>2, <3>2, AddressesHaveLevels DEF IInv, Addressed
    <3>4. Parent(to) = Parent(b) /\ Len(to) = Len(b)
      BY <1>5, <2>3, <3>3, KeyAddressKeepsParent, KeyAddressKeepsDepth
    <3>5. MarksClimb'
      BY <1>10, MarkAllClimbs DEF IInv
    <3> HIDE DEF to
    <3> QED
      BY <3>3, <3>4, <3>5 DEF MarksClimb
  <2>4. CASE b # a
    <3>1. b \in Seq(Level) /\ IsUnder(b, a)
      BY <2>1, <2>4, AddressesHaveLevels DEF SubtreeOf, IInv, Addressed
    <3>2. Parent(b) = a \/ IsUnder(Parent(b), a)
      BY <1>5, <3>1, ParentsAreUnder
    <3>3. Parent(b) \notin DOMAIN working \ moved
      BY <2>1, <3>2 DEF SubtreeOf
    <3> QED
      BY <1>3, <2>2, <3>3
  <2> QED
    BY <2>3, <2>4
<1> HIDE DEF marks
<1> QED
  BY <1>7, <1>8, <1>9, <1>10, <1>11, StatementPreserves

-----------------------------------------------------------------------------
(* Deletion. rows is the working copy with the rows of `written` replaced. *)

Overlays(rows, written) ==
  /\ DOMAIN working \subseteq DOMAIN rows
  /\ DOMAIN rows \subseteq Address(schema)
  /\ written \subseteq DOMAIN rows
  /\ \A b \in DOMAIN rows \ written : b \in DOMAIN working /\ rows[b] = working[b]

LEMMA ClosureIsClosed ==
  ASSUME NEW s, NEW rows, NEW initial, NEW a \in TopRows(rows), NEW f \in RefFields(s, a),
         DeletesRow(s[Decl(a)].refs[f]),
         NEW t \in RefersTo(s, rows, a, f), t \in CascadeClosure(s, rows, initial)
  PROVE  a \in CascadeClosure(s, rows, initial)
BY DEF CascadeClosure

LEMMA DeleteKeeps ==
  ASSUME IInv, UNCHANGED engine, NEW rows, NEW written, NEW initial,
         \A b \in initial : Len(b) = 1, Overlays(rows, written), RemoveRows(rows, written, initial)
  PROVE  IInv'
<1> DEFINE deletes == CascadeClosure(schema, rows, initial)
           affected == Affected(schema, rows, deletes)
           removed == RemovedBy(rows, deletes)
<1>1. /\ ~IsBlocked(schema, rows, deletes)
      /\ working' = AfterDeletion(schema, rows, deletes)
      /\ origin' = [a \in DOMAIN working' |-> IF a \in DOMAIN origin THEN origin[a] ELSE Nil]
      /\ touched \cup written \cup affected \subseteq touched'
  BY MarkAllMarks DEF RemoveRows
<1>2. DOMAIN working' = DOMAIN rows \ removed
  BY <1>1 DEF AfterDeletion
<1>3. ASSUME NEW b \in DOMAIN working' \ touched'
      PROVE  /\ b \in DOMAIN rows \ removed /\ b \notin affected
             /\ b \in DOMAIN working /\ rows[b] = working[b]
             /\ working'[b] = working[b] /\ origin'[b] = origin[b]
  <2>1. b \in DOMAIN rows \ removed /\ b \notin written \cup affected
    BY <1>1, <1>2, <1>3
  <2>2. b \in DOMAIN working /\ rows[b] = working[b] /\ b \in DOMAIN origin
    BY <2>1 DEF Overlays, IInv, Addressed
  <2>3. working'[b] = rows[b]
    BY <1>1, <2>1 DEF AfterDeletion
  <2> QED
    BY <1>1, <1>3, <2>1, <2>2, <2>3
<1>4. KeepsUnmarked
  BY <1>1, <1>3 DEF KeepsUnmarked
<1>5. KeepsTargets
  <2> SUFFICES ASSUME NEW b \in TopRows(working') \ touched', NEW f \in RefFields(schema, b),
                      NEW t \in RefersTo(schema, working, b, f),
                      Len(t) = 1, t \in DOMAIN working, t \in removed
               PROVE  FALSE
    BY <1>2 DEF KeepsTargets, Overlays
  <2> DEFINE ref == schema[Decl(b)].refs[f]
  <2>1. b \in DOMAIN working' \ touched'
    BY DEF TopRows
  <2>2. t \in deletes
    <3>1. PICK d \in deletes \cap DOMAIN rows : t \in SubtreeOf(rows, d)
      BY DEF RemovedBy
    <3>2. d \in Seq(Level) \ {<< >>}
      BY AddressesHaveLevels DEF Overlays, IInv, Addressed
    <3> QED
      BY <3>1, <3>2, SubtreeHoldsOneTop
  <2>3. t \in RefersTo(schema, rows, b, f)
    BY <1>3, <2>1 DEF RefersTo
  <2>4. b \in TopRows(rows) \ deletes
    <3>1. b \in DOMAIN rows \ removed /\ Len(b) = 1
      BY <1>3, <2>1 DEF TopRows
    <3>2. b \notin deletes
      BY <3>1, RootIsInItsSubtree DEF RemovedBy
    <3> QED
      BY <3>1, <3>2 DEF TopRows
  <2>5. ref.policy \in Policies
    BY <1>3, <2>1, PoliciesAreKnown DEF IInv, Addressed
  <2>6. ref.policy \notin {"restrict", "undecided"}
    BY <1>1, <2>2, <2>3, <2>4 DEF IsBlocked
  <2>7. ~DeletesRow(ref)
    BY <2>2, <2>3, <2>4, ClosureIsClosed
  <2>8. b \notin affected
    BY <1>3, <2>1
  <2>9. t \in DOMAIN rows
    BY DEF Overlays
  <2> QED
    BY <2>2, <2>3, <2>4, <2>5, <2>6, <2>7, <2>8, <2>9
    DEF Affected, DropsMember, DeletesRow, Policies
<1>6. DOMAIN working' \subseteq Address(schema)
  BY <1>2 DEF Overlays
<1>7. Marks(written \cup affected)
  <2>1. written \cup affected \subseteq DOMAIN rows
    BY DEF Overlays, Affected, TopRows
  <2>2. written \cup affected \subseteq Seq(Level) \ {<< >>}
    BY <2>1, AddressesHaveLevels DEF Overlays, IInv, Addressed
  <2>3. DOMAIN working' \ DOMAIN working \subseteq written
    BY <1>2 DEF Overlays
  <2> QED
    BY <2>2, <2>3 DEF Marks, RemoveRows
<1>8. MarksParents
  <2> SUFFICES ASSUME NEW b \in DOMAIN working \ DOMAIN working', Len(b) > 1,
                      Parent(b) \in DOMAIN working'
               PROVE  FALSE
    BY DEF MarksParents
  <2>1. PICK d \in deletes \cap DOMAIN rows : b \in SubtreeOf(rows, d)
    BY <1>2 DEF Overlays, RemovedBy
  <2>2. Len(d) = 1
    BY DEF CascadeClosure, TopRows
  <2>3. b \in Seq(Level) /\ d \in Seq(Level) \ {<< >>}
    BY AddressesHaveLevels DEF Overlays, IInv, Addressed
  <2>4. IsUnder(b, d)
    <3>1. b # d
      BY <2>2, DeeperIsOther
    <3> QED
      BY <2>1, <3>1 DEF SubtreeOf
  <2>5. Parent(b) = d \/ IsUnder(Parent(b), d)
    BY <2>3, <2>4, ParentsAreUnder
  <2>6. Parent(b) \in DOMAIN rows
    BY <1>2
  <2>7. Parent(b) \in removed
    BY <2>1, <2>5, <2>6 DEF SubtreeOf, RemovedBy
  <2> QED
    BY <1>2, <2>7
<1> QED
  BY <1>4, <1>5, <1>6, <1>7, <1>8, StatementPreserves

LEMMA RemoveNestedKeeps ==
  ASSUME IInv, UNCHANGED engine, NEW rows, NEW written, NEW gone,
         Overlays(rows, written), \A a \in gone : Len(a) # 1,
         RemoveNested(rows, written, gone)
  PROVE  IInv'
<1> DEFINE removed == UNION {SubtreeOf(rows, a) : a \in gone \cap DOMAIN rows}
<1>1. /\ working' = [a \in DOMAIN rows \ removed |-> rows[a]]
      /\ origin' = [a \in DOMAIN working' |-> IF a \in DOMAIN origin THEN origin[a] ELSE Nil]
      /\ touched \cup written \subseteq touched'
  BY MarkAllMarks DEF RemoveNested
<1>2. DOMAIN working' = DOMAIN rows \ removed
  BY <1>1
<1>3. ASSUME NEW b \in DOMAIN working' \ touched'
      PROVE  b \in DOMAIN working /\ working'[b] = working[b] /\ origin'[b] = origin[b]
  <2>1. b \in DOMAIN rows \ removed /\ b \notin written
    BY <1>1, <1>2, <1>3
  <2>2. b \in DOMAIN working /\ rows[b] = working[b] /\ b \in DOMAIN origin
    BY <2>1 DEF Overlays, IInv, Addressed
  <2> HIDE DEF removed
  <2> QED
    BY <1>1, <1>3, <2>1, <2>2
<1>4. KeepsUnmarked
  BY <1>1, <1>3 DEF KeepsUnmarked
<1>5. KeepsTargets
  <2> SUFFICES ASSUME NEW t \in DOMAIN working, Len(t) = 1, t \in removed
               PROVE  FALSE
    BY <1>2 DEF KeepsTargets, Overlays
  <2>1. PICK d \in gone \cap DOMAIN rows : t \in SubtreeOf(rows, d)
    OBVIOUS
  <2>2. d \in Seq(Level) \ {<< >>}
    BY AddressesHaveLevels DEF Overlays, IInv, Addressed
  <2> QED
    BY <2>1, <2>2, SubtreeHoldsOneTop
<1>6. DOMAIN working' \subseteq Address(schema)
  BY <1>2 DEF Overlays
<1> DEFINE parents == {Ancestor(a, Len(a) - 1) : a \in gone \cap DOMAIN rows}
           marks == written \cup (parents \cap DOMAIN working')
<1>7. touched' = MarkAll(DOMAIN working', touched, marks)
  BY DEF RemoveNested
<1>8. Marks(marks)
  <2>1. marks \subseteq DOMAIN rows
    BY <1>2 DEF Overlays
  <2>2. marks \subseteq Seq(Level) \ {<< >>}
    BY <2>1, AddressesHaveLevels DEF Overlays, IInv, Addressed
  <2>3. DOMAIN working' \ DOMAIN working \subseteq written
    BY <1>2 DEF Overlays
  <2> QED
    BY <1>7, <2>2, <2>3 DEF Marks
<1>9. MarksParents
  <2> SUFFICES ASSUME NEW b \in DOMAIN working \ DOMAIN working', Len(b) > 1,
                      Parent(b) \in DOMAIN working'
               PROVE  Parent(b) \in touched'
    BY DEF MarksParents
  <2>1. PICK d \in gone \cap DOMAIN rows : b \in SubtreeOf(rows, d)
    BY <1>2 DEF Overlays
  <2>2. b \in Seq(Level) /\ d \in Seq(Level) \ {<< >>}
    BY AddressesHaveLevels DEF Overlays, IInv, Addressed
  <2>3. CASE b = d
    <3>1. Parent(b) \in marks
      BY <2>1, <2>3 DEF Parent
    <3> HIDE DEF marks
    <3> QED
      BY <1>7, <3>1, MarkAllMarks
  <2>4. CASE b # d
    <3>1. IsUnder(b, d)
      BY <2>1, <2>4 DEF SubtreeOf
    <3>2. Parent(b) = d \/ IsUnder(Parent(b), d)
      BY <2>2, <3>1, ParentsAreUnder
    <3>3. Parent(b) \in removed
      BY <1>2, <2>1, <3>2 DEF SubtreeOf
    <3> QED
      BY <1>2, <3>3
  <2> QED
    BY <2>3, <2>4
<1> HIDE DEF marks
<1> QED
  BY <1>4, <1>5, <1>6, <1>8, <1>9, StatementPreserves

-----------------------------------------------------------------------------
(* The whole call.                                                         *)

\* The rows of a seed, and the rows of a batch, are at addresses of the package.
LEMMA RowSetsAreAddressed ==
  ASSUME NEW s, NEW batch \in Batches(s), NEW new \in RowSets(s, batch)
  PROVE  DOMAIN new = batch /\ batch \subseteq Address(s)
<1>1. batch \subseteq Address(s)
  BY DEF Batches
<1>2. CASE batch = {}
  BY <1>1, <1>2 DEF RowSets
<1>3. CASE batch # {}
  <2> DEFINE d == Decl(CHOOSE a \in batch : TRUE)
  <2>1. PICK data \in [batch -> s[d].data] : new = [a \in batch |-> RowAt(s, a, data[a])]
    BY <1>3 DEF RowSets
  <2> QED
    BY <1>1, <2>1
<1> QED
  BY <1>2, <1>3

\* A top-level row is gathered with every call.
LEMMA TopRowsAreGathered ==
  ASSUME NEW a \in DOMAIN committed, a \in Seq(Level), Len(a) = 1
  PROVE  a \in Gathered
BY AncestorOfTop DEF Gathered

LEMMA InitKeeps == CallsInit => IInv
<1> SUFFICES ASSUME CallsInit
             PROVE  IInv
  OBVIOUS
<1>1. PICK seed \in Seeds(schema) :
        /\ IsGenesis(schema, seed)
        /\ committed = [a \in DOMAIN seed |-> [value |-> seed[a], incarnation |-> <<a, 0>>]]
  BY DEF CallsInit
<1>2. DOMAIN working = {} /\ DOMAIN origin = {} /\ schema \in Schemas
  BY DEF CallsInit
<1>3. DOMAIN committed = DOMAIN seed /\ DOMAIN seed \subseteq Address(schema)
  BY <1>1, <1>2, SeedsAreAddressed
<1>4. Addressed
  BY <1>2, <1>3 DEF Addressed
<1>5. EveryChangeIsMarked /\ UnmarkedReferencesResolve
  BY <1>2 DEF EveryChangeIsMarked, UnmarkedReferencesResolve, TopRows
<1>6. GovernedReferencesResolve
  <2> SUFFICES ASSUME NEW a \in TopRows(Base), NEW f \in RefFields(schema, a),
                      NEW t \in RefersTo(schema, Base, a, f), Len(t) = 1
               PROVE  t \in DOMAIN Base
    BY DEF GovernedReferencesResolve, Governed
  <2>1. a \in DOMAIN seed /\ Base[a] = seed[a]
    BY <1>1, <1>3 DEF TopRows, Base, Gathered
  <2>2. t \in RefersTo(schema, seed, a, f)
    BY <2>1 DEF RefersTo
  <2>3. t \in DOMAIN seed
    BY <1>1, <2>1, <2>2 DEF IsGenesis, Finalizes, ReferencesResolve
  <2>4. t \in Gathered
    BY <1>2, <1>3, <2>3, TopRowsAreGathered, AddressesHaveLevels
  <2> QED
    BY <2>4 DEF Base
<1>7. MarksClimb /\ ChildrenStay
  BY <1>2 DEF CallsInit, MarksClimb, ChildrenStay
<1> QED
  BY <1>4, <1>5, <1>6, <1>7 DEF IInv

LEMMA GatherKeeps == IInv /\ Gather => IInv'
<1> SUFFICES ASSUME IInv, Gather
             PROVE  IInv'
  OBVIOUS
<1>1. /\ schema' = schema /\ committed' = committed
      /\ working' = Base /\ touched' = {}
      /\ origin' = [a \in Gathered |-> committed[a].incarnation]
  BY DEF Gather, engine
<1>2. Base' = Base /\ Gathered' = Gathered /\ DOMAIN Base = Gathered
  BY <1>1 DEF Base, Gathered
<1>3. Addressed'
  BY <1>1, <1>2 DEF IInv, Addressed, Gathered
<1>4. EveryChangeIsMarked'
  BY <1>1, <1>2 DEF EveryChangeIsMarked
<1>5. GovernedReferencesResolve'
  BY <1>1, <1>2 DEF IInv, GovernedReferencesResolve
<1>6. UnmarkedReferencesResolve'
  BY <1>1, <1>2 DEF IInv, GovernedReferencesResolve, UnmarkedReferencesResolve
<1>7. MarksClimb' /\ ChildrenStay'
  BY <1>1, <1>2 DEF MarksClimb, ChildrenStay
<1> QED
  BY <1>3, <1>4, <1>5, <1>6, <1>7 DEF IInv

LEMMA RejectKeeps == IInv /\ Reject => IInv'
<1> SUFFICES ASSUME IInv, Reject
             PROVE  IInv'
  OBVIOUS
<1>1. schema' = schema /\ committed' = committed /\ DOMAIN working' = {} /\ DOMAIN origin' = {}
  BY DEF Reject, CloseCall, engine
<1>2. Base' = Base
  BY <1>1 DEF Base, Gathered
<1>3. Addressed'
  BY <1>1 DEF IInv, Addressed
<1>4. EveryChangeIsMarked' /\ UnmarkedReferencesResolve'
  BY <1>1 DEF EveryChangeIsMarked, UnmarkedReferencesResolve, TopRows
<1>5. GovernedReferencesResolve'
  BY <1>1, <1>2 DEF IInv, GovernedReferencesResolve
<1>6. MarksClimb' /\ ChildrenStay'
  BY <1>1 DEF Reject, CloseCall, MarksClimb, ChildrenStay
<1> QED
  BY <1>3, <1>4, <1>5, <1>6 DEF IInv

\* The marked rows are validated by the final pass, the others are covered by the invariant.
LEMMA AdmitKeeps == IInv /\ AdmitCall => IInv'
<1> SUFFICES ASSUME IInv, AdmitCall
             PROVE  IInv'
  OBVIOUS
<1>1. /\ schema' = schema /\ DOMAIN working' = {} /\ DOMAIN origin' = {}
      /\ Finalizes(schema, working, touched)
      /\ DOMAIN committed' = DOMAIN working \cup (DOMAIN committed \ Gathered)
      /\ \A a \in DOMAIN working : committed'[a].value = working[a]
  BY DEF AdmitCall, CloseCall
<1>2. Addressed'
  BY <1>1 DEF IInv, Addressed
<1>3. EveryChangeIsMarked' /\ UnmarkedReferencesResolve'
  BY <1>1 DEF EveryChangeIsMarked, UnmarkedReferencesResolve, TopRows
<1>4. GovernedReferencesResolve'
  <2> SUFFICES ASSUME NEW a \in TopRows(Base'), NEW f \in RefFields(schema, a),
                      NEW t \in RefersTo(schema, Base', a, f), Len(t) = 1
               PROVE  t \in DOMAIN Base'
    BY <1>1 DEF GovernedReferencesResolve, Governed
  <2>1. a \in DOMAIN committed' /\ Len(a) = 1 /\ a \in Seq(Level) /\ Base'[a] = committed'[a].value
    <3>1. a \in DOMAIN committed' /\ Len(a) = 1 /\ Base'[a] = committed'[a].value
      BY DEF TopRows, Base, Gathered
    <3> QED
      BY <3>1, <1>2, AddressesHaveLevels DEF Addressed
  <2>2. a \in DOMAIN working
    BY <1>1, <2>1, TopRowsAreGathered
  <2>3. t \in RefersTo(schema, working, a, f)
    BY <1>1, <2>1, <2>2 DEF RefersTo
  <2>4. t \in DOMAIN working
    <3>1. CASE a \in touched
      BY <1>1, <2>2, <2>3, <3>1 DEF Finalizes, ReferencesResolve
    <3>2. CASE a \notin touched
      BY <2>1, <2>2, <2>3, <3>2 DEF IInv, UnmarkedReferencesResolve, Governed, TopRows
    <3> QED
      BY <3>1, <3>2
  <2>5. t \in DOMAIN committed' /\ Ancestor(t, 1) = t
    BY <1>1, <2>4, AncestorOfTop, AddressesHaveLevels DEF IInv, Addressed
  <2> QED
    BY <2>5 DEF Base, Gathered
<1>5. MarksClimb' /\ ChildrenStay'
  BY <1>1 DEF AdmitCall, CloseCall, MarksClimb, ChildrenStay
<1> QED
  BY <1>2, <1>3, <1>4, <1>5 DEF IInv

LEMMA StatementKeeps ==
  ASSUME IInv,
         \/ InsertFromView \/ InsertRow \/ WriteFields \/ DeleteRows \/ DeleteNested
         \/ Erase \/ ReplaceCollection
  PROVE  IInv'
<1>1. UNCHANGED engine
  BY DEF InsertFromView, InsertRow, WriteFields, DeleteRows, DeleteNested, Erase,
         ReplaceCollection, Statement
<1>2. DOMAIN working \subseteq Address(schema) /\ Overlays(working, {})
  BY DEF IInv, Addressed, Overlays
<1>3. CASE InsertFromView
  <2>1. PICK batch \in Batches(schema) : \E new \in RowSets(schema, batch) : StageRows(new)
    BY <1>3 DEF InsertFromView
  <2>2. PICK new \in RowSets(schema, batch) : StageRows(new)
    BY <2>1
  <2> QED
    BY <1>1, <2>2, RowSetsAreAddressed, StageKeeps
<1>4. CASE InsertRow
  <2>1. PICK a \in Address(schema), children \in Batches(schema) :
          \E row, under :
            StageRows([b \in {a} \cup children |-> IF b = a THEN row ELSE under[b]])
    BY <1>4 DEF InsertRow
  <2>2. PICK row, under : StageRows([b \in {a} \cup children |-> IF b = a THEN row ELSE under[b]])
    BY <2>1
  <2>3. {a} \cup children \subseteq Address(schema)
    BY DEF Batches
  <2> QED
    BY <1>1, <2>2, <2>3, StageKeeps
<1>5. CASE WriteFields
  <2>1. PICK a \in DOMAIN working : \E row : Place(a, row)
    BY <1>5 DEF WriteFields, Patched
  <2> QED
    BY <1>1, <2>1, PlaceKeeps
<1>6. CASE DeleteRows
  BY <1>1, <1>2, <1>6, DeleteKeeps DEF DeleteRows, TopKeys
<1>7. CASE DeleteNested
  <2>1. PICK gone \in Batches(schema) :
          (\A a \in gone : Len(a) # 1) /\ RemoveNested(working, {}, gone)
    BY <1>7 DEF DeleteNested
  <2> QED
    BY <1>1, <1>2, <2>1, RemoveNestedKeeps
<1>8. CASE Erase
  BY <1>1, <1>2, <1>8, DeleteKeeps DEF Erase, TopKeys
<1>9. CASE ReplaceCollection
  <2>1. PICK a \in Address(schema), batch \in Batches(schema) : \E new \in RowSets(schema, batch) :
          LET rows == [b \in DOMAIN working \cup batch |->
                         IF b \in batch THEN new[b] ELSE working[b]]
              dropped == {b \in DOMAIN working \ batch : InOneCollection(a, b)}
          IN  IF Len(a) = 1 THEN RemoveRows(rows, batch, dropped)
              ELSE RemoveNested(rows, batch, dropped)
    BY <1>9 DEF ReplaceCollection
  <2>2. PICK new \in RowSets(schema, batch) :
          LET rows == [b \in DOMAIN working \cup batch |->
                         IF b \in batch THEN new[b] ELSE working[b]]
              dropped == {b \in DOMAIN working \ batch : InOneCollection(a, b)}
          IN  IF Len(a) = 1 THEN RemoveRows(rows, batch, dropped)
              ELSE RemoveNested(rows, batch, dropped)
    BY <2>1
  <2> DEFINE rows == [b \in DOMAIN working \cup batch |->
                        IF b \in batch THEN new[b] ELSE working[b]]
             dropped == {b \in DOMAIN working \ batch : InOneCollection(a, b)}
  <2>3. Overlays(rows, batch)
    BY <1>2 DEF Overlays, Batches
  <2>6. \A b \in dropped : Len(b) = Len(a)
    <3> SUFFICES ASSUME NEW b \in dropped
                 PROVE  Len(b) = Len(a)
      OBVIOUS
    <3>1. a \in Seq(Level) /\ b \in Seq(Level) /\ InOneCollection(a, b)
      BY <1>2, AddressesHaveLevels DEF IInv, Addressed
    <3> QED
      BY <3>1, SiblingsAreAsDeep
  <2>4. CASE Len(a) = 1
    <3>1. RemoveRows(rows, batch, dropped)
      BY <2>4, <2>2
    <3>2. \A b \in dropped : Len(b) = 1
      BY <2>4, <2>6
    <3> HIDE DEF rows, dropped
    <3> QED
      BY <1>1, <2>3, <3>1, <3>2, DeleteKeeps
  <2>5. CASE Len(a) # 1
    <3>1. RemoveNested(rows, batch, dropped)
      BY <2>5, <2>2
    <3>2. \A b \in dropped : Len(b) # 1
      BY <2>5, <2>6
    <3> HIDE DEF rows, dropped
    <3> QED
      BY <1>1, <2>3, <3>1, <3>2, RemoveNestedKeeps
  <2> QED
    BY <2>4, <2>5
<1> QED
  BY <1>3, <1>4, <1>5, <1>6, <1>7, <1>8, <1>9

LEMMA NextKeeps == IInv /\ [CallsNext]_engineVars => IInv'
<1> SUFFICES ASSUME IInv, [CallsNext]_engineVars
             PROVE  IInv'
  OBVIOUS
<1>1. CASE Gather
  BY <1>1, GatherKeeps
<1>2. CASE Reject
  BY <1>2, RejectKeeps
<1>3. CASE AdmitCall
  BY <1>3, AdmitKeeps
<1>4. CASE UNCHANGED engineVars
  BY <1>4 DEF engineVars, engine, call, IInv, Addressed, EveryChangeIsMarked, Base, Gathered,
              UnmarkedReferencesResolve, GovernedReferencesResolve, MarksClimb, ChildrenStay
<1> QED
  BY <1>1, <1>2, <1>3, <1>4, StatementKeeps DEF CallsNext

LEMMA Inductive == CallsSpec => []IInv
BY InitKeeps, NextKeeps, PTL DEF CallsSpec

-----------------------------------------------------------------------------

\* A row the program left unmarked is the row the call found: no statement writes, moves
\* or patches a row without Interp::mark.
THEOREM UnmarkedIsUnchanged == CallsSpec => []EveryChangeIsMarked
<1>1. IInv => EveryChangeIsMarked
  BY DEF IInv
<1> QED
  BY <1>1, Inductive, PTL

\* A row the program left unmarked refers to live rows only: the deletion planner and the
\* rekey rewrite reach every top-level row whose target goes.
THEOREM UnmarkedReferencesAreLive == CallsSpec => []UnmarkedReferencesResolve
<1>1. IInv => UnmarkedReferencesResolve
  BY DEF IInv
<1> QED
  BY <1>1, Inductive, PTL

\* Hence validating the marked rows is enough: in every committed state every reference
\* from a top-level row to a top-level row resolves, for every package and policy.
THEOREM CommittedReferencesResolve == CallsSpec => []GovernedReferencesResolve
<1>1. IInv => GovernedReferencesResolve
  BY DEF IInv
<1> QED
  BY <1>1, Inductive, PTL

-----------------------------------------------------------------------------
(* Where a moved row goes.                                                 *)

\* What an address grows by when a key path is appended to it.
LEMMA LengthsAdd ==
  ASSUME NEW s \in Seq(Level), NEW t \in Seq(Level) PROVE Len(s \o t) = Len(s) + Len(t)
  OBVIOUS

\* A row that moves keeps its depth and its names, and moving it back undoes the move.
LEMMA RerootIsUndone ==
  ASSUME NEW a \in Seq(Level) \ {<< >>}, NEW to \in Seq(Level), Len(to) = Len(a),
         NEW b \in Seq(Level), b = a \/ IsUnder(b, a),
         \A i \in 1 .. Len(a) : to[i].name = a[i].name
  PROVE  /\ Reroot(Reroot(b, a, to), to, a) = b
         /\ Decl(Reroot(b, a, to)) = Decl(b)
<1> DEFINE n == Len(a)
           m == Len(b)
           rest == SubSeq(b, n + 1, m)
           c == to \o rest
           back == SubSeq(c, n + 1, m)
           d == a \o back
<1>1. n \in Nat /\ m \in Nat /\ n <= m /\ \A i \in 1 .. n : b[i] = a[i]
  <2>1. CASE b = a
    BY <2>1
  <2>2. CASE IsUnder(b, a)
    <3>1. n < m /\ SubSeq(b, 1, n) = a
      BY <2>2 DEF IsUnder, Ancestor
    <3>2. \A i \in 1 .. n : SubSeq(b, 1, n)[i] = b[i]
      BY <3>1
    <3> QED
      BY <3>1, <3>2
  <2> QED
    BY <2>1, <2>2
<1>2. rest \in Seq(Level) /\ Len(rest) = m - n /\ \A i \in 1 .. m - n : rest[i] = b[n + i]
  BY <1>1
<1> HIDE DEF rest
<1>3. /\ c \in Seq(Level) /\ Len(c) = m
      /\ \A i \in 1 .. n : c[i] = to[i]
      /\ \A i \in 1 .. m : i > n => c[i] = b[i]
  <2>1. c \in Seq(Level) /\ Len(c) = m /\ \A i \in 1 .. n : c[i] = to[i]
    <3>1. rest \in Seq(Level) /\ to \in Seq(Level) /\ Len(to) = n /\ Len(rest) = m - n
      BY <1>2
    <3>2. c \in Seq(Level)
      BY ONLY <3>1
    <3>3. Len(c) = Len(to) + Len(rest)
      BY <3>1, LengthsAdd
    <3>4. \A i \in 1 .. n : c[i] = to[i]
      BY <1>1, <3>1
    <3> QED
      BY <1>1, <3>1, <3>2, <3>3, <3>4
  <2>2. ASSUME NEW i \in 1 .. m, i > n PROVE c[i] = b[i]
    <3>1. i - n \in 1 .. m - n /\ n + (i - n) = i
      BY <1>1, <2>2
    <3>2. c[i] = rest[i - n]
      BY <1>1, <1>2, <2>2
    <3> QED
      BY <1>2, <3>1, <3>2
  <2> QED
    BY <2>1, <2>2
<1> HIDE DEF c
<1>4. back \in Seq(Level) /\ Len(back) = m - n /\ \A i \in 1 .. m - n : back[i] = c[n + i]
  BY <1>1, <1>3
<1> HIDE DEF back
<1>5. d = b
  <2>1. d \in Seq(Level) /\ Len(d) = m
    BY <1>1, <1>4
  <2>2. ASSUME NEW i \in 1 .. m PROVE d[i] = b[i]
    <3>1. CASE i <= n
      <4>1. d[i] = a[i]
        BY <1>1, <1>4, <3>1
      <4> QED
        BY <1>1, <3>1, <4>1
    <3>2. CASE ~(i <= n)
      <4>1. i - n \in 1 .. m - n /\ n + (i - n) = i /\ i > n
        BY <1>1, <3>2
      <4>2. d[i] = back[i - n]
        BY <1>1, <1>4, <4>1
      <4>3. back[i - n] = c[i]
        BY <1>4, <4>1
      <4> QED
        BY <1>3, <4>1, <4>2, <4>3
    <3> QED
      BY <3>1, <3>2
  <2> HIDE DEF d
  <2> QED
    BY <2>1, <2>2
<1>6. Decl(c) = Decl(b)
  <2>1. \A i \in 1 .. m : c[i].name = b[i].name
    <3> SUFFICES ASSUME NEW i \in 1 .. m
                 PROVE  c[i].name = b[i].name
      OBVIOUS
    <3>1. i \in 1 .. n \/ i > n
      BY <1>1
    <3> QED
      BY <1>1, <1>3, <3>1
  <2>2. DOMAIN c = 1 .. m /\ DOMAIN b = 1 .. m
    BY <1>3
  <2> QED
    BY <2>1, <2>2 DEF Decl
<1>7. Reroot(b, a, to) = c
  BY DEF Reroot, c, rest
<1>8. Reroot(c, to, a) = d
  BY <1>3 DEF Reroot, d, back
<1> QED
  BY <1>5, <1>6, <1>7, <1>8

\* Whatever related two rows before a row moved relates them at their new addresses.
LEMMA MovedReferences ==
  ASSUME IInv, NEW a \in DOMAIN working, NEW w, Place(a, Patched(a, w)),
         NEW b \in DOMAIN working, NEW f \in RefFields(schema, b),
         NEW t \in RefersTo(schema, working, b, f), t \in DOMAIN working,
         origin[b] # Nil, origin[t] # Nil, b # a \/ f \notin DOMAIN w
  PROVE  <<origin[b], f, origin[t]>> \in Relations(working', origin')
<1> DEFINE row == Patched(a, w)
           to == KeyAddress(schema, a, row)
           moved == IF to = a THEN {} ELSE SubtreeOf(working, a)
           Goes(c) == IF c \in moved THEN Reroot(c, a, to) ELSE c
           arrivals == {Goes(c) : c \in moved}
           Source(c) == IF c \in arrivals THEN Reroot(c, to, a) ELSE c
           Written(c) == IF c = a THEN row ELSE working[c]
           Rewritten(c) == Renamed(schema, c, Written(c), moved, a, to)
           here == Goes(b)
           there == Goes(t)
           ref == schema[Decl(b)].refs[f]
<1>1. /\ arrivals \cap DOMAIN working = {}
      /\ arrivals \subseteq Address(schema)
      /\ working' = [c \in (DOMAIN working \ moved) \cup arrivals |-> Rewritten(Source(c))]
      /\ origin' = [c \in DOMAIN working' |-> origin[Source(c)]]
  BY DEF Place
<1>2. DOMAIN working' = (DOMAIN working \ moved) \cup arrivals
  BY <1>1
<1>3. /\ schema \in Schemas /\ DOMAIN working \subseteq Seq(Level) \ {<< >>}
      /\ Address(schema) \subseteq Seq(Level) \ {<< >>} /\ Nil \notin Address(schema)
      /\ a \in Seq(Level) \ {<< >>}
  BY AddressesHaveLevels, NoneIsNoAddress DEF IInv, Addressed
<1>4. Len(to) = Len(a) /\ Reroot(a, a, to) = to
  BY <1>3, KeyAddressKeepsDepth
<1>5. \A i \in 1 .. Len(a) : to[i].name = a[i].name
  BY <1>3, KeyAddressKeepsNames
<1>6. to \in Seq(Level)
  <2>1. CASE to = a
    BY <1>3, <2>1
  <2>2. CASE to # a
    <3>1. a \in moved
      BY <2>2, RootIsInItsSubtree
    <3>2. Goes(a) = to /\ Goes(a) \in arrivals
      BY <1>4, <3>1
    <3> QED
      BY <1>1, <1>3, <3>2
  <2> QED
    BY <2>1, <2>2
<1> HIDE DEF row, to
<1>7. ASSUME NEW c \in DOMAIN working
      PROVE  /\ Goes(c) \in DOMAIN working' /\ Source(Goes(c)) = c /\ Decl(Goes(c)) = Decl(c)
             /\ Goes(c) = c \/ Goes(c) # Nil
  <2>1. CASE c \in moved
    <3>1. Goes(c) = Reroot(c, a, to) /\ Goes(c) \in arrivals
      BY <2>1
    <3>2. c = a \/ IsUnder(c, a)
      BY <2>1 DEF SubtreeOf
    <3>3. Reroot(Reroot(c, a, to), to, a) = c /\ Decl(Reroot(c, a, to)) = Decl(c)
      BY <1>3, <1>4, <1>5, <1>6, <3>2, RerootIsUndone
    <3>4. Source(Goes(c)) = Reroot(Goes(c), to, a)
      BY <3>1
    <3> HIDE DEF Goes, Source, arrivals, moved
    <3> QED
      BY <1>1, <1>2, <1>3, <3>1, <3>3, <3>4
  <2>2. CASE c \notin moved
    <3>1. Goes(c) = c /\ c \notin arrivals
      BY <1>1, <2>2
    <3>2. Source(c) = c
      BY <3>1
    <3> HIDE DEF Goes, Source, arrivals, moved
    <3> QED
      BY <1>2, <2>2, <3>1, <3>2
  <2> QED
    BY <2>1, <2>2
<1>8. /\ here \in DOMAIN working' /\ there \in DOMAIN working'
      /\ Decl(here) = Decl(b) /\ working'[here] = Rewritten(b)
      /\ origin'[here] = origin[b] /\ origin'[there] = origin[t]
  <2> HIDE DEF Goes, Source, arrivals, moved, Rewritten
  <2>1. /\ here \in DOMAIN working' /\ there \in DOMAIN working' /\ Decl(here) = Decl(b)
        /\ Source(here) = b /\ Source(there) = t
    BY <1>7
  <2>2. working'[here] = Rewritten(Source(here))
    BY <1>1, <1>2, <2>1
  <2>3. origin'[here] = origin[Source(here)] /\ origin'[there] = origin[Source(there)]
    BY <1>1, <2>1
  <2> QED
    BY <2>1, <2>2, <2>3
<1>9. f \in DOMAIN working[b] /\ t \in Targets(ref, working[b][f])
  BY DEF RefersTo
<1>10. f \in DOMAIN Written(b) /\ Written(b)[f] = working[b][f]
  <2>1. CASE b = a
    BY <1>9, <2>1 DEF Patched, row
  <2>2. CASE b # a
    BY <1>9, <2>2
  <2> QED
    BY <2>1, <2>2
<1> DEFINE Follow(c) == IF c \in moved THEN Reroot(c, a, to) ELSE c
<1>11. /\ f \in DOMAIN Rewritten(b)
       /\ Rewritten(b)[f] = IF ref.kind = "scalar" THEN Follow(working[b][f])
                            ELSE {Follow(c) : c \in working[b][f]}
  <2> HIDE DEF moved, Written
  <2> QED
    BY <1>10 DEF Renamed, RefFields
<1>12. there = Follow(t) /\ there # Nil
  <2>1. t \in DOMAIN working /\ t # Nil
    BY <1>3, <1>9 DEF IInv, Addressed
  <2>2. there = t \/ there # Nil
    BY <1>7, <2>1
  <2> QED
    BY <2>1, <2>2
<1>13. there \in Targets(ref, Rewritten(b)[f])
  <2> HIDE DEF there, Follow, Rewritten, moved, Written
  <2>1. CASE ref.kind = "scalar"
    <3>1. working[b][f] = t
      BY <1>9, <2>1 DEF Targets
    <3> QED
      BY <1>11, <1>12, <2>1, <3>1 DEF Targets
  <2>2. CASE ref.kind # "scalar"
    <3>1. t \in working[b][f]
      BY <1>9, <2>2 DEF Targets
    <3> QED
      BY <1>11, <1>12, <2>2, <3>1 DEF Targets
  <2> QED
    BY <2>1, <2>2
<1> HIDE DEF here, there, Rewritten, moved, Goes, Source, arrivals, Written, Follow
<1>14. f \in RefFields(schema, here) /\ there \in RefersTo(schema, working', here, f)
  BY <1>8, <1>11, <1>13 DEF RefFields, RefersTo
<1> QED
  <2> DEFINE Known(c) == c \in DOMAIN working' /\ origin'[c] # Nil
  <2>1. Known(here) /\ Known(there)
    BY <1>8
  <2>2. <<origin'[here], f, origin'[there]>>
          \in {<<origin'[here], f, origin'[u]>> : u \in {v \in RefersTo(schema, working', here, f) : Known(v)}}
    BY <1>14, <2>1
  <2> QED
    BY <1>8, <1>14, <2>1, <2>2 DEF Relations

\* Interp::place and rewrite_inbound_refs: for every package and every write, a row that
\* moves is still referred to by whatever referred to it or to a row under it.
THEOREM RekeysKeepReferences == CallsSpec => RekeyKeepsReferences
<1>1. ASSUME IInv, NEW a \in DOMAIN working, NEW w, Place(a, Patched(a, w)),
             NEW r \in Relations(working, origin), r[1] # origin[a] \/ r[2] \notin DOMAIN w
      PROVE  r \in Relations(working', origin')
  <2>1. PICK b \in DOMAIN working : origin[b] # Nil /\
          \E f \in RefFields(schema, b) :
            r \in {<<origin[b], f, origin[t]>> :
                     t \in {u \in RefersTo(schema, working, b, f) :
                              u \in DOMAIN working /\ origin[u] # Nil}}
    BY DEF Relations
  <2>2. PICK f \in RefFields(schema, b) :
          r \in {<<origin[b], f, origin[t]>> :
                   t \in {u \in RefersTo(schema, working, b, f) :
                            u \in DOMAIN working /\ origin[u] # Nil}}
    BY <2>1
  <2>3. PICK t \in RefersTo(schema, working, b, f) :
          t \in DOMAIN working /\ origin[t] # Nil /\ r = <<origin[b], f, origin[t]>>
    BY <2>2
  <2>4. b # a \/ f \notin DOMAIN w
    BY <1>1, <2>3
  <2> QED
    BY <1>1, <2>1, <2>3, <2>4, MovedReferences
<1>2. IInv => \A a \in DOMAIN working : \A w \in schema[Decl(a)].writes :
        DOMAIN working' # DOMAIN working /\ Place(a, Patched(a, w)) =>
          \A r \in Relations(working, origin) :
            r[1] # origin[a] \/ r[2] \notin DOMAIN w => r \in Relations(working', origin')
  BY <1>1
<1> QED
  BY <1>2, Inductive, PTL DEF RekeyKeepsReferences

-----------------------------------------------------------------------------
(* Erasures.                                                               *)

\* Captures are made in an open call alone.
NothingCaptured == ~open => exported = {}

LEMMA CapturesAreOfTheCall == CallsSpec => []NothingCaptured
<1>1. CallsInit => NothingCaptured
  BY DEF CallsInit, NothingCaptured
<1>2. NothingCaptured /\ [CallsNext]_engineVars => NothingCaptured'
  BY DEF NothingCaptured, CallsNext, engineVars, call, Gather, Statement, InsertFromView, InsertRow,
     WriteFields, DeleteRows, DeleteNested, Erase, ReplaceCollection, Reject, AdmitCall, CloseCall
<1> QED
  BY <1>1, <1>2, PTL DEF CallsSpec

\* exec_erase over the deletion planner: for every package and policy an erasure captures,
\* with its value, each row it removes and nothing else, cascades and nested rows included.
THEOREM ErasuresCapture == CallsSpec => ErasureCapturesWhatItRemoves
<1>1. ASSUME NothingCaptured, [CallsNext]_engineVars, exported' # exported, open'
      PROVE  exported' = exported \cup {<<a, working[a]>> : a \in DOMAIN working \ DOMAIN working'}
  <2>1. Erase
    <3>1. ~Gather
      BY <1>1 DEF Gather, NothingCaptured
    <3>2. ~Reject /\ ~AdmitCall
      BY <1>1 DEF Reject, AdmitCall, CloseCall
    <3>3. ~InsertFromView /\ ~InsertRow
      BY <1>1 DEF InsertFromView, InsertRow, StageRows
    <3>4. ~WriteFields /\ ~DeleteRows /\ ~DeleteNested /\ ~ReplaceCollection
      BY <1>1 DEF WriteFields, DeleteRows, DeleteNested, ReplaceCollection
    <3> QED
      BY <1>1, <3>1, <3>2, <3>3, <3>4 DEF CallsNext, engineVars, call
  <2>2. PICK initial \in TopKeys :
          /\ RemoveRows(working, {}, initial)
          /\ exported' =
               exported \cup Captured(working, CascadeClosure(schema, working, initial))
    BY <2>1 DEF Erase
  <2> DEFINE deletes == CascadeClosure(schema, working, initial)
             removed == RemovedBy(working, deletes)
  <2>3. DOMAIN working' = DOMAIN working \ removed
    BY <2>2 DEF RemoveRows, AfterDeletion
  <2>4. removed \subseteq DOMAIN working
    BY DEF RemovedBy, SubtreeOf
  <2>5. removed = DOMAIN working \ DOMAIN working'
    BY <2>3, <2>4
  <2>6. Captured(working, deletes) = {<<a, working[a]>> : a \in removed}
    BY DEF Captured, RemovedBy
  <2> QED
    BY <2>2, <2>5, <2>6
<1>2. NothingCaptured /\ [CallsNext]_engineVars =>
        (exported' # exported /\ open' =>
           exported' = exported \cup {<<a, working[a]>> : a \in DOMAIN working \ DOMAIN working'})
  BY <1>1
<1> QED
  BY <1>2, CapturesAreOfTheCall, PTL DEF ErasureCapturesWhatItRemoves, CallsSpec

-----------------------------------------------------------------------------
(* The final pass.                                                         *)

\* The rows of `under` are the same in both states, and so are the live children of each.
SameUnder(rows, other, under) ==
  /\ under \subseteq DOMAIN rows \cap DOMAIN other
  /\ \A b \in under : rows[b] = other[b]
  /\ \A b \in DOMAIN rows \cup DOMAIN other : Len(b) > 1 /\ Parent(b) \in under => b \in under

\* A check reads its row and what hangs under it through live rows, and nothing else.
ChecksLookDown ==
  \A s \in Schemas : \A rows, other, under, a :
    (DOMAIN rows \cup DOMAIN other \subseteq Address(s) /\ a \in under
       /\ SameUnder(rows, other, under)) =>
      \A c \in s[Decl(a)].checks : CheckPasses(c, rows, a) => CheckPasses(c, other, a)

\* The rows a program left unmarked hold every live child of theirs, before and after.
LEMMA UnmarkedHoldTheirChildren ==
  ASSUME IInv, NEW b \in DOMAIN Base \cup DOMAIN working, Len(b) > 1,
         Parent(b) \in DOMAIN working \ touched
  PROVE  b \in DOMAIN working \ touched
<1>1. b \in DOMAIN working
  BY DEF IInv, ChildrenStay, Base
<1>2. b \notin touched
  BY DEF IInv, MarksClimb
<1> QED
  BY <1>1, <1>2

LEMMA UnmarkedPass ==
  ASSUME ChecksLookDown, IInv, NEW a \in DOMAIN working \ touched, ChecksPass(schema, Base, a)
  PROVE  ChecksPass(schema, working, a)
<1> DEFINE under == DOMAIN working \ touched
<1>1. schema \in Schemas /\ DOMAIN Base \cup DOMAIN working \subseteq Address(schema)
  BY DEF IInv, Addressed, Base, Gathered
<1>2. under \subseteq DOMAIN Base \cap DOMAIN working /\ \A b \in under : Base[b] = working[b]
  BY DEF IInv, EveryChangeIsMarked, Base
<1>3. \A b \in DOMAIN Base \cup DOMAIN working : Len(b) > 1 /\ Parent(b) \in under => b \in under
  BY UnmarkedHoldTheirChildren
<1>4. \A c \in schema[Decl(a)].checks : CheckPasses(c, Base, a) => CheckPasses(c, working, a)
  <2> HIDE DEF under
  <2>1. a \in under
    BY DEF under
  <2> QED
    BY <1>1, <1>2, <1>3, <2>1 DEF ChecksLookDown, SameUnder
<1> QED
  BY <1>4 DEF ChecksPass

\* Two rows that clash were both unmarked, and then they clashed before, or one was
\* validated: uniqueness is symmetric.
LEMMA UnmarkedAreUnique ==
  ASSUME IInv, \A b \in DOMAIN Base : IsUnique(schema, Base, b),
         \A b \in touched \cap DOMAIN working : IsUnique(schema, working, b),
         NEW a \in DOMAIN working \ touched
  PROVE  IsUnique(schema, working, a)
<1> SUFFICES ASSUME NEW group \in schema[Decl(a)].unique, \A f \in group : working[a][f] # Nil,
                    NEW b \in DOMAIN working \ {a}, InOneCollection(a, b)
             PROVE  \E f \in group : working[b][f] # working[a][f]
  BY DEF IsUnique
<1>1. a \in DOMAIN Base /\ Base[a] = working[a]
  BY DEF IInv, EveryChangeIsMarked, Base
<1>2. CASE b \in touched
  <2>1. IsUnique(schema, working, b)
    BY <1>2
  <2>2. InOneCollection(b, a) /\ group \in schema[Decl(b)].unique
    BY DEF InOneCollection
  <2>3. CASE \A f \in group : working[b][f] # Nil
    <3>1. \E f \in group : working[a][f] # working[b][f]
      BY <2>1, <2>2, <2>3 DEF IsUnique
    <3> QED
      BY <3>1
  <2>4. CASE ~\A f \in group : working[b][f] # Nil
    BY <2>4
  <2> QED
    BY <2>3, <2>4
<1>3. CASE b \notin touched
  <2>1. b \in DOMAIN Base /\ Base[b] = working[b]
    BY <1>3 DEF IInv, EveryChangeIsMarked, Base
  <2>2. IsUnique(schema, Base, a)
    BY <1>1
  <2>3. \E f \in group : Base[b][f] # Base[a][f]
    BY <1>1, <2>1, <2>2 DEF IsUnique
  <2> QED
    BY <1>1, <2>1, <2>3
<1> QED
  BY <1>2, <1>3

\* rules::finalize: for every package whose checks read downwards, validating the marked
\* rows alone keeps every check and every uniqueness constraint of every row.
THEOREM AdmissionIsSound == ASSUME ChecksLookDown PROVE CallsSpec => AdmissionKeepsConstraints
<1>1. ASSUME IInv, [CallsNext]_engineVars, admitted' # admitted, ConstraintsHold(Base)
      PROVE  ConstraintsHold(working)
  <2>1. AdmitCall
    BY <1>1 DEF CallsNext, engineVars, engine, Gather, Statement, InsertFromView, InsertRow, WriteFields,
       DeleteRows, DeleteNested, Erase, ReplaceCollection, Reject
  <2>2. \A a \in touched \cap DOMAIN working :
          ChecksPass(schema, working, a) /\ IsUnique(schema, working, a)
    BY <2>1 DEF AdmitCall, Finalizes
  <2>3. \A a \in DOMAIN Base : ChecksPass(schema, Base, a) /\ IsUnique(schema, Base, a)
    BY <1>1 DEF ConstraintsHold
  <2>4. ASSUME NEW a \in DOMAIN working \ touched
        PROVE  ChecksPass(schema, working, a) /\ IsUnique(schema, working, a)
    <3>1. a \in DOMAIN Base
      BY <1>1 DEF IInv, EveryChangeIsMarked, Base
    <3>2. ChecksPass(schema, working, a)
      BY <1>1, <2>3, <3>1, UnmarkedPass
    <3>3. IsUnique(schema, working, a)
      BY <1>1, <2>2, <2>3, UnmarkedAreUnique
    <3> QED
      BY <3>2, <3>3
  <2> QED
    BY <2>2, <2>4 DEF ConstraintsHold
<1>2. IInv /\ [CallsNext]_engineVars => (admitted' # admitted /\ ConstraintsHold(Base) => ConstraintsHold(working))
  BY <1>1
<1> QED
  BY <1>2, Inductive, PTL DEF AdmissionKeepsConstraints, CallsSpec
=============================================================================
