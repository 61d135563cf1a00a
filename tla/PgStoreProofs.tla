--------------------------- MODULE PgStoreProofs ---------------------------
(***************************************************************************)
(* The PostgreSQL backend keeps rows in a tree of nodes, of which the rows *)
(* at their addresses are a function: for any addresses, keys and bounds,  *)
(* writing the operations of a transition into the tree is applying them   *)
(* to the rows, tombstones, revived nodes and orphans included, so that    *)
(* the tables implement the contract of a store.                           *)
(***************************************************************************)
EXTENDS PgStore, StoreRowsProofs
LOCAL INSTANCE SequencesExt

ChainP == INSTANCE SeqFoldProofs WITH Step <- Hop
AncestorsP == INSTANCE SeqFoldProofs WITH Step <- ResolveOrCreate

Path == Seq(AddressStep)
Id(tree) == 0..Len(tree)

\* The address level a node stands for.
StepOf(tree, n) == [name |-> tree[n].step_name, key |-> tree[n].key_wire]

\* The unique index over a level, and surrogate ids in order of creation.
IsTree(tree) ==
  /\ tree \in Seq(Columns)
  /\ \A n \in DOMAIN tree : /\ tree[n].parent < n
                            /\ tree[n].key_enc = KeyEnc(tree[n].key_wire)
                            /\ StepOf(tree, n) \in AddressStep
  /\ \A m, n \in DOMAIN tree :
       /\ tree[m].parent = tree[n].parent
       /\ tree[m].step_name = tree[n].step_name
       /\ tree[m].key_enc = tree[n].key_enc
       => m = n

\* The nodes that hold a row.
Live(tree) == {n \in DOMAIN tree : tree[n].row # None}
-----------------------------------------------------------------------------
(* Paths.                                                                  *)

\* A set of paths closed under one more level holds every path.
LEMMA PathInduction ==
  ASSUME NEW S, << >> \in S, \A p \in Path, s \in AddressStep : p \in S => Append(p, s) \in S
  PROVE  Path \subseteq S
<1> DEFINE T == {n \in Nat : \A p \in Path : Len(p) = n => p \in S}
<1>1. 0 \in T
  <2>1. \A p \in Path : Len(p) = 0 => p = << >>
    BY DEF Path
  <2> QED
    BY <2>1
<1>2. ASSUME NEW n \in Nat, n \in T PROVE n + 1 \in T
  <2> SUFFICES ASSUME NEW q \in Path, Len(q) = n + 1 PROVE q \in S
    OBVIOUS
  <2> DEFINE p == SubSeq(q, 1, n)
             s == q[n + 1]
  <2>1. p \in Path /\ Len(p) = n /\ s \in AddressStep /\ q = Append(p, s)
    BY DEF Path
  <2>2. p \in S
    BY <1>2, <2>1
  <2> HIDE DEF p, s
  <2> QED
    BY <2>1, <2>2
<1> HIDE DEF T
<1>3. Nat \subseteq T
  BY <1>1, <1>2, ChainP!NatSetInduction
<1> SUFFICES ASSUME NEW p \in Path PROVE p \in S
  OBVIOUS
<1>4. Len(p) \in T
  BY <1>3 DEF Path
<1> QED
  BY <1>4 DEF T

LEMMA LastLevel ==
  ASSUME NEW a \in Path, a # << >>
  PROVE  Front(a) \in Path /\ Last(a) \in AddressStep /\ a = Append(Front(a), Last(a))
BY DEF Front, Last, Path
-----------------------------------------------------------------------------
(* Lookups.                                                                *)

LEMMA ResolveEmpty == \A tree : ResolveId(tree, << >>) = 0
<1>1. \A tree : ChainP!Fold(0, << >>, tree) = 0
  BY ChainP!FoldEmpty
<1> QED
  BY <1>1 DEF ResolveId, Chain!Fold, ChainP!Fold

LEMMA ResolveAppend ==
  ASSUME NEW tree, NEW p \in Path, NEW s \in AddressStep
  PROVE  ResolveId(tree, Append(p, s)) = Hop(ResolveId(tree, p), s, tree)
<1>1. ChainP!Fold(0, Append(p, s), tree) = Hop(ChainP!Fold(0, p, tree), s, tree)
  BY ChainP!FoldAppend DEF Path
<1> QED
  BY <1>1 DEF ResolveId, Chain!Fold, ChainP!Fold

LEMMA ChildrenAreNodes ==
  ASSUME NEW tree, IsTree(tree), NEW id, NEW s \in AddressStep, NEW n \in Children(tree, id, s)
  PROVE  /\ n \in DOMAIN tree /\ n \in Id(tree) /\ n # 0
         /\ Children(tree, id, s) = {n}
<1>1. n \in DOMAIN tree /\ n \in Id(tree) /\ n # 0
  BY DEF Children, IsTree, Id
<1>2. \A m \in Children(tree, id, s) : m = n
  BY DEF Children, IsTree
<1> QED
  BY <1>1, <1>2

\* One hop finds the only child, if there is one.
LEMMA HopFinds ==
  ASSUME NEW tree, IsTree(tree), NEW id \in Id(tree), NEW s \in AddressStep
  PROVE  /\ \A n \in Children(tree, id, s) : Hop(id, s, tree) = n
         /\ Hop(id, s, tree) # None => Hop(id, s, tree) \in Children(tree, id, s)
<1>1. id # None
  BY RowSentinelAssumption DEF Id
<1>2. CASE Children(tree, id, s) = {}
  BY <1>2 DEF Hop
<1>3. ASSUME NEW n \in Children(tree, id, s) PROVE Hop(id, s, tree) = n
  <2>1. Children(tree, id, s) = {n}
    BY ChildrenAreNodes
  <2> QED
    BY <1>1, <2>1 DEF Hop
<1> QED
  BY <1>2, <1>3

LEMMA ResolveType ==
  ASSUME NEW tree, IsTree(tree)
  PROVE  \A p \in Path : /\ ResolveId(tree, p) \in Id(tree) \cup {None}
                         /\ ResolveId(tree, p) = 0 => p = << >>
<1> DEFINE S == {p \in Path : /\ ResolveId(tree, p) \in Id(tree) \cup {None}
                              /\ ResolveId(tree, p) = 0 => p = << >>}
<1>0. None \notin Nat
  BY RowSentinelAssumption
<1>1. << >> \in S
  BY ResolveEmpty DEF Path, Id, IsTree
<1>2. ASSUME NEW p \in Path, NEW s \in AddressStep, p \in S PROVE Append(p, s) \in S
  <2>1. Append(p, s) \in Path /\ ResolveId(tree, Append(p, s)) = Hop(ResolveId(tree, p), s, tree)
    BY ResolveAppend DEF Path
  <2>2. CASE ResolveId(tree, p) = None
    BY <1>0, <2>1, <2>2 DEF Hop
  <2>3. CASE ResolveId(tree, p) # None
    <3>1. ResolveId(tree, p) \in Id(tree)
      BY <1>2, <2>3
    <3> DEFINE n == Hop(ResolveId(tree, p), s, tree)
    <3>2. n # None => n \in Children(tree, ResolveId(tree, p), s)
      BY <3>1, HopFinds
    <3>3. n # None => n \in Id(tree) /\ n # 0
      BY <3>2, ChildrenAreNodes
    <3> HIDE DEF n
    <3>4. n = 0 => n # None
      BY <1>0
    <3> QED
      BY <2>1, <3>3, <3>4 DEF n
  <2> QED
    BY <2>2, <2>3
<1> HIDE DEF S
<1>3. Path \subseteq S
  BY <1>1, <1>2, PathInduction
<1> QED
  BY <1>3 DEF S

\* A path with a level below it that exists.
LEMMA ResolvedChild ==
  ASSUME NEW tree, IsTree(tree), NEW p \in Path, NEW s \in AddressStep,
         ResolveId(tree, Append(p, s)) # None
  PROVE  /\ ResolveId(tree, p) \in Id(tree)
         /\ ResolveId(tree, Append(p, s)) \in Children(tree, ResolveId(tree, p), s)
<1>1. ResolveId(tree, Append(p, s)) = Hop(ResolveId(tree, p), s, tree)
  BY ResolveAppend
<1>2. ResolveId(tree, p) # None
  BY <1>1 DEF Hop
<1>3. ResolveId(tree, p) \in Id(tree)
  BY <1>2, ResolveType
<1> QED
  BY <1>1, <1>3, HopFinds

\* Two paths to one node are one path: levels are unique and the key encoding keeps
\* keys apart.
LEMMA PathsAreUnique ==
  ASSUME NEW tree, IsTree(tree)
  PROVE  \A p, q \in Path : ResolveId(tree, p) # None /\ ResolveId(tree, p) = ResolveId(tree, q)
                              => p = q
<1> DEFINE S == {p \in Path : \A q \in Path :
                   ResolveId(tree, p) # None /\ ResolveId(tree, p) = ResolveId(tree, q) => p = q}
<1>1. << >> \in S
  BY ResolveEmpty, ResolveType DEF Path
<1>2. ASSUME NEW p \in Path, NEW s \in AddressStep, p \in S PROVE Append(p, s) \in S
  <2> DEFINE ps == Append(p, s)
  <2>0. ps \in Path
    BY DEF Path
  <2> SUFFICES ASSUME NEW q \in Path, ResolveId(tree, ps) # None,
                      ResolveId(tree, ps) = ResolveId(tree, q)
               PROVE  ps = q
    BY <2>0
  <2> DEFINE n == ResolveId(tree, ps)
             id == ResolveId(tree, p)
  <2>1. id \in Id(tree) /\ n \in Children(tree, id, s)
    BY ResolvedChild
  <2>2. n # 0 /\ n \in DOMAIN tree
    BY <2>1, ChildrenAreNodes
  <2>3. q # << >>
    BY <2>2, ResolveEmpty
  <2>4. PICK r \in Path, t \in AddressStep : q = Append(r, t)
    BY <2>3, LastLevel
  <2>5. ResolveId(tree, r) \in Id(tree) /\ n \in Children(tree, ResolveId(tree, r), t)
    BY <2>4, ResolvedChild
  <2> HIDE DEF n
  <2>6. id = ResolveId(tree, r) /\ s.name = t.name /\ KeyEnc(s.key) = KeyEnc(t.key)
    BY <2>1, <2>5 DEF Children
  <2>7. s = t
    BY <2>6, KeyEncAssumption, StepAssumption
  <2>8. id # None
    BY <2>1, RowSentinelAssumption DEF Id
  <2>9. p = r
    BY <1>2, <2>6, <2>8
  <2> QED
    BY <2>4, <2>7, <2>9
<1> HIDE DEF S
<1>3. Path \subseteq S
  BY <1>1, <1>2, PathInduction
<1> QED
  BY <1>3 DEF S

\* A child found for a level stands for that level.
LEMMA ChildStandsForStep ==
  ASSUME NEW tree, IsTree(tree), NEW id, NEW s \in AddressStep, NEW n \in Children(tree, id, s)
  PROVE  StepOf(tree, n) = s /\ tree[n].parent = id /\ id < n
<1>1. n \in DOMAIN tree /\ tree[n].parent = id /\ tree[n].step_name = s.name
      /\ tree[n].key_enc = KeyEnc(s.key)
  BY DEF Children
<1>2. StepOf(tree, n) \in AddressStep /\ tree[n].key_enc = KeyEnc(tree[n].key_wire) /\ id < n
  BY <1>1 DEF IsTree
<1>3. StepOf(tree, n).key = s.key
  BY <1>1, <1>2, KeyEncAssumption DEF StepOf
<1>4. StepOf(tree, n).name = s.name
  BY <1>1 DEF StepOf
<1> QED
  BY <1>1, <1>2, <1>3, <1>4, StepAssumption

\* A node stands one level below its parent.
LEMMA NodeIsChild ==
  ASSUME NEW tree, IsTree(tree), NEW n \in DOMAIN tree
  PROVE  /\ StepOf(tree, n) \in AddressStep /\ tree[n].parent \in Id(tree)
         /\ n \in Children(tree, tree[n].parent, StepOf(tree, n))
<1>1. tree[n] \in Columns /\ n \in 1..Len(tree) /\ Len(tree) \in Nat
  BY DEF IsTree
<1>2. tree[n].parent \in Nat /\ tree[n].parent < n /\ tree[n].key_enc = KeyEnc(tree[n].key_wire)
      /\ StepOf(tree, n) \in AddressStep
  BY <1>1 DEF IsTree, Columns
<1> QED
  BY <1>1, <1>2 DEF Id, Children, StepOf
-----------------------------------------------------------------------------
(* Writes.                                                                 *)

\* A row written on a node moves no node.
LEMMA WriteRow ==
  ASSUME NEW tree, IsTree(tree), NEW n \in DOMAIN tree, NEW row \in MaybeRow
  PROVE  LET new == [tree EXCEPT ![n].row = row] IN
         /\ IsTree(new)
         /\ \A p \in Path : ResolveId(new, p) = ResolveId(tree, p)
         /\ \A p \in Path \ {<< >>} : RowAt(new, p) = IF ResolveId(tree, p) = n THEN row ELSE RowAt(tree, p)
         /\ Live(new) \subseteq Live(tree) \cup {n}
<1> DEFINE new == [tree EXCEPT ![n].row = row]
<1>1. /\ new \in Seq(Columns) /\ DOMAIN new = DOMAIN tree /\ Len(new) = Len(tree)
      /\ new[n].row = row
      /\ \A m \in DOMAIN tree : /\ m # n => new[m] = tree[m]
                                /\ new[m].parent = tree[m].parent
                                /\ new[m].step_name = tree[m].step_name
                                /\ new[m].key_enc = tree[m].key_enc
                                /\ new[m].key_wire = tree[m].key_wire
  <2> DEFINE written == [tree[n] EXCEPT !.row = row]
  <2>1. tree \in Seq(Columns) /\ tree[n] \in Columns
    BY DEF IsTree
  <2>2. /\ written \in Columns /\ written.row = row
        /\ written.parent = tree[n].parent /\ written.step_name = tree[n].step_name
        /\ written.key_enc = tree[n].key_enc /\ written.key_wire = tree[n].key_wire
    BY <2>1 DEF Columns
  <2>3. new = [tree EXCEPT ![n] = written]
    OBVIOUS
  <2> HIDE DEF written
  <2> QED
    BY <2>1, <2>2, <2>3
<1> HIDE DEF new
<1>2. IsTree(new)
  <2>1. \A m \in DOMAIN tree : StepOf(new, m) = StepOf(tree, m)
    BY <1>1 DEF StepOf
  <2> QED
    BY <1>1, <2>1 DEF IsTree
<1>3. \A id, s : Children(new, id, s) = Children(tree, id, s)
  BY <1>1 DEF Children
<1>4. ASSUME NEW id \in Id(tree) \cup {None}, NEW s \in AddressStep
      PROVE  Hop(id, s, new) = Hop(id, s, tree)
  <2>1. CASE id = None \/ Children(tree, id, s) = {}
    BY <1>3, <2>1 DEF Hop
  <2>2. CASE id \in Id(tree) /\ Children(tree, id, s) # {}
    <3>1. PICK m : m \in Children(tree, id, s) /\ m \in Children(new, id, s)
      BY <1>3, <2>2
    <3>2. id \in Id(new)
      BY <1>1, <2>2 DEF Id
    <3> QED
      BY <1>2, <2>2, <3>1, <3>2, HopFinds
  <2> QED
    BY <2>1, <2>2
<1> DEFINE S == {p \in Path : ResolveId(new, p) = ResolveId(tree, p)}
<1>5. << >> \in S
  BY ResolveEmpty DEF Path
<1>6. ASSUME NEW p \in Path, NEW s \in AddressStep, p \in S PROVE Append(p, s) \in S
  BY <1>4, <1>6, ResolveAppend, ResolveType DEF Path
<1> HIDE DEF S
<1>7. Path \subseteq S
  BY <1>5, <1>6, PathInduction
<1>8. \A p \in Path : ResolveId(new, p) = ResolveId(tree, p)
  BY <1>7 DEF S
<1>9. ASSUME NEW p \in Path \ {<< >>}
      PROVE  RowAt(new, p) = IF ResolveId(tree, p) = n THEN row ELSE RowAt(tree, p)
  <2>1. ResolveId(new, p) = ResolveId(tree, p) /\ n # None
    BY <1>8, RowSentinelAssumption DEF IsTree
  <2>2. ResolveId(tree, p) = None \/ ResolveId(tree, p) \in DOMAIN tree
    BY ResolveType DEF Id, IsTree
  <2> QED
    BY <1>1, <2>1, <2>2 DEF RowAt
<1>10. Live(new) \subseteq Live(tree) \cup {n}
  BY <1>1 DEF Live
<1> QED
  BY <1>2, <1>8, <1>9, <1>10 DEF new

\* A node written where its level held none.
LEMMA GrowTree ==
  ASSUME NEW tree, IsTree(tree), NEW id \in Id(tree), NEW s \in AddressStep,
         NEW row \in MaybeRow, Children(tree, id, s) = {}
  PROVE  LET new == Append(tree, Node(id, s, row)) IN
         /\ IsTree(new) /\ Len(new) = Len(tree) + 1 /\ new[Len(tree) + 1].row = row
         /\ Len(tree) + 1 \in Children(new, id, s)
         /\ \A p \in Path : \/ ResolveId(new, p) = ResolveId(tree, p)
                            \/ ResolveId(tree, p) = None /\ ResolveId(new, p) = Len(tree) + 1
         /\ \A m \in DOMAIN tree : new[m] = tree[m]
<1> DEFINE new == Append(tree, Node(id, s, row))
           n == Len(tree) + 1
<1>0. n \in Nat /\ Len(tree) \in Nat /\ None \notin Nat /\ id < n
  BY RowSentinelAssumption DEF IsTree, Id
<1>1. /\ new \in Seq(Columns) /\ Len(new) = n /\ DOMAIN new = DOMAIN tree \cup {n}
      /\ DOMAIN tree = 1..Len(tree)
      /\ \A m \in DOMAIN tree : new[m] = tree[m]
  BY DEF IsTree, Columns, Node, Id
<1>2. /\ new[n].parent = id /\ new[n].step_name = s.name /\ new[n].key_enc = KeyEnc(s.key)
      /\ new[n].key_wire = s.key /\ new[n].row = row
  BY DEF IsTree, Node
<1> HIDE DEF new
<1>3. IsTree(new)
  <2>1. ASSUME NEW m \in DOMAIN new
        PROVE  /\ new[m].parent < m /\ new[m].key_enc = KeyEnc(new[m].key_wire)
               /\ StepOf(new, m) \in AddressStep
    BY <1>0, <1>1, <1>2, StepAssumption DEF IsTree, StepOf
  <2>2. ASSUME NEW m \in DOMAIN tree
        PROVE  ~(/\ tree[m].parent = id /\ tree[m].step_name = s.name
                 /\ tree[m].key_enc = KeyEnc(s.key))
    BY DEF Children
  <2>3. ASSUME NEW k \in DOMAIN new, NEW m \in DOMAIN new,
               /\ new[k].parent = new[m].parent
               /\ new[k].step_name = new[m].step_name
               /\ new[k].key_enc = new[m].key_enc
        PROVE  k = m
    BY <1>1, <1>2, <2>2, <2>3 DEF IsTree
  <2> QED
    BY <1>1, <2>1, <2>3 DEF IsTree
<1>4. n \in Children(new, id, s)
  BY <1>1, <1>2 DEF Children
<1>5. \A e, t : Children(tree, e, t) \subseteq Children(new, e, t)
  BY <1>1 DEF Children
<1>6. \A t : \A e \in Id(tree) : Children(new, e, t) \subseteq Children(tree, e, t) \cup {n}
  BY <1>1 DEF Children
<1>7. \A t : Children(new, n, t) = {}
  <2>1. \A m \in DOMAIN tree : tree[m].parent # n
    BY <1>0, <1>1 DEF IsTree
  <2> QED
    BY <1>0, <1>1, <1>2, <2>1 DEF Children
<1> DEFINE S == {p \in Path : \/ ResolveId(new, p) = ResolveId(tree, p)
                              \/ ResolveId(tree, p) = None /\ ResolveId(new, p) = n}
<1>8. << >> \in S
  BY ResolveEmpty DEF Path
<1>9. ASSUME NEW p \in Path, NEW t \in AddressStep, p \in S PROVE Append(p, t) \in S
  <2>1. /\ Append(p, t) \in Path
        /\ ResolveId(new, Append(p, t)) = Hop(ResolveId(new, p), t, new)
        /\ ResolveId(tree, Append(p, t)) = Hop(ResolveId(tree, p), t, tree)
    BY ResolveAppend DEF Path
  <2> DEFINE e == ResolveId(tree, p)
  <2>2. CASE e = None /\ ResolveId(new, p) = n
    <3>1. Hop(n, t, new) = None /\ Hop(e, t, tree) = None
      BY <1>7, <2>2 DEF Hop
    <3> QED
      BY <2>1, <2>2, <3>1
  <2>3. CASE e = None /\ ResolveId(new, p) = e
    <3>1. Hop(e, t, new) = None /\ Hop(e, t, tree) = None
      BY <2>3 DEF Hop
    <3> QED
      BY <2>1, <2>3, <3>1
  <2>4. CASE e # None
    <3>1. e \in Id(tree) /\ e \in Id(new) /\ ResolveId(new, p) = e
      BY <1>0, <1>1, <1>9, <2>4, ResolveType DEF Id
    <3>2. ASSUME NEW m \in Children(tree, e, t) PROVE Hop(e, t, new) = Hop(e, t, tree)
      BY <1>3, <1>5, <3>1, HopFinds
    <3>3. CASE Children(tree, e, t) = {} /\ n \in Children(new, e, t)
      BY <1>3, <3>1, <3>3, HopFinds, <2>1 DEF Hop
    <3>4. CASE Children(tree, e, t) = {} /\ Children(new, e, t) = {}
      BY <2>1, <3>1, <3>4 DEF Hop
    <3> QED
      BY <1>6, <2>1, <3>1, <3>2, <3>3, <3>4
  <2> QED
    BY <1>9, <2>2, <2>3, <2>4
<1> HIDE DEF S
<1>10. Path \subseteq S
  BY <1>8, <1>9, PathInduction
<1> QED
  BY <1>1, <1>2, <1>3, <1>4, <1>10 DEF S, new

\* A tree that holds every node of another, and the same rows at every address.
Grows(old, new) ==
  /\ \A p \in Path : ResolveId(old, p) # None => ResolveId(new, p) = ResolveId(old, p)
  /\ \A p \in Path \ {<< >>} : RowAt(new, p) = RowAt(old, p)
  /\ \A m \in DOMAIN old : m \in DOMAIN new /\ new[m] = old[m]
  /\ Live(new) \subseteq Live(old)

\* The writer stands at the node of a path.
StandsAt(at, p) ==
  /\ at \in [tree : Seq(Columns), id : Nat]
  /\ IsTree(at.tree) /\ at.id \in Id(at.tree) /\ at.id = ResolveId(at.tree, p)

LEMMA OneLevelDown ==
  ASSUME NEW at, NEW p \in Path, StandsAt(at, p), NEW s \in AddressStep
  PROVE  LET new == ResolveOrCreate(at, s, None) IN
         StandsAt(new, Append(p, s)) /\ Grows(at.tree, new.tree)
<1> DEFINE new == ResolveOrCreate(at, s, None)
           found == Children(at.tree, at.id, s)
<1>0. IsTree(at.tree) /\ at.id \in Id(at.tree) /\ at.id # None /\ Append(p, s) \in Path
  BY RowSentinelAssumption DEF StandsAt, Id, Path
<1>1. CASE found # {}
  <2> DEFINE n == CHOOSE m \in found : TRUE
  <2>1. n \in found /\ n \in Id(at.tree) /\ n \in Nat
    BY <1>0, <1>1, ChildrenAreNodes DEF Id
  <2>2. new = [at EXCEPT !.id = n]
    BY <1>1 DEF ResolveOrCreate
  <2>3. Hop(at.id, s, at.tree) = n
    BY <1>0, <2>1, HopFinds
  <2> HIDE DEF n, new
  <2>4. new \in [tree : Seq(Columns), id : Nat] /\ new.tree = at.tree /\ new.id = n
    BY <2>1, <2>2 DEF StandsAt
  <2>5. ResolveId(at.tree, Append(p, s)) = n
    BY <2>3, ResolveAppend DEF StandsAt
  <2> QED
    BY <1>0, <2>1, <2>4, <2>5 DEF StandsAt, Grows, new
<1>2. CASE found = {}
  <2> DEFINE tree == Append(at.tree, Node(at.id, s, None))
             n == Len(at.tree) + 1
  <2>1. /\ IsTree(tree) /\ Len(tree) = n /\ tree[n].row = None
        /\ n \in Children(tree, at.id, s)
        /\ \A q \in Path : \/ ResolveId(tree, q) = ResolveId(at.tree, q)
                           \/ ResolveId(at.tree, q) = None /\ ResolveId(tree, q) = n
        /\ \A m \in DOMAIN at.tree : tree[m] = at.tree[m]
    BY <1>0, <1>2, GrowTree DEF MaybeRow
  <2>2. new = [tree |-> tree, id |-> n]
    BY <1>2 DEF ResolveOrCreate
  <2>3. n \in Id(tree) /\ n \in Nat /\ at.id \in Id(tree) /\ tree \in Seq(Columns)
        /\ Len(at.tree) \in Nat /\ DOMAIN at.tree = 1..Len(at.tree) /\ DOMAIN tree = 1..n
    BY <1>0, <2>1 DEF IsTree, Id
  <2> HIDE DEF tree, new
  <2>4. ResolveId(tree, Append(p, s)) = n
    <3>1. ResolveId(tree, p) = at.id
      BY <1>0, <2>1 DEF StandsAt
    <3> QED
      BY <2>1, <2>3, <3>1, ResolveAppend, HopFinds
  <2>5. StandsAt(new, Append(p, s))
    BY <2>1, <2>2, <2>3, <2>4 DEF StandsAt
  <2>6. Grows(at.tree, tree)
    <3>1. ASSUME NEW q \in Path \ {<< >>} PROVE RowAt(tree, q) = RowAt(at.tree, q)
      <4>1. CASE ResolveId(at.tree, q) = None /\ ResolveId(tree, q) = n
        BY <2>1, <2>3, <4>1 DEF RowAt
      <4>2. CASE ResolveId(tree, q) = ResolveId(at.tree, q)
        <5>1. ResolveId(at.tree, q) = None \/ ResolveId(at.tree, q) \in DOMAIN at.tree
          BY <1>0, <2>3, ResolveType DEF Id
        <5> QED
          BY <2>1, <4>2, <5>1 DEF RowAt
      <4> QED
        BY <2>1, <4>1, <4>2
    <3>2. Live(tree) \subseteq Live(at.tree)
      BY <2>1, <2>3 DEF Live
    <3> QED
      BY <2>1, <2>3, <3>1, <3>2 DEF Grows
  <2> QED
    BY <2>2, <2>5, <2>6 DEF new
<1> QED
  BY <1>1, <1>2

\* resolve_or_create down a path: every level exists afterwards, no row changed.
LEMMA AncestorsExist ==
  ASSUME NEW tree, IsTree(tree)
  PROVE  \A p \in Path : LET at == Ancestors!Fold([tree |-> tree, id |-> 0], p, None) IN
           StandsAt(at, p) /\ Grows(tree, at.tree)
<1> DEFINE base == [tree |-> tree, id |-> 0]
           At(p) == AncestorsP!Fold(base, p, None)
           S == {p \in Path : StandsAt(At(p), p) /\ Grows(tree, At(p).tree)}
<1>1. << >> \in S
  <2>1. At(<< >>) = base
    BY AncestorsP!FoldEmpty
  <2>2. StandsAt(base, << >>) /\ Grows(tree, base.tree)
    BY ResolveEmpty DEF StandsAt, Grows, IsTree, Id
  <2> HIDE DEF At, base
  <2> QED
    BY <2>1, <2>2 DEF Path
<1>2. ASSUME NEW p \in Path, NEW s \in AddressStep, p \in S PROVE Append(p, s) \in S
  <2>1. At(Append(p, s)) = ResolveOrCreate(At(p), s, None)
    BY AncestorsP!FoldAppend DEF Path
  <2>2. StandsAt(At(p), p) /\ Grows(tree, At(p).tree)
    BY <1>2
  <2> HIDE DEF At, base
  <2>3. StandsAt(At(Append(p, s)), Append(p, s)) /\ Grows(At(p).tree, At(Append(p, s)).tree)
    BY <2>1, <2>2, OneLevelDown
  <2>4. Grows(tree, At(Append(p, s)).tree)
    BY <2>2, <2>3 DEF Grows
  <2> QED
    BY <2>3, <2>4 DEF Path
<1> HIDE DEF S
<1>3. Path \subseteq S
  BY <1>1, <1>2, PathInduction
<1>4. \A p \in Path : StandsAt(At(p), p) /\ Grows(tree, At(p).tree)
  BY <1>3 DEF S
<1>5. \A p : Ancestors!Fold(base, p, None) = At(p)
  BY DEF Ancestors!Fold, AncestorsP!Fold
<1> HIDE DEF At, base
<1>6. \A p \in Path : StandsAt(Ancestors!Fold(base, p, None), p)
                        /\ Grows(tree, Ancestors!Fold(base, p, None).tree)
  BY <1>4, <1>5
<1> QED
  BY <1>6 DEF base

\* One row is written: nodes keep their ids, rows elsewhere stay.
Writes(old, new, a, row) ==
  /\ IsTree(new)
  /\ ResolveId(new, a) # None
  /\ \A p \in Path : ResolveId(old, p) # None => ResolveId(new, p) = ResolveId(old, p)
  /\ \A p \in Path \ {<< >>} : RowAt(new, p) = IF p = a THEN row ELSE RowAt(old, p)
  /\ Live(new) \subseteq Live(old) \cup {ResolveId(new, a)}

\* A row written on the node of a path is written at that path alone.
LEMMA WriteAt ==
  ASSUME NEW tree, IsTree(tree), NEW a \in Path \ {<< >>}, ResolveId(tree, a) # None,
         NEW row \in MaybeRow
  PROVE  /\ ResolveId(tree, a) \in DOMAIN tree
         /\ Writes(tree, [tree EXCEPT ![ResolveId(tree, a)].row = row], a, row)
<1> DEFINE n == ResolveId(tree, a)
           new == [tree EXCEPT ![n].row = row]
<1>1. n \in DOMAIN tree
  BY ResolveType DEF Id, IsTree
<1>2. /\ IsTree(new)
      /\ \A p \in Path : ResolveId(new, p) = ResolveId(tree, p)
      /\ \A p \in Path \ {<< >>} : RowAt(new, p) = IF ResolveId(tree, p) = n THEN row ELSE RowAt(tree, p)
      /\ Live(new) \subseteq Live(tree) \cup {n}
  BY <1>1, WriteRow
<1>3. \A p \in Path : ResolveId(tree, p) = n => p = a
  BY PathsAreUnique
<1> HIDE DEF new
<1> QED
  BY <1>1, <1>2, <1>3 DEF Writes, new

\* place: the levels above are made, then the row's own level.
LEMMA PlaceWrites ==
  ASSUME NEW tree, IsTree(tree), NEW a \in Path \ {<< >>}, NEW row \in MaybeRow
  PROVE  Writes(tree, Place(tree, a, row), a, row)
<1> DEFINE at == Ancestors!Fold([tree |-> tree, id |-> 0], Front(a), None)
           s == Last(a)
           found == Children(at.tree, at.id, s)
           new == Place(tree, a, row)
<1>1. Front(a) \in Path /\ s \in AddressStep /\ a = Append(Front(a), s)
  BY LastLevel
<1>2. StandsAt(at, Front(a)) /\ Grows(tree, at.tree)
  BY <1>1, AncestorsExist
<1>3. new = IF found = {} THEN Append(at.tree, Node(at.id, s, row))
            ELSE [at.tree EXCEPT ![CHOOSE n \in found : TRUE].row = row]
  BY DEF Place
<1> HIDE DEF at, s, new
<1>4. IsTree(at.tree) /\ at.id \in Id(at.tree) /\ at.id = ResolveId(at.tree, Front(a))
  BY <1>2 DEF StandsAt
<1>5. ResolveId(at.tree, a) = Hop(at.id, s, at.tree)
  BY <1>1, <1>4, ResolveAppend
<1>6. Writes(at.tree, new, a, row)
  <2>1. CASE found # {}
    <3> DEFINE n == CHOOSE n \in found : TRUE
    <3>1. n \in found
      BY <2>1
    <3>2. new = [at.tree EXCEPT ![n].row = row]
      BY <1>3, <2>1
    <3> HIDE DEF n
    <3>3. ResolveId(at.tree, a) = n
      BY <1>1, <1>4, <1>5, <3>1, HopFinds
    <3>4. n # None
      BY <1>1, <1>4, <3>1, ChildrenAreNodes, RowSentinelAssumption DEF Id
    <3> QED
      BY <1>4, <3>2, <3>3, <3>4, WriteAt
  <2>2. CASE found = {}
    <3> DEFINE n == Len(at.tree) + 1
    <3>1. new = Append(at.tree, Node(at.id, s, row))
      BY <1>3, <2>2
    <3>2. /\ IsTree(new) /\ Len(new) = n /\ new[n].row = row
          /\ n \in Children(new, at.id, s)
          /\ \A p \in Path : \/ ResolveId(new, p) = ResolveId(at.tree, p)
                             \/ ResolveId(at.tree, p) = None /\ ResolveId(new, p) = n
          /\ \A m \in DOMAIN at.tree : new[m] = at.tree[m]
      BY <1>1, <1>4, <2>2, <3>1, GrowTree
    <3>3. /\ Len(at.tree) \in Nat /\ DOMAIN at.tree = 1..Len(at.tree) /\ n \in Nat
          /\ at.id \in Id(new) /\ at.id # None /\ n # None
      BY <1>4, <3>2, RowSentinelAssumption DEF IsTree, Id
    <3>4. ResolveId(new, a) = n
      <4>1. ResolveId(new, Front(a)) = at.id
        BY <1>1, <1>4, <3>2, <3>3
      <4>2. ResolveId(new, Append(Front(a), s)) = Hop(at.id, s, new)
        BY <1>1, <4>1, ResolveAppend
      <4>3. Hop(at.id, s, new) = n
        BY <1>1, <3>2, <3>3, HopFinds
      <4> QED
        BY <1>1, <4>2, <4>3
    <3>5. ASSUME NEW p \in Path \ {<< >>}
          PROVE  RowAt(new, p) = IF p = a THEN row ELSE RowAt(at.tree, p)
      <4>1. CASE p = a
        BY <3>2, <3>3, <3>4, <4>1 DEF RowAt
      <4>2. CASE p # a
        <5>1. ResolveId(new, p) # n
          BY <3>2, <3>3, <3>4, <4>2, PathsAreUnique
        <5>2. ResolveId(new, p) = ResolveId(at.tree, p)
          BY <3>2, <5>1
        <5>3. ResolveId(at.tree, p) = None \/ ResolveId(at.tree, p) \in DOMAIN at.tree
          BY <1>4, <3>3, ResolveType DEF Id
        <5> QED
          BY <3>2, <4>2, <5>2, <5>3 DEF RowAt
      <4> QED
        BY <4>1, <4>2
    <3>6. DOMAIN new \subseteq DOMAIN at.tree \cup {n}
      <4>1. new \in Seq(Columns)
        BY <3>2 DEF IsTree
      <4>2. DOMAIN new = 1..n
        BY <3>2, <4>1
      <4> QED
        BY <3>3, <4>2
    <3>7. Live(new) \subseteq Live(at.tree) \cup {n}
      BY <3>2, <3>6 DEF Live
    <3>8. IsTree(new) /\ \A p \in Path : ResolveId(at.tree, p) # None
                                       => ResolveId(new, p) = ResolveId(at.tree, p)
      BY <3>2
    <3> QED
      BY <3>3, <3>4, <3>5, <3>7, <3>8 DEF Writes
  <2> QED
    BY <2>1, <2>2
<1>7. Writes(tree, new, a, row)
  <2>1. ASSUME NEW p \in Path, ResolveId(tree, p) # None
        PROVE  ResolveId(new, p) = ResolveId(tree, p)
    BY <1>2, <1>6, <2>1 DEF Grows, Writes
  <2>2. ASSUME NEW p \in Path \ {<< >>}
        PROVE  RowAt(new, p) = IF p = a THEN row ELSE RowAt(tree, p)
    BY <1>2, <1>6 DEF Grows, Writes
  <2>3. Live(new) \subseteq Live(tree) \cup {ResolveId(new, a)}
    BY <1>2, <1>6 DEF Grows, Writes
  <2> QED
    BY <1>6, <2>1, <2>2, <2>3 DEF Writes
<1> QED
  BY <1>7 DEF new
-----------------------------------------------------------------------------
(* Operations.                                                             *)

\* The rows at the addresses of a tree.
RowsOf(tree) == [a \in Addr |-> RowAt(tree, a)]

LEMMA RowsOfType == ASSUME NEW tree, IsTree(tree) PROVE RowsOf(tree) \in Rows
<1> SUFFICES ASSUME NEW a \in Addr PROVE RowAt(tree, a) \in MaybeRow
  BY DEF RowsOf, Rows
<1>1. a \in Path /\ a # << >>
  BY AddressAssumption DEF Path
<1>2. ResolveId(tree, a) = None \/ ResolveId(tree, a) \in DOMAIN tree
  BY <1>1, ResolveType DEF Id, IsTree
<1>3. \A n \in DOMAIN tree : tree[n].row \in MaybeRow
  <2>1. \A n \in DOMAIN tree : tree[n] \in Columns
    BY DEF IsTree
  <2> QED
    BY <2>1 DEF Columns
<1> QED
  BY <1>2, <1>3 DEF RowAt, MaybeRow

LEMMA WritesAreUpdates ==
  ASSUME NEW old, IsTree(old), NEW new, NEW a \in Addr, NEW row, Writes(old, new, a, row)
  PROVE  RowsOf(new) = [RowsOf(old) EXCEPT ![a] = row]
BY AddressAssumption DEF Writes, RowsOf, Path

\* A tree as the writer leaves it: every row sits at an address.
IsTable(tree) ==
  /\ IsTree(tree)
  /\ \A n \in Live(tree) : \E a \in Addr : ResolveId(tree, a) = n

LEMMA WritesToTable ==
  ASSUME NEW old, IsTable(old), NEW new, NEW a \in Addr, NEW row, Writes(old, new, a, row)
  PROVE  IsTable(new) /\ RowsOf(new) = [RowsOf(old) EXCEPT ![a] = row]
<1>1. RowsOf(new) = [RowsOf(old) EXCEPT ![a] = row]
  <2>1. IsTree(old)
    BY DEF IsTable
  <2> QED
    BY <2>1, WritesAreUpdates
<1>2. ASSUME NEW n \in Live(new) PROVE \E b \in Addr : ResolveId(new, b) = n
  <2>1. CASE n \in Live(old)
    <3>1. PICK b \in Addr : ResolveId(old, b) = n
      BY <2>1 DEF IsTable
    <3>2. b \in Path /\ n # None
      BY <2>1, AddressAssumption, RowSentinelAssumption DEF Path, Live, IsTable, IsTree
    <3> QED
      BY <3>1, <3>2 DEF Writes
  <2> QED
    BY <2>1 DEF Writes
<1> QED
  BY <1>1, <1>2 DEF IsTable, Writes

\* What staging established for the operation it appends.
Fits(rows, op) ==
  CASE op.kind = "insert" -> rows[op.to] = None /\ op.to = op.from /\ op.val \in Val
    [] op.kind = "update" -> rows[op.to] # None /\ op.to = op.from /\ op.val \in Val
    [] op.kind = "delete" -> rows[op.to] # None /\ op.to = op.from
    [] op.kind = "rekey" -> rows[op.from] # None /\ rows[op.to] = None /\ op.val \in Val

\* The writer does to the tree what the reference does to the rows.
LEMMA ApplyWrites ==
  ASSUME NEW tree, IsTable(tree), NEW op \in RowOp, NEW instant \in Instant,
         Fits(RowsOf(tree), op)
  PROVE  /\ IsTable(NodeApply(tree, op, instant))
         /\ RowsOf(NodeApply(tree, op, instant)) = SnapshotApply(RowsOf(tree), op, instant)
<1> DEFINE rows == RowsOf(tree)
           id == ResolveId(tree, op.from)
           new == NodeApply(tree, op, instant)
<1>0. IsTree(tree)
  BY DEF IsTable
<1>1. rows \in Rows /\ rows # Corrupt /\ tree # Corrupt
  BY <1>0, RowsOfType, RowSentinelAssumption, TreeSentinelAssumption DEF IsTree
<1>2. /\ op.from \in Addr /\ op.to \in Addr /\ op.inc \in Nat
      /\ op.kind \in {"insert", "update", "delete", "rekey"}
  BY DEF RowOp
<1>3. op.from \in Path \ {<< >>} /\ op.to \in Path \ {<< >>}
  BY <1>2, AddressAssumption DEF Path
<1>4. \A a \in Addr : rows[a] = RowAt(tree, a)
  BY DEF RowsOf
<1>5. \A a \in Addr : rows[a] # None => /\ ResolveId(tree, a) # None
                                        /\ rows[a] = tree[ResolveId(tree, a)].row
                                        /\ rows[a] \in Row
  BY <1>1, <1>4 DEF RowAt, Rows, MaybeRow
<1> HIDE DEF rows, new, id
<1>6. CASE op.kind = "insert"
  <2> DEFINE row == [inc |-> op.inc, created |-> instant, val |-> op.val]
  <2>1. rows[op.to] = None /\ row \in MaybeRow
    BY <1>2, <1>6 DEF Fits, rows, Row, MaybeRow
  <2>2. new = Place(tree, op.to, row)
    BY <1>1, <1>6 DEF NodeApply, new
  <2>3. SnapshotApply(rows, op, instant) = [rows EXCEPT ![op.to] = row]
    BY <1>1, <1>6, <2>1 DEF SnapshotApply
  <2> HIDE DEF row
  <2>4. Writes(tree, new, op.to, row)
    BY <1>0, <1>3, <2>1, <2>2, PlaceWrites
  <2>7. IsTable(new) /\ RowsOf(new) = [rows EXCEPT ![op.to] = row]
    BY <1>2, <2>4, WritesToTable DEF rows
  <2> QED
    BY <2>3, <2>7 DEF new, rows
<1>7. CASE op.kind = "update"
  <2> DEFINE row == [inc |-> op.inc, val |-> op.val, created |-> rows[op.to].created]
  <2>1. rows[op.to] # None /\ op.to = op.from /\ op.val \in Val
    BY <1>7 DEF Fits, rows
  <2>2. id # None /\ rows[op.to] = tree[id].row /\ rows[op.to] \in Row
    BY <1>2, <1>5, <2>1 DEF id
  <2>3. row \in MaybeRow
    BY <1>2, <2>1, <2>2 DEF Row, MaybeRow
  <2>4. new = [tree EXCEPT ![id].row = row]
    BY <1>1, <1>7, <2>1, <2>2 DEF NodeApply, new, id
  <2>5. SnapshotApply(rows, op, instant) = [rows EXCEPT ![op.to] = row]
    BY <1>1, <1>7, <2>1 DEF SnapshotApply
  <2> HIDE DEF row
  <2>6. Writes(tree, new, op.to, row)
    BY <1>0, <1>3, <2>1, <2>2, <2>3, <2>4, WriteAt DEF id
  <2>7. IsTable(new) /\ RowsOf(new) = [rows EXCEPT ![op.to] = row]
    BY <1>2, <2>6, WritesToTable DEF rows
  <2> QED
    BY <2>5, <2>7 DEF new, rows
<1>8. CASE op.kind = "delete"
  <2>1. rows[op.to] # None /\ op.to = op.from
    BY <1>8 DEF Fits, rows
  <2>2. id # None
    BY <1>2, <1>5, <2>1 DEF id
  <2>3. new = [tree EXCEPT ![id].row = None]
    BY <1>1, <1>8, <2>2 DEF NodeApply, new, id, Tombstone
  <2>4. SnapshotApply(rows, op, instant) = [rows EXCEPT ![op.to] = None]
    BY <1>1, <1>8, <2>1 DEF SnapshotApply
  <2>5. Writes(tree, new, op.to, None)
    BY <1>0, <1>3, <2>1, <2>2, <2>3, WriteAt DEF id, MaybeRow
  <2>7. IsTable(new) /\ RowsOf(new) = [rows EXCEPT ![op.to] = None]
    BY <1>2, <2>5, WritesToTable DEF rows
  <2> QED
    BY <2>4, <2>7 DEF new, rows
<1>9. CASE op.kind = "rekey"
  <2> DEFINE row == [inc |-> op.inc, val |-> op.val, created |-> rows[op.from].created]
             placed == Place(tree, op.to, row)
  <2>1. rows[op.from] # None /\ rows[op.to] = None /\ op.val \in Val
    BY <1>9 DEF Fits, rows
  <2>2. id # None /\ rows[op.from] = tree[id].row /\ rows[op.from] \in Row
    BY <1>2, <1>5, <2>1 DEF id
  <2>3. row \in MaybeRow
    BY <1>2, <2>1, <2>2 DEF Row, MaybeRow
  <2>4. NodeCreated(tree, id, instant) = rows[op.from].created
    BY <2>1, <2>2 DEF NodeCreated
  <2>5. new = [placed EXCEPT ![id].row = None]
    BY <1>1, <1>9, <2>2, <2>4 DEF NodeApply, new, id, Tombstone
  <2>6. SnapshotApply(rows, op, instant) = [rows EXCEPT ![op.from] = None, ![op.to] = row]
    BY <1>1, <1>9, <2>1 DEF SnapshotApply
  <2>7. Writes(tree, placed, op.to, row)
    BY <1>0, <1>3, <2>3, PlaceWrites
  <2> HIDE DEF row, placed
  <2>8. ResolveId(placed, op.from) = id
    BY <1>3, <2>2, <2>7 DEF Writes, id
  <2>9. Writes(placed, new, op.from, None)
    <3>1. IsTree(placed) /\ None \in MaybeRow
      BY <2>7 DEF Writes, MaybeRow
    <3>2. new = [placed EXCEPT ![ResolveId(placed, op.from)].row = None]
      BY <2>5, <2>8
    <3> QED
      BY <1>3, <2>2, <2>8, <3>1, <3>2, WriteAt
  <2>10. IsTable(placed) /\ RowsOf(placed) = [rows EXCEPT ![op.to] = row]
    BY <1>2, <2>7, WritesToTable DEF rows
  <2>11. IsTable(new) /\ RowsOf(new) = [RowsOf(placed) EXCEPT ![op.from] = None]
    <3>1. op.from \in Addr /\ IsTable(placed)
      BY <1>2, <2>10
    <3> HIDE DEF IsTable, Writes
    <3> QED
      BY ONLY <2>9, <3>1, WritesToTable
  <2>12. op.from # op.to
    BY <2>1
  <2>13. SnapshotApply(rows, op, instant) = RowsOf(new)
    BY <1>1, <1>2, <2>6, <2>10, <2>11, <2>12 DEF Rows
  <2> QED
    BY <2>11, <2>13 DEF new, rows
<1> QED
  BY <1>2, <1>6, <1>7, <1>8, <1>9
-----------------------------------------------------------------------------
(* The inductive invariant.                                                *)

AdmissionP == INSTANCE SeqFoldProofs WITH Step <- NodeApply

\* Unfolding one operation of the admission transaction.
LEMMA AdmissionAppend ==
  ASSUME NEW tree, NEW c, NEW xs \in Seq(RowOp), NEW x \in RowOp
  PROVE  Admission!Fold(tree, Append(xs, x), c) = NodeApply(Admission!Fold(tree, xs, c), x, c)
<1>1. AdmissionP!Fold(tree, Append(xs, x), c) = NodeApply(AdmissionP!Fold(tree, xs, c), x, c)
  BY AdmissionP!FoldAppend
<1> QED
  BY <1>1 DEF Admission!Fold, AdmissionP!Fold

LEMMA AdmissionEmpty == \A tree, c : Admission!Fold(tree, << >>, c) = tree
<1>1. \A tree, c : AdmissionP!Fold(tree, << >>, c) = tree
  BY AdmissionP!FoldEmpty
<1> QED
  BY <1>1 DEF Admission!Fold, AdmissionP!Fold

\* The rows the transition shows, and the tables its commit would write.
Shown == [a \in Addr |-> Resolve(a)]
Written == Admission!Fold(nodes, ops, now)

PgTypes ==
  /\ IsTable(nodes) /\ head \in Nat /\ log \in Seq(CommittedTransition)
  /\ next_incarnation \in Nat
  /\ definition \in Definition \cup {None} /\ composition \in Composition \cup {None}
  /\ phase \in {"idle", "open"} /\ overlay \in [Addr -> MaybeRow \cup {Absent}]
  /\ ops \in Seq(RowOp) /\ now \in Instant
  /\ staged_definition \in Definition \cup {None}
  /\ staged_composition \in Composition \cup {None}

\* Positions are gapless: the i-th transition of the log sits at position i.
GaplessLog ==
  /\ Len(log) = head
  /\ \A i \in 1..Len(log) : log[i].seq = i

\* A transition that is not open holds nothing.
IdleIsClean == phase = "idle" => overlay = [a \in Addr |-> Absent] /\ ops = << >>

\* The tree is the state the commits describe.
TreeIsReplay == TreeRows = Replay(log, head)

\* What the overlay shows is what the writer writes, and what a replay will give.
StagedIsWritten ==
  /\ IsTable(Written) /\ RowsOf(Written) = Shown
  /\ Ops!Fold(TreeRows, ops, now) = Shown

\* Every token in the log or staged was handed out; staged ones are in no log record.
TokensAreFresh ==
  /\ \A inc \in Tokens(ops) : inc < next_incarnation
  /\ Distinct(ops)
  /\ \A i \in DOMAIN log : \A inc \in Tokens(log[i].ops) :
       inc < next_incarnation /\ inc \notin Tokens(ops)

PgInv ==
  /\ PgTypes /\ GaplessLog /\ IdleIsClean /\ TreeIsReplay /\ StagedIsWritten
  /\ TokensAreFresh

LEMMA TreeRowsType == ASSUME PgTypes PROVE TreeRows = RowsOf(nodes) /\ TreeRows \in Rows
<1>1. TreeRows = RowsOf(nodes)
  BY DEF TreeRows, RowsOf
<1> QED
  BY <1>1, RowsOfType DEF PgTypes, IsTable

LEMMA ShownType == ASSUME PgTypes PROVE Shown \in Rows
BY TreeRowsType DEF PgTypes, Shown, Resolve, Rows, TreeRows

\* A transition that holds nothing shows the tables.
LEMMA CleanIsTables ==
  ASSUME PgTypes, overlay = [a \in Addr |-> Absent], ops = << >>
  PROVE  StagedIsWritten
<1>1. Shown = TreeRows
  BY DEF Shown, Resolve, TreeRows
<1>2. Written = nodes
  BY AdmissionEmpty DEF Written
<1> QED
  BY <1>1, <1>2, EmptyFolds, TreeRowsType DEF StagedIsWritten, PgTypes

\* The same of the state a step leads to.
LEMMA ClosedIsTables ==
  ASSUME PgTypes', overlay' = [a \in Addr |-> Absent], ops' = << >>
  PROVE  StagedIsWritten'
<1>1. Shown' = TreeRows' /\ RowsOf(nodes') = TreeRows'
  BY DEF Shown, Resolve, TreeRows, RowsOf
<1>2. Written' = nodes'
  BY AdmissionEmpty DEF Written
<1> QED
  BY <1>1, <1>2, EmptyFolds DEF StagedIsWritten, PgTypes

LEMMA PgInitEstablishes == Init => PgInv
<1> SUFFICES ASSUME Init PROVE PgInv
  OBVIOUS
<1> USE DEF Init
<1>1. IsTable(nodes)
  BY DEF IsTable, IsTree, Live
<1>2. PgTypes
  BY <1>1, InstantAssumption DEF PgTypes
<1>3. GaplessLog /\ IdleIsClean
  BY DEF GaplessLog, IdleIsClean
<1>4. StagedIsWritten
  BY <1>2, CleanIsTables
<1>5. TreeIsReplay
  <2>1. ASSUME NEW a \in Addr PROVE RowAt(nodes, a) = None
    <3>1. a \in Path /\ a # << >> /\ IsTree(nodes)
      BY <1>1, AddressAssumption DEF Path, IsTable
    <3>2. ResolveId(nodes, a) \in {0, None} /\ ResolveId(nodes, a) # 0
      BY <3>1, ResolveType DEF Id
    <3> QED
      BY <3>2 DEF RowAt
  <2> QED
    BY <2>1, EmptyFolds DEF TreeIsReplay, TreeRows, EmptyRows
<1>6. TokensAreFresh
  BY NoTokens DEF TokensAreFresh
<1> QED
  BY <1>2, <1>3, <1>4, <1>5, <1>6 DEF PgInv
-----------------------------------------------------------------------------
(* Staging.                                                                *)

\* The frame of a staging step: the tables stay, one operation that fits what the
\* transition shows is appended, and the transition shows what a replay of it gives.
Stages(op) ==
  /\ op \in RowOp /\ Fits(Shown, op)
  /\ phase = "open" /\ ops' = Append(ops, op)
  /\ overlay' \in [Addr -> MaybeRow \cup {Absent}]
  /\ next_incarnation' \in Nat
  /\ UNCHANGED <<tables, phase, now, staged_definition, staged_composition>>
  /\ Shown' = SnapshotApply(Shown, op, now)

\* A staging step keeps everything but the tokens.
LEMMA StagingPreserves ==
  ASSUME PgInv, NEW op, Stages(op)
  PROVE  (PgTypes /\ GaplessLog /\ IdleIsClean /\ TreeIsReplay /\ StagedIsWritten)'
<1>1. PgTypes'
  BY DEF PgInv, Stages, PgTypes, tables
<1>2. GaplessLog' /\ IdleIsClean'
  BY DEF PgInv, Stages, GaplessLog, IdleIsClean, tables
<1>3. TreeRows' = TreeRows /\ TreeIsReplay'
  BY DEF PgInv, Stages, TreeIsReplay, TreeRows, tables
<1>4. /\ ops \in Seq(RowOp) /\ op \in RowOp /\ now \in Instant /\ Fits(Shown, op)
      /\ nodes' = nodes /\ now' = now /\ ops' = Append(ops, op)
      /\ Shown' = SnapshotApply(Shown, op, now)
  BY DEF PgInv, Stages, PgTypes, tables
<1>5. IsTable(Written) /\ RowsOf(Written) = Shown /\ Ops!Fold(TreeRows, ops, now) = Shown
  BY DEF PgInv, StagedIsWritten
<1>6. Written' = NodeApply(Written, op, now)
  BY <1>4, AdmissionAppend DEF Written
<1>7. IsTable(NodeApply(Written, op, now))
      /\ RowsOf(NodeApply(Written, op, now)) = SnapshotApply(Shown, op, now)
  BY <1>4, <1>5, ApplyWrites
<1>8. Ops!Fold(TreeRows, ops', now) = SnapshotApply(Shown, op, now)
  BY <1>4, <1>5, OpsAppend
<1>9. StagedIsWritten'
  <2>1. Written' = NodeApply(Written, op, now) /\ now' = now
    BY <1>4, <1>6
  <2>2. IsTable(Written') /\ RowsOf(Written') = Shown'
    BY <1>4, <1>7, <2>1
  <2>3. Ops!Fold(TreeRows', ops', now') = Shown'
    BY <1>3, <1>4, <1>8
  <2> QED
    BY <2>2, <2>3 DEF StagedIsWritten
<1> QED
  BY <1>1, <1>2, <1>3, <1>9

\* Staging anything but an insert moves no token.
LEMMA StagingKeepsTokensFresh ==
  ASSUME PgInv, NEW op \in RowOp, op.kind # "insert", ops' = Append(ops, op),
         UNCHANGED <<log, next_incarnation>>
  PROVE  TokensAreFresh'
<1>1. ops \in Seq(RowOp)
  BY DEF PgInv, PgTypes
<1>2. Tokens(ops') = Tokens(ops) /\ Distinct(ops')
  BY <1>1, TokensAppend, DistinctAppend DEF PgInv, TokensAreFresh
<1> QED
  BY <1>2 DEF PgInv, TokensAreFresh

\* A row shown is a row; a shown address without one is free.
LEMMA ShownRows ==
  ASSUME PgInv, NEW a \in Addr
  PROVE  /\ PgTypes /\ Shown \in Rows /\ Shown # Corrupt /\ Shown[a] = Resolve(a)
         /\ Shown[a] # None => /\ Shown[a] \in Row
                               /\ Shown[a].inc \in Nat /\ Shown[a].created \in Instant
BY ShownType, RowSentinelAssumption DEF PgInv, Shown, Rows, MaybeRow, Row

\* What an overlay entry changes of what is shown.
LEMMA OverlayShows ==
  ASSUME PgTypes, UNCHANGED nodes, NEW a \in Addr, NEW row \in MaybeRow,
         overlay' = [overlay EXCEPT ![a] = row]
  PROVE  Shown' = [Shown EXCEPT ![a] = row]
<1>1. \A b \in Addr : RowAt(nodes', b) = RowAt(nodes, b)
  OBVIOUS
<1>2. row # Absent
  BY SentinelAssumption
<1>3. \A b \in Addr : overlay'[b] = IF b = a THEN row ELSE overlay[b]
  BY DEF PgTypes
<1>4. \A b \in Addr : Shown'[b] = IF b = a THEN row ELSE Shown[b]
  BY <1>1, <1>2, <1>3 DEF Shown, Resolve
<1> QED
  BY <1>4 DEF Shown

LEMMA InsertPreserves ==
  ASSUME PgInv, NEW a \in Addr, NEW v \in Val, Insert(a, v)
  PROVE  PgInv'
<1> DEFINE row == [inc |-> next_incarnation, created |-> now, val |-> v]
           op == [kind |-> "insert", from |-> a, to |-> a, inc |-> next_incarnation, val |-> v]
<1>1. PgTypes /\ Shown # Corrupt /\ row \in MaybeRow /\ op \in RowOp
  BY ShownRows DEF PgInv, PgTypes, Row, MaybeRow, RowOp
<1>2. Shown[a] = None
  BY ShownRows DEF Insert
<1>3. Shown' = [Shown EXCEPT ![a] = row]
  BY <1>1, OverlayShows DEF Insert, Stage, tables
<1>4. Stages(op)
  <2>1. SnapshotApply(Shown, op, now) = [Shown EXCEPT ![a] = row]
    BY <1>1, <1>2 DEF SnapshotApply
  <2>2. overlay' \in [Addr -> MaybeRow \cup {Absent}]
    BY <1>1 DEF Insert, Stage, PgTypes
  <2> QED
    BY <1>1, <1>2, <1>3, <2>1, <2>2
    DEF Stages, Fits, Insert, Staging, Stage, tables, PgTypes
<1>5. ops' = Append(ops, op) /\ log' = log /\ next_incarnation' = next_incarnation + 1
      /\ ops \in Seq(RowOp) /\ next_incarnation \in Nat
  BY DEF Insert, Stage, tables, PgInv, PgTypes
<1>6. Tokens(ops') = Tokens(ops) \cup {next_incarnation}
  BY <1>1, <1>5, TokensAppend
<1>7. Tokens(ops) \subseteq Nat /\ \A i \in DOMAIN log : Tokens(log[i].ops) \subseteq Nat
  <2>1. log \in Seq(CommittedTransition)
    BY DEF PgInv, PgTypes
  <2>2. \A i \in DOMAIN log : log[i].ops \in Seq(RowOp)
    <3>1. \A i \in DOMAIN log : log[i] \in CommittedTransition
      BY <2>1
    <3> QED
      BY <3>1 DEF CommittedTransition
  <2> QED
    BY <1>5, <2>2, TokensAreNumbers
<1>8. next_incarnation \notin Tokens(ops)
  BY <1>5 DEF PgInv, TokensAreFresh
<1>9. Distinct(ops')
  BY <1>1, <1>5, <1>8, DistinctAppend DEF PgInv, TokensAreFresh
<1>10. TokensAreFresh'
  <2>1. \A inc \in Tokens(ops') : inc < next_incarnation'
    BY <1>5, <1>6, <1>7 DEF PgInv, TokensAreFresh
  <2>2. ASSUME NEW i \in DOMAIN log, NEW inc \in Tokens(log[i].ops)
        PROVE  inc < next_incarnation' /\ inc \notin Tokens(ops')
    <3>1. inc \in Nat /\ inc < next_incarnation /\ inc \notin Tokens(ops)
      BY <1>7 DEF PgInv, TokensAreFresh
    <3> QED
      BY <1>5, <1>6, <3>1
  <2> QED
    BY <1>5, <1>9, <2>1, <2>2 DEF TokensAreFresh
<1> QED
  BY <1>4, <1>10, StagingPreserves DEF PgInv

LEMMA UpdatePreserves ==
  ASSUME PgInv, NEW a \in Addr, NEW v \in Val, Update(a, v)
  PROVE  PgInv'
<1> DEFINE old == Shown[a]
           row == [inc |-> old.inc, created |-> old.created, val |-> v]
           op == [kind |-> "update", from |-> a, to |-> a, inc |-> old.inc, val |-> v]
<1>1. PgTypes /\ Shown # Corrupt /\ Shown \in Rows /\ old = Resolve(a) /\ old # None /\ old \in Row
      /\ old.inc \in Nat /\ old.created \in Instant
  BY ShownRows DEF Update
<1>2. row \in MaybeRow /\ op \in RowOp /\ row = [old EXCEPT !.val = v]
  BY <1>1 DEF Row, MaybeRow, RowOp
<1>3. ops' = Append(ops, op) /\ overlay' = [overlay EXCEPT ![a] = row]
      /\ phase = "open"
      /\ UNCHANGED <<tables, phase, now, staged_definition, staged_composition, next_incarnation>>
  BY <1>1, <1>2 DEF Update, Stage, Staging
<1> HIDE DEF old, row
<1>4. Shown' = [Shown EXCEPT ![a] = row]
  BY <1>1, <1>2, <1>3, OverlayShows DEF tables
<1>5. SnapshotApply(Shown, op, now) = [Shown EXCEPT ![a] = row]
  BY <1>1 DEF SnapshotApply, row, old
<1>6. Stages(op)
  <2>1. overlay' \in [Addr -> MaybeRow \cup {Absent}]
    BY <1>1, <1>2, <1>3 DEF PgTypes
  <2>2. Fits(Shown, op)
    BY <1>1 DEF Fits, old
  <2> QED
    BY <1>1, <1>2, <1>3, <1>4, <1>5, <2>1, <2>2 DEF Stages, PgTypes
<1>7. TokensAreFresh'
  BY <1>2, <1>3, StagingKeepsTokensFresh DEF tables
<1> QED
  BY <1>6, <1>7, StagingPreserves DEF PgInv

LEMMA DeletePreserves ==
  ASSUME PgInv, NEW a \in Addr, Delete(a)
  PROVE  PgInv'
<1> DEFINE old == Shown[a]
           op == [kind |-> "delete", from |-> a, to |-> a, inc |-> old.inc, val |-> None]
<1>1. PgTypes /\ Shown # Corrupt /\ Shown \in Rows /\ old = Resolve(a) /\ old # None
      /\ old.inc \in Nat
  BY ShownRows DEF Delete
<1>2. op \in RowOp /\ None \in MaybeRow
  BY <1>1 DEF MaybeRow, RowOp
<1>3. ops' = Append(ops, op) /\ overlay' = [overlay EXCEPT ![a] = None]
      /\ phase = "open"
      /\ UNCHANGED <<tables, phase, now, staged_definition, staged_composition, next_incarnation>>
  BY <1>1 DEF Delete, Stage, Staging
<1> HIDE DEF old
<1>4. Shown' = [Shown EXCEPT ![a] = None]
  BY <1>1, <1>2, <1>3, OverlayShows DEF tables
<1>5. SnapshotApply(Shown, op, now) = [Shown EXCEPT ![a] = None]
  BY <1>1 DEF SnapshotApply, old
<1>6. Stages(op)
  <2>1. overlay' \in [Addr -> MaybeRow \cup {Absent}]
    BY <1>1, <1>2, <1>3 DEF PgTypes
  <2>2. Fits(Shown, op)
    BY <1>1 DEF Fits, old
  <2> QED
    BY <1>1, <1>2, <1>3, <1>4, <1>5, <2>1, <2>2 DEF Stages, PgTypes
<1>7. TokensAreFresh'
  BY <1>2, <1>3, StagingKeepsTokensFresh DEF tables
<1> QED
  BY <1>6, <1>7, StagingPreserves DEF PgInv

LEMMA RekeyPreserves ==
  ASSUME PgInv, NEW a \in Addr, NEW b \in Addr, NEW v \in Val, Rekey(a, b, v)
  PROVE  PgInv'
<1> DEFINE old == Shown[a]
           row == [inc |-> old.inc, created |-> old.created, val |-> v]
           op == [kind |-> "rekey", from |-> a, to |-> b, inc |-> old.inc, val |-> v]
<1>1. /\ PgTypes /\ Shown # Corrupt /\ Shown \in Rows /\ old = Resolve(a) /\ old # None /\ old \in Row
      /\ old.inc \in Nat /\ old.created \in Instant
      /\ Shown[b] = None /\ a # b
  BY ShownRows DEF Rekey
<1>2. row \in MaybeRow /\ None \in MaybeRow /\ op \in RowOp /\ row = [old EXCEPT !.val = v]
      /\ row # Absent
  BY <1>1, SentinelAssumption DEF Row, MaybeRow, RowOp
<1>3. ops' = Append(ops, op) /\ overlay' = [overlay EXCEPT ![a] = None, ![b] = row]
      /\ phase = "open"
      /\ UNCHANGED <<tables, phase, now, staged_definition, staged_composition, next_incarnation>>
  BY <1>1, <1>2 DEF Rekey, Stage, Staging
<1> HIDE DEF old, row
<1>4. Shown' = [Shown EXCEPT ![a] = None, ![b] = row]
  <2>1. nodes' = nodes /\ None # Absent
    BY <1>2, <1>3, SentinelAssumption DEF tables
  <2>2. \A c \in Addr : overlay'[c] = IF c = b THEN row ELSE IF c = a THEN None ELSE overlay[c]
    BY <1>1, <1>3 DEF PgTypes
  <2>3. \A c \in Addr : Shown'[c] = IF c = b THEN row ELSE IF c = a THEN None ELSE Shown[c]
    BY <1>2, <2>1, <2>2 DEF Shown, Resolve
  <2> QED
    BY <1>1, <2>3 DEF Shown
<1>5. SnapshotApply(Shown, op, now) = [Shown EXCEPT ![a] = None, ![b] = row]
  BY <1>1 DEF SnapshotApply, row, old
<1>6. Stages(op)
  <2>1. overlay' \in [Addr -> MaybeRow \cup {Absent}]
    BY <1>1, <1>2, <1>3 DEF PgTypes
  <2>2. Fits(Shown, op)
    BY <1>1 DEF Fits, old
  <2> QED
    BY <1>1, <1>2, <1>3, <1>4, <1>5, <2>1, <2>2 DEF Stages, PgTypes
<1>7. TokensAreFresh'
  BY <1>2, <1>3, StagingKeepsTokensFresh DEF tables
<1> QED
  BY <1>6, <1>7, StagingPreserves DEF PgInv
-----------------------------------------------------------------------------
(* The other steps.                                                        *)

\* Steps that touch neither rows nor log nor overlay.
LEMMA FramePreserves ==
  ASSUME PgInv, UNCHANGED <<nodes, head, log, next_incarnation, phase, overlay, ops, now>>,
         definition' = definition, composition' = composition,
         staged_definition' \in Definition \cup {None},
         staged_composition' \in Composition \cup {None}
  PROVE  PgInv'
<1>1. PgTypes'
  BY DEF PgInv, PgTypes
<1>2. GaplessLog' /\ IdleIsClean' /\ TokensAreFresh'
  BY DEF PgInv, GaplessLog, IdleIsClean, TokensAreFresh
<1>3. TreeRows' = TreeRows /\ Written' = Written /\ Shown' = Shown
  BY DEF TreeRows, Written, Shown, Resolve
<1> QED
  BY <1>1, <1>2, <1>3 DEF PgInv, TreeIsReplay, StagedIsWritten

\* Opening, and every step that drops the transition: the tables are as they were, up
\* to tokens burned.
LEMMA ClosePreserves ==
  ASSUME PgInv, UNCHANGED tables, overlay' = [a \in Addr |-> Absent], ops' = << >>,
         next_incarnation' \in Nat, next_incarnation' >= next_incarnation,
         phase' \in {"idle", "open"}, now' \in Instant,
         staged_definition' = None, staged_composition' = None
  PROVE  PgInv'
<1>1. PgTypes'
  BY DEF PgInv, PgTypes, tables
<1>2. GaplessLog' /\ IdleIsClean'
  BY DEF PgInv, GaplessLog, IdleIsClean, tables
<1>3. TreeIsReplay'
  BY DEF PgInv, TreeIsReplay, TreeRows, tables
<1>4. StagedIsWritten'
  BY <1>1, ClosedIsTables
<1>5. TokensAreFresh'
  <2>1. log \in Seq(CommittedTransition) /\ next_incarnation \in Nat /\ log' = log
    BY DEF PgInv, PgTypes, tables
  <2>2. \A i \in DOMAIN log : log[i] \in CommittedTransition
    BY <2>1
  <2>3. \A i \in DOMAIN log : Tokens(log[i].ops) \subseteq Nat
    BY <2>2, TokensAreNumbers DEF CommittedTransition
  <2>4. ASSUME NEW i \in DOMAIN log, NEW inc \in Tokens(log[i].ops)
        PROVE  inc < next_incarnation'
    <3>1. inc \in Nat /\ inc < next_incarnation
      BY <2>3 DEF PgInv, TokensAreFresh
    <3> QED
      BY <2>1, <3>1
  <2> QED
    BY <2>1, <2>4, NoTokens DEF TokensAreFresh
<1> QED
  BY <1>1, <1>2, <1>3, <1>4, <1>5 DEF PgInv

\* A commit at a gapless head replays: the writer leaves the tree the overlay showed.
LEMMA AdmitPreserves ==
  ASSUME PgInv, phase = "open", Admit, Close
  PROVE  PgInv'
<1> DEFINE t == [seq |-> head + 1, ops |-> ops, created |-> now]
<1>1. /\ head \in Nat /\ log \in Seq(CommittedTransition) /\ t \in CommittedTransition
      /\ Len(log) = head /\ \A i \in 1..Len(log) : log[i].seq = i
  BY DEF PgInv, PgTypes, CommittedTransition, GaplessLog
<1>2. nodes' = Written /\ head' = head + 1 /\ log' = Append(log, t)
  BY DEF Admit, Written
<1>3. PgTypes'
  BY <1>1, <1>2, InstantAssumption DEF PgInv, PgTypes, StagedIsWritten, Admit, Close
<1>4. GaplessLog' /\ IdleIsClean'
  BY <1>1, <1>2 DEF GaplessLog, IdleIsClean, Close
<1>5. TreeIsReplay'
  <2>1. TreeRows' = RowsOf(Written)
    BY <1>2 DEF TreeRows, RowsOf
  <2>2. Replay(log', head + 1) = Ops!Fold(Replay(log, head), ops, now)
    BY <1>1, <1>2, ReplayNext
  <2>3. Replay(log', head + 1) = Shown /\ RowsOf(Written) = Shown
    BY <2>2 DEF PgInv, TreeIsReplay, StagedIsWritten
  <2> QED
    BY <1>2, <2>1, <2>3 DEF TreeIsReplay
<1>6. StagedIsWritten'
  BY <1>3, ClosedIsTables DEF Close
<1>7. TokensAreFresh'
  <2>1. \A i \in DOMAIN log' : log'[i] = t \/ (i \in DOMAIN log /\ log'[i] = log[i])
    BY <1>1, <1>2
  <2>2. ops' = << >> /\ next_incarnation' = next_incarnation
    BY DEF Admit, Close
  <2> QED
    BY <2>1, <2>2, NoTokens DEF PgInv, TokensAreFresh
<1> QED
  BY <1>3, <1>4, <1>5, <1>6, <1>7 DEF PgInv

\* Every step keeps the invariant.
LEMMA PgNextPreserves == PgInv /\ [Next]_vars => PgInv'
<1> SUFFICES ASSUME PgInv, [Next]_vars PROVE PgInv'
  OBVIOUS
<1>0. next_incarnation \in Nat /\ phase \in {"idle", "open"}
      /\ staged_definition \in Definition \cup {None}
      /\ staged_composition \in Composition \cup {None}
  BY DEF PgInv, PgTypes
<1>1. ASSUME NEW t \in Instant, Begin(t) PROVE PgInv'
  <2>1. overlay' = [a \in Addr |-> Absent] /\ ops' = << >>
    BY <1>1 DEF PgInv, IdleIsClean, Begin
  <2>2. PgTypes'
    BY <1>1 DEF PgInv, PgTypes, Begin, tables
  <2>3. StagedIsWritten'
    BY <2>1, <2>2, ClosedIsTables
  <2> QED
    BY <1>1, <2>1, <2>2, <2>3
    DEF PgInv, GaplessLog, IdleIsClean, TreeIsReplay, TreeRows, TokensAreFresh, Begin, tables
<1>2. ASSUME NEW a \in Addr, NEW v \in Val, Insert(a, v) PROVE PgInv'
  BY <1>2, InsertPreserves
<1>3. ASSUME NEW a \in Addr, InsertLost(a) PROVE PgInv'
  BY <1>0, <1>3, ClosePreserves, InstantAssumption DEF InsertLost, Close, tables
<1>4. ASSUME NEW a \in Addr, NEW v \in Val, Update(a, v) PROVE PgInv'
  BY <1>4, UpdatePreserves
<1>5. ASSUME NEW a \in Addr, Delete(a) PROVE PgInv'
  BY <1>5, DeletePreserves
<1>6. ASSUME NEW a \in Addr, NEW b \in Addr, NEW v \in Val, Rekey(a, b, v) PROVE PgInv'
  BY <1>6, RekeyPreserves
<1>7. ASSUME NEW d \in Definition, SetDefinition(d) PROVE PgInv'
  BY <1>0, <1>7, FramePreserves DEF SetDefinition, durable
<1>8. ASSUME NEW c \in Composition, SetComposition(c) PROVE PgInv'
  BY <1>0, <1>8, FramePreserves DEF SetComposition, durable
<1>9. CASE Abort \/ CommitUnchanged \/ CommitRolledBack \/ Crash
  BY <1>0, <1>9, ClosePreserves, InstantAssumption
  DEF Abort, CommitUnchanged, CommitRolledBack, Crash, Close, durable, tables
<1>10. CASE Committed \/ CommitLost
  BY <1>10, AdmitPreserves DEF Committed, CommitLost, Committing
<1>11. CASE \/ \E p \in Point, at \in 0..MaxCommits : RecordPoint(p, at)
            \/ \E b \in Blob : PutBlob(b)
            \/ Reopen
            \/ UNCHANGED vars
  BY <1>0, <1>11, FramePreserves DEF RecordPoint, PutBlob, Reopen, vars, durable, transition
<1> QED
  BY <1>1, <1>2, <1>3, <1>4, <1>5, <1>6, <1>7, <1>8, <1>9, <1>10, <1>11 DEF Next

\* The invariant holds of every reachable state, crashes and lost answers included.
THEOREM PgInvariant == Spec => []PgInv
BY PgInitEstablishes, PgNextPreserves, PTL DEF Spec
-----------------------------------------------------------------------------
(* The refinement.                                                         *)

\* The contract's fold is the specification's.
LEMMA ContractFold ==
  \A rows, o, c : Contract!Ops!Fold(rows, o, c) = Ops!Fold(rows, o, c)
BY DEF Contract!Ops!Fold, Ops!Fold, Contract!SnapshotApply, SnapshotApply

\* The admission transaction is the contract's commit.
LEMMA AdmitIsCommit ==
  ASSUME PgInv, phase = "open", Admit, Close
  PROVE  Contract!Commit
<1> DEFINE t == [seq |-> head + 1, ops |-> ops, created |-> now]
<1>1. log \in Seq(CommittedTransition) /\ t \in CommittedTransition /\ head \in Nat
  BY DEF PgInv, PgTypes, CommittedTransition
<1>2. nodes' = Written /\ head' = head + 1 /\ log' = Append(log, t)
  BY DEF Admit, Written
<1>3. Len(log') = Len(log) + 1 /\ SubSeq(log', 1, Len(log)) = log /\ log'[Len(log')] = t
  BY <1>1, <1>2
<1>4. TreeRows' = Ops!Fold(TreeRows, ops, now) /\ TreeRows' # Corrupt
  <2>1. TreeRows' = RowsOf(Written)
    BY <1>2 DEF TreeRows, RowsOf
  <2>2. RowsOf(Written) \in Rows
    BY RowsOfType DEF PgInv, StagedIsWritten, IsTable
  <2> QED
    BY <2>1, <2>2, RowSentinelAssumption DEF PgInv, StagedIsWritten
<1>5. \A xs : Contract!Introduced(xs) = Tokens(xs.ops)
  BY DEF Contract!Introduced, Tokens
<1>6. \A inc \in Contract!Introduced(t) : inc < next_incarnation
  BY <1>5 DEF PgInv, TokensAreFresh
<1>7. \A i, j \in DOMAIN t.ops :
        t.ops[i].kind = "insert" /\ t.ops[j].kind = "insert" /\ t.ops[i].inc = t.ops[j].inc => i = j
  BY DEF PgInv, TokensAreFresh, Distinct
<1>8. \A i \in DOMAIN log : Contract!Introduced(log[i]) \cap Contract!Introduced(t) = {}
  BY <1>5 DEF PgInv, TokensAreFresh
<1>9. /\ definition' = definition \/ definition' \in Definition
      /\ composition' = composition \/ composition' \in Composition
  BY DEF PgInv, PgTypes, Admit
<1>10. UNCHANGED <<next_incarnation, points, blobs>>
  BY DEF Admit
<1> HIDE DEF t
<1>11. t.seq = head' /\ t.ops = ops /\ t.created = now
  BY <1>2 DEF t
<1> QED
  BY <1>2, <1>3, <1>4, <1>6, <1>7, <1>8, <1>9, <1>10, <1>11, ContractFold DEF Contract!Commit

\* Every step is a step of the contract, or leaves every table alone.
LEMMA StepIsContractStep ==
  ASSUME PgInv, [Next]_vars
  PROVE  [Contract!Next]_durable
<1>1. CASE Committed \/ CommitLost
  BY <1>1, AdmitIsCommit DEF Committed, CommitLost, Committing, Contract!Next
<1>2. CASE \/ \E a \in Addr, v \in Val : Insert(a, v)
           \/ \E a \in Addr : InsertLost(a)
  BY <1>2 DEF Insert, InsertLost, Stage, tables, TreeRows, Contract!Next, Contract!AllocIncarnation
<1>3. CASE \E p \in Point, at \in 0..MaxCommits : RecordPoint(p, at)
  <2>1. PICK p \in Point, at \in 0..MaxCommits : RecordPoint(p, at)
    BY <1>3
  <2>2. at \in 0..head
    BY <2>1, BoundAssumption DEF RecordPoint, PgInv, PgTypes
  <2>3. Contract!RecordPoint
    BY <2>1, <2>2 DEF RecordPoint, Contract!RecordPoint, TreeRows
  <2> QED
    BY <2>3 DEF Contract!Next
<1>4. CASE \E b \in Blob : PutBlob(b)
  BY <1>4 DEF PutBlob, Contract!Next, Contract!PutBlob, TreeRows
<1>5. CASE \/ Abort \/ CommitUnchanged \/ CommitRolledBack \/ Crash \/ Reopen
           \/ \E i \in Instant : Begin(i)
           \/ \E a \in Addr, v \in Val : Update(a, v)
           \/ \E a \in Addr : Delete(a)
           \/ \E a, b \in Addr, v \in Val : Rekey(a, b, v)
           \/ \E d \in Definition : SetDefinition(d)
           \/ \E c \in Composition : SetComposition(c)
           \/ UNCHANGED vars
  BY <1>5 DEF Abort, CommitUnchanged, CommitRolledBack, Crash, Reopen, Begin, Update, Delete,
              Rekey, SetDefinition, SetComposition, Stage, tables, durable, vars
<1> QED
  BY <1>1, <1>2, <1>3, <1>4, <1>5 DEF Next

\* The PostgreSQL tables do what the traits of contract.rs promise, through crashes,
\* lost answers and rolled back transactions, whatever the addresses and bounds.
THEOREM PgImplementsContract == Spec => ImplementsContract
<1>1. Init => Contract!Init
  BY PgInitEstablishes, EmptyFolds
  DEF Init, Contract!Init, PgInv, TreeIsReplay, EmptyRows, Contract!EmptyRows
<1>2. PgInv /\ [Next]_vars => [Contract!Next]_durable
  BY StepIsContractStep
<1> QED
  BY <1>1, <1>2, PgInvariant, PTL DEF Spec, ImplementsContract
-----------------------------------------------------------------------------
(* Reads.                                                                  *)

\* The paths to the first k nodes, each one step below its parent's.
Walks(tree, f, k) ==
  f = [n \in 0..k |-> IF n = 0 THEN << >> ELSE Append(f[tree[n].parent], StepOf(tree, n))]

\* The parent walk ends: parents precede their children.
LEMMA WalkExists ==
  ASSUME NEW tree, IsTree(tree)
  PROVE  \E f : Walks(tree, f, Len(tree))
<1> DEFINE S == {k \in Nat : k <= Len(tree) => \E f : Walks(tree, f, k)}
<1>0. Len(tree) \in Nat /\ DOMAIN tree = 1..Len(tree)
  BY DEF IsTree
<1>1. 0 \in S
  <2>1. Walks(tree, [n \in 0..0 |-> << >>], 0)
    BY DEF Walks
  <2> QED BY <2>1
<1>2. ASSUME NEW k \in Nat, k \in S PROVE k + 1 \in S
  <2> SUFFICES ASSUME k + 1 <= Len(tree) PROVE \E f : Walks(tree, f, k + 1)
    OBVIOUS
  <2>1. PICK f : Walks(tree, f, k)
    BY <1>0, <1>2
  <2> DEFINE last == Append(f[tree[k + 1].parent], StepOf(tree, k + 1))
             g == [n \in 0..k + 1 |-> IF n = k + 1 THEN last ELSE f[n]]
  <2>2. ASSUME NEW n \in 0..k + 1
        PROVE  g[n] = IF n = 0 THEN << >> ELSE Append(g[tree[n].parent], StepOf(tree, n))
    <3>1. CASE n = 0
      BY <2>1, <3>1 DEF Walks
    <3>2. CASE n # 0
      <4>1. n \in DOMAIN tree /\ tree[n].parent \in 0..n - 1
        BY <1>0, <3>2, NodeIsChild DEF Id, IsTree
      <4>2. g[tree[n].parent] = f[tree[n].parent]
        BY <4>1
      <4>3. CASE n = k + 1
        BY <3>2, <4>2, <4>3
      <4>4. CASE n # k + 1
        <5>1. n \in 0..k /\ g[n] = f[n]
          BY <4>4
        <5>2. f[n] = Append(f[tree[n].parent], StepOf(tree, n))
          BY <2>1, <3>2, <5>1 DEF Walks
        <5> QED
          BY <3>2, <4>2, <5>1, <5>2
      <4> QED
        BY <4>3, <4>4
    <3> QED
      BY <3>1, <3>2
  <2>3. Walks(tree, g, k + 1)
    BY <2>2 DEF Walks
  <2> HIDE DEF g
  <2> QED
    BY <2>3
<1> HIDE DEF S
<1>3. Nat \subseteq S
  BY <1>1, <1>2, ChainP!NatSetInduction
<1> QED
  BY <1>0, <1>3 DEF S

\* The walk from the node of a path gives the path back.
LEMMA ReconstructPath ==
  ASSUME NEW tree, IsTree(tree)
  PROVE  \A p \in Path : ResolveId(tree, p) # None => Reconstruct(tree, ResolveId(tree, p)) = p
<1> DEFINE f == CHOOSE f : Walks(tree, f, Len(tree))
<1>1. Walks(tree, f, Len(tree))
  BY WalkExists
<1>2. \A n : Reconstruct(tree, n) = f[n]
  BY DEF Reconstruct, Walks, StepOf
<1> HIDE DEF f
<1> DEFINE S == {p \in Path : ResolveId(tree, p) # None => f[ResolveId(tree, p)] = p}
<1>3. << >> \in S
  <2>1. 0 \in 0..Len(tree)
    BY DEF IsTree
  <2>2. f[0] = << >>
    BY <1>1, <2>1 DEF Walks
  <2> QED
    BY <2>2, ResolveEmpty DEF Path
<1>4. ASSUME NEW p \in Path, NEW s \in AddressStep, p \in S PROVE Append(p, s) \in S
  <2> DEFINE n == ResolveId(tree, Append(p, s))
  <2>1. CASE n # None
    <3>1. ResolveId(tree, p) \in Id(tree) /\ n \in Children(tree, ResolveId(tree, p), s)
      BY <2>1, ResolvedChild
    <3> HIDE DEF n
    <3>2. /\ StepOf(tree, n) = s /\ tree[n].parent = ResolveId(tree, p)
          /\ n \in Id(tree) /\ n # 0
      BY <3>1, ChildStandsForStep, ChildrenAreNodes
    <3>3. f[n] = Append(f[ResolveId(tree, p)], s)
      BY <1>1, <3>2 DEF Walks, Id
    <3>4. f[ResolveId(tree, p)] = p
      BY <1>4, <3>1, RowSentinelAssumption DEF Id
    <3> QED
      BY <3>3, <3>4 DEF n, Path
  <2> QED
    BY <2>1 DEF Path
<1> HIDE DEF S
<1>5. Path \subseteq S
  BY <1>3, <1>4, PathInduction
<1> QED
  BY <1>2, <1>5 DEF S

\* The live nodes are the nodes of the addresses that hold a row.
LEMMA LiveNodes ==
  ASSUME NEW tree, IsTable(tree)
  PROVE  /\ IsTree(tree)
         /\ \A n \in Live(tree) : \E a \in Addr : /\ a \in Path \ {<< >>} /\ ResolveId(tree, a) = n
                                                  /\ RowAt(tree, a) = tree[n].row
                                                  /\ RowAt(tree, a) # None
         /\ \A a \in Addr : RowAt(tree, a) # None => /\ ResolveId(tree, a) \in Live(tree)
                                                     /\ RowAt(tree, a) = tree[ResolveId(tree, a)].row
<1>1. IsTree(tree) /\ None \notin Nat /\ DOMAIN tree \subseteq Nat
  BY RowSentinelAssumption DEF IsTable, IsTree
<1>2. \A a \in Addr : a \in Path \ {<< >>}
  BY AddressAssumption DEF Path
<1>3. ASSUME NEW n \in Live(tree)
      PROVE  \E a \in Addr : /\ a \in Path \ {<< >>} /\ ResolveId(tree, a) = n
                             /\ RowAt(tree, a) = tree[n].row
                             /\ RowAt(tree, a) # None
  <2>1. PICK a \in Addr : ResolveId(tree, a) = n
    BY DEF IsTable
  <2>2. n # None /\ tree[n].row # None
    BY <1>1 DEF Live
  <2> QED
    BY <1>2, <2>1, <2>2 DEF RowAt
<1>4. ASSUME NEW a \in Addr, RowAt(tree, a) # None
      PROVE  /\ ResolveId(tree, a) \in Live(tree)
             /\ RowAt(tree, a) = tree[ResolveId(tree, a)].row
  <2>1. ResolveId(tree, a) # None /\ RowAt(tree, a) = tree[ResolveId(tree, a)].row
    BY <1>4 DEF RowAt
  <2>2. ResolveId(tree, a) \in DOMAIN tree
    BY <1>1, <1>2, <2>1, ResolveType DEF Id, IsTree
  <2> QED
    BY <1>4, <2>1, <2>2 DEF Live
<1> QED
  BY <1>1, <1>3, <1>4

\* The head fast path: every live node, at the address its parent walk gives.
LEMMA HeadIsTheRows ==
  ASSUME NEW tree, IsTable(tree)
  PROVE  MaterializeHead(tree)
           = {<<a, RowAt(tree, a)>> : a \in {b \in Addr : RowAt(tree, b) # None}}
<1>1. MaterializeHead(tree) = {<<Reconstruct(tree, n), tree[n].row>> : n \in Live(tree)}
  BY DEF MaterializeHead, Live
<1>2. ASSUME NEW n \in Live(tree)
      PROVE  \E a \in Addr : RowAt(tree, a) # None /\ Reconstruct(tree, n) = a
                               /\ tree[n].row = RowAt(tree, a)
  <2>1. PICK a \in Addr : /\ a \in Path /\ ResolveId(tree, a) = n
                          /\ RowAt(tree, a) = tree[n].row /\ RowAt(tree, a) # None
    BY LiveNodes
  <2>2. n # None
    BY <2>1 DEF RowAt
  <2> QED
    BY <2>1, <2>2, ReconstructPath, LiveNodes
<1>3. ASSUME NEW a \in Addr, RowAt(tree, a) # None
      PROVE  \E n \in Live(tree) : Reconstruct(tree, n) = a /\ tree[n].row = RowAt(tree, a)
  <2>1. ResolveId(tree, a) \in Live(tree) /\ RowAt(tree, a) = tree[ResolveId(tree, a)].row
    BY <1>3, LiveNodes
  <2>2. ResolveId(tree, a) # None /\ a \in Path
    BY <1>3, AddressAssumption DEF RowAt, Path
  <2> QED
    BY <2>1, <2>2, ReconstructPath, LiveNodes
<1> QED
  BY <1>1, <1>2, <1>3

\* Between transitions the tree is the fold of the log, row by row and as the head is
\* loaded, tombstones, revived nodes and orphans included.
THEOREM TreeIsTheLog == Spec => []TreeIsLogFold
<1>1. PgInv => TreeIsLogFold
  <2> SUFFICES ASSUME PgInv PROVE TreeIsLogFold
    OBVIOUS
  <2> DEFINE rows == Replay(log, head)
  <2>1. TreeRows = rows /\ IsTable(nodes)
    BY DEF PgInv, TreeIsReplay, PgTypes
  <2>2. \A a \in Addr : rows[a] = RowAt(nodes, a)
    BY <2>1 DEF TreeRows
  <2> HIDE DEF rows
  <2>3. MaterializeHead(nodes) = {<<a, rows[a]>> : a \in {b \in Addr : rows[b] # None}}
    BY <2>1, <2>2, HeadIsTheRows
  <2> QED
    BY <2>1, <2>3 DEF TreeIsLogFold, rows
<1> QED
  BY <1>1, PgInvariant, PTL
-----------------------------------------------------------------------------
(* Scans.                                                                  *)

\* The last level of an address with a row, as its node keeps it.
LEMMA LiveAddress ==
  ASSUME NEW tree, IsTable(tree), NEW a \in Addr, RowAt(tree, a) # None
  PROVE  LET n == ResolveId(tree, a) IN
         /\ n \in Live(tree) /\ RowAt(tree, a) = tree[n].row
         /\ a \in Path /\ Front(a) \in Path /\ a = Append(Front(a), Last(a))
         /\ StepOf(tree, n) = Last(a) /\ tree[n].step_name = Last(a).name
         /\ tree[n].parent = ResolveId(tree, Front(a)) /\ tree[n].parent # None
<1> DEFINE n == ResolveId(tree, a)
<1>1. /\ a \in Path /\ a # << >> /\ Front(a) \in Path /\ Last(a) \in AddressStep
      /\ a = Append(Front(a), Last(a))
  BY AddressAssumption, LastLevel DEF Path
<1>2. IsTree(tree) /\ n \in Live(tree) /\ RowAt(tree, a) = tree[n].row /\ n # None
  BY LiveNodes DEF RowAt
<1>3. ResolveId(tree, Front(a)) \in Id(tree) /\ n \in Children(tree, ResolveId(tree, Front(a)), Last(a))
  BY <1>1, <1>2, ResolvedChild
<1> HIDE DEF n
<1>4. StepOf(tree, n) = Last(a) /\ tree[n].parent = ResolveId(tree, Front(a))
  BY <1>1, <1>2, <1>3, ChildStandsForStep
<1>5. tree[n].parent # None
  BY <1>3, <1>4, RowSentinelAssumption DEF Id
<1>6. tree[n].step_name = Last(a).name
  BY <1>4 DEF StepOf
<1> QED
  BY <1>1, <1>2, <1>4, <1>5, <1>6 DEF n

\* A collection scan lists the rows one level below the parent, under one name.
LEMMA ScanIsTheRows ==
  ASSUME NEW tree, IsTable(tree), NEW parent \in Path, NEW name
  PROVE  Scan(tree, parent, name)
           = {<<a, RowAt(tree, a)>> : a \in {b \in Addr : /\ Front(b) = parent /\ Last(b).name = name
                                                          /\ RowAt(tree, b) # None}}
<1> DEFINE id == ResolveId(tree, parent)
           step(n) == [name |-> name, key |-> tree[n].key_wire]
           found == {n \in Live(tree) : tree[n].parent = id /\ tree[n].step_name = name}
<1>1. Scan(tree, parent, name) = {<<Append(parent, step(n)), tree[n].row>> : n \in found}
  BY DEF Scan, Live
<1>2. ASSUME NEW n \in found
      PROVE  \E a \in Addr : /\ Front(a) = parent /\ Last(a).name = name /\ RowAt(tree, a) # None
                             /\ a = Append(parent, step(n)) /\ RowAt(tree, a) = tree[n].row
  <2>1. PICK a \in Addr : ResolveId(tree, a) = n /\ RowAt(tree, a) # None
    BY LiveNodes
  <2>2. /\ RowAt(tree, a) = tree[n].row /\ Front(a) \in Path /\ a = Append(Front(a), Last(a))
        /\ StepOf(tree, n) = Last(a) /\ tree[n].step_name = Last(a).name
        /\ tree[n].parent = ResolveId(tree, Front(a)) /\ tree[n].parent # None
    BY <2>1, LiveAddress
  <2>3. Front(a) = parent
    BY <2>2, PathsAreUnique, LiveNodes
  <2>4. step(n) = Last(a)
    BY <2>2 DEF StepOf
  <2> QED
    BY <2>1, <2>2, <2>3, <2>4
<1>3. ASSUME NEW a \in Addr, Front(a) = parent, Last(a).name = name, RowAt(tree, a) # None
      PROVE  \E n \in found : a = Append(parent, step(n)) /\ RowAt(tree, a) = tree[n].row
  <2> DEFINE n == ResolveId(tree, a)
  <2>1. /\ n \in Live(tree) /\ RowAt(tree, a) = tree[n].row /\ a = Append(Front(a), Last(a))
        /\ StepOf(tree, n) = Last(a) /\ tree[n].step_name = Last(a).name
        /\ tree[n].parent = ResolveId(tree, Front(a))
    BY <1>3, LiveAddress
  <2> HIDE DEF n
  <2>2. n \in found
    BY <1>3, <2>1
  <2>3. step(n) = Last(a)
    BY <1>3, <2>1 DEF StepOf
  <2> QED
    BY <1>3, <2>1, <2>2, <2>3
<1> DEFINE at(n) == Append(parent, step(n))
<1> HIDE DEF step, found
<1>4. \A n \in found : \E a \in {b \in Addr : /\ Front(b) = parent /\ Last(b).name = name
                                              /\ RowAt(tree, b) # None} :
        <<at(n), tree[n].row>> = <<a, RowAt(tree, a)>>
  BY <1>2
<1>5. \A a \in {b \in Addr : /\ Front(b) = parent /\ Last(b).name = name
                            /\ RowAt(tree, b) # None} :
        \E n \in found : <<at(n), tree[n].row>> = <<a, RowAt(tree, a)>>
  BY <1>3
<1>6. Scan(tree, parent, name) = {<<at(n), tree[n].row>> : n \in found}
  BY <1>1
<1> DEFINE pair(n) == <<at(n), tree[n].row>>
           rows == {b \in Addr : /\ Front(b) = parent /\ Last(b).name = name
                                 /\ RowAt(tree, b) # None}
           row(a) == <<a, RowAt(tree, a)>>
<1>7. /\ \A n \in found : \E a \in rows : pair(n) = row(a)
      /\ \A a \in rows : \E n \in found : pair(n) = row(a)
  BY <1>4, <1>5
<1>8. Scan(tree, parent, name) = {pair(n) : n \in found}
  BY <1>6
<1> HIDE DEF pair, rows, row
<1>9. {pair(n) : n \in found} = {row(a) : a \in rows}
  BY <1>7
<1> QED
  BY <1>8, <1>9 DEF rows, row

\* A path is no longer than the id of its node: every level made a node.
LEMMA DepthBound ==
  ASSUME NEW tree, IsTree(tree)
  PROVE  \A p \in Path : ResolveId(tree, p) # None => Len(p) <= ResolveId(tree, p)
<1> DEFINE S == {p \in Path : ResolveId(tree, p) # None => Len(p) <= ResolveId(tree, p)}
<1>1. << >> \in S
  BY ResolveEmpty DEF Path
<1>2. ASSUME NEW p \in Path, NEW s \in AddressStep, p \in S PROVE Append(p, s) \in S
  <2> DEFINE n == ResolveId(tree, Append(p, s))
  <2>1. CASE n # None
    <3>1. ResolveId(tree, p) \in Id(tree) /\ n \in Children(tree, ResolveId(tree, p), s)
      BY <2>1, ResolvedChild
    <3> HIDE DEF n
    <3>2. ResolveId(tree, p) < n /\ n \in Nat /\ ResolveId(tree, p) \in Nat
      BY <3>1, ChildStandsForStep, ChildrenAreNodes DEF Id, IsTree
    <3>3. Len(p) <= ResolveId(tree, p)
      BY <1>2, <3>2, RowSentinelAssumption
    <3>4. Len(Append(p, s)) = Len(p) + 1 /\ Len(p) \in Nat /\ Append(p, s) \in Path
      BY DEF Path
    <3> QED
      BY <3>2, <3>3, <3>4 DEF n
  <2> QED
    BY <2>1 DEF Path
<1> HIDE DEF S
<1>3. Path \subseteq S
  BY <1>1, <1>2, PathInduction
<1> QED
  BY <1>3 DEF S

\* A path that starts with the root and goes on through levels of the given names.
Along(root, names, p) ==
  /\ SubSeq(p, 1, Len(root)) = root
  /\ \A i \in Len(root) + 1..Len(p) : p[i].name \in names

\* The paths k levels below a root, through levels of the given names, that have a node.
Under(tree, root, names, k) ==
  {p \in Path : Len(p) = Len(root) + k /\ Along(root, names, p) /\ ResolveId(tree, p) # None}

\* Those paths with their nodes, as the descent lists them.
Level(tree, root, names, k) ==
  {[id |-> ResolveId(tree, p), path |-> p] : p \in Under(tree, root, names, k)}

\* The descent from one path: its node's children under the given names.
Below(tree, names, p) ==
  {[id |-> n, path |-> Append(p.path, StepOf(tree, n))] :
     n \in {m \in DOMAIN tree : tree[m].parent = p.id /\ tree[m].step_name \in names}}

\* One level deeper is one step more.
LEMMA UnderAppend ==
  ASSUME NEW tree, NEW root \in Path, NEW names, NEW k \in Nat \ {0},
         NEW p \in Path, NEW s \in AddressStep
  PROVE  Append(p, s) \in Under(tree, root, names, k)
           <=> /\ Len(p) + 1 = Len(root) + k /\ Along(root, names, p)
               /\ s.name \in names /\ ResolveId(tree, Append(p, s)) # None
<1> DEFINE q == Append(p, s)
<1>1. q \in Path /\ Len(q) = Len(p) + 1 /\ Len(p) \in Nat /\ Len(root) \in Nat
      /\ q[Len(p) + 1] = s /\ \A i \in 1..Len(p) : q[i] = p[i]
  BY DEF Path
<1>2. ASSUME Len(p) + 1 = Len(root) + k
      PROVE  SubSeq(q, 1, Len(root)) = SubSeq(p, 1, Len(root))
  <2>1. \A i \in 1..Len(root) : q[i] = p[i]
    BY <1>1, <1>2
  <2> QED
    BY <1>1, <1>2, <2>1 DEF Path
<1> HIDE DEF q
<1>3. ASSUME Len(p) + 1 = Len(root) + k
      PROVE  (\A i \in Len(root) + 1..Len(q) : q[i].name \in names)
               <=> (\A i \in Len(root) + 1..Len(p) : p[i].name \in names) /\ s.name \in names
  <2>1. \A i \in Len(root) + 1..Len(p) : i \in 1..Len(p) /\ i \in Len(root) + 1..Len(q)
    BY <1>1
  <2>2. \A i \in Len(root) + 1..Len(q) : i \in Len(root) + 1..Len(p) \/ i = Len(p) + 1
    BY <1>1
  <2>3. Len(p) + 1 \in Len(root) + 1..Len(q)
    BY <1>1, <1>3
  <2> QED
    BY <1>1, <2>1, <2>2, <2>3
<1>4. Len(q) = Len(root) + k <=> Len(p) + 1 = Len(root) + k
  BY <1>1
<1>5. q \in Under(tree, root, names, k)
        <=> /\ Len(q) = Len(root) + k /\ SubSeq(q, 1, Len(root)) = root
            /\ \A i \in Len(root) + 1..Len(q) : q[i].name \in names
            /\ ResolveId(tree, q) # None
  BY <1>1 DEF Under, Along
<1>6. CASE Len(p) + 1 = Len(root) + k
  BY <1>2, <1>3, <1>4, <1>5, <1>6 DEF Along, q
<1>7. CASE Len(p) + 1 # Len(root) + k
  BY <1>4, <1>5, <1>7 DEF Along, q
<1> QED
  BY <1>6, <1>7

\* The descent by one level finds the paths one level deeper.
LEMMA DescentStep ==
  ASSUME NEW tree, IsTree(tree), NEW root \in Path, NEW names, NEW k \in Nat,
         NEW at, at = Level(tree, root, names, k)
  PROVE  UNION {Below(tree, names, p) : p \in at} = Level(tree, root, names, k + 1)
<1> DEFINE deeper == {[id |-> ResolveId(tree, p), path |-> p] : p \in Under(tree, root, names, k + 1)}
<1>1. ASSUME NEW p \in Under(tree, root, names, k),
             NEW n \in DOMAIN tree, tree[n].parent = ResolveId(tree, p), tree[n].step_name \in names
      PROVE  [id |-> n, path |-> Append(p, StepOf(tree, n))] \in deeper
  <2> DEFINE s == StepOf(tree, n)
  <2>1. p \in Path /\ s \in AddressStep /\ ResolveId(tree, p) \in Id(tree)
        /\ n \in Children(tree, ResolveId(tree, p), s) /\ s.name \in names
    BY <1>1, NodeIsChild DEF Under, StepOf
  <2> HIDE DEF s
  <2>2. ResolveId(tree, Append(p, s)) = n /\ n # None
    BY <2>1, ResolveAppend, HopFinds, ChildrenAreNodes, RowSentinelAssumption DEF Id
  <2>3. Append(p, s) \in Under(tree, root, names, k + 1)
    <3>1. Len(p) = Len(root) + k /\ Along(root, names, p)
      BY DEF Under
    <3>2. Len(p) + 1 = Len(root) + (k + 1) /\ k + 1 \in Nat \ {0}
      BY <2>1, <3>1 DEF Path
    <3> QED
      BY <2>1, <2>2, <3>1, <3>2, UnderAppend
  <2> QED
    BY <2>2, <2>3 DEF s
<1>2. ASSUME NEW q \in Under(tree, root, names, k + 1)
      PROVE  \E p \in Under(tree, root, names, k) :
               \E n \in DOMAIN tree : /\ tree[n].parent = ResolveId(tree, p)
                                      /\ tree[n].step_name \in names
                                      /\ n = ResolveId(tree, q) /\ q = Append(p, StepOf(tree, n))
  <2>1. q \in Path /\ q # << >> /\ ResolveId(tree, q) # None
    BY DEF Under, Path
  <2>2. PICK p \in Path, s \in AddressStep : q = Append(p, s)
    BY <2>1, LastLevel
  <2>3. Len(p) = Len(root) + k /\ Along(root, names, p) /\ s.name \in names
    <3> DEFINE j == k + 1
    <3>1. Append(p, s) \in Under(tree, root, names, j)
      BY <2>2
    <3>2. j \in Nat \ {0} /\ Len(p) \in Nat /\ Len(root) \in Nat
      BY DEF Path
    <3> HIDE DEF j
    <3>3. Len(p) + 1 = Len(root) + j /\ Along(root, names, p) /\ s.name \in names
      BY <3>1, <3>2, UnderAppend
    <3> QED
      BY <3>2, <3>3 DEF j
  <2> DEFINE n == ResolveId(tree, q)
  <2>4. ResolveId(tree, p) \in Id(tree) /\ n \in Children(tree, ResolveId(tree, p), s)
    BY <2>1, <2>2, ResolvedChild
  <2> HIDE DEF n
  <2>5. StepOf(tree, n) = s /\ tree[n].parent = ResolveId(tree, p) /\ n \in DOMAIN tree
    BY <2>4, ChildStandsForStep, ChildrenAreNodes
  <2>6. tree[n].step_name \in names
    BY <2>3, <2>5 DEF StepOf
  <2>7. p \in Under(tree, root, names, k)
    BY <2>3, <2>4, RowSentinelAssumption DEF Under, Id
  <2> QED
    BY <2>2, <2>5, <2>6, <2>7 DEF n
<1>3. \A x : x \in UNION {Below(tree, names, p) : p \in at}
              <=> \E p \in Under(tree, root, names, k) :
                    x \in Below(tree, names, [id |-> ResolveId(tree, p), path |-> p])
  BY DEF Level
<1>4. ASSUME NEW p
      PROVE  Below(tree, names, [id |-> ResolveId(tree, p), path |-> p])
               = {[id |-> n, path |-> Append(p, StepOf(tree, n))] :
                    n \in {m \in DOMAIN tree : tree[m].parent = ResolveId(tree, p)
                                               /\ tree[m].step_name \in names}}
  BY DEF Below
<1>5. UNION {Below(tree, names, p) : p \in at} \subseteq deeper
  <2> SUFFICES ASSUME NEW x \in UNION {Below(tree, names, p) : p \in at} PROVE x \in deeper
    OBVIOUS
  <2>1. PICK p \in Under(tree, root, names, k) :
          x \in Below(tree, names, [id |-> ResolveId(tree, p), path |-> p])
    BY <1>3
  <2>2. PICK n \in DOMAIN tree : /\ tree[n].parent = ResolveId(tree, p) /\ tree[n].step_name \in names
                                 /\ x = [id |-> n, path |-> Append(p, StepOf(tree, n))]
    BY <1>4, <2>1
  <2> HIDE DEF deeper
  <2> QED
    BY <1>1, <2>2
<1>6. deeper \subseteq UNION {Below(tree, names, p) : p \in at}
  <2> SUFFICES ASSUME NEW q \in Under(tree, root, names, k + 1)
               PROVE  [id |-> ResolveId(tree, q), path |-> q] \in UNION {Below(tree, names, p) : p \in at}
    OBVIOUS
  <2>1. PICK p \in Under(tree, root, names, k) :
          \E n \in DOMAIN tree : /\ tree[n].parent = ResolveId(tree, p)
                                 /\ tree[n].step_name \in names
                                 /\ n = ResolveId(tree, q) /\ q = Append(p, StepOf(tree, n))
    BY <1>2
  <2>2. [id |-> ResolveId(tree, q), path |-> q]
          \in Below(tree, names, [id |-> ResolveId(tree, p), path |-> p])
    BY <1>4, <2>1
  <2> QED
    BY <1>3, <2>2
<1> QED
  BY <1>5, <1>6 DEF Level

\* The levels of a descent, from the anchor down.
Descends(tree, names, anchor, f, k) ==
  f = [j \in 0..k |-> IF j = 0 THEN anchor ELSE UNION {Below(tree, names, p) : p \in f[j - 1]}]

LEMMA DescentExists ==
  ASSUME NEW tree, NEW names, NEW anchor
  PROVE  \A k \in Nat : \E f : Descends(tree, names, anchor, f, k)
<1> DEFINE S == {k \in Nat : \E f : Descends(tree, names, anchor, f, k)}
           Deeper(at) == UNION {Below(tree, names, p) : p \in at}
<1>1. 0 \in S
  <2>1. Descends(tree, names, anchor, [j \in 0..0 |-> anchor], 0)
    BY DEF Descends
  <2> QED BY <2>1
<1>2. ASSUME NEW k \in Nat, k \in S PROVE k + 1 \in S
  <2>1. PICK f : Descends(tree, names, anchor, f, k)
    BY <1>2
  <2>2. f = [j \in 0..k |-> IF j = 0 THEN anchor ELSE Deeper(f[j - 1])]
    BY <2>1 DEF Descends
  <2> DEFINE g == [j \in 0..k + 1 |-> IF j = k + 1 THEN Deeper(f[k]) ELSE f[j]]
  <2> HIDE DEF Deeper
  <2>3. ASSUME NEW j \in 0..k + 1
        PROVE  g[j] = IF j = 0 THEN anchor ELSE Deeper(g[j - 1])
    <3>1. CASE j = k + 1
      BY <3>1
    <3>2. CASE j # k + 1
      <4>1. j \in 0..k /\ (j # 0 => j - 1 \in 0..k)
        BY <3>2
      <4>2. f[j] = IF j = 0 THEN anchor ELSE Deeper(f[j - 1])
        BY <2>2, <4>1
      <4> QED
        BY <3>2, <4>1, <4>2
    <3> QED
      BY <3>1, <3>2
  <2>4. g = [j \in 0..k + 1 |-> IF j = 0 THEN anchor ELSE Deeper(g[j - 1])]
    BY <2>3
  <2>5. Descends(tree, names, anchor, g, k + 1)
    BY <2>4 DEF Descends, Deeper
  <2> HIDE DEF g
  <2> QED
    BY <2>5
<1> HIDE DEF S
<1>3. Nat \subseteq S
  BY <1>1, <1>2, ChainP!NatSetInduction
<1> QED
  BY <1>3 DEF S

\* Every level of the descent is the paths with a node that many levels below the root.
LEMMA DescentIsUnder ==
  ASSUME NEW tree, IsTree(tree), NEW root \in Path, NEW names, NEW anchor,
         anchor = Level(tree, root, names, 0),
         NEW f, NEW m \in Nat, Descends(tree, names, anchor, f, m)
  PROVE  \A k \in 0..m : f[k] = Level(tree, root, names, k)
<1> DEFINE Deeper(at) == UNION {Below(tree, names, p) : p \in at}
           S == {k \in Nat : k <= m => f[k] = Level(tree, root, names, k)}
<1>0. f = [j \in 0..m |-> IF j = 0 THEN anchor ELSE Deeper(f[j - 1])]
  BY DEF Descends
<1>1. 0 \in S
  BY <1>0
<1>2. ASSUME NEW k \in Nat, k \in S PROVE k + 1 \in S
  <2> SUFFICES ASSUME k + 1 <= m PROVE f[k + 1] = Level(tree, root, names, k + 1)
    OBVIOUS
  <2>1. f[k] = Level(tree, root, names, k)
    BY <1>2
  <2>2. Deeper(f[k]) = Level(tree, root, names, k + 1)
    BY <2>1, DescentStep
  <2>3. k + 1 \in 0..m /\ k + 1 # 0 /\ (k + 1) - 1 = k
    OBVIOUS
  <2> HIDE DEF Deeper
  <2>4. f[k + 1] = Deeper(f[k])
    BY <1>0, <2>3
  <2> QED
    BY <2>2, <2>4
<1> HIDE DEF S
<1>3. Nat \subseteq S
  BY <1>1, <1>2, ChainP!NatSetInduction
<1> QED
  BY <1>3 DEF S

\* The anchor of a descent is its root, if the root has a node.
LEMMA AnchorIsRoot ==
  ASSUME NEW tree, IsTree(tree), NEW root \in Path, root # << >>, NEW names
  PROVE  {[id |-> n, path |-> root] : n \in Children(tree, ResolveId(tree, Front(root)), Last(root))}
           = Level(tree, root, names, 0)
<1> DEFINE above == ResolveId(tree, Front(root))
           s == Last(root)
           id == ResolveId(tree, root)
<1>1. Front(root) \in Path /\ s \in AddressStep /\ root = Append(Front(root), s)
  BY LastLevel
<1>2. id = Hop(above, s, tree)
  BY <1>1, ResolveAppend
<1>3. above \in Id(tree) \cup {None}
  BY <1>1, ResolveType
<1> HIDE DEF above, s
<1>4. Children(tree, above, s) = IF id = None THEN {} ELSE {id}
  <2>1. CASE above = None
    <3>1. Children(tree, above, s) = {}
      <4>1. \A n \in DOMAIN tree : tree[n].parent # None
        BY NodeIsChild, RowSentinelAssumption DEF Id
      <4> QED
        BY <2>1, <4>1 DEF Children
    <3>2. id = None
      BY <1>2, <2>1 DEF Hop
    <3> QED
      BY <3>1, <3>2
  <2>2. CASE above \in Id(tree)
    <3>1. CASE Children(tree, above, s) = {}
      BY <1>2, <3>1 DEF Hop
    <3>2. CASE Children(tree, above, s) # {}
      <4>1. PICK n : n \in Children(tree, above, s)
        BY <3>2
      <4>2. Children(tree, above, s) = {n} /\ id = n /\ n # None
        BY <1>1, <1>2, <2>2, <4>1, ChildrenAreNodes, HopFinds, RowSentinelAssumption DEF Id
      <4> QED
        BY <4>2
    <3> QED
      BY <3>1, <3>2
  <2> QED
    BY <1>3, <2>1, <2>2
<1>5. Under(tree, root, names, 0) = IF id = None THEN {} ELSE {root}
  <2>1. Len(root) \in Nat /\ SubSeq(root, 1, Len(root)) = root
        /\ \A p \in Path : Len(p) \in Nat
    BY DEF Path
  <2>2. ASSUME NEW p \in Under(tree, root, names, 0) PROVE p = root /\ id # None
    <3>1. p \in Path /\ Len(p) = Len(root) /\ SubSeq(p, 1, Len(root)) = root
          /\ ResolveId(tree, p) # None
      BY <2>1 DEF Under, Along
    <3>2. SubSeq(p, 1, Len(p)) = p
      BY <3>1 DEF Path
    <3> QED
      BY <3>1, <3>2
  <2>3. id # None => root \in Under(tree, root, names, 0)
    BY <2>1 DEF Under, Along
  <2> QED
    BY <2>2, <2>3
<1> QED
  BY <1>4, <1>5 DEF Level, above, s

\* A subtree scan lists the rows strictly below the root, through the named levels.
LEMMA SubtreeIsTheRows ==
  ASSUME NEW tree, IsTable(tree), NEW root \in Path, root # << >>, NEW names
  PROVE  ScanSubtree(tree, root, names)
           = {<<a, RowAt(tree, a)>> :
                a \in {b \in Addr : /\ Len(b) > Len(root) /\ Along(root, names, b)
                                    /\ RowAt(tree, b) # None}}
<1> DEFINE anchor == {[id |-> n, path |-> root] :
                        n \in Children(tree, ResolveId(tree, Front(root)), Last(root))}
           f == CHOOSE f : Descends(tree, names, anchor, f, Len(tree))
           found == {q \in UNION {f[k] : k \in 1..Len(tree)} : tree[q.id].row # None}
           rows == {b \in Addr : /\ Len(b) > Len(root) /\ Along(root, names, b)
                                 /\ RowAt(tree, b) # None}
<1>0. IsTree(tree) /\ Len(tree) \in Nat /\ Len(root) \in Nat /\ None \notin Nat
  BY RowSentinelAssumption DEF IsTable, IsTree, Path
<1>1. Descends(tree, names, anchor, f, Len(tree))
  BY <1>0, DescentExists
<1>2. ScanSubtree(tree, root, names) = {<<p.path, tree[p.id].row>> : p \in found}
  BY DEF ScanSubtree, Descends, Below, StepOf
<1>3. anchor = Level(tree, root, names, 0)
  BY <1>0, AnchorIsRoot
<1> HIDE DEF anchor, f
<1>4. \A k \in 0..Len(tree) : f[k] = Level(tree, root, names, k)
  BY <1>0, <1>1, <1>3, DescentIsUnder
<1>5. ASSUME NEW q \in found
      PROVE  \E a \in rows : q.path = a /\ tree[q.id].row = RowAt(tree, a)
  <2>1. PICK k \in 1..Len(tree) : q \in f[k] /\ tree[q.id].row # None
    OBVIOUS
  <2>2. PICK p \in Under(tree, root, names, k) : q = [id |-> ResolveId(tree, p), path |-> p]
    BY <1>0, <1>4, <2>1 DEF Level
  <2>3. p \in Path /\ Len(p) = Len(root) + k /\ Along(root, names, p)
        /\ ResolveId(tree, p) # None /\ q.path = p /\ q.id = ResolveId(tree, p)
    BY <2>2 DEF Under
  <2>4. ResolveId(tree, p) # 0
    <3>1. p # << >>
      BY <1>0, <2>1, <2>3
    <3> QED
      BY <1>0, <2>3, <3>1, ResolveType
  <2>5. ResolveId(tree, p) \in DOMAIN tree
    BY <1>0, <2>3, <2>4, ResolveType DEF Id, IsTree
  <2>6. q.id \in Live(tree)
    BY <2>1, <2>3, <2>5 DEF Live
  <2>7. PICK a \in Addr : a \in Path /\ ResolveId(tree, a) = q.id /\ RowAt(tree, a) = tree[q.id].row
                            /\ RowAt(tree, a) # None
    BY <2>6, LiveNodes
  <2>8. a = p
    BY <1>0, <2>3, <2>7, PathsAreUnique
  <2>9. Len(p) > Len(root)
    BY <1>0, <2>1, <2>3
  <2> QED
    BY <2>3, <2>7, <2>8, <2>9
<1>6. ASSUME NEW a \in rows
      PROVE  \E q \in found : q.path = a /\ tree[q.id].row = RowAt(tree, a)
  <2> DEFINE k == Len(a) - Len(root)
             id == ResolveId(tree, a)
             q == [id |-> id, path |-> a]
  <2>1. a \in Addr /\ a \in Path /\ id \in Live(tree) /\ RowAt(tree, a) = tree[id].row
        /\ RowAt(tree, a) # None
    BY LiveAddress
  <2>2. id # None /\ id \in 1..Len(tree) /\ Len(a) \in Nat
    BY <1>0, <2>1 DEF Live, IsTree, RowAt, Path
  <2>3. Len(a) <= id
    BY <1>0, <2>1, <2>2, DepthBound
  <2>4. k \in 1..Len(tree) /\ Len(a) = Len(root) + k
    BY <1>0, <2>2, <2>3
  <2> HIDE DEF k, id
  <2>5. a \in Under(tree, root, names, k)
    BY <2>1, <2>2, <2>4 DEF Under, id
  <2>6. q \in f[k]
    BY <1>0, <1>4, <2>4, <2>5 DEF Level, id
  <2>7. q.path = a /\ q.id = id
    OBVIOUS
  <2> HIDE DEF q
  <2>8. q \in found
    BY <2>1, <2>4, <2>6, <2>7
  <2> QED
    BY <2>1, <2>7, <2>8
<1> DEFINE pair(q) == <<q.path, tree[q.id].row>>
           row(a) == <<a, RowAt(tree, a)>>
<1> HIDE DEF found, rows
<1>7. /\ \A q \in found : \E a \in rows : pair(q) = row(a)
      /\ \A a \in rows : \E q \in found : pair(q) = row(a)
  BY <1>5, <1>6
<1>8. ScanSubtree(tree, root, names) = {pair(q) : q \in found}
  BY <1>2
<1> HIDE DEF pair, row
<1>9. {pair(q) : q \in found} = {row(a) : a \in rows}
  BY <1>7
<1> QED
  BY <1>8, <1>9 DEF rows, row

\* Between transitions both scans see exactly the rows the reference's flat map lists,
\* whatever became of the nodes in between.
THEOREM ScansSeeTheRows == Spec => []ScansMatchReference
<1>1. PgInv => ScansMatchReference
  <2> SUFFICES ASSUME PgInv PROVE ScansMatchReference
    OBVIOUS
  <2>1. IsTable(nodes) /\ \A a \in Addr : TreeRows[a] = RowAt(nodes, a)
    BY DEF PgInv, PgTypes, TreeRows
  <2>2. \A a \in Addr : a \in Path /\ a # << >> /\ Front(a) \in Path
    BY AddressAssumption, LastLevel DEF Path
  <2>3. ASSUME NEW parent \in {Front(a) : a \in Addr}, NEW name
        PROVE  Scan(nodes, parent, name)
                 = LiveAt({a \in Addr : Front(a) = parent /\ Last(a).name = name})
    <3>1. parent \in Path
      BY <2>2
    <3>2. Scan(nodes, parent, name)
            = {<<a, RowAt(nodes, a)>> : a \in {b \in Addr : /\ Front(b) = parent /\ Last(b).name = name
                                                            /\ RowAt(nodes, b) # None}}
      BY <2>1, <3>1, ScanIsTheRows
    <3> QED
      BY <2>1, <3>2 DEF LiveAt
  <2>4. ASSUME NEW root \in Addr, NEW names
        PROVE  ScanSubtree(nodes, root, names)
                 = LiveAt({a \in Addr : /\ Len(a) > Len(root) /\ SubSeq(a, 1, Len(root)) = root
                                        /\ \A i \in Len(root) + 1..Len(a) : a[i].name \in names})
    <3>1. ScanSubtree(nodes, root, names)
            = {<<a, RowAt(nodes, a)>> : a \in {b \in Addr : /\ Len(b) > Len(root) /\ Along(root, names, b)
                                                            /\ RowAt(nodes, b) # None}}
      BY <2>1, <2>2, SubtreeIsTheRows
    <3> QED
      BY <2>1, <3>1 DEF LiveAt, Along
  <2> QED
    BY <2>3, <2>4 DEF ScansMatchReference
<1> QED
  BY <1>1, PgInvariant, PTL
=============================================================================
