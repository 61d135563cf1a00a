----------------------------- MODULE MCInstance -----------------------------
(***************************************************************************)
(* What becomes of whole instances: their movements between exports and    *)
(* restores (Lineage), the merge of two of them (Reconcile), the release   *)
(* they run (Migration), the instances composed under one root (Modules);  *)
(* and the facts an engine keeps beside its rows: meters, keyrings and     *)
(* blobs.  They share no state, so a run steps in one of them, whichever   *)
(* it starts in.                                                           *)
(*                                                                         *)
(* Migration runs three releases of one package: the second declares the   *)
(* labels in another order, maps `code` from `name` through an involution, *)
(* and changes the bundle; the third drops a label.  Modules has a package *)
(* `people` in four releases that widen, pass through or replace what they *)
(* expose, and three that use it or one another.  The pools of key 1 stop  *)
(* being active at 1, those of key 2 never do within the bounds.  Blobs    *)
(* has three stores, on connectors of their own or two of them on one, and *)
(* one may be disabled; c1 and c2 deliver what they hold, the file store   *)
(* c3 checks it first.                                                     *)
(***************************************************************************)
EXTENDS Integers, Lineage, Reconcile, Keyring, Modules, TLC

CONSTANTS Label, Scalar, Release, MaxCalls, lo, mid, hi, x, y, one, two, three
VARIABLES active, rows, calls, origin
releaseVars == <<active, rows, calls, origin>>

Swap == (x :> y @@ y :> x)

First == [version |-> 10, major |-> 1, labels |-> <<lo, hi>>,
          fields |-> [name |-> {x, y}, note |-> {x, y}], required |-> {"name"},
          default |-> [name |-> None, note |-> None],
          mapping |-> <<>>, programs |-> <<>>,
          seed |-> <<>>, bundle |-> (lo :> [name |-> x, note |-> x])]

Second == [version |-> 20, major |-> 2, labels |-> <<hi, lo, mid>>,
           fields |-> [code |-> {x, y}, note |-> {x, y}, extra |-> {x}],
           required |-> {"code"},
           default |-> [code |-> x, note |-> None, extra |-> None],
           mapping |-> [code |-> [from |-> "name", as |-> Swap, back |-> Swap]],
           programs |-> <<>>,
           seed |-> (hi :> [code |-> x]), bundle |-> (lo :> [code |-> y, note |-> y])]

Third == [version |-> 21, major |-> 2, labels |-> <<hi, lo>>,
          fields |-> [code |-> {x, y}, note |-> {x}], required |-> {"code"},
          default |-> [code |-> x, note |-> None],
          mapping |-> <<>>,
          programs |-> (20 :> <<[field |-> "note", old |-> "extra"]>>),
          seed |-> <<>>, bundle |-> (hi :> [code |-> y])]

Releases == (one :> First @@ two :> Second @@ three :> Third)

M == INSTANCE Migration WITH Value <- Scalar, Package <- Releases, Narrowing <- {<<two, two>>}

CONSTANTS people1, people2, people3, people4, sales, shop, mall, id, label, num, text, uses, catalog,
          peer, firm, board, add, drop, person

MCPackage == {people1, people2, people3, people4, sales, shop, mall}
MCLine(p) == IF p \in {sales, shop, mall} THEN p ELSE people1
MCVersion(p) ==
  CASE p = people4 -> <<2, 0, 0>> [] p \in {people2, people3} -> <<1, 1, 0>> [] OTHER -> <<1, 0, 0>>
MCView(p, i) ==
  CASE i = uses /\ p = people1 -> {<<id, num>>}
    [] i = uses /\ p = people2 -> {<<id, num>>, <<label, text>>}
    [] i = uses /\ p = people3 -> {<<id, text>>, <<label, text>>}
    [] i \in {uses, catalog} /\ p = people4 -> {<<label, text>>}
    [] p = sales \/ <<p, i>> = <<shop, catalog>> -> {<<id, num>>}
    [] OTHER -> Nothing
MCPassesThrough(p, i) == p = people3 /\ i = uses
MCBinds(p, i) ==
  CASE MCView(p, i) = Nothing -> Nothing
    [] i = uses /\ p = people1 -> (add :> add)
    [] i = uses /\ p # sales -> (add :> add @@ drop :> drop)
    [] OTHER -> << >>
MCReads(p, i) ==
  CASE i = catalog /\ p = shop -> {peer}
    [] i = catalog /\ p = sales -> {peer, firm}
    [] OTHER -> {}
MCGuard(p, i) == IF i = uses /\ p = sales THEN peer ELSE Nothing
Need(line, i, optional) == [line |-> line, major |-> 1, interface |-> i, optional |-> optional]
MCUses(p) ==
  CASE p = sales -> (peer :> Need(people1, uses, TRUE))
    [] p = shop -> (peer :> Need(people1, uses, FALSE))
    [] p = mall -> (peer :> Need(shop, catalog, FALSE))
    [] OTHER -> << >>
MCParents(p) == IF p = sales THEN (firm :> firm) ELSE << >>

Plain(b) == [base |-> b, labels |-> << >>, optional |-> FALSE]
Maybe(b) == [base |-> b, labels |-> << >>, optional |-> TRUE]
MCContract(i) ==
  IF i = catalog THEN [fields |-> {<<id, num>>}, muts |-> << >>]
  ELSE [fields |-> {}, muts |-> (add :> [params |-> {id, label}, returns |-> (id :> Plain(num))])]

(* `people`, from release to release: a second parameter and a label, one that
   asks for no parameter and tells no order, and a break *)
Member(p) == IF p = people1 THEN (id :> Plain(num)) ELSE (id :> Plain(num) @@ label :> Maybe(text))
Sort(p) == <<[key |-> IF p = people3 THEN Nothing ELSE id, descending |-> TRUE, spelling |-> "sign"]>>
Asked(p) ==
  CASE p = people1 -> (id :> [type |-> Plain(num), defaulted |-> FALSE])
    [] p = people2 -> (id :> [type |-> Plain(num), defaulted |-> FALSE]
                         @@ label :> [type |-> Plain(text), defaulted |-> TRUE])
    [] OTHER -> << >>
MCSurfaces(p) ==
  IF p \notin {people1, people2, people3} THEN << >>
  ELSE board :> [view |-> [members |-> Member(p), leading |-> person, sort |-> Sort(p), params |-> Asked(p)],
                 operations |-> IF p = people1 THEN (add :> add) ELSE (add :> add @@ drop :> drop)]
MCMutations(p) ==
  IF MCLine(p) # people1 THEN << >>
  ELSE (add :> [params |-> (id :> Plain(num) @@ label :> Maybe(text)), receiver |-> Nothing,
                program |-> <<[kind |-> "local", name |-> person, row |-> Member(p)],
                              [kind |-> "return", of |-> person, fields |-> (id :> id)]>>]
        @@ drop :> [params |-> (id :> Plain(num)), receiver |-> Member(p),
                    program |-> <<[kind |-> "return", of |-> ".", fields |-> Nothing]>>])
MCKeys(p) == IF MCLine(p) = people1 THEN (person :> <<<<id, Plain(num)>>>>) ELSE << >>

ASSUME PeersAreInterfaces == NeedsAreInterfaces
ASSUME ExposedViews == ViewsAreExposed

CONSTANTS Company, Account, PoolKey, SpendKey, TwinKey, Quantity, SeedQuantity(_), Amount, Time,
          Until(_), MaxSpendCalls, MaxStatements
VARIABLES pools, spends, twins, accounts, work, serial, spendCalls
meterVars == <<pools, spends, twins, accounts, work, serial, spendCalls>>

ASSUME CompanyIsNoAccount == Company \notin Account
ASSUME QuantitiesAreIntegers == Quantity \subseteq Int
ASSUME AmountsAreNaturals == Amount \subseteq Nat

MCUntil(k) == k
MCSeedQuantity(k) == 1
MCQuantity == {-1, 1, 2}
S == INSTANCE Meters WITH MaxCalls <- MaxSpendCalls, calls <- spendCalls

CONSTANTS Store, Connector, MaxFaults, s1, s2, s3, c1, c2, c3
VARIABLES policy, stores, objects, up, placement, serve, faults
blobVars == <<policy, stores, objects, up, placement, serve, faults>>

On(connector) == [connector |-> connector, enabled |-> TRUE]
StoreRows ==
  {s1 :> On(c1) @@ s2 :> On(c2) @@ s3 :> On(c3),
   s1 :> On(c1) @@ s2 :> On(c2) @@ s3 :> On(c1),
   s1 :> [connector |-> c3, enabled |-> FALSE] @@ s2 :> On(c3) @@ s3 :> On(c3)}
Checks(c) == c = c3
Policies ==
  {[plan |-> <<"any", <<<<"view", <<s1, s2>>>>, <<"view", <<s3>>>>>>>>, serve |-> <<s2>>],
   [plan |-> <<"all", <<<<"copies", 1, <<s1, s2>>>>, <<"view", <<s3>>>>>>>>, serve |-> <<>>],
   [plan |-> <<"copies", 2, <<s3, s1, s2>>>>, serve |-> <<s1>>]}
B == INSTANCE Blobs

-----------------------------------------------------------------------------
(* The initial state a part keeps while another one steps *)
MovingRests == Init
MergingRests == SidesInit /\ base = [a \in Address |-> Absent]
MigratingRests == M!Init /\ active = one
HostingRests == ModulesInit
SpendingRests == S!Init /\ accounts = {CHOOSE a \in Account : TRUE}
RotatingRests == RingInit /\ mode = "automatic"
PlacingRests ==
  /\ B!Init
  /\ policy = CHOOSE p \in Policies : TRUE
  /\ stores = CHOOSE r \in StoreRows : TRUE

InstancesRest == MovingRests /\ MergingRests /\ MigratingRests /\ HostingRests
FactsRest == SpendingRests /\ RotatingRests /\ PlacingRests
instanceVars == <<vars, sides, releaseVars, hostVars>>
factVars == <<meterVars, ringVars, blobVars>>

InstanceInit ==
  \/ /\ MovingRests /\ HostingRests /\ FactsRest
     /\ \/ SidesInit /\ MigratingRests
        \/ MergingRests /\ M!Init
  \/ /\ InstancesRest
     /\ \/ S!Init /\ RotatingRests /\ PlacingRests
        \/ SpendingRests /\ RingInit /\ PlacingRests
        \/ SpendingRests /\ RotatingRests /\ B!Init

Moving ==
  /\ FactsRest /\ MergingRests /\ MigratingRests /\ HostingRests
  /\ Next
  /\ UNCHANGED <<sides, releaseVars, hostVars, factVars>>
Merging ==
  /\ FactsRest /\ MovingRests /\ MigratingRests /\ HostingRests
  /\ SidesNext
  /\ UNCHANGED <<vars, releaseVars, hostVars, factVars>>
Migrating ==
  /\ FactsRest /\ MovingRests /\ MergingRests /\ HostingRests
  /\ M!Next
  /\ UNCHANGED <<vars, sides, hostVars, factVars>>
Hosting ==
  /\ FactsRest /\ MovingRests /\ MergingRests /\ MigratingRests
  /\ ModulesNext
  /\ UNCHANGED <<vars, sides, releaseVars, factVars>>
Spending ==
  /\ InstancesRest /\ RotatingRests /\ PlacingRests
  /\ S!Next
  /\ UNCHANGED <<instanceVars, ringVars, blobVars>>
Rotating ==
  /\ InstancesRest /\ SpendingRests /\ PlacingRests
  /\ RingNext
  /\ UNCHANGED <<instanceVars, meterVars, blobVars>>
Placing ==
  /\ InstancesRest /\ SpendingRests /\ RotatingRests
  /\ B!Next
  /\ UNCHANGED <<instanceVars, meterVars, ringVars>>

InstanceNext == Moving \/ Merging \/ Migrating \/ Hosting \/ Spending \/ Rotating \/ Placing
InstanceSpec == InstanceInit /\ [][InstanceNext]_<<instanceVars, factVars>>

(* Migration.RowsFitTheRelease (migrate.rs)                                *)
RowsFitTheRelease == M!RowsFitTheRelease

(* Migration.UpdatesKeepLocalChanges (seed.rs merge_row_fields, migrate.rs *)
(* downgrade_representable)                                                *)
UpdatesKeepLocalChanges == M!UpdatesKeepLocalChanges

(* Meters.SpendsAreFundedOnce (meter/admit.rs)                             *)
SpendsAreFundedOnce == S!SpendsAreFundedOnce

(* Meters.BalanceIsTheRemainder                                            *)
BalanceIsTheRemainder == S!BalanceIsTheRemainder

(* Blobs.UnsharedCopiesKeepContent (blobs.rs reconcile)                    *)
UnsharedCopiesKeepContent == B!UnsharedCopiesKeepContent

(* Blobs.RepairNeverLosesContent (blobs.rs copy_and_verify)                *)
RepairNeverLosesContent == B!RepairNeverLosesContent
=============================================================================
