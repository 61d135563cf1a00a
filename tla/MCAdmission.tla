---------------------------- MODULE MCAdmission ----------------------------
(***************************************************************************)
(* Admission for TLC: five small packages over the collections companies,  *)
(* companies/offices and accounts, one for each family of $on_delete       *)
(* policies and one with a nested target and a $check over the children.   *)
(* Beside it, the reference store over a few opaque addresses (Store): a   *)
(* run steps in one of the two.                                            *)
(***************************************************************************)
EXTENDS Admission, Store, TLC

CONSTANTS CompanyKey, OfficeKey, AccountKey,
          MaxSeedRows   \* bound: rows of the state the first call finds

MCLevel == [name : {"companies", "offices", "accounts"},
            key : {<<k>> : k \in CompanyKey \cup OfficeKey \cup AccountKey}]
At(name, k) == [name |-> name, key |-> <<k>>]
Companies == {<<At("companies", k)>> : k \in CompanyKey}
Offices == {<<At("companies", k), At("offices", o)>> : k \in CompanyKey, o \in OfficeKey}
Accounts == {<<At("accounts", k)>> : k \in AccountKey}

Optional(s) == {Nil} \cup s
Ref(kind, policy) == [kind |-> kind, optional |-> TRUE, policy |-> policy]

\* A collection keyed by `id` with these references, checks and unique groups; every field
\* may be written.
Collection(keys, refs, data, fields, unique, checks) ==
  [key |-> <<"id">>, refs |-> refs, unique |-> unique, checks |-> checks, data |-> data,
   writes |-> [{"id"} -> keys] \cup UNION {[{f} -> {d[f] : d \in data}] : f \in fields}]

Bare(keys, checks) == Collection(keys, << >>, {<< >>}, {}, {}, checks)

Flat(accounts) ==
  [d \in {<<"companies">>, <<"accounts">>} |->
     IF d = <<"companies">> THEN Bare(CompanyKey, {}) ELSE accounts]

\* An account is inserted with at most one of its two references; a write may add the other.
Employment(employer, manager, unique) ==
  Flat(Collection(AccountKey,
         [employer |-> Ref("scalar", employer), manager |-> Ref("scalar", manager)],
         {d \in [employer : Optional(Companies), manager : Optional(Accounts)] :
            Nil \in {d.employer, d.manager}},
         {"employer", "manager"}, unique, {}))

Cascading == Employment("cascade", "cascade", {})
Guarding == Employment("restrict", "clear", {{"manager"}})
Memberships(kind, policy, manager) ==
  Flat(Collection(AccountKey,
         [employers |-> Ref(kind, policy), manager |-> Ref("scalar", manager)],
         {d \in [employers : SUBSET Companies, manager : Optional(Accounts)] :
            d.employers = {} \/ d.manager = Nil},
         {"employers", "manager"}, {}, {}))

Repairing == Memberships("set", "cascade", "patch")
InStructs == Memberships("struct_set", "clear", "undecided")

Nesting ==
  [d \in {<<"companies">>, <<"companies", "offices">>, <<"accounts">>} |->
     CASE d = <<"companies">> -> Bare(CompanyKey, {"has one office"})
       [] d = <<"companies", "offices">> -> Bare(OfficeKey, {})
       [] d = <<"accounts">> ->
            Collection(AccountKey, [desk |-> Ref("scalar", "restrict")],
                       [desk : Optional(Offices)], {"desk"}, {}, {})]

Packages == {Cascading, Guarding, Repairing, InStructs, Nesting}

MCAddress(s) == {a \in Companies \cup Offices \cup Accounts : Decl(a) \in DOMAIN s}

\* Row sets over a few addresses, built one collection at a time.
MCSeeds(s) ==
  LET Over(batch) ==
        {c @@ o @@ a : c \in RowSets(s, batch \cap Companies),
                       o \in RowSets(s, batch \cap Offices),
                       a \in RowSets(s, batch \cap Accounts)}
  IN  UNION {Over(b) : b \in {x \in SUBSET MCAddress(s) : Cardinality(x) <= MaxSeedRows}}

\* An account whose manager is deleted reports to that manager's manager.
MCPatchOf(f, row, target) == {<<f, target[f]>>}

MCCheckPasses(check, rows, a) ==
  check = "has one office" => Cardinality({b \in DOMAIN rows : IsUnder(b, a)}) = 1

-----------------------------------------------------------------------------
\* A call, beside a store without commits; or a step of the store, beside no rows.
Admitting == Init /\ CallsNext /\ UNCHANGED vars
NoRows == committed = <<>> /\ admitted = 0 /\ ~open /\ schema = Cascading
Storing == NoRows /\ Next /\ UNCHANGED engineVars

AdmissionInit == CallsInit /\ Init
AdmissionNext == Admitting \/ Storing
AdmissionSpec == AdmissionInit /\ [][AdmissionNext]_<<engineVars, vars>>

BesideTheRows ==
  \/ {staged_definition, definition, staged_composition, composition} # {None}
  \/ \E p \in Point : points[p] # None
  \/ blobs # {}

\* Three store commits deep over rows alone; once there is a definition, a composition,
\* a point or a blob, two.
StoreDepth == BesideTheRows => head <= 1

\* The opaque addresses of the store are the account keys, so that one symmetry serves both.
KeySymmetry == Permutations(CompanyKey) \cup Permutations(OfficeKey) \cup Permutations(AccountKey)
=============================================================================
