----------------------------- MODULE Migration -----------------------------
(***************************************************************************)
(* liasse-runtime migrate.rs, with merge_bundle and the apply-if-absent    *)
(* seed of seed.rs: Engine::update carries the rows of one collection to   *)
(* another release of the package, in one atomic commit or not at all.     *)
(*                                                                         *)
(* The key of a row is an enum label.  A stored key carries the position   *)
(* of its label in the release that wrote it, as EnumValue does, so a      *)
(* release that declares the labels in another order moves every row to    *)
(* another address.  A row has scalar fields and one reference to a row of *)
(* the same collection.  A release says what a definition says: its        *)
(* version, the labels in order, the scalar fields with the values their   *)
(* type represents, the mappings ($from, $as, $back), the programs by      *)
(* source version, the seed and the bundle.                                *)
(***************************************************************************)
EXTENDS Naturals, FiniteSets
LOCAL INSTANCE SequencesExt

CONSTANTS Label, Value, None,
          Release,      \* names of the releases
          Package,      \* release -> what its definition declares
          Narrowing,    \* pairs of releases of which the second narrows a
                        \* boundary contract of the first
          MaxCalls      \* bound on ordinary commits

VARIABLES active,       \* the release in force
          rows,         \* address -> row
          calls,        \* ordinary commits so far
          origin        \* what the last step was: a call, or the update it took

vars == <<active, rows, calls, origin>>

Fields(release) == DOMAIN Package[release].fields
RefField == "ref"

(* EnumType::parse: the position of a label in its declaration             *)
AddressUnder(release, label) ==
  <<CHOOSE i \in DOMAIN Package[release].labels : Package[release].labels[i] = label, label>>

Declares(release, label) == \E i \in DOMAIN Package[release].labels :
                              Package[release].labels[i] = label
Labels(release) == {l \in Label : Declares(release, l)}

NoRows == [a \in {} |-> None]
Without(f, k) == [a \in DOMAIN f \ {k} |-> f[a]]
With(f, k, v) == [a \in DOMAIN f \cup {k} |-> IF a = k THEN v ELSE f[a]]
Read(row, field) == IF field \in DOMAIN row THEN row[field] ELSE None

----------------------------------------------------------------------------
(* The plan                                                                *)

Mapping(release) == Package[release].mapping

(* downgrade_plan: the target's mappings, and the inverses the active      *)
(* release declared for the fields the target does not map itself          *)
DowngradePlan(current, target) ==
  LET inverses == {f \in DOMAIN Mapping(current) : Mapping(current)[f].back # None}
      undone == {Mapping(current)[f].from : f \in inverses} IN
  [g \in DOMAIN Mapping(target) \cup undone |->
     IF g \in DOMAIN Mapping(target) THEN Mapping(target)[g]
     ELSE LET f == CHOOSE f \in inverses : Mapping(current)[f].from = g IN
          [from |-> f, as |-> Mapping(current)[f].back, back |-> None]]

Older(a, b) == Package[a].version < Package[b].version

Plan(current, target) ==
  IF Older(target, current) THEN DowngradePlan(current, target) ELSE Mapping(target)

(* connected_delta_path: no declared source strictly between the versions  *)
ConnectedDeltaPath(current, target) ==
  \A key \in DOMAIN Package[target].programs :
    ~ \/ Package[current].version < key /\ key < Package[target].version
      \/ Package[target].version < key /\ key < Package[current].version

(* requires_non_narrowing: a forward move of the same major, or a republish *)
RequiresNonNarrowing(current, target) ==
  Package[current].major = Package[target].major /\ ~Older(target, current)

(* A mutant: a downgrade that forgets the values nobody maps               *)
DroppingIsRepresentable(current, plan, target) == TRUE

(* downgrade_representable: a populated field is kept or some mapping      *)
(* reads it                                                                *)
DowngradeRepresentable(current, plan, target) ==
  \A f \in Fields(current) :
    (\E a \in DOMAIN rows : Read(rows[a], f) # None)
      => f \in Fields(target) \/ \E g \in DOMAIN plan : plan[g].from = f

----------------------------------------------------------------------------
(* The migrated rows                                                       *)

(* map_row: a mapped field is the transform of its source, any other a     *)
(* copy of the field of the same name                                      *)
MapRow(plan, target, row) ==
  [f \in Fields(target) \cup {RefField} |->
     IF f \in DOMAIN plan
     THEN LET source == Read(row, plan[f].from) IN
          IF source = None \/ plan[f].as = None THEN source ELSE plan[f].as[source]
     ELSE Read(row, f)]

(* map_row's own refusals: a $from that names no source field, and a       *)
(* round trip $back($as(x)) that does not give x back                      *)
MapRowFits(plan, current, target, row) ==
  \A f \in DOMAIN plan \cap Fields(target) :
    /\ plan[f].from \in Fields(current)
    /\ LET source == Read(row, plan[f].from) IN
       (source # None /\ plan[f].as # None /\ plan[f].back # None)
         => plan[f].back[plan[f].as[source]] = source

(* apply_defaults                                                          *)
Defaulted(target, row) ==
  [f \in DOMAIN row |-> IF f # RefField /\ row[f] = None THEN Package[target].default[f] ELSE row[f]]

Writes(current, target) ==
  LET version == Package[current].version IN
  IF version \in DOMAIN Package[target].programs THEN Package[target].programs[version] ELSE <<>>

(* run_program: the statements keyed to the active version; each sets a    *)
(* field of every row from a field of $old                                 *)
RunProgram(current, target, staged) ==
  LET write(staging, w) ==
        [a \in DOMAIN staging |-> [staging[a] EXCEPT ![w.field] = Read(rows[a], w.old)]] IN
  FoldLeft(write, staged, Writes(current, target))

(* coerce_and_require: every value must decode under the target's type and *)
(* a required field must hold one; references are left as they are.  The   *)
(* label of a key that the target dropped does not decode                  *)
CoercesTo(target, row) ==
  \A f \in Fields(target) :
    \/ row[f] \in Package[target].fields[f]
    \/ row[f] = None /\ f \notin Package[target].required

(* rewrite_inbound_refs_across                                             *)
RewriteInbound(table, old, new) ==
  [a \in DOMAIN table |->
     IF table[a][RefField] = old THEN [table[a] EXCEPT ![RefField] = new] ELSE table[a]]

(* A mutant: a key whose text still decodes keeps the position it had      *)
StaleRelocations(target, table) == {}

Relocations(target, table) ==
  {a \in DOMAIN table : Declares(target, a[2]) /\ AddressUnder(target, a[2]) # a}

Relocate(target, table) ==
  LET moving == Relocations(target, table)
      moved == {AddressUnder(target, a[2]) : a \in moving}
      old(new) == CHOOSE a \in moving : AddressUnder(target, a[2]) = new IN
  [a \in (DOMAIN table \ moving) \cup moved |->
     IF a \in moved THEN table[old(a)] ELSE table[a]]

(* rekey_coerced: all rows that move are detached, then put back, and only *)
(* then the references to each are rewritten                               *)
RekeyCoerced(target, table) ==
  LET moving == Relocations(target, table)
      rewrite(a, t) == RewriteInbound(t, a, AddressUnder(target, a[2])) IN
  FoldSet(rewrite, Relocate(target, table), moving)

----------------------------------------------------------------------------
(* Seed and bundle.  Both give labels rows of some of their fields.        *)

(* stage_rows and phase two of admit under ApplyIfAbsent                   *)
AdmitAbsent(target, supplied, table) ==
  LET fresh == {AddressUnder(target, l) : l \in DOMAIN supplied} \ DOMAIN table
      row(label) == [f \in Fields(target) \cup {RefField} |-> Read(supplied[label], f)] IN
  [a \in DOMAIN table \cup fresh |->
     IF a \in DOMAIN table THEN table[a] ELSE Defaulted(target, row(a[2]))]

(* decode_bundle_rows: what the target can read of a bundle                *)
BundledRow(target, bundle, label) ==
  [f \in (Fields(target) \cup {RefField}) \cap DOMAIN bundle[label] |-> bundle[label][f]]

Bundle(release) == IF Package[release].bundle = None THEN NoRows ELSE Package[release].bundle

(* merge_row_fields: a bundled value applies where the current one still   *)
(* is the old bundle's                                                     *)
MergeRowFields(current, old, new) ==
  [f \in DOMAIN current |->
     IF f \in DOMAIN new /\ current[f] = Read(old, f) THEN new[f] ELSE current[f]]

(* The stored row is exactly the bundled one, a field it leaves out absent *)
Untouched(row, bundled) == \A f \in DOMAIN row : row[f] = Read(bundled, f)

(* merge_bundle: insert what is absent, merge what both bundles or the     *)
(* state have, drop what the new bundle dropped and nobody changed         *)
MergeBundle(current, target, table) ==
  IF Package[target].bundle = None THEN table
  ELSE LET new == Bundle(target)
           old == Bundle(current)
           admitted == AdmitAbsent(target, new, table)
           was(label) == IF label \in DOMAIN old THEN BundledRow(target, old, label) ELSE NoRows
           merged == [a \in DOMAIN admitted |->
                        IF a[2] \in DOMAIN new
                        THEN MergeRowFields(admitted[a], was(a[2]), BundledRow(target, new, a[2]))
                        ELSE admitted[a]]
           dropped == {a \in DOMAIN merged : /\ a[2] \in DOMAIN old \ DOMAIN new
                                             /\ Untouched(merged[a], was(a[2]))} IN
       [a \in DOMAIN merged \ dropped |-> merged[a]]

(* The old bundle is read under the target too, so its labels must decode  *)
BundlesDecode(current, target) ==
  Package[target].bundle # None => DOMAIN Bundle(current) \subseteq Labels(target)

(* rules::finalize over every row: references resolve                      *)
ReferencesResolve(table) == \A a \in DOMAIN table : table[a][RefField] \in DOMAIN table \cup {None}

----------------------------------------------------------------------------
Genesis(release) ==
  AdmitAbsent(release, Bundle(release), AdmitAbsent(release, Package[release].seed, NoRows))

Init ==
  /\ active \in Release
  /\ rows = Genesis(active)
  /\ calls = 0
  /\ origin = "genesis"

Calling(table) ==
  /\ calls < MaxCalls
  /\ rows' = table /\ calls' = calls + 1 /\ origin' = "call"
  /\ UNCHANGED active

(* Engine::call, as far as this module needs it: any commit the rules of   *)
(* the release in force admit                                              *)
CallInsert(label, value) ==
  /\ AddressUnder(active, label) \notin DOMAIN rows
  /\ LET row == [f \in Fields(active) \cup {RefField} |->
                  IF f # RefField /\ value \in Package[active].fields[f] THEN value ELSE None] IN
     /\ CoercesTo(active, row)
     /\ Calling(With(rows, AddressUnder(active, label), row))

CallWrite(a, field, value) ==
  /\ value \in Package[active].fields[field] /\ rows[a][field] # value
  /\ Calling([rows EXCEPT ![a][field] = value])

CallPoint(a, b) ==
  /\ rows[a][RefField] # b
  /\ Calling([rows EXCEPT ![a][RefField] = b])

CallDelete(a) ==
  /\ \A b \in DOMAIN rows \ {a} : rows[b][RefField] # a
  /\ Calling(Without(rows, a))

(* build_migrated up to the bundle: copy, mappings, defaults, the program, *)
(* the rekey that coercion causes, the seed                                *)
Staged(current, target) ==
  LET plan == Plan(current, target)
      copied == [a \in DOMAIN rows |-> Defaulted(target, MapRow(plan, target, rows[a]))] IN
  RunProgram(current, target, copied)

(* Engine::update, with apply_migration.  A refusal changes nothing, so it *)
(* is no step                                                              *)
Update(target) ==
  /\ ConnectedDeltaPath(active, target)
  /\ RequiresNonNarrowing(active, target) => <<active, target>> \notin Narrowing
  /\ LET plan == Plan(active, target)
         staged == Staged(active, target)
         rekeyed == RekeyCoerced(target, staged)
         seeded == AdmitAbsent(target, Package[target].seed, rekeyed)
         final == MergeBundle(active, target, seeded) IN
     /\ Older(target, active) => DowngradeRepresentable(active, plan, target)
     /\ \A a \in DOMAIN rows : MapRowFits(plan, active, target, rows[a])
     /\ \A a \in DOMAIN staged : Declares(target, a[2]) /\ CoercesTo(target, staged[a])
     /\ BundlesDecode(active, target)
     /\ ReferencesResolve(final)
     /\ rows' = final
  /\ active' = target
  /\ origin' = "update"
  /\ UNCHANGED calls

Next ==
  \/ \E l \in Labels(active), v \in Value : CallInsert(l, v)
  \/ \E a \in DOMAIN rows, v \in Value : \E f \in Fields(active) : CallWrite(a, f, v)
  \/ \E a \in DOMAIN rows : \E b \in DOMAIN rows \cup {None} : CallPoint(a, b)
  \/ \E a \in DOMAIN rows : CallDelete(a)
  \/ \E r \in Release : Update(r)

Spec == Init /\ [][Next]_vars

----------------------------------------------------------------------------
(* Properties                                                              *)

(* Whatever releases came before, the committed rows are rows of the one   *)
(* in force: every key is written with its current position, every value   *)
(* is of its type, required fields hold one, references resolve.           *)
RowsFitTheRelease ==
  /\ \A a \in DOMAIN rows : /\ Declares(active, a[2]) /\ a = AddressUnder(active, a[2])
                            /\ CoercesTo(active, rows[a])
  /\ ReferencesResolve(rows)

Row(table, label) == table[CHOOSE a \in DOMAIN table : a[2] = label]
Present(table, label) == \E a \in DOMAIN table : a[2] = label
Updating == origin' = "update"

Written(current, target, field) ==
  \E i \in DOMAIN Writes(current, target) : Writes(current, target)[i].field = field

StillBundled(a, field) ==
  /\ a[2] \in DOMAIN Bundle(active)
  /\ rows[a][field] = Read(Bundle(active)[a[2]], field)

MadeFrom(mapping, row) ==
  LET source == Read(row, mapping.from) IN
  IF source = None \/ mapping.as = None THEN source ELSE mapping.as[source]

(* merge_bundle: a row leaves only as it was bundled, and a copied field   *)
(* whose value is not the old bundle's keeps it.                           *)
KeepsLocalChanges ==
  \A a \in DOMAIN rows :
    LET old == IF a[2] \in DOMAIN Bundle(active) THEN Bundle(active)[a[2]] ELSE NoRows
        copied == {f \in Fields(active) \cap Fields(active') :
                     f \notin DOMAIN Plan(active, active') /\ ~Written(active, active', f)} IN
    /\ ~Present(rows', a[2]) => \A f \in copied : rows[a][f] \in {Read(old, f), None}
    /\ Present(rows', a[2]) => \A f \in copied :
         rows[a][f] \in {Read(old, f), None, Row(rows', a[2])[f]}

(* downgrade_representable and SPEC 20.2: "a downgrade never loses data    *)
(* silently".  Every value a downgrade finds, unless it is still the       *)
(* bundle's, is there afterwards under its own name, or as the value its   *)
(* release had made it from.                                               *)
LosesNothing ==
  \A a \in DOMAIN rows : \A f \in Fields(active) :
    (rows[a][f] # None /\ ~StillBundled(a, f)) =>
      /\ Present(rows', a[2])
      /\ LET row == Row(rows', a[2]) IN
         \/ f \in Fields(active') /\ row[f] = rows[a][f]
         \/ /\ f \in DOMAIN Mapping(active)
            /\ MadeFrom(Mapping(active)[f], row) = rows[a][f]

(* What was changed locally outlives an update (seed.rs merge_row_fields), *)
(* and a downgrade, which is an update to an older release, loses nothing  *)
(* at all (migrate.rs downgrade_representable).                            *)
UpdatesKeepLocalChanges ==
  [][Updating => KeepsLocalChanges /\ (Older(active', active) => LosesNothing)]_vars
=============================================================================
