----------------------------- MODULE Contracts -----------------------------
(***************************************************************************)
(* The boundary contract of a release (liasse-runtime contract/): what its *)
(* surfaces promise a client that was written against it, and when a later *)
(* release narrows it.                                                     *)
(*                                                                         *)
(* A package declares its surfaces, its mutations and the keys of its      *)
(* collections.  A type is a base, the labels of an enumeration (none      *)
(* otherwise) and whether it is optional; a row type is a base of its own. *)
(***************************************************************************)
EXTENDS Naturals, Sequences, FiniteSets

CONSTANTS Package,
          Nothing,        \* an absent or unreadable part
          Line(_),        \* the name a package is published under
          VersionOf(_),     \* <<major, minor, patch>>
          Surfaces(_),    \* address -> [view, operations]
          Mutations(_),   \* name -> [params, receiver, program]
          Keys(_)         \* collection -> its key, a sequence of <<name, type>>

Precedes(v, w) == \E k \in 1..3 : v[k] < w[k] /\ \A j \in 1..(k - 1) : v[j] = w[j]

(* CompatibilityDecision: a patch, a minor release and a republished version
   may not narrow; a new major and a downgrade may *)
RequiresNonNarrowing(active, candidate) ==
  /\ Line(candidate) = Line(active)
  /\ VersionOf(candidate)[1] = VersionOf(active)[1]
  /\ ~Precedes(VersionOf(candidate), VersionOf(active))

-----------------------------------------------------------------------------
(* What a release promises *)

Latest(S) == CHOOSE k \in S : \A j \in S : j <= k

(* response_shape: the last return, over the receiver or over the local that
   was last bound to something with a type *)
Response(mutation) ==
  LET program == mutation.program
      at(kind) == {k \in DOMAIN program : program[k].kind = kind}
      last == program[Latest(at("return"))]
      bound == {k \in at("local") : program[k].name = last.of /\ program[k].row # Nothing}
      row == IF last.of = "." THEN mutation.receiver
             ELSE IF bound = {} THEN Nothing ELSE program[Latest(bound)].row
  IN IF at("return") = {} \/ last.fields = Nothing \/ row = Nothing
        \/ \E out \in DOMAIN last.fields : last.fields[out] \notin DOMAIN row
     THEN Nothing
     ELSE [out \in DOMAIN last.fields |-> row[last.fields[out]]]

(* view_ordering: a structured key reverses only where it quotes its direction *)
Ordering(sort) ==
  IF sort = Nothing \/ \E k \in DOMAIN sort : sort[k].key = Nothing THEN Nothing
  ELSE [k \in DOMAIN sort |-> <<sort[k].key, sort[k].descending /\ sort[k].spelling # "bare $dir">>]

(* output_shape, of a view of rows: the rows are those of the collection the
   text of the view begins with *)
Output(p, view) ==
  [members |-> view.members,
   identity |-> IF view.leading \in DOMAIN Keys(p) THEN Keys(p)[view.leading] ELSE Nothing,
   ordering |-> Ordering(view.sort)]

ViewParams(params) ==
  [x \in DOMAIN params |->
     [type |-> params[x].type, required |-> ~params[x].type.optional /\ ~params[x].defaulted]]

CallParams(params) == [x \in DOMAIN params |-> [type |-> params[x], required |-> ~params[x].optional]]

(* surface_operations: a binding that names no mutation promises nothing *)
Operations(p, bindings) ==
  [o \in {o \in DOMAIN bindings : bindings[o] \in DOMAIN Mutations(p)} |->
     LET mutation == Mutations(p)[bindings[o]]
     IN [params |-> CallParams(mutation.params), response |-> Response(mutation)]]

SurfaceContract(p, surface) ==
  LET view == surface.view
  IN [output |-> IF view = Nothing THEN Nothing
                 ELSE IF view.members = Nothing THEN Nothing ELSE Output(p, view),
      params |-> IF view = Nothing THEN << >> ELSE ViewParams(view.params),
      operations |-> Operations(p, surface.operations)]

(* BoundaryContract::extract *)
Promised ==
  [p \in Package |-> [a \in DOMAIN Surfaces(p) |-> SurfaceContract(p, Surfaces(p)[a])]]

-----------------------------------------------------------------------------
(* When a candidate narrows it *)

OutputNarrows(active, cand) ==
  \/ cand.optional /\ ~active.optional
  \/ cand.base # active.base
  \/ cand.labels # active.labels

LabelsOf(type) == {type.labels[k] : k \in DOMAIN type.labels}

InputNarrows(active, cand) ==
  cand.base # active.base \/ ~(LabelsOf(active) \subseteq LabelsOf(cand))

(* identity_narrowing *)
KeyNarrows(active, cand) ==
  \/ DOMAIN cand # DOMAIN active
  \/ \E k \in DOMAIN active : cand[k][1] # active[k][1] \/ OutputNarrows(active[k][2], cand[k][2])

ProjectionNarrows(active, cand) ==
  \E m \in DOMAIN active : m \notin DOMAIN cand \/ OutputNarrows(active[m], cand[m])

(* A mutant: a parameter that was not there may be required *)
SharedParamsNarrow(active, cand) ==
  \E x \in DOMAIN active \cap DOMAIN cand :
    \/ cand[x].required /\ ~active[x].required
    \/ InputNarrows(active[x].type, cand[x].type)

ParamsNarrow(active, cand) ==
  \/ \E x \in DOMAIN cand \ DOMAIN active : cand[x].required
  \/ \E x \in DOMAIN active \cap DOMAIN cand :
       \/ cand[x].required /\ ~active[x].required
       \/ InputNarrows(active[x].type, cand[x].type)

OutputsNarrow(active, cand) ==
  /\ active # Nothing
  /\ \/ cand = Nothing
     \/ active.identity # Nothing /\ cand.identity # Nothing /\ KeyNarrows(active.identity, cand.identity)
     \/ active.ordering # Nothing /\ cand.ordering # Nothing /\ active.ordering # cand.ordering
     \/ ProjectionNarrows(active.members, cand.members)

OperationNarrows(active, cand) ==
  \/ ParamsNarrow(active.params, cand.params)
  \/ active.response # Nothing /\ cand.response # Nothing /\ ProjectionNarrows(active.response, cand.response)

(* surface_narrowing *)
SurfaceNarrows(active, cand) ==
  \/ OutputsNarrow(active.output, cand.output)
  \/ ParamsNarrow(active.params, cand.params)
  \/ \E o \in DOMAIN active.operations :
       o \notin DOMAIN cand.operations \/ OperationNarrows(active.operations[o], cand.operations[o])

(* BoundaryContract::narrowing *)
BoundaryNarrows(active, cand) ==
  \E a \in DOMAIN active : a \notin DOMAIN cand \/ SurfaceNarrows(active[a], cand[a])

-----------------------------------------------------------------------------
(* What a release still owes the clients of an earlier one.  Only pairs of
   releases are compared, so what one of those in between hid -- a parameter
   it did not take, a key, an ordering or a response that could not be read --
   is owed no longer.  `since` is what the releases from the first one on
   promised, the first and the present one included. *)

ParamsUpheld(first, since, now) ==
  \A x \in DOMAIN now :
    /\ now[x].required => x \in DOMAIN first /\ first[x].required
    /\ (\A params \in since : x \in DOMAIN params) => ~InputNarrows(first[x].type, now[x].type)

OutputUpheld(first, since, now) ==
  /\ ~ProjectionNarrows(first.members, now.members)
  /\ (\A out \in since : out.identity # Nothing) => ~KeyNarrows(first.identity, now.identity)
  /\ (\A out \in since : out.ordering # Nothing) => now.ordering = first.ordering

OperationUpheld(first, since, now) ==
  /\ ParamsUpheld(first.params, {op.params : op \in since}, now.params)
  /\ (\A op \in since : op.response # Nothing) => ~ProjectionNarrows(first.response, now.response)

SurfaceUpheld(first, since, now) ==
  /\ first.output # Nothing =>
       now.output # Nothing /\ OutputUpheld(first.output, {s.output : s \in since}, now.output)
  /\ ParamsUpheld(first.params, {s.params : s \in since}, now.params)
  /\ \A o \in DOMAIN first.operations :
       /\ o \in DOMAIN now.operations
       /\ OperationUpheld(first.operations[o], {s.operations[o] : s \in since}, now.operations[o])

BoundaryUpheld(first, since, now) ==
  \A a \in DOMAIN first :
    a \in DOMAIN now /\ SurfaceUpheld(first[a], {b[a] : b \in since}, now[a])
=============================================================================
