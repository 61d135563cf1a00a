------------------------------- MODULE Blobs -------------------------------
(***************************************************************************)
(* The placement of one content over blob stores: the blob engine          *)
(* (liasse-runtime blobs.rs, blobs/placement.rs), the host that retains    *)
(* the committed blob (liasse-surface blobs.rs), the hash-checked read     *)
(* (liasse-host integrity.rs) and the stores behind it (liasse-blob-fs).   *)
(*                                                                         *)
(* An object under the content's digest is absent, clean or rotten.  A     *)
(* connector either delivers the bytes it has or, like the file store,     *)
(* checks them first and fails.  An object that is present is never        *)
(* written over.  A connector call can fail with or without its effect.    *)
(* A store row names its connector in a free field, so two stores may      *)
(* share one and, the digest being the name, the object on it.             *)
(***************************************************************************)
EXTENDS Naturals, Sequences, FiniteSets, SequencesExt

CONSTANTS Store, Connector,
          StoreRows,       \* the rows the engine may be given: per store, [connector, enabled]
          Checks(_),       \* the connector verifies what it reads
          Policies,        \* [plan, serve]: a plan is <<"view", stores>>, <<"all", plans>>,
                           \* <<"any", plans>> or <<"copies", n, stores>>
          None, MaxFaults

VARIABLES policy,
          stores,       \* the rows of the stores
          objects,      \* what each connector holds under the digest
          up,           \* the connectors that answer
          placement,    \* the retained blob: the copy state of each store, or None
          serve,        \* its fetch order
          faults

vars == <<policy, stores, objects, up, placement, serve, faults>>

Outcome == {"done", "lost", "landed"}    \* of an upload call

-----------------------------------------------------------------------------
(* The placement plan *)

RECURSIVE Flattened(_), SatisfiedBy(_, _), WritablePlan(_)

Distinct(s) ==
  FoldLeft(LAMBDA seen, x : IF x \in ToSet(seen) THEN seen ELSE Append(seen, x), <<>>, s)
FirstOf(s, n) == SubSeq(s, 1, IF n < Len(s) THEN n ELSE Len(s))
Only(s, S) == SelectSeq(s, LAMBDA x : x \in S)

Flattened(plan) ==
  IF plan[1] = "view" THEN Distinct(plan[2])
  ELSE IF plan[1] = "copies" THEN Distinct(plan[3])
  ELSE Distinct(FlattenSeq([i \in DOMAIN plan[2] |-> Flattened(plan[2][i])]))

SatisfiedBy(plan, verified) ==
  CASE plan[1] = "view" -> ToSet(plan[2]) \subseteq verified
    [] plan[1] = "all" -> \A i \in DOMAIN plan[2] : SatisfiedBy(plan[2][i], verified)
    [] plan[1] = "any" -> \E i \in DOMAIN plan[2] : SatisfiedBy(plan[2][i], verified)
    [] plan[1] = "copies" -> Cardinality(ToSet(plan[3]) \cap verified) >= plan[2]

ServeOrder(pol, verified) == Only(Distinct(pol.serve \o Flattened(pol.plan)), verified)

-----------------------------------------------------------------------------
(* Connectors *)

ConnectorOf(s) == stores[s].connector

Writable(s) == stores[s].enabled /\ ConnectorOf(s) \in up

(* The stores a new write lands in, or None *)
WritablePlan(plan) ==
  CASE plan[1] = "view" ->
         IF \A s \in ToSet(plan[2]) : Writable(s) THEN Distinct(plan[2]) ELSE None
    [] plan[1] = "all" ->
         LET parts == [i \in DOMAIN plan[2] |-> WritablePlan(plan[2][i])]
         IN IF None \in ToSet(parts) THEN None ELSE Distinct(FlattenSeq(parts))
    [] plan[1] = "any" ->
         LET open == SelectSeq([i \in DOMAIN plan[2] |-> WritablePlan(plan[2][i])],
                               LAMBDA p : p # None)
         IN IF open = <<>> THEN None ELSE open[1]
    [] plan[1] = "copies" ->
         LET open == SelectSeq(Distinct(plan[3]), Writable)
         IN IF Len(open) < plan[2] THEN None ELSE FirstOf(open, plan[2])

Clean(obj, s) == ConnectorOf(s) \in up /\ obj[ConnectorOf(s)] = "clean"

(* land_copy: upload, then a verified read back; run is [obj, ok] *)
LandCopy(run, s, outcome) ==
  LET c == ConnectorOf(s)
      obj == IF outcome[s] # "lost" /\ run.obj[c] = "absent"
             THEN [run.obj EXCEPT ![c] = "clean"] ELSE run.obj
  IN [obj |-> obj, ok |-> outcome[s] = "done" /\ Clean(obj, s)]

(* copy_and_verify: the destination is cleared first *)
CopyAndVerify(obj, s, outcome) ==
  LandCopy([obj |-> [obj EXCEPT ![ConnectorOf(s)] = "absent"], ok |-> TRUE], s, outcome)

Verified(pl) == {s \in Store : pl[s] = "verified"}

(* A mutant: the fill plan is written whole, verified copies included *)
RepairTargetsWhole(pl) ==
  LET fill == IF WritablePlan(policy.plan) = None THEN <<>> ELSE WritablePlan(policy.plan)
      corrupt == {s \in Store : pl[s] = "corrupt" /\ Writable(s)}
  IN fill \o SetToSeq(corrupt \ ToSet(fill))

RepairTargets(pl) ==
  LET fill == IF WritablePlan(policy.plan) = None THEN <<>>
              ELSE Only(WritablePlan(policy.plan), Store \ Verified(pl))
      corrupt == {s \in Store : pl[s] = "corrupt" /\ Writable(s)}
  IN fill \o SetToSeq(corrupt \ ToSet(fill))

(* demote_corrupt: only bytes that were delivered can be seen to be wrong *)
Demoted(pl) ==
  [s \in Store |->
     IF /\ pl[s] = "verified" /\ ConnectorOf(s) \in up
        /\ objects[ConnectorOf(s)] = "rotten" /\ ~Checks(ConnectorOf(s))
     THEN "corrupt" ELSE pl[s]]

-----------------------------------------------------------------------------
Init ==
  /\ policy \in Policies
  /\ stores \in StoreRows
  /\ objects = [c \in Connector |-> "absent"]
  /\ up = Connector
  /\ placement = None
  /\ serve = <<>>
  /\ faults = 0

(* BlobHost::put_declared: copies landed before one fails stay behind *)
Put(outcome) ==
  LET plan == WritablePlan(policy.plan)
      run == FoldLeft(LAMBDA r, s : IF r.ok THEN LandCopy(r, s, outcome) ELSE r,
                      [obj |-> objects, ok |-> TRUE], plan)
      landed == [s \in Store |-> IF s \in ToSet(plan) THEN "verified" ELSE None]
  IN /\ plan # None
     /\ objects' = run.obj
     /\ placement' = IF run.ok THEN landed ELSE placement
     /\ serve' = IF run.ok THEN ServeOrder(policy, Verified(landed)) ELSE serve
     /\ UNCHANGED <<policy, stores, up, faults>>

(* BlobHost::reconcile *)
Reconcile(outcome) ==
  LET demoted == Demoted(placement)
      source == \E s \in Verified(demoted) : Clean(objects, s)
      repair(r, s) ==
        LET run == CopyAndVerify(r.obj, s, outcome)
        IN [obj |-> run.obj, pl |-> IF run.ok THEN [r.pl EXCEPT ![s] = "verified"] ELSE r.pl]
      run == IF source THEN FoldLeft(repair, [obj |-> objects, pl |-> demoted], RepairTargets(demoted))
             ELSE [obj |-> objects, pl |-> demoted]
  IN /\ placement # None
     /\ objects' = run.obj
     /\ placement' = run.pl
     /\ serve' = IF source THEN ServeOrder(policy, Verified(run.pl)) ELSE serve
     /\ UNCHANGED <<policy, stores, up, faults>>

(* A copy rots on its medium, or is lost: the rename that commits a file is
   not followed by a sync of its directory *)
Decay(c, to) ==
  /\ faults < MaxFaults /\ objects[c] = "clean"
  /\ faults' = faults + 1
  /\ objects' = [objects EXCEPT ![c] = to]
  /\ UNCHANGED <<policy, stores, up, placement, serve>>

Outage(c) ==
  /\ faults < MaxFaults /\ c \in up
  /\ faults' = faults + 1
  /\ up' = up \ {c}
  /\ UNCHANGED <<policy, stores, objects, placement, serve>>

Recovery(c) ==
  /\ c \notin up
  /\ up' = up \cup {c}
  /\ UNCHANGED <<policy, stores, objects, placement, serve, faults>>

Next ==
  \/ \E outcome \in [Store -> Outcome] : Put(outcome)
  \/ \E outcome \in [Store -> Outcome] : Reconcile(outcome)
  \/ \E c \in Connector, to \in {"rotten", "absent"} : Decay(c, to)
  \/ \E c \in Connector : Outage(c)
  \/ \E c \in Connector : Recovery(c)

Spec == Init /\ [][Next]_vars

-----------------------------------------------------------------------------
(* BlobEngine::fetch: the verified holders in fetch order, of which the
   first that answers with the content delivers it *)
Answers(obj, s) == obj[ConnectorOf(s)] = "clean"
Holders(pl, order) == Only(order, Verified(pl))
Delivers(pl, order, obj) == \E s \in ToSet(Holders(pl, order)) : Answers(obj, s)

(* What a fetch from answering connectors could deliver before an          *)
(* operation of the engine, it can deliver afterwards.  The code does not  *)
(* keep this where stores share a connector: copy_and_verify clears the    *)
(* destination by digest, and so another store's verified copy.            *)
RepairNeverLosesContent ==
  [][faults' = faults /\ placement # None
       => (Delivers(placement, serve, objects) => Delivers(placement', serve', objects'))]_vars

(* A store a repair may write to names the same connector                  *)
Shared(s) ==
  \E t \in Store : ConnectorOf(t) = ConnectorOf(s) /\ placement[t] # "verified"

(* Nothing else loses content: a reconciliation clears destinations, whose *)
(* copy may then fail, a repeated upload replaces the record and the fetch *)
(* order, and a clean copy of a verified holder that shares its connector  *)
(* with no store still to be filled or repaired leaves the content to be   *)
(* delivered (blobs.rs reconcile, copy_and_verify, repair_targets,         *)
(* serve_order, fetch; surface blobs.rs put_declared).                     *)
UnsharedCopiesKeepContent ==
  [][faults' = faults /\ placement # None
       => ((\E s \in ToSet(Holders(placement, serve)) : Answers(objects, s) /\ ~Shared(s))
             => Delivers(placement', serve', objects'))]_vars
=============================================================================
