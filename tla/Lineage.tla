------------------------------ MODULE Lineage ------------------------------
(***************************************************************************)
(* liasse-runtime lineage.rs and history.rs: the logical position of an    *)
(* instance in its own history, and the movements between instances that   *)
(* exchange artifacts.                                                     *)
(*                                                                         *)
(* An engine is a cursor beside the state its store holds.  The state is   *)
(* represented by `past`, the commits that made it, each with the point it *)
(* was given.  The code keeps no past; it compares points of lineages in   *)
(* its place, and the properties ask whether that comparison says the      *)
(* truth.  `misled` is a history variable too: the engine, or the one its  *)
(* artifact was exported from, once followed an answer that was false.     *)
(* A lineage is named by the path of the branches that lead to it, as      *)
(* genesis_lineage, branch_lineage and reconciled_lineage spell it.        *)
(***************************************************************************)
EXTENDS Naturals, SequencesExt

CONSTANTS Engine,           \* instances of one package incarnation
          Home,             \* the one that exists at genesis
          None,             \* an engine that was not restored yet
          MaxCommits,       \* bound on commits of all engines
          MaxArtifacts      \* bound on exports

ASSUME HomeIsAnEngine == Home \in Engine

VARIABLES engines,      \* per engine: its cursor, the past of its state, misled
          artifacts,    \* every exported artifact; bytes outlive their engine
          commits       \* how many commits were made: the next one's name

vars == <<engines, artifacts, commits>>

----------------------------------------------------------------------------
(* The cursor.  Positions start at 1, so 0 stands for a missing origin.    *)

GenesisPoint == 1

GenesisCursor == [ancestors |-> <<>>, active |-> [lineage |-> <<>>, origin |-> 0],
                  point |-> GenesisPoint, next |-> GenesisPoint + 1,
                  branch_pending |-> FALSE]

Selected(cursor) == [lineage |-> cursor.active.lineage, point |-> cursor.point]

(* branch_lineage, reconciled_lineage                                      *)
Branched(cursor, kind) == Append(cursor.active.lineage, <<kind, cursor.next>>)

Branch(cursor, kind) ==
  [cursor EXCEPT !.ancestors = Append(@, cursor.active),
                 !.active = [lineage |-> Branched(cursor, kind), origin |-> cursor.point],
                 !.branch_pending = FALSE]

ToNext(cursor) == [cursor EXCEPT !.point = cursor.next, !.next = @ + 1]

(* HistoryCursor::advance: one position per commit, on a lineage of its    *)
(* own when a rollback displaced what followed the current point           *)
Advance(cursor) ==
  ToNext(IF cursor.branch_pending THEN Branch(cursor, "b") ELSE cursor)

BeginReconciled(cursor) == ToNext(Branch(cursor, "m"))

ApplyFastForward(cursor, incoming) ==
  [cursor EXCEPT !.point = incoming.point,
                 !.next = IF @ > incoming.point THEN @ ELSE incoming.point + 1,
                 !.branch_pending = FALSE]

Ancestor(cursor, lineage) ==
  {i \in DOMAIN cursor.ancestors : cursor.ancestors[i].lineage = lineage}

(* HistoryCursor::apply_rollback: an ancestor becomes the active lineage   *)
(* again, and what descended from it is cut                                *)
ApplyRollback(cursor, incoming) ==
  LET cut == IF incoming.lineage = cursor.active.lineage THEN {}
             ELSE Ancestor(cursor, incoming.lineage) IN
  [cursor EXCEPT
     !.ancestors = IF cut = {} THEN @ ELSE SubSeq(@, 1, (CHOOSE i \in cut : TRUE) - 1),
     !.active = IF cut = {} THEN @ ELSE cursor.ancestors[CHOOSE i \in cut : TRUE],
     !.point = incoming.point,
     !.branch_pending = TRUE]

(* A mutant: the branch point read off the ancestor itself                 *)
BranchAtOwnOrigin(cursor, i) == cursor.ancestors[i].origin

(* Where the lineage after ancestor i left it                              *)
BranchAt(cursor, i) ==
  (IF i < Len(cursor.ancestors) THEN cursor.ancestors[i + 1] ELSE cursor.active).origin

Classify(cursor, incoming) ==
  LET known == Ancestor(cursor, incoming.lineage) IN
  CASE incoming.lineage = cursor.active.lineage ->
         (CASE incoming.point = cursor.point -> "SamePoint"
            [] incoming.point < cursor.point -> "Rollback"
            [] OTHER -> "FastForward")
    [] incoming.lineage # cursor.active.lineage /\ known # {} ->
         IF incoming.point <= BranchAt(cursor, CHOOSE i \in known : TRUE)
         THEN "Rollback" ELSE "Merge"
    [] OTHER -> "Unrelated"

----------------------------------------------------------------------------
(* history/index.json                                                      *)

(* HistoryCursor::lineages: each lineage with its origin and its head, the *)
(* head of an ancestor being the point its descendant left it at           *)
Lineages(cursor) ==
  LET chain == Append(cursor.ancestors, cursor.active)
      at(lineage) == CHOOSE i \in DOMAIN chain : chain[i].lineage = lineage
      entry(i) == [origin |-> IF i = 1 THEN <<>>
                              ELSE <<chain[i - 1].lineage, chain[i].origin>>,
                   head |-> IF i = Len(chain) THEN cursor.point
                            ELSE chain[i + 1].origin] IN
  [lineage \in {chain[i].lineage : i \in DOMAIN chain} |-> entry(at(lineage))]

(* restored_chain: the origins followed from the selected lineage to       *)
(* genesis, root first                                                     *)
RestoredChain(lineage, index) ==
  LET chain[l \in DOMAIN index] ==
        IF index[l].origin = <<>> THEN <<[lineage |-> l, origin |-> 0]>>
        ELSE Append(chain[index[l].origin[1]],
                    [lineage |-> l, origin |-> index[l].origin[2]]) IN
  chain[lineage]

Restored(selected, index) ==
  LET chain == RestoredChain(selected.lineage, index) IN
  [ancestors |-> Front(chain), active |-> Last(chain),
   point |-> selected.point, next |-> selected.point + 1,
   branch_pending |-> FALSE]

----------------------------------------------------------------------------
Live(e) == engines[e] # None

Init ==
  /\ engines = [e \in Engine |->
       IF e = Home
       THEN [cursor |-> GenesisCursor, misled |-> FALSE,
             past |-> <<[commit |-> 1, at |-> Selected(GenesisCursor)]>>]
       ELSE None]
  /\ artifacts = {}
  /\ commits = 1

Committing(e, cursor) ==
  /\ commits <= MaxCommits
  /\ engines' = [engines EXCEPT ![e] =
       [cursor |-> cursor,
        past |-> Append(@.past, [commit |-> commits + 1, at |-> Selected(cursor)]),
        misled |-> @.misled]]
  /\ commits' = commits + 1
  /\ UNCHANGED artifacts

(* Engine::call, bind of an installation overlay, apply_migration: a       *)
(* commit that changed the state takes a fresh point                       *)
Commit(e) ==
  /\ Live(e)
  /\ Committing(e, Advance(engines[e].cursor))

(* Engine::activate_merge: the rows a merge or a correction resolved, of   *)
(* whatever base and artifact, are a commit on a lineage of their own      *)
ActivateMerge(e) ==
  /\ Live(e)
  /\ Committing(e, BeginReconciled(engines[e].cursor))

(* Engine::export                                                          *)
Export(e) ==
  /\ Live(e) /\ Cardinality(artifacts) < MaxArtifacts
  /\ artifacts' = artifacts \cup {[selected |-> Selected(engines[e].cursor),
                                   index |-> Lineages(engines[e].cursor),
                                   past |-> engines[e].past,
                                   misled |-> engines[e].misled]}
  /\ UNCHANGED <<engines, commits>>

(* Engine::restore_from into a store of its own; an engine restored again  *)
(* is one that was lost, and any number of copies may be restored from one *)
(* artifact                                                                *)
Restore(e, a) ==
  /\ engines' = [engines EXCEPT ![e] = [cursor |-> Restored(a.selected, a.index),
                                        past |-> a.past, misled |-> a.misled]]
  /\ UNCHANGED <<artifacts, commits>>

Extends(longer, shorter) == IsPrefix(shorter, longer)

(* What the state an artifact holds is to the local one                    *)
Truth(local, incoming) ==
  CASE local = incoming -> "SamePoint"
    [] local # incoming /\ Extends(local, incoming) -> "Rollback"
    [] local # incoming /\ Extends(incoming, local) -> "FastForward"
    [] OTHER -> "Merge"

(* Engine::import under a policy that permits the movement                 *)
Import(e, a) ==
  /\ Live(e)
  /\ LET cursor == engines[e].cursor
         relation == Classify(cursor, a.selected) IN
     /\ relation \in {"FastForward", "Rollback"}
     /\ engines' = [engines EXCEPT ![e] =
          [cursor |-> IF relation = "FastForward" THEN ApplyFastForward(cursor, a.selected)
                      ELSE ApplyRollback(cursor, a.selected),
           past |-> a.past,
           misled |-> @.misled \/ relation # Truth(@.past, a.past)]]
  /\ UNCHANGED <<artifacts, commits>>

Next ==
  \/ \E e \in Engine : Commit(e)
  \/ \E e \in Engine : Export(e)
  \/ \E e \in Engine, a \in artifacts : Restore(e, a)
  \/ \E e \in Engine, a \in artifacts : Import(e, a)
  \/ \E e \in Engine : ActivateMerge(e)

Spec == Init /\ [][Next]_vars

----------------------------------------------------------------------------
(* Properties                                                              *)

Told(e, a) == Classify(engines[e].cursor, a.selected)
Tells(e, a) == Live(e) /\ Told(e, a) # "Unrelated"
IsTrue(e, a) == Told(e, a) = Truth(engines[e].past, a.past)

(* The relation HistoryCursor::classify reads off two points is the        *)
(* relation of the states they name.  The code does not keep this: nothing *)
(* stops two engines from continuing one lineage (HistoryCursor::advance), *)
(* and their points are then the same, or one behind the other, where the  *)
(* states have parted.                                                     *)
RelationIsTrue == \A e \in Engine, a \in artifacts : Tells(e, a) => IsTrue(e, a)

(* Both went on upon one lineage after they had parted                     *)
Forked(past, other) ==
  \E c \in ToSet(past) \ ToSet(other), d \in ToSet(other) \ ToSet(past) :
     c.at.lineage = d.at.lineage

(* That is the only way for classify to be wrong: whatever else engines    *)
(* and their copies commit, branch, merge, restore, roll back and apply,   *)
(* an answer is true unless the two states in question went on upon one    *)
(* lineage after they had parted.  It is said of an engine that followed   *)
(* no false answer: one that did may keep a chain of lineages its state    *)
(* did not come by, and nothing it is asked later can be relied on.        *)
OnlyForksMislead ==
  \A e \in Engine, a \in artifacts :
    /\ Tells(e, a) /\ ~engines[e].misled
    /\ ~Forked(engines[e].past, a.past)
    => IsTrue(e, a)

=============================================================================
