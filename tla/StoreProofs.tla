---------------------------- MODULE StoreProofs ----------------------------
(***************************************************************************)
(* The store keeps its two representations of the state at head equal, for *)
(* any sets of addresses, payloads, instants and any number of operations  *)
(* and commits.  The inductive invariant says more than CurrentIsReplay:   *)
(* it follows the open transition, whose overlay must be the result of     *)
(* both folds (the lenient one of apply_current and the strict one of      *)
(* replay) over its operations, and it needs the log to be gapless for a   *)
(* replay at head to reach the last transition.                            *)
(*                                                                         *)
(* The store implements the contract of a store: every step of the staged  *)
(* store is a step of the contract or changes nothing it can see.  What    *)
(* the contract says of identities needs an invariant of its own: the      *)
(* tokens of the open transition and of the log were all handed out, and   *)
(* no two inserts hold the same one.                                       *)
(***************************************************************************)
EXTENDS Store, StoreRowsProofs

CurrentP == INSTANCE SeqFoldProofs WITH Step <- ApplyCurrent

\* The fold of apply_current is the one the theorems are about.
LEMMA SameCurrentFold == \A r, o, c : Current!Fold(r, o, c) = CurrentP!Fold(r, o, c)
BY DEF Current!Fold, CurrentP!Fold

\* Unfolding one staged operation of a commit (MemoryStore::commit_transition's loop).
LEMMA CurrentAppend ==
  ASSUME NEW rows, NEW c, NEW xs \in Seq(RowOp), NEW x \in RowOp
  PROVE  Current!Fold(rows, Append(xs, x), c) = ApplyCurrent(Current!Fold(rows, xs, c), x, c)
<1>1. CurrentP!Fold(rows, Append(xs, x), c) = ApplyCurrent(CurrentP!Fold(rows, xs, c), x, c)
  BY CurrentP!FoldAppend
<1> QED
  BY <1>1, SameCurrentFold

\* The loop over no operations.
LEMMA CurrentEmpty == \A rows, c : Current!Fold(rows, << >>, c) = rows
BY SameCurrentFold, CurrentP!FoldEmpty
-----------------------------------------------------------------------------
(* The inductive invariant.                                                *)

\* Positions are gapless: the i-th transition of the log sits at position i.
GaplessLog ==
  /\ Len(log) = head
  /\ \A i \in 1..Len(log) : log[i].seq = i

\* A transition that is not open holds nothing.
IdleIsClean == phase = "idle" => overlay = NoOverlay /\ ops = << >>

\* Both folds of the staged operations give the state the overlay shows.
StagedFolds ==
  /\ Current!Fold(current, ops, now) = Effective
  /\ Ops!Fold(current, ops, now) = Effective

\* Live identities are distinct and were allocated.
IdentitiesOf(rows) ==
  /\ \A a \in Addr : rows[a] # None => rows[a].inc < next_incarnation
  /\ \A a, b \in Addr :
       rows[a] # None /\ rows[b] # None /\ rows[a].inc = rows[b].inc => a = b

StoreInv ==
  /\ TypeOK /\ GaplessLog /\ IdleIsClean /\ CurrentIsReplay /\ StagedFolds
  /\ IdentitiesOf(current) /\ IdentitiesOf(Effective)

\* What is read through a transition is a state of the store.
LEMMA EffectiveType == ASSUME TypeOK PROVE Effective \in Rows
BY DEF TypeOK, Effective, Resolve, Rows

\* A transition that holds nothing shows the committed state.
LEMMA CleanIsCurrent ==
  ASSUME TypeOK, overlay = NoOverlay, ops = << >>
  PROVE  Effective = current /\ StagedFolds
<1>1. Effective = current
  BY DEF TypeOK, Effective, Resolve, Rows, NoOverlay
<1> QED
  BY <1>1, EmptyFolds, CurrentEmpty DEF StagedFolds

\* The initial state satisfies the invariant: an empty log replays to no rows.
LEMMA InitEstablishes == Init => StoreInv
<1> SUFFICES ASSUME Init PROVE StoreInv
  OBVIOUS
<1> USE DEF Init
<1>1. TypeOK
  BY InstantAssumption DEF TypeOK, Rows, MaybeRow, EmptyRows, NoOverlay
<1>2. GaplessLog /\ IdleIsClean
  BY DEF GaplessLog, IdleIsClean
<1>3. CurrentIsReplay
  BY EmptyFolds DEF CurrentIsReplay, Snapshot
<1>4. Effective = current /\ StagedFolds
  BY <1>1, CleanIsCurrent
<1>5. IdentitiesOf(current)
  BY DEF IdentitiesOf, EmptyRows
<1> QED
  BY <1>1, <1>2, <1>3, <1>4, <1>5 DEF StoreInv

\* The frame of a staging step: the durable state stays, one operation is appended,
\* and the overlay shows what that operation does to the state shown before.
Stages(op) ==
  /\ op \in RowOp
  /\ phase = "open" /\ ops' = Append(ops, op)
  /\ overlay' \in [Addr -> MaybeRow \cup {Absent}]
  /\ next_incarnation' \in Nat
  /\ UNCHANGED <<store, phase, now>>
  /\ staged_definition' \in Definition \cup {None}
  /\ staged_composition' \in Composition \cup {None}
  /\ Effective' = ApplyCurrent(Effective, op, now)
  /\ Effective' = SnapshotApply(Effective, op, now)

\* A staging step keeps everything but the identities.
LEMMA StagingPreserves ==
  ASSUME StoreInv, NEW op, Stages(op)
  PROVE  (TypeOK /\ GaplessLog /\ IdleIsClean /\ CurrentIsReplay /\ StagedFolds)'
<1> USE DEF StoreInv, Stages
<1>1. TypeOK'
  BY DEF TypeOK, store
<1>2. GaplessLog' /\ IdleIsClean'
  BY DEF GaplessLog, IdleIsClean, store
<1>3. CurrentIsReplay'
  BY DEF CurrentIsReplay, Snapshot, Replay, store
<1>4. StagedFolds'
  <2>1. ops \in Seq(RowOp) /\ current' = current /\ now' = now
    BY DEF TypeOK, store
  <2>2. Current!Fold(current, ops', now) = ApplyCurrent(Current!Fold(current, ops, now), op, now)
    BY <2>1, CurrentAppend
  <2>3. Ops!Fold(current, ops', now) = SnapshotApply(Ops!Fold(current, ops, now), op, now)
    BY <2>1, OpsAppend
  <2> QED BY <2>1, <2>2, <2>3 DEF StagedFolds
<1> QED
  BY <1>1, <1>2, <1>3, <1>4

\* Insert shows a fresh row under a token no live row has.
LEMMA InsertPreserves ==
  ASSUME StoreInv, NEW a \in Addr, NEW v \in Val, Insert(a, v)
  PROVE  StoreInv'
<1> DEFINE row == [inc |-> next_incarnation, created |-> now, val |-> v]
           op == [kind |-> "insert", from |-> a, to |-> a, inc |-> next_incarnation, val |-> v]
<1>1. TypeOK /\ Effective \in Rows /\ row \in Row /\ op \in RowOp
  BY EffectiveType DEF StoreInv, TypeOK, Row, RowOp
<1>2. Effective[a] = None /\ Effective # Corrupt
  BY <1>1, SentinelAssumption, RowSentinelAssumption DEF Insert, Effective
<1>3. Effective' = [Effective EXCEPT ![a] = row]
  BY <1>1, SentinelAssumption, RowSentinelAssumption
  DEF Insert, Stage, Effective, Resolve, TypeOK, Rows, MaybeRow, store
<1>4. Stages(op)
  BY <1>1, <1>2, <1>3
  DEF Stages, Insert, Staging, Stage, ApplyCurrent, SnapshotApply, TypeOK, MaybeRow
<1>5. IdentitiesOf(current)' /\ IdentitiesOf(Effective)'
  <2>1. next_incarnation' = next_incarnation + 1 /\ current' = current
    BY DEF Insert, store
  <2>2. \A b \in Addr : Effective[b] # None => Effective[b].inc \in Nat
    BY <1>1 DEF Rows, MaybeRow, Row
  <2>3. \A b \in Addr : current[b] # None => current[b].inc \in Nat
    BY <1>1 DEF TypeOK, Rows, MaybeRow, Row
  <2>4. IdentitiesOf(current)'
    BY <1>1, <2>1, <2>3 DEF StoreInv, TypeOK, IdentitiesOf
  <2>5. IdentitiesOf(Effective)'
    BY <1>1, <1>3, <2>1, <2>2, SentinelAssumption, RowSentinelAssumption DEF StoreInv, TypeOK, IdentitiesOf, Rows
  <2> QED BY <2>4, <2>5
<1> QED
  BY <1>4, <1>5, StagingPreserves DEF StoreInv

\* Update keeps the row's identity and creation instant.
LEMMA UpdatePreserves ==
  ASSUME StoreInv, NEW a \in Addr, NEW v \in Val, Update(a, v)
  PROVE  StoreInv'
<1> DEFINE old == Effective[a]
           row == [inc |-> old.inc, created |-> old.created, val |-> v]
           op == [kind |-> "update", from |-> a, to |-> a, inc |-> old.inc, val |-> v]
<1>1. TypeOK /\ Effective \in Rows /\ old # None /\ old = Resolve(a)
  BY EffectiveType DEF StoreInv, Update, Effective
<1>2. old \in Row /\ row \in Row /\ op \in RowOp /\ Effective # Corrupt
  BY <1>1, SentinelAssumption, RowSentinelAssumption DEF Rows, MaybeRow, Row, RowOp
<1>3. Effective' = [Effective EXCEPT ![a] = row]
  BY <1>1, <1>2, SentinelAssumption, RowSentinelAssumption
  DEF Update, Stage, Effective, Resolve, TypeOK, Rows, MaybeRow, store
<1>4. Stages(op)
  BY <1>1, <1>2, <1>3
  DEF Stages, Update, Staging, Stage, ApplyCurrent, SnapshotApply, CreatedOr, TypeOK, MaybeRow
<1>5. IdentitiesOf(current)' /\ IdentitiesOf(Effective)'
  BY <1>1, <1>2, <1>3, SentinelAssumption, RowSentinelAssumption
  DEF StoreInv, Update, IdentitiesOf, Rows, store
<1> QED
  BY <1>4, <1>5, StagingPreserves DEF StoreInv

\* Delete removes one identity.
LEMMA DeletePreserves ==
  ASSUME StoreInv, NEW a \in Addr, Delete(a)
  PROVE  StoreInv'
<1> DEFINE old == Effective[a]
           op == [kind |-> "delete", from |-> a, to |-> a, inc |-> old.inc, val |-> None]
<1>1. TypeOK /\ Effective \in Rows /\ old # None /\ old = Resolve(a)
  BY EffectiveType DEF StoreInv, Delete, Effective
<1>2. old \in Row /\ op \in RowOp /\ Effective # Corrupt
  BY <1>1, SentinelAssumption, RowSentinelAssumption DEF Rows, MaybeRow, Row, RowOp
<1>3. Effective' = [Effective EXCEPT ![a] = None]
  BY <1>1, <1>2, SentinelAssumption, RowSentinelAssumption
  DEF Delete, Stage, Effective, Resolve, TypeOK, Rows, MaybeRow, store
<1>4. Stages(op)
  BY <1>1, <1>2, <1>3
  DEF Stages, Delete, Staging, Stage, ApplyCurrent, SnapshotApply, TypeOK, MaybeRow
<1>5. IdentitiesOf(current)' /\ IdentitiesOf(Effective)'
  BY <1>1, <1>3 DEF StoreInv, Delete, IdentitiesOf, Rows, store
<1> QED
  BY <1>4, <1>5, StagingPreserves DEF StoreInv

\* Rekey moves one identity to a free address.
LEMMA RekeyPreserves ==
  ASSUME StoreInv, NEW a \in Addr, NEW b \in Addr, NEW v \in Val, Rekey(a, b, v)
  PROVE  StoreInv'
<1> DEFINE old == Effective[a]
           row == [inc |-> old.inc, created |-> old.created, val |-> v]
           op == [kind |-> "rekey", from |-> a, to |-> b, inc |-> old.inc, val |-> v]
<1>1. /\ TypeOK /\ Effective \in Rows /\ old # None /\ old = Resolve(a)
      /\ Effective[b] = None /\ a # b
  BY EffectiveType DEF StoreInv, Rekey, Effective
<1>2. old \in Row /\ row \in Row /\ op \in RowOp /\ Effective # Corrupt
  BY <1>1, SentinelAssumption, RowSentinelAssumption DEF Rows, MaybeRow, Row, RowOp
<1>3. Effective' = [Effective EXCEPT ![a] = None, ![b] = row]
  BY <1>1, <1>2, SentinelAssumption, RowSentinelAssumption
  DEF Rekey, Stage, Effective, Resolve, TypeOK, Rows, MaybeRow, store
<1>4. Stages(op)
  BY <1>1, <1>2, <1>3
  DEF Stages, Rekey, Staging, Stage, ApplyCurrent, SnapshotApply, CreatedOr, TypeOK, MaybeRow
<1>5. IdentitiesOf(current)' /\ IdentitiesOf(Effective)'
  BY <1>1, <1>2, <1>3, SentinelAssumption, RowSentinelAssumption
  DEF StoreInv, Rekey, IdentitiesOf, Rows, store
<1> QED
  BY <1>4, <1>5, StagingPreserves DEF StoreInv

\* A commit at a gapless head replays: the strict fold of the appended transition,
\* over the state the log replayed to before, is the state the overlay showed.
LEMMA AdmitPreserves ==
  ASSUME StoreInv, phase = "open", Admit, Close, UNCHANGED next_incarnation
  PROVE  StoreInv'
<1> DEFINE t == [seq |-> head + 1, ops |-> ops, created |-> now]
<1>1. TypeOK /\ Effective \in Rows /\ t \in CommittedTransition
  BY EffectiveType DEF StoreInv, TypeOK, CommittedTransition
<1>2. head' = head + 1 /\ current' = Effective /\ log' = Append(log, t)
  BY DEF Admit, StoreInv, StagedFolds
<1>3. TypeOK'
  BY <1>1, <1>2, InstantAssumption
  DEF TypeOK, Admit, Close, Or, NoOverlay
<1>4. GaplessLog' /\ IdleIsClean'
  BY <1>1, <1>2 DEF StoreInv, TypeOK, GaplessLog, IdleIsClean, Close
<1>5. CurrentIsReplay'
  <2>1. Replay(log, head) = current
    BY <1>1 DEF StoreInv, CurrentIsReplay, Snapshot, TypeOK
  <2>2. Replay(log', head + 1) = Ops!Fold(current, ops, now)
    BY <1>1, <1>2, <2>1, ReplayNext DEF StoreInv, GaplessLog, TypeOK
  <2> QED BY <1>1, <1>2, <2>2 DEF CurrentIsReplay, Snapshot, TypeOK, StoreInv, StagedFolds
<1>6. (Effective = current /\ StagedFolds)'
  <2>1. overlay' = NoOverlay /\ ops' = << >>
    BY DEF Close
  <2>2. Effective' = current'
    BY <1>3, <2>1 DEF TypeOK, Effective, Resolve, Rows, NoOverlay
  <2> QED BY <2>1, <2>2, EmptyFolds, CurrentEmpty DEF StagedFolds
<1>7. IdentitiesOf(current)'
  BY <1>2 DEF StoreInv, IdentitiesOf
<1> QED
  BY <1>3, <1>4, <1>5, <1>6, <1>7 DEF StoreInv

\* Opening, and dropping or committing nothing: the store is as it was.
LEMMA ClosePreserves ==
  ASSUME StoreInv, overlay' = NoOverlay, ops' = << >>, phase' \in {"idle", "open"},
         now' \in Instant, staged_definition' = None, staged_composition' = None,
         UNCHANGED <<store, next_incarnation>>
  PROVE  StoreInv'
<1>1. TypeOK'
  BY DEF StoreInv, TypeOK, NoOverlay, store
<1>2. GaplessLog' /\ IdleIsClean' /\ CurrentIsReplay' /\ IdentitiesOf(current)'
  BY DEF StoreInv, GaplessLog, IdleIsClean, CurrentIsReplay, Snapshot, Replay, IdentitiesOf, store
<1>3. Effective' = current'
  BY <1>1 DEF TypeOK, Effective, Resolve, Rows, NoOverlay
<1>4. StagedFolds'
  BY <1>3, EmptyFolds, CurrentEmpty DEF StagedFolds
<1> QED
  BY <1>1, <1>2, <1>3, <1>4 DEF StoreInv

\* Steps that touch neither rows nor log nor overlay.
LEMMA FramePreserves ==
  ASSUME StoreInv, TypeOK',
         UNCHANGED <<head, current, log, next_incarnation, phase, overlay, ops, now>>
  PROVE  StoreInv'
<1>1. Effective' = Effective
  BY DEF Effective, Resolve
<1> QED
  BY <1>1 DEF StoreInv, GaplessLog, IdleIsClean, CurrentIsReplay, Snapshot, Replay,
              StagedFolds, IdentitiesOf

\* Every step keeps the invariant.
LEMMA NextPreserves == StoreInv /\ [Next]_vars => StoreInv'
<1> SUFFICES ASSUME StoreInv, [Next]_vars PROVE StoreInv'
  OBVIOUS
<1>1. ASSUME NEW t \in Instant, Begin(t) PROVE StoreInv'
  BY <1>1, ClosePreserves DEF Begin
<1>2. ASSUME NEW a \in Addr, NEW v \in Val, Insert(a, v) PROVE StoreInv'
  BY <1>2, InsertPreserves
<1>3. ASSUME NEW a \in Addr, NEW v \in Val, Update(a, v) PROVE StoreInv'
  BY <1>3, UpdatePreserves
<1>4. ASSUME NEW a \in Addr, Delete(a) PROVE StoreInv'
  BY <1>4, DeletePreserves
<1>5. ASSUME NEW a \in Addr, NEW b \in Addr, NEW v \in Val, Rekey(a, b, v) PROVE StoreInv'
  BY <1>5, RekeyPreserves
<1>6. ASSUME NEW d \in Definition, SetDefinition(d) PROVE StoreInv'
  <2>1. TypeOK'
    BY <1>6 DEF SetDefinition, StoreInv, TypeOK, store
  <2> QED BY <1>6, <2>1, FramePreserves DEF SetDefinition, store
<1>7. ASSUME NEW c \in Composition, SetComposition(c) PROVE StoreInv'
  <2>1. TypeOK'
    BY <1>7 DEF SetComposition, StoreInv, TypeOK, store
  <2> QED BY <1>7, <2>1, FramePreserves DEF SetComposition, store
<1>8. CASE Commit
  <2>1. CASE IsEmpty
    BY <1>8, <2>1, ClosePreserves, InstantAssumption DEF Commit, Close
  <2>2. CASE ~IsEmpty
    BY <1>8, <2>2, AdmitPreserves DEF Commit
  <2> QED BY <2>1, <2>2
<1>9. CASE Abort
  BY <1>9, ClosePreserves, InstantAssumption DEF Abort, Close
<1>10. ASSUME NEW p \in Point, NEW at \in 0..MaxCommits, RecordPoint(p, at) PROVE StoreInv'
  <2>1. TypeOK'
    BY <1>10, BoundAssumption DEF RecordPoint, StoreInv, TypeOK, transition
  <2> QED BY <1>10, <2>1, FramePreserves DEF RecordPoint, transition
<1>11. ASSUME NEW b \in Blob, PutBlob(b) PROVE StoreInv'
  <2>1. TypeOK'
    BY <1>11 DEF PutBlob, StoreInv, TypeOK, transition
  <2> QED BY <1>11, <2>1, FramePreserves DEF PutBlob, transition
<1>12. CASE UNCHANGED vars
  <2>1. TypeOK'
    BY <1>12 DEF vars, store, transition, StoreInv, TypeOK
  <2> QED BY <1>12, <2>1, FramePreserves DEF vars, store, transition
<1> QED
  BY <1>1, <1>2, <1>3, <1>4, <1>5, <1>6, <1>7, <1>8, <1>9, <1>10, <1>11, <1>12 DEF Next

\* The invariant holds of every reachable state.
THEOREM StoreInvariant == Spec => []StoreInv
BY InitEstablishes, NextPreserves, PTL DEF Spec

\* Every field of the store and of its transition keeps its type; that current state
\* does is only known from the two folds agreeing (memory.rs, staging.rs).
THEOREM TypeCorrect == Spec => []TypeOK
<1>1. StoreInv => TypeOK
  BY DEF StoreInv
<1> QED
  BY <1>1, StoreInvariant, PTL

\* The current map of MemoryStore is always the strict replay of its commit log.
THEOREM CurrentReplaysTheLog == Spec => []CurrentIsReplay
<1>1. StoreInv => CurrentIsReplay
  BY DEF StoreInv
<1> QED
  BY <1>1, StoreInvariant, PTL

\* A transition reads exactly what its commit would leave behind.
THEOREM StagedReadsAreExact == Spec => []StagedIsWhatCommits
<1>1. StoreInv => StagedIsWhatCommits
  BY DEF StoreInv, StagedFolds, StagedIsWhatCommits
<1> QED
  BY <1>1, StoreInvariant, PTL

\* No two live rows, staged rows included, share an incarnation.
THEOREM IdentitiesAreUnique == Spec => []IdentityIsUnique
<1>1. StoreInv => IdentityIsUnique
  BY DEF StoreInv, IdentitiesOf, IdentityIsUnique
<1> QED
  BY <1>1, StoreInvariant, PTL

\* The log changes only by the commit of a transition past the head.
LEMMA LogOnlyGrows ==
  ASSUME StoreInv, [Next]_vars
  PROVE  \/ UNCHANGED <<head, log>>
         \/ \E t \in CommittedTransition : t.seq = head + 1 /\ log' = Append(log, t)
<1>1. CASE Commit /\ ~IsEmpty
  <2> DEFINE t == [seq |-> head + 1, ops |-> ops, created |-> now]
  <2>1. t \in CommittedTransition
    BY DEF StoreInv, TypeOK, CommittedTransition
  <2>2. log' = Append(log, t)
    BY <1>1 DEF Commit, Admit
  <2> QED BY <2>1, <2>2
<1>2. CASE ~(Commit /\ ~IsEmpty)
  BY <1>2 DEF Next, Begin, Insert, Update, Delete, Rekey, SetDefinition, SetComposition,
              Commit, Abort, RecordPoint, PutBlob, store, vars
<1> QED
  BY <1>1, <1>2

\* No step changes what a committed frontier replays to.
THEOREM HistoryNeverChanges == Spec => HistoryIsImmutable
<1> DEFINE Keeps == \A f \in 0..head : Replay(log', f) = Replay(log, f)
<1>1. StoreInv /\ [Next]_vars => [Keeps]_<<head, log>>
  <2> SUFFICES ASSUME StoreInv, [Next]_vars, NEW t \in CommittedTransition,
                      t.seq = head + 1, log' = Append(log, t), NEW f \in 0..head
               PROVE  Replay(log', f) = Replay(log, f)
    BY LogOnlyGrows
  <2>1. Replay(log', f) = ReplayTransition(Replay(log, f), t, f)
    BY ReplayAppend DEF StoreInv, TypeOK
  <2>2. t.seq > f
    BY DEF StoreInv, TypeOK
  <2> QED BY <2>1, <2>2 DEF ReplayTransition
<1> QED
  BY <1>1, StoreInvariant, PTL DEF Spec, HistoryIsImmutable
-----------------------------------------------------------------------------
(* The refinement.                                                         *)

\* The contract's fold is the specification's.
LEMMA ContractFold ==
  \A rows, o, c : Contract!Ops!Fold(rows, o, c) = Ops!Fold(rows, o, c)
BY DEF Contract!Ops!Fold, Ops!Fold, Contract!SnapshotApply, SnapshotApply

\* Every token in the log or staged was handed out; staged ones are in no log record.
TokensAreFresh ==
  /\ \A inc \in Tokens(ops) : inc < next_incarnation
  /\ Distinct(ops)
  /\ \A i \in DOMAIN log : \A inc \in Tokens(log[i].ops) :
       inc < next_incarnation /\ inc \notin Tokens(ops)

RefinementInv == StoreInv /\ TokensAreFresh
-----------------------------------------------------------------------------
\* Staging an insert hands out the next token.
LEMMA InsertKeepsTokensFresh ==
  ASSUME RefinementInv, NEW a \in Addr, NEW v \in Val, Insert(a, v)
  PROVE  TokensAreFresh'
<1> DEFINE op == [kind |-> "insert", from |-> a, to |-> a, inc |-> next_incarnation, val |-> v]
<1>1. op \in RowOp /\ ops \in Seq(RowOp) /\ next_incarnation \in Nat
  BY DEF RefinementInv, StoreInv, TypeOK, RowOp
<1>2. ops' = Append(ops, op) /\ log' = log /\ next_incarnation' = next_incarnation + 1
  BY DEF Insert, Stage, store
<1>3. Tokens(ops') = Tokens(ops) \cup {next_incarnation}
  BY <1>1, <1>2, TokensAppend
<1>4. next_incarnation \notin Tokens(ops)
  BY <1>1 DEF RefinementInv, TokensAreFresh
<1>5. Distinct(ops')
  BY <1>1, <1>2, <1>4, DistinctAppend DEF RefinementInv, TokensAreFresh
<1>6. Tokens(ops) \subseteq Nat
  BY <1>1, TokensAreNumbers
<1>7. \A i \in DOMAIN log : Tokens(log[i].ops) \subseteq Nat
  <2>1. log \in Seq(CommittedTransition)
    BY DEF RefinementInv, StoreInv, TypeOK
  <2>2. \A t \in CommittedTransition : t.ops \in Seq(RowOp)
    BY DEF CommittedTransition
  <2>3. \A i \in DOMAIN log : log[i] \in CommittedTransition
    BY <2>1
  <2> QED BY <2>2, <2>3, TokensAreNumbers
<1>8. \A inc \in Tokens(ops') : inc < next_incarnation'
  BY <1>1, <1>2, <1>3, <1>6 DEF RefinementInv, TokensAreFresh
<1>9. \A i \in DOMAIN log : \A inc \in Tokens(log[i].ops) :
        inc < next_incarnation' /\ inc \notin Tokens(ops')
  <2> SUFFICES ASSUME NEW i \in DOMAIN log, NEW inc \in Tokens(log[i].ops)
               PROVE  inc < next_incarnation' /\ inc \notin Tokens(ops')
    OBVIOUS
  <2>1. inc \in Nat /\ inc < next_incarnation /\ inc \notin Tokens(ops)
    BY <1>7 DEF RefinementInv, TokensAreFresh
  <2> HIDE DEF op
  <2> QED BY <1>1, <1>2, <1>3, <2>1
<1> HIDE DEF op
<1> QED
  BY <1>2, <1>5, <1>8, <1>9 DEF TokensAreFresh

\* Staging anything else moves no token.
LEMMA StagingKeepsTokensFresh ==
  ASSUME RefinementInv, NEW op \in RowOp, op.kind # "insert", ops' = Append(ops, op),
         UNCHANGED <<log, next_incarnation>>
  PROVE  TokensAreFresh'
<1>1. ops \in Seq(RowOp)
  BY DEF RefinementInv, StoreInv, TypeOK
<1>2. Tokens(ops') = Tokens(ops) /\ Distinct(ops')
  BY <1>1, TokensAppend, DistinctAppend DEF RefinementInv, TokensAreFresh
<1> QED
  BY <1>2 DEF RefinementInv, TokensAreFresh

\* Admission moves the staged tokens into the log.
LEMMA AdmitKeepsTokensFresh ==
  ASSUME RefinementInv, Admit, Close, UNCHANGED next_incarnation
  PROVE  TokensAreFresh'
<1> DEFINE t == [seq |-> head + 1, ops |-> ops, created |-> now]
<1>1. log \in Seq(CommittedTransition) /\ log' = Append(log, t) /\ ops' = << >>
  BY DEF RefinementInv, StoreInv, TypeOK, Admit, Close
<1>2. \A i \in DOMAIN log' : log'[i] = t \/ (i \in DOMAIN log /\ log'[i] = log[i])
  BY <1>1
<1> QED
  BY <1>1, <1>2, NoTokens DEF RefinementInv, TokensAreFresh

\* Every step keeps the tokens fresh.
LEMMA TokensStayFresh == RefinementInv /\ [Next]_vars => TokensAreFresh'
<1> SUFFICES ASSUME RefinementInv, [Next]_vars PROVE TokensAreFresh'
  OBVIOUS
<1>0. TypeOK /\ Effective \in Rows
  BY EffectiveType DEF RefinementInv, StoreInv
<1>1. ASSUME NEW a \in Addr, NEW v \in Val, Insert(a, v) PROVE TokensAreFresh'
  BY <1>1, InsertKeepsTokensFresh
<1>2. ASSUME NEW a \in Addr, NEW v \in Val, Update(a, v) PROVE TokensAreFresh'
  <2> DEFINE op == [kind |-> "update", from |-> a, to |-> a, inc |-> Effective[a].inc, val |-> v]
  <2>1. Effective[a] # None /\ Effective[a] = Resolve(a)
    BY <1>2 DEF Update, Effective
  <2>2. op \in RowOp /\ op.kind # "insert"
    BY <1>0, <2>1 DEF Rows, MaybeRow, Row, RowOp
  <2>3. ops' = Append(ops, op) /\ UNCHANGED <<log, next_incarnation>>
    BY <1>2, <2>1 DEF Update, Stage, store
  <2> QED BY <2>2, <2>3, StagingKeepsTokensFresh
<1>3. ASSUME NEW a \in Addr, Delete(a) PROVE TokensAreFresh'
  <2> DEFINE op == [kind |-> "delete", from |-> a, to |-> a, inc |-> Effective[a].inc, val |-> None]
  <2>1. Effective[a] # None /\ Effective[a] = Resolve(a)
    BY <1>3 DEF Delete, Effective
  <2>2. op \in RowOp /\ op.kind # "insert"
    BY <1>0, <2>1 DEF Rows, MaybeRow, Row, RowOp
  <2>3. ops' = Append(ops, op) /\ UNCHANGED <<log, next_incarnation>>
    BY <1>3, <2>1 DEF Delete, Stage, store
  <2> QED BY <2>2, <2>3, StagingKeepsTokensFresh
<1>4. ASSUME NEW a \in Addr, NEW b \in Addr, NEW v \in Val, Rekey(a, b, v) PROVE TokensAreFresh'
  <2> DEFINE op == [kind |-> "rekey", from |-> a, to |-> b, inc |-> Effective[a].inc, val |-> v]
  <2>1. Effective[a] # None /\ Effective[a] = Resolve(a)
    BY <1>4 DEF Rekey, Effective
  <2>2. op \in RowOp /\ op.kind # "insert"
    BY <1>0, <2>1 DEF Rows, MaybeRow, Row, RowOp
  <2>3. ops' = Append(ops, op) /\ UNCHANGED <<log, next_incarnation>>
    BY <1>4, <2>1 DEF Rekey, Stage, store
  <2> QED BY <2>2, <2>3, StagingKeepsTokensFresh
<1>5. CASE Commit /\ ~IsEmpty
  BY <1>5, AdmitKeepsTokensFresh DEF Commit
<1>6. ASSUME ops' = << >>, UNCHANGED <<log, next_incarnation>> PROVE TokensAreFresh'
  BY <1>6, NoTokens DEF RefinementInv, TokensAreFresh
<1>7. ASSUME UNCHANGED <<ops, log, next_incarnation>> PROVE TokensAreFresh'
  BY <1>7 DEF RefinementInv, TokensAreFresh
<1>8. CASE Commit /\ IsEmpty
  BY <1>6, <1>8 DEF Commit, Close, store
<1>9. CASE Abort \/ \E i \in Instant : Begin(i)
  BY <1>6, <1>9 DEF Abort, Close, Begin, store
<1>10. CASE \/ \E d \in Definition : SetDefinition(d)
            \/ \E c \in Composition : SetComposition(c)
            \/ \E p \in Point, at \in 0..MaxCommits : RecordPoint(p, at)
            \/ \E b \in Blob : PutBlob(b)
            \/ UNCHANGED vars
  BY <1>7, <1>10 DEF SetDefinition, SetComposition, RecordPoint, PutBlob, vars, store, transition
<1> QED
  BY <1>1, <1>2, <1>3, <1>4, <1>5, <1>8, <1>9, <1>10 DEF Next
-----------------------------------------------------------------------------
\* The contract's commit, as the store's admission performs it.
LEMMA AdmitIsCommit ==
  ASSUME RefinementInv, phase = "open", Admit, Close, UNCHANGED next_incarnation
  PROVE  Contract!Commit
<1> DEFINE t == [seq |-> head + 1, ops |-> ops, created |-> now]
<1>1. /\ log \in Seq(CommittedTransition) /\ t \in CommittedTransition /\ head \in Nat
      /\ Effective \in Rows
  BY EffectiveType DEF RefinementInv, StoreInv, TypeOK, CommittedTransition
<1>2. head' = head + 1 /\ log' = Append(log, t) /\ current' = Effective
  BY DEF Admit, RefinementInv, StoreInv, StagedFolds
<1>3. Len(log') = Len(log) + 1 /\ SubSeq(log', 1, Len(log)) = log /\ log'[Len(log')] = t
  BY <1>1, <1>2
<1>4. current' = Ops!Fold(current, ops, now) /\ current' # Corrupt
  BY <1>1, <1>2, RowSentinelAssumption DEF RefinementInv, StoreInv, StagedFolds
<1>5. \A xs : Contract!Introduced(xs) = Tokens(xs.ops)
  BY DEF Contract!Introduced, Tokens
<1>6. \A inc \in Contract!Introduced(t) : inc < next_incarnation
  BY <1>5 DEF RefinementInv, TokensAreFresh
<1>7. \A i, j \in DOMAIN t.ops :
        t.ops[i].kind = "insert" /\ t.ops[j].kind = "insert" /\ t.ops[i].inc = t.ops[j].inc => i = j
  BY DEF RefinementInv, TokensAreFresh, Distinct
<1>8. \A i \in DOMAIN log : Contract!Introduced(log[i]) \cap Contract!Introduced(t) = {}
  BY <1>5 DEF RefinementInv, TokensAreFresh
<1>9. /\ definition' = definition \/ definition' \in Definition
      /\ composition' = composition \/ composition' \in Composition
  BY DEF RefinementInv, StoreInv, TypeOK, Admit, Or
<1>10. UNCHANGED <<next_incarnation, points, blobs>>
  BY DEF Admit
<1> HIDE DEF t
<1>11. t.seq = head' /\ t.ops = ops /\ t.created = now
  BY <1>2 DEF t
<1> QED
  BY <1>2, <1>3, <1>4, <1>6, <1>7, <1>8, <1>9, <1>10, <1>11, ContractFold DEF Contract!Commit

\* Every step of the store is a step of the contract, or changes nothing it speaks of.
LEMMA StepIsContractStep ==
  ASSUME RefinementInv, [Next]_vars
  PROVE  [Contract!Next]_(Contract!vars)
<1>1. CASE Commit /\ ~IsEmpty
  BY <1>1, AdmitIsCommit DEF Commit, Contract!Next
<1>2. CASE \E a \in Addr, v \in Val : Insert(a, v)
  BY <1>2 DEF Insert, store, Contract!Next, Contract!AllocIncarnation
<1>3. CASE \E p \in Point, at \in 0..MaxCommits : RecordPoint(p, at)
  <2>1. PICK p \in Point, at \in 0..MaxCommits : RecordPoint(p, at)
    BY <1>3
  <2>2. at \in 0..head
    BY <2>1, BoundAssumption DEF RecordPoint, RefinementInv, StoreInv, TypeOK
  <2>3. Contract!RecordPoint
    BY <2>1, <2>2 DEF RecordPoint, Contract!RecordPoint
  <2> QED BY <2>3 DEF Contract!Next
<1>4. CASE \E b \in Blob : PutBlob(b)
  BY <1>4 DEF PutBlob, Contract!Next, Contract!PutBlob
<1>5. CASE UNCHANGED <<store, next_incarnation>>
  BY <1>5 DEF store, Contract!vars
<1>6. CASE \/ Commit /\ IsEmpty
           \/ Abort
           \/ \E i \in Instant : Begin(i)
           \/ \E a \in Addr, v \in Val : Update(a, v)
           \/ \E a \in Addr : Delete(a)
           \/ \E a, b \in Addr, v \in Val : Rekey(a, b, v)
           \/ \E d \in Definition : SetDefinition(d)
           \/ \E c \in Composition : SetComposition(c)
           \/ UNCHANGED vars
  BY <1>5, <1>6 DEF Commit, Abort, Begin, Update, Delete, Rekey, SetDefinition, SetComposition, vars
<1> QED
  BY <1>1, <1>2, <1>3, <1>4, <1>6 DEF Next

\* MemoryStore, staging and all, does what the traits of contract.rs promise.
THEOREM ImplementsStoreContract == Spec => ImplementsContract
<1>1. Init => RefinementInv
  BY InitEstablishes, NoTokens DEF Init, RefinementInv, TokensAreFresh
<1>2. RefinementInv /\ [Next]_vars => RefinementInv'
  BY NextPreserves, TokensStayFresh DEF RefinementInv
<1>3. Init => Contract!Init
  BY DEF Init, Contract!Init, EmptyRows, Contract!EmptyRows
<1>4. RefinementInv /\ [Next]_vars => [Contract!Next]_(Contract!vars)
  BY StepIsContractStep
<1> QED
  BY <1>1, <1>2, <1>3, <1>4, PTL DEF Spec, ImplementsContract, Contract!Spec
=============================================================================
