----------------------------- MODULE StoreRows -----------------------------
(***************************************************************************)
(* The data every store backend shares (crates/liasse-store): stored rows, *)
(* the committed row operations, and the fold of a commit log into the     *)
(* rows of a frontier (Snapshot::replay), which is the reference answer to *)
(* "what was committed at this position".                                  *)
(***************************************************************************)
EXTENDS Integers, Sequences

CONSTANTS
  Addr,     \* canonical row addresses
  Val,      \* row payloads
  Instant,  \* admission instants (`now`)
  None,     \* Rust's Option::None
  Corrupt   \* StoreError::Corruption, the result of a replay that cannot apply

Row == [inc : Nat, created : Instant, val : Val]
MaybeRow == Row \cup {None}
Rows == [Addr -> MaybeRow]

\* CommittedRowOp: `from` and `to` coincide except for a rekey; a delete has no payload.
RowOp == [kind : {"insert", "update", "delete", "rekey"},
          from : Addr, to : Addr, inc : Nat, val : Val \cup {None}]
CommittedTransition == [seq : Nat, ops : Seq(RowOp), created : Instant]

ASSUME RowSentinelAssumption ==
  /\ None \notin Row \cup Val \cup Nat
  /\ Corrupt \notin Rows

EmptyRows == [a \in Addr |-> None]
-----------------------------------------------------------------------------
\* Mutant: an unchecked fold in which an update restamps the row's creation instant.
ApplyRestampingUpdates(rows, op, instant) ==
  CASE op.kind \in {"insert", "update"} ->
         [rows EXCEPT ![op.to] = [inc |-> op.inc, created |-> instant, val |-> op.val]]
    [] op.kind = "delete" -> [rows EXCEPT ![op.to] = None]
    [] op.kind = "rekey" ->
         [rows EXCEPT ![op.from] = None,
                      ![op.to] = [inc |-> op.inc, val |-> op.val,
                                  created |-> rows[op.from].created]]

(* Snapshot::apply: the same fold with the occupancy checks that make a    *)
(* log whose record disagrees with its own history a corruption error.     *)
SnapshotApply(rows, op, instant) ==
  CASE rows = Corrupt -> Corrupt
    [] rows # Corrupt /\ op.kind = "insert" ->
         IF rows[op.to] # None THEN Corrupt
         ELSE [rows EXCEPT ![op.to] = [inc |-> op.inc, created |-> instant, val |-> op.val]]
    [] rows # Corrupt /\ op.kind = "update" ->
         IF rows[op.to] = None THEN Corrupt
         ELSE [rows EXCEPT ![op.to] = [inc |-> op.inc, val |-> op.val,
                                       created |-> rows[op.to].created]]
    [] rows # Corrupt /\ op.kind = "delete" ->
         IF rows[op.to] = None THEN Corrupt ELSE [rows EXCEPT ![op.to] = None]
    [] rows # Corrupt /\ op.kind = "rekey" ->
         IF rows[op.from] = None \/ (op.to # op.from /\ rows[op.to] # None)
         THEN Corrupt
         ELSE [rows EXCEPT ![op.from] = None,
                           ![op.to] = [inc |-> op.inc, val |-> op.val,
                                       created |-> rows[op.from].created]]

Ops == INSTANCE SeqFold WITH Step <- SnapshotApply

\* Snapshot::replay skips the transitions past the frontier.
ReplayTransition(rows, t, frontier) ==
  IF t.seq > frontier THEN rows ELSE Ops!Fold(rows, t.ops, t.created)

Log == INSTANCE SeqFold WITH Step <- ReplayTransition

Replay(transitions, frontier) == Log!Fold(EmptyRows, transitions, frontier)
=============================================================================
