--------------------------- MODULE StoreContract ---------------------------
(***************************************************************************)
(* What the InstanceStore and Transition traits promise a caller           *)
(* (crates/liasse-store/src/contract.rs), without staging: tokens are      *)
(* handed out and never taken back; a commit is atomic, takes the next     *)
(* serial position, appends exactly one record to the log, and leaves the  *)
(* rows a strict replay of that record gives.                              *)
(* Both MemoryStore (Store) and the PostgreSQL backend (PgStore) implement *)
(* it.                                                                     *)
(***************************************************************************)
EXTENDS StoreRows

CONSTANTS Definition, Composition, Point, Blob

VARIABLES head, current, log, next_incarnation, points, blobs, definition, composition

vars == <<head, current, log, next_incarnation, points, blobs, definition, composition>>

Init ==
  /\ head = 0 /\ current = EmptyRows /\ log = << >> /\ next_incarnation = 0
  /\ points = [p \in Point |-> None] /\ blobs = {}
  /\ definition = None /\ composition = None

\* The tokens the inserts of a transition introduce.
Introduced(t) ==
  {t.ops[i].inc : i \in {j \in DOMAIN t.ops : t.ops[j].kind = "insert"}}

\* A token is burned the moment it is handed out, whatever becomes of the insert.
AllocIncarnation ==
  /\ next_incarnation' = next_incarnation + 1
  /\ UNCHANGED <<head, current, log, points, blobs, definition, composition>>

\* Every operation of the new record applies to the state the previous ones left, and
\* no row it introduces takes the identity of a row introduced before.
Commit ==
  /\ head' = head + 1
  /\ Len(log') = Len(log) + 1 /\ SubSeq(log', 1, Len(log)) = log
  /\ LET t == log'[Len(log')]
     IN  /\ t.seq = head'
         /\ current' = Ops!Fold(current, t.ops, t.created) /\ current' # Corrupt
         /\ \A inc \in Introduced(t) : inc < next_incarnation
         /\ \A i, j \in DOMAIN t.ops :
              t.ops[i].kind = "insert" /\ t.ops[j].kind = "insert"
              /\ t.ops[i].inc = t.ops[j].inc => i = j
         /\ \A i \in DOMAIN log : Introduced(log[i]) \cap Introduced(t) = {}
  /\ definition' = definition \/ definition' \in Definition
  /\ composition' = composition \/ composition' \in Composition
  /\ UNCHANGED <<next_incarnation, points, blobs>>

RecordPoint ==
  /\ \E p \in Point, at \in 0..head : points' = [points EXCEPT ![p] = at]
  /\ UNCHANGED <<head, current, log, next_incarnation, blobs, definition, composition>>

PutBlob ==
  /\ \E b \in Blob : blobs' = blobs \cup {b}
  /\ UNCHANGED <<head, current, log, next_incarnation, points, definition, composition>>

Next == AllocIncarnation \/ Commit \/ RecordPoint \/ PutBlob

Spec == Init /\ [][Next]_vars
=============================================================================
