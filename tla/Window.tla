------------------------------- MODULE Window -------------------------------
(***************************************************************************)
(* liasse-surface watch.rs and window.rs: one live subscription over a     *)
(* sorted view, bounded by a window or not, and the client that applies    *)
(* its patches: diff of liasse-runtime patch.rs on the side of the server, *)
(* apply of liasse-wire patch.rs on the side of the client.                *)
(*                                                                         *)
(* A view row is an occurrence and a value, which is also its sort key;    *)
(* SortOrder::compare of liasse-expr orders the rows by value, in the      *)
(* direction of the $sort, and then by occurrence.  Both are numbers, the  *)
(* greatest standing for none.                                             *)
(***************************************************************************)
EXTENDS Naturals, Sequences, FiniteSets
LOCAL INSTANCE SequencesExt

CONSTANTS Occurrence, Value,  \* naturals
          None,         \* no row, no gap, no window
          AtStart, AtEnd,  \* anchors that name an end of the view
          Size,         \* window sizes
          Misfit        \* what apply returns for a patch that does not fit

VARIABLES view,         \* occurrence -> value, or None
          descending,   \* the direction of the $sort
          window,       \* size, anchor, whether it slides, the frozen gap; or None
          windowed,     \* the rows of the window as last delivered
          client        \* the rows the client holds

vars == <<view, descending, window, windowed, client>>

-----------------------------------------------------------------------------
(* Patches.  Positions are those of the code, from 0.                      *)

InsertOp(at, row) == [op |-> "insert", at |-> at, id |-> row.id, value |-> row.value]
RemoveOp(id) == [op |-> "remove", id |-> id]
MoveOp(id, to) == [op |-> "move", id |-> id, to |-> to]
UpdateOp(row) == [op |-> "update", id |-> row.id, value |-> row.value]

Ids(rows) == [i \in DOMAIN rows |-> rows[i].id]
Holds(rows, id) == \E i \in DOMAIN rows : rows[i].id = id
Position(rows, id) == CHOOSE i \in DOMAIN rows : rows[i].id = id
PutAt(seq, at, e) == InsertAt(seq, at + 1, e)

(* Pass one of diff: departed occurrences are removed, survivors whose     *)
(* value changed are updated in place                                      *)
Departures(prev, next) ==
  LET visit(ops, row) ==
        CASE ~Holds(next, row.id) -> Append(ops, RemoveOp(row.id))
          [] Holds(next, row.id) /\ next[Position(next, row.id)].value # row.value ->
               Append(ops, UpdateOp(next[Position(next, row.id)]))
          [] OTHER -> ops IN
  FoldLeft(visit, <<>>, prev)

Survivors(prev, next) == SelectSeq(Ids(prev), LAMBDA id : Holds(next, id))

(* A mutant: a move leaves the working order as the previous result had it *)
PlaceInPrevOrder(next, state, index) ==
  LET target == next[index + 1]
      working == state.working IN
  CASE index < Len(working) /\ working[index + 1] = target.id -> state
    [] ~Contains(working, target.id) ->
         [working |-> PutAt(working, index, target.id),
          ops |-> Append(state.ops, InsertOp(index, target))]
    [] OTHER -> [state EXCEPT !.ops = Append(@, MoveOp(target.id, index))]

(* Pass two, one index of `next`: the settled prefix stays, the target is  *)
(* moved or inserted behind it                                             *)
Place(next, state, index) ==
  LET target == next[index + 1]
      working == state.working IN
  CASE index < Len(working) /\ working[index + 1] = target.id -> state
    [] ~Contains(working, target.id) ->
         [working |-> PutAt(working, index, target.id),
          ops |-> Append(state.ops, InsertOp(index, target))]
    [] OTHER -> [working |-> PutAt(Remove(working, target.id), index, target.id),
                 ops |-> Append(state.ops, MoveOp(target.id, index))]

Diff(prev, next) ==
  LET step(state, index) == Place(next, state, index) IN
  FoldLeft(step, [working |-> Survivors(prev, next), ops |-> Departures(prev, next)],
           [i \in DOMAIN next |-> i - 1]).ops

----------------------------------------------------------------------------
(* apply: an unknown or a duplicate occurrence and a position out of range *)
(* refuse the whole patch                                                  *)
ApplyOp(rows, op) ==
  LET without == SelectSeq(rows, LAMBDA row : row.id # op.id) IN
  CASE op.op = "insert" ->
         IF Holds(rows, op.id) \/ op.at > Len(rows) THEN Misfit
         ELSE PutAt(rows, op.at, [id |-> op.id, value |-> op.value])
    [] op.op # "insert" /\ ~Holds(rows, op.id) -> Misfit
    [] op.op = "remove" /\ Holds(rows, op.id) -> without
    [] op.op = "update" /\ Holds(rows, op.id) ->
         [rows EXCEPT ![Position(rows, op.id)].value = op.value]
    [] op.op = "move" /\ Holds(rows, op.id) ->
         IF op.to > Len(without) THEN Misfit
         ELSE PutAt(without, op.to, rows[Position(rows, op.id)])

Apply(rows, ops) ==
  LET step(acc, op) == IF acc = Misfit THEN Misfit ELSE ApplyOp(acc, op) IN
  FoldLeft(step, rows, ops)

-----------------------------------------------------------------------------
Before(value, id, value2, id2) ==
  IF value = value2 THEN id < id2
  ELSE IF descending THEN value2 < value ELSE value < value2

Rows(v) ==
  SetToSortSeq({[id |-> o, value |-> v[o]] : o \in {p \in Occurrence : v[p] # None}},
               LAMBDA a, b : Before(a.value, a.id, b.value, b.id))

Slice(rows, start, size) ==
  SubSeq(rows, start + 1, IF start + size < Len(rows) THEN start + size ELSE Len(rows))

Saturating(a, b) == IF a > b THEN a - b ELSE 0
Least(a, b) == IF a < b THEN a ELSE b

(* center: the anchor in the middle, the window inside the rows            *)
Center(index, size, len) ==
  Least(Saturating(index, size \div 2), Saturating(len, size))

(* FrozenGap::resume: the rows before the place the anchor last had        *)
Resume(gap, rows) ==
  Cardinality({i \in DOMAIN rows : Before(rows[i].value, rows[i].id, gap.value, gap.id)})

(* Window::select freezes the gap where the anchor is now ...              *)
Refrozen(w, rows) ==
  IF w.anchor \in Occurrence /\ Holds(rows, w.anchor)
  THEN [w EXCEPT !.gap = rows[Position(rows, w.anchor)]] ELSE w

(* ... and finds the first row of the window                               *)
Start(w, rows) ==
  CASE w.anchor = AtStart -> 0
    [] w.anchor = AtEnd -> Saturating(Len(rows), w.size)
    [] w.anchor \in Occurrence /\ Holds(rows, w.anchor) ->
         LET index == Position(rows, w.anchor) - 1 IN
         IF w.slide THEN Center(index, w.size, Len(rows)) ELSE index
    [] OTHER -> Resume(w.gap, rows)

(* What the subscription delivers of the view                              *)
Selected(w, rows) == IF w = None THEN rows ELSE Slice(rows, Start(w, rows), w.size)

View == [Occurrence -> Value \cup {None}]

(* Watch::init; an anchor that is absent refuses to open (AbsentAnchor)    *)
Init ==
  /\ view \in View /\ descending \in BOOLEAN
  /\ \/ window = None
     \/ \E size \in Size, anchor \in {AtStart, AtEnd} :
          window = [size |-> size, anchor |-> anchor, slide |-> FALSE, gap |-> None]
     \/ \E size \in Size, anchor \in Occurrence, slide \in BOOLEAN :
          /\ view[anchor] # None
          /\ window = Refrozen([size |-> size, anchor |-> anchor, slide |-> slide,
                                gap |-> None], Rows(view))
  /\ windowed = Selected(window, Rows(view))
  /\ client = windowed

(* Watch::advance after a commit that changed any of the rows, and the     *)
(* client's Store::patch                                                   *)
Advance(next) ==
  LET rows == Rows(next)
      refrozen == IF window = None THEN None ELSE Refrozen(window, rows)
      refreshed == Selected(refrozen, rows) IN
  /\ view' = next /\ window' = refrozen /\ windowed' = refreshed
  /\ client' = Apply(client, Diff(windowed, refreshed))
  /\ UNCHANGED descending

Next == \E next \in View : Advance(next)

Spec == Init /\ [][Next]_vars

----------------------------------------------------------------------------
(* Properties                                                              *)

(* patch.rs diff and apply: whatever a commit does to the order of the     *)
(* view, the patch fits what the client holds and carries it to exactly    *)
(* the rows of the window, in their order.                                 *)
ClientHoldsTheWindow == client = windowed
=============================================================================
