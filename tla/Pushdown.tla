------------------------------ MODULE Pushdown ------------------------------
(***************************************************************************)
(* A flat view lowered to a row program (liasse-expr lower.rs and hoist.rs,*)
(* liasse-pred), and the evaluated read of a store (liasse-store           *)
(* view_program.rs) that runs it over the stored rows one by one.  What    *)
(* does not read the candidate row but reaches outside of it is evaluated  *)
(* once beforehand, and the program sees only the candidate.  Grouped,     *)
(* traversing and combined views are not lowered.                          *)
(***************************************************************************)
EXTENDS Evaluation
LOCAL INSTANCE TLC

-----------------------------------------------------------------------------
(* Lowering: the faces of a flat view.                                     *)

Receiver(n) == KindOf(n) \in {<<"root">>, <<"parent", 0>>}
CollectionName(n) == IF KindOf(n)[1] = "field" /\ Receiver(KindOf(n)[2]) THEN KindOf(n)[3] ELSE ""

LowerSource(n) ==
  LET kind == KindOf(n)
  IN IF kind[1] = "bind"
     THEN [collection |-> CollectionName(kind[2]), bind |-> {kind[3]}, filter |-> kind[4]]
     ELSE [collection |-> CollectionName(n), bind |-> {}, filter |-> NoCondition]

LowerFlatView(n) ==
  LET kind == KindOf(n)
  IN IF kind[1] # "project" THEN Ill
     ELSE IF kind[3].key # <<>> \/ LowerSource(kind[2]).collection = "" THEN Ill
     ELSE LowerSource(kind[2]) @@ [proj |-> kind[3]]

-----------------------------------------------------------------------------
(* Hoisting.  refs says what stands for the candidate: whether `.` does,   *)
(* and under which names.                                                  *)

CandidateRefs(current, binds) == [current |-> current, binds |-> binds]
(* A mutant: `.` is never looked for.                                      *)
ReadsCandidateByName(n, refs) ==
  \E b \in Nodes(n) : KindOf(b)[1] = "local" /\ KindOf(b)[2] \in refs.binds
ReadsCandidate(n, refs) ==
  \E b \in Nodes(n) : \/ KindOf(b)[1] = "parent" /\ refs.current
                      \/ KindOf(b)[1] = "local" /\ KindOf(b)[2] \in refs.binds
External(n) == \E b \in Nodes(n) : KindOf(b)[1] \in {"root", "param"}
Hoistable(n, refs) == External(n) /\ ~ReadsCandidate(n, refs)

(* The largest hoistable nodes of n.                                       *)
RECURSIVE Entries(_, _)
Entries(n, refs) ==
  IF Hoistable(n, refs) THEN {n} ELSE UNION {Entries(b, refs) : b \in Below(n)}

(* n with the cells of those nodes in their place.                         *)
RECURSIVE Residual(_, _, _)
Residual(n, refs, cells) ==
  LET kind == KindOf(n)
      r(b) == Residual(b, refs, cells)
      all(seq) == [i \in DOMAIN seq |-> r(seq[i])]
      exprs(seq) == [i \in DOMAIN seq |-> [seq[i] EXCEPT !.expr = r(@)]]
      rebuilt ==
        CASE kind[1] \in {"field", "key", "traverse", "not", "neg"} -> [kind EXCEPT ![2] = r(@)]
          [] kind[1] = "keys" -> [kind EXCEPT ![2] = r(@), ![3] = all(@)]
          [] kind[1] = "bind" ->
               [kind EXCEPT ![2] = r(@), ![4] = IF @ = NoCondition THEN @ ELSE r(@)]
          [] kind[1] = "project" ->
               [kind EXCEPT ![2] = r(@), ![3].outs = exprs(@), ![3].sort = exprs(@)]
          [] kind[1] \in {"merge", "arith", "compare", "logic"} -> [kind EXCEPT ![3] = r(@), ![4] = r(@)]
          [] kind[1] \in {"concat", "in", "fallback"} -> [kind EXCEPT ![2] = r(@), ![3] = r(@)]
          [] kind[1] = "aggregate" -> [kind EXCEPT ![3] = r(@)]
          [] kind[1] = "ternary" -> [kind EXCEPT ![2] = r(@), ![3] = r(@), ![4] = r(@)]
          [] kind[1] = "builtin" -> [kind EXCEPT ![3] = all(@)]
          [] kind[1] = "list" -> [kind EXCEPT ![2] = all(@)]
          [] OTHER -> kind
  IN Node(TypeOf(n), IF Hoistable(n, refs) THEN <<"hoisted", cells[n]>> ELSE rebuilt)

(* The filter takes the candidate by its name only, a sort key by the names*)
(* of the outputs too.                                                     *)
FilterRefs(flat) == CandidateRefs(FALSE, flat.bind)
OutputRefs(flat) == CandidateRefs(TRUE, flat.bind)
SortRefs(flat) == CandidateRefs(TRUE, flat.bind \union {out.name : out \in Range(flat.proj.outs)})

HoistedEntries(flat) ==
  (IF flat.filter = NoCondition THEN {} ELSE Entries(flat.filter, FilterRefs(flat)))
    \union UNION {Entries(out.expr, OutputRefs(flat)) : out \in Range(flat.proj.outs)}
    \union UNION {Entries(by.expr, SortRefs(flat)) : by \in Range(flat.proj.sort)}

RowProgram(flat, cells) ==
  LET face(seq, refs) == [i \in DOMAIN seq |-> [seq[i] EXCEPT !.expr = Residual(@, refs, cells)]]
  IN [admit |-> IF flat.filter = NoCondition THEN NoCondition
                ELSE Residual(flat.filter, FilterRefs(flat), cells),
      outs |-> face(flat.proj.outs, OutputRefs(flat)),
      sort |-> face(flat.proj.sort, SortRefs(flat)),
      bind |-> flat.bind, skip |-> flat.proj.skip, limit |-> flat.proj.limit]

-----------------------------------------------------------------------------
(* The store's side: a stored row is its key and its present fields, and   *)
(* the rows below it come as a list of paths and fields.                   *)

Present(r) == {f \in DOMAIN r.cells : r.cells[f][1] = "val" /\ r.cells[f] # Val(None)}
Nested(r) == {f \in DOMAIN r.cells : r.cells[f][1] = "rows"}
StoredFields(r) == [f \in Present(r) |-> r.cells[f][2]]

RECURSIVE PrefetchSubtree(_, _)
PrefetchSubtree(r, rel) ==
  LET steps == SetToSeq(Nested(r))
      under(step, c) == <<[path |-> Append(rel, <<step, c.key>>), fields |-> StoredFields(c)]>>
                          \o PrefetchSubtree(c, Append(rel, <<step, c.key>>))
      level(step) == FlattenSeq([i \in DOMAIN r.cells[step][2] |-> under(step, r.cells[step][2][i])])
  IN FlattenSeq([i \in DOMAIN steps |-> level(steps[i])])

(* The candidate row made of what is stored: a missing field is none.      *)
RECURSIVE BuildAt(_, _, _, _, _, _)
BuildAt(ty, fields, key, id, rel, subtree) ==
  LET children(step) == SelectSeq(subtree, LAMBDA s :
                          Len(s.path) = Len(rel) + 1 /\ Front(s.path) = rel /\ s.path[Len(s.path)][1] = step)
      child(step, s) == LET k == s.path[Len(s.path)][2]
                        IN BuildAt(ty.fields[step][2], s.fields, k, Append(id, k), s.path, subtree)
  IN [id |-> id, key |-> key,
      cells |-> [f \in DOMAIN ty.fields |->
                   IF Relational(ty.fields[f])
                   THEN Rows([i \in DOMAIN children(f) |-> child(f, children(f)[i])])
                   ELSE Val(IF f \in DOMAIN fields THEN fields[f] ELSE None)]]
BuildRow(ty, r) == BuildAt(ty, StoredFields(r), r.key, <<r.key>>, <<>>, PrefetchSubtree(r, <<>>))

-----------------------------------------------------------------------------
(* The faces of a program over one candidate.                              *)

BaseFrame(prog, r) == Frame(RowCell(r), [b \in prog.bind |-> RowCell(r)])
NoWorld == [id |-> <<>>, key |-> None, cells |-> NoBinds]

Admits(prog, r) ==
  IF prog.admit = NoCondition THEN True ELSE Eval(prog.admit, NoWorld, <<BaseFrame(prog, r)>>)

ProjectCells(prog, r) ==
  FoldLeft(LAMBDA acc, out :
    IF Failed(acc) THEN acc
    ELSE Then(Eval(out.expr, NoWorld, <<acc[2]>>), LAMBDA c :
           <<"outs", BindOutput(acc[2], prog.bind, out.name, c), BindTo(acc[3], out.name, c)>>),
    <<"outs", BaseFrame(prog, r), NoBinds>>, prog.outs)

SortTuple(prog, frame) ==
  Then(EvalAll([i \in DOMAIN prog.sort |-> prog.sort[i].expr], NoWorld, <<frame>>), LAMBDA keys :
    IF \E c \in Range(keys[2]) : c[1] # "val" THEN Mismatch
    ELSE <<"tuple", [i \in DOMAIN keys[2] |-> keys[2][i][2]]>>)

(* What a projection delivers of a row: no none, no nested rows.           *)
Exposed(cells) == [f \in {g \in DOMAIN cells : cells[g][1] = "val" /\ cells[g] # Val(None)} |-> cells[f]]

(* admit, project and sort of one stored row: nothing, a row or a fault.   *)
ScanRow(prog, r) ==
  Then(Admits(prog, r), LAMBDA verdict :
    IF verdict # True THEN <<"out">>
    ELSE Then(ProjectCells(prog, r), LAMBDA done :
         Then(SortTuple(prog, done[2]), LAMBDA tuple :
           <<"in", [row |-> [id |-> r.id, key |-> r.key, cells |-> Exposed(done[3])],
                    keys |-> tuple[2]]>>)))

(* The rows admitted, in order and within bounds, or the first fault.      *)
ScannedRows(scanned, prog) ==
  LET admitted == SelectSeq(scanned, LAMBDA s : s[1] = "in")
  IN IF FailureIn(scanned) # {} THEN scanned[Min(FailureIn(scanned))]
     ELSE Rows(OrderAndBound([i \in DOMAIN admitted |-> admitted[i][2]], prog))
ScanCollection(prog, ty, rows) ==
  ScannedRows([i \in DOMAIN rows |-> ScanRow(prog, BuildRow(ty, rows[i]))], prog)

Delivered(c) ==
  IF Failed(c) THEN Err("failed")
  ELSE Rows([i \in DOMAIN c[2] |-> [c[2][i] EXCEPT !.cells = Exposed(@)]])

(* A lowered view delivers what the evaluator makes of it, failure and     *)
(* order included.  A hoisted part that fails sends the read back to the   *)
(* evaluator; so should a filter that reads `.`, which hoist.rs takes for  *)
(* the enclosing row and the program for the candidate.                    *)
ReadsCurrent(flat) ==
  flat.filter # NoCondition /\ \E b \in Nodes(flat.filter) : KindOf(b)[1] = "parent"

Lowers(n) == KindOf(n)[1] = "project" /\ LowerFlatView(n) # Ill /\ TypeOf(n)[1] = "view"

HoistedCells(flat, w, frames) == [e \in HoistedEntries(flat) |-> Eval(e, w, frames)]
ScanShows(flat, cells, rows, shown) ==
  \/ ReadsCurrent(flat)
  \/ \E e \in DOMAIN cells : Failed(cells[e])
  \/ Delivered(ScanCollection(RowProgram(flat, cells), RootType.fields[flat.collection][2], rows))
       = Delivered(shown)
ScanAgrees(n, w, frames) ==
  LET flat == LowerFlatView(n)
  IN ScanShows(flat, HoistedCells(flat, w, frames), w.cells[flat.collection][2],
               EvaluateView(n, w, frames))
=============================================================================
