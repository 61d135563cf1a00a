----------------------------- MODULE Evaluation -----------------------------
(***************************************************************************)
(* The evaluator of liasse-expr (eval/): a typed node over the rows of an  *)
(* instance gives a cell, a scalar value, a row, a collection of rows or   *)
(* an error.  A row has an identity (the keys that lead to it), a key and  *)
(* its cells.                                                              *)
(*                                                                         *)
(* A view is evaluated in two ways.  As a source of a projection or an     *)
(* aggregate (EvalView) its rows come with what they were reached through, *)
(* and a filter sees the enclosing `.`; as a value (Eval) a filter sees    *)
(* the candidate row as `.`.                                               *)
(***************************************************************************)
EXTENDS Typing, Values
LOCAL INSTANCE TLC

CONSTANT Param            \* the values of the parameters, by name

Val(v) == <<"val", v>>
RowCell(r) == <<"row", r>>
Rows(rs) == <<"rows", rs>>
Err(why) == <<"err", why>>
True == Val(BoolVal(TRUE))
Failed(c) == c[1] = "err"
Mismatch == Err("shape")

(* The first failure of several evaluations, or what they all give.        *)
FailureIn(cells) == {i \in DOMAIN cells : Failed(cells[i])}
Then(c, F(_)) == IF Failed(c) THEN c ELSE F(c)

-----------------------------------------------------------------------------
(* Keys are compared by what identifies their rows.                        *)
KeyMatches(a, b) == IdentityValue(a) = IdentityValue(b)

(* A reference meets a plain value as the key of its target.               *)
Unref(v, other) == IF v[1] = "ref" /\ other[1] # "ref" THEN v[2] ELSE v

Quotient(a, b) ==
  LET q == (IF a < 0 THEN -a ELSE a) \div (IF b < 0 THEN -b ELSE b)
  IN IF (a < 0) = (b < 0) THEN q ELSE -q

Arith(op, a, b) ==
  CASE op = "+" -> Val(IntVal(a + b))
    [] op = "-" -> Val(IntVal(a - b))
    [] op = "*" -> Val(IntVal(a * b))
    [] b = 0 -> Err("zero")
    [] op = "/" -> Val(IntVal(Quotient(a, b)))
    [] op = "%" -> Val(IntVal(a - b * Quotient(a, b)))

Compared(op, l, r) ==
  LET a == Unref(l, r)
      b == Unref(r, l)
  IN CASE op = "==" -> a = b
       [] op = "!=" -> a # b
       [] op = "<" -> Before(a, b)
       [] op = "<=" -> a = b \/ Before(a, b)

(* The identities of the left operand first, of the right one after them.  *)
Merged(op, left, right) ==
  LET leftIds == {left[i].id : i \in DOMAIN left}
      rightIds == {right[i].id : i \in DOMAIN right}
      added == FoldLeft(LAMBDA acc, s : IF \E i \in DOMAIN acc : acc[i].id = s.id THEN acc
                                        ELSE Append(acc, s),
                        <<>>, SelectSeq(right, LAMBDA s : s.id \notin leftIds))
      kept(p(_)) == SelectSeq(left, LAMBDA s : p(s.id))
      rows(scopes) == [i \in DOMAIN scopes |-> scopes[i].row]
  IN CASE op = "|" -> rows(left) \o rows(added)
       [] op = "&" -> rows(kept(LAMBDA id : id \in rightIds))
       [] op = "-" -> rows(kept(LAMBDA id : id \notin rightIds))

(* What an aggregate makes of the values that are not none.                *)
Aggregated(f, values) ==
  LET all == Range(values)
  IN CASE f = "sum" -> IntVal(FoldLeft(LAMBDA total, v : total + (IF v[1] = "int" THEN v[2] ELSE 0),
                                       0, values))
       [] f = "distinct" -> <<"set", all>>
       [] all = {} -> None
       [] f = "min" -> CHOOSE v \in all : \A o \in all : o = v \/ Before(v, o)
       [] f = "max" -> CHOOSE v \in all : \A o \in all : o = v \/ Before(o, v)

(* SortOrder::compare: each key in its direction, then the identity.       *)
RowBefore(keysA, idA, keysB, idB, sort) ==
  LET differs == {i \in DOMAIN sort : keysA[i] # keysB[i]}
  IN IF differs = {} THEN SeqBefore(idA, idB)
     ELSE LET i == Min(differs)
          IN IF sort[i].desc THEN Before(keysB[i], keysA[i]) ELSE Before(keysA[i], keysB[i])

InOrder(ranked, sort) ==
  IF sort = <<>> THEN ranked
  ELSE SortSeq(ranked, LAMBDA a, b : RowBefore(a.keys, a.row.id, b.keys, b.row.id, sort))
RowsOf(ranked) == [i \in DOMAIN ranked |-> ranked[i].row]
Bounded(rows, skip, limit) ==
  SubSeq(rows, skip + 1, IF limit = NoLimit THEN Len(rows) ELSE Min({Len(rows), skip + limit}))

(* $skip and $limit, and the order unless there is no $sort.               *)
OrderAndBound(ranked, proj) == Bounded(RowsOf(InOrder(ranked, proj.sort)), proj.skip, proj.limit)

-----------------------------------------------------------------------------
(* A row on its way through a view: what it was reached through, and the   *)
(* identity that says so.                                                  *)
Bare(r) == [row |-> r, binds |-> NoBinds, id |-> r.id]
Scopes(ss) == <<"scopes", ss>>
BareScopes(c) == Scopes([i \in DOMAIN c[2] |-> Bare(c[2][i])])

RECURSIVE BindName(_)
BindName(n) ==
  LET kind == KindOf(n)
  IN CASE kind[1] \in {"field", "traverse"} -> kind[3]
       [] kind[1] \in {"keys", "bind", "project"} -> BindName(kind[2])
       [] OTHER -> ""

(* A node is evaluated as a value or as a view.                            *)
RECURSIVE Evaluate(_, _, _, _)
Eval(n, w, frames) == Evaluate("value", n, w, frames)
EvalView(n, w, frames) == Evaluate("view", n, w, frames)

(* Evaluations in order, up to the first that fails.                       *)
EvalAll(nodes, w, frames) ==
  FoldLeft(LAMBDA acc, n :
             IF Failed(acc) THEN acc
             ELSE Then(Eval(n, w, frames), LAMBDA c : <<"cells", Append(acc[2], c)>>),
           <<"cells", <<>>>>, nodes)

EvalScalar(n, w, frames) ==
  Then(Eval(n, w, frames), LAMBDA c : IF c[1] = "val" THEN c ELSE Mismatch)

EvalField(base, m) ==
  IF base[1] = "row" /\ m \in DOMAIN base[2].cells THEN base[2].cells[m] ELSE Mismatch

(* Every key selects the rows that match it; a set selects for each of its *)
(* members in order.                                                       *)
SelectByKeys(rows, keys) ==
  LET wanted(c) == IF c[2][1] = "set" THEN Sorted(c[2][2]) ELSE <<c[2]>>
      matching(v) == SelectSeq(rows, LAMBDA r : KeyMatches(r.key, v))
  IN IF \E c \in Range(keys) : c[1] # "val" THEN Mismatch
     ELSE Rows(FlattenSeq([i \in DOMAIN keys |->
                 FlattenSeq([j \in DOMAIN wanted(keys[i]) |-> matching(wanted(keys[i])[j])])]))

(* The rows a selector of a value keeps: `.` is the candidate.             *)
SelectByBind(rows, name, cond, w, frames) ==
  IF cond = NoCondition THEN Rows(rows)
  ELSE FoldLeft(LAMBDA acc, r :
         LET verdict == Eval(cond, w, Push(frames, RowCell(r), BindTo(NoBinds, name, RowCell(r))))
         IN IF Failed(acc) THEN acc ELSE IF Failed(verdict) THEN verdict
            ELSE IF verdict = True THEN Rows(Append(acc[2], r)) ELSE acc,
         Rows(<<>>), rows)

SourceRows(c) == CASE c[1] = "rows" -> c [] c[1] = "row" -> Rows(<<c[2]>>) [] OTHER -> Mismatch

SelectRows(kind, w, frames) ==
  Then(Then(Eval(kind[2], w, frames), SourceRows), LAMBDA source :
    IF kind[1] = "keys"
    THEN Then(EvalAll(kind[3], w, frames), LAMBDA keys : SelectByKeys(source[2], keys[2]))
    ELSE SelectByBind(source[2], kind[3], kind[4], w, frames))

(* A selector by one scalar key needs exactly one row.                     *)
EvalSelect(n, w, frames) ==
  Then(SelectRows(KindOf(n), w, frames), LAMBDA rows :
    IF TypeOf(n)[1] # "row" THEN rows
    ELSE IF Len(rows[2]) = 1 THEN RowCell(rows[2][1]) ELSE Err("cardinality"))

(* The rows a selector of a view keeps: `.` stays the enclosing value.     *)
SelectScopes(scopes, name, cond, w, frames) ==
  FoldLeft(LAMBDA acc, s :
    LET bound == BindTo(s.binds, name, RowCell(s.row))
        verdict == IF cond = NoCondition THEN True
                   ELSE Eval(cond, w, Push(frames, TopOf(frames).current, bound))
    IN IF Failed(acc) THEN acc ELSE IF Failed(verdict) THEN verdict
       ELSE IF verdict = True THEN Scopes(Append(acc[2], [s EXCEPT !.binds = bound])) ELSE acc,
    Scopes(<<>>), scopes)

(* The nested rows of every row, each bound beside the row it is under.    *)
Traversed(scopes, m, baseName) ==
  LET inner(s) == IF m \in DOMAIN s.row.cells THEN s.row.cells[m] ELSE Rows(<<>>)
      outer(s) == IF baseName = "" THEN s.binds ELSE BindTo(s.binds, baseName, RowCell(s.row))
      under(s) == [i \in DOMAIN inner(s)[2] |->
                     [row |-> inner(s)[2][i], id |-> s.id \o inner(s)[2][i].id,
                      binds |-> BindTo(outer(s), m, RowCell(inner(s)[2][i]))]]
  IN IF \E s \in Range(scopes) : inner(s)[1] # "rows" THEN Mismatch
     ELSE Scopes(FlattenSeq([i \in DOMAIN scopes |-> under(scopes[i])]))

-----------------------------------------------------------------------------
(* Projection.                                                             *)

ProjectFrame(s, group) ==
  Frame(RowCell(s.row), IF group = <<>> THEN s.binds ELSE BindTo(s.binds, "group", group))

BindOutput(frame, loops, name, c) ==
  IF name \in loops THEN frame ELSE [frame EXCEPT !.binds = BindTo(@, name, c)]

(* Evaluates outputs in order, each seeing the ones before it.             *)
Outputs(outs, s, group, w, frames) ==
  LET start == ProjectFrame(s, group)
  IN FoldLeft(LAMBDA acc, out :
       IF Failed(acc) THEN acc
       ELSE Then(Eval(out.expr, w, Append(frames, acc[2])), LAMBDA c :
              <<"outs", BindOutput(acc[2], DOMAIN start.binds, out.name, c),
                BindTo(acc[3], out.name, c)>>),
       <<"outs", start, NoBinds>>, outs)

(* Only the key outputs are evaluated and bound.                           *)
GroupKey(proj, s, w, frames) ==
  Then(Outputs(SelectSeq(proj.outs, LAMBDA out : out.name \in Range(proj.key)), s, <<>>, w, frames),
    LAMBDA done :
      LET given == SelectSeq(proj.key, LAMBDA name : name \in DOMAIN done[3])
          cells == [i \in DOMAIN given |-> done[3][given[i]]]
      IN IF \E c \in Range(cells) : c[1] # "val" THEN Mismatch
         ELSE <<"key", [i \in DOMAIN cells |-> cells[i][2]]>>)

(* A projected row and its sort keys.                                      *)
ProjectRow(proj, s, group, id, key, w, frames) ==
  Then(Outputs(proj.outs, s, group, w, frames), LAMBDA done :
    LET frame == FoldLeft(LAMBDA f, out :
                            BindOutput(f, DOMAIN ProjectFrame(s, group).binds, out.name, done[3][out.name]),
                          ProjectFrame(s, group), proj.outs)
    IN Then(EvalAll([i \in DOMAIN proj.sort |-> proj.sort[i].expr], w, Append(frames, frame)),
         LAMBDA keys :
           IF \E c \in Range(keys[2]) : c[1] # "val" THEN Mismatch
           ELSE <<"ranked", [row |-> [id |-> id, key |-> key, cells |-> done[3]],
                             keys |-> [i \in DOMAIN keys[2] |-> keys[2][i][2]]]>>))

Ranked(ranked, proj) ==
  IF FailureIn(ranked) # {} THEN ranked[Min(FailureIn(ranked))]
  ELSE Rows(OrderAndBound([i \in DOMAIN ranked |-> ranked[i][2]], proj))

ProjectPlain(scopes, proj, w, frames) ==
  Ranked([i \in DOMAIN scopes |->
            ProjectRow(proj, scopes[i], <<>>, scopes[i].id, scopes[i].row.key, w, frames)], proj)

SyntheticKey(key) == IF Len(key) = 1 THEN key[1] ELSE <<"composite", key>>

(* Groups in the order of their keys; the first member stands for a group. *)
ProjectGroups(keyed, scopes, proj, w, frames) ==
  LET members(k) == SelectSeq(scopes, LAMBDA s : \E i \in DOMAIN scopes : scopes[i] = s /\ keyed[i][2] = k)
      project(k, group) ==
        ProjectRow(proj, group[1], Rows([i \in DOMAIN group |-> group[i].row]),
                   <<IdentityValue(SyntheticKey(k))>>, SyntheticKey(k), w, frames)
      groups == Sorted({<<"composite", keyed[i][2]>> : i \in DOMAIN keyed})
  IN IF FailureIn(keyed) # {} THEN keyed[Min(FailureIn(keyed))]
     ELSE Ranked([i \in DOMAIN groups |-> project(groups[i][2], members(groups[i][2]))], proj)
ProjectGrouped(scopes, proj, w, frames) ==
  ProjectGroups([i \in DOMAIN scopes |-> GroupKey(proj, scopes[i], w, frames)], scopes, proj, w, frames)

ProjectView(kind, w, frames) ==
  Then(EvalView(kind[2], w, frames), LAMBDA scopes :
    IF kind[3].key = <<>> THEN ProjectPlain(scopes[2], kind[3], w, frames)
    ELSE ProjectGrouped(scopes[2], kind[3], w, frames))

EvalProject(n, w, frames) ==
  IF TypeOf(n)[1] # "row" THEN ProjectView(KindOf(n), w, frames)
  ELSE Then(Eval(KindOf(n)[2], w, frames), LAMBDA c :
         IF c[1] # "row" THEN Mismatch
         ELSE Then(ProjectRow(KindOf(n)[3], Bare(c[2]), <<>>, c[2].id, c[2].key, w, frames),
                LAMBDA ranked : RowCell(ranked[2].row)))

-----------------------------------------------------------------------------

EvalAsView(n, w, frames) ==
  LET kind == KindOf(n)
  IN CASE kind[1] = "traverse" ->
            Then(EvalView(kind[2], w, frames), LAMBDA s : Traversed(s[2], kind[3], BindName(kind[2])))
       [] kind[1] = "bind" ->
            Then(EvalView(kind[2], w, frames), LAMBDA s :
              SelectScopes(s[2], kind[3], kind[4], w, frames))
       [] kind[1] = "keys" -> Then(SelectRows(kind, w, frames), BareScopes)
       [] kind[1] = "project" -> Then(ProjectView(kind, w, frames), BareScopes)
       [] OTHER -> Then(Then(Eval(n, w, frames), SourceRows), BareScopes)

CollectView(n, w, frames) ==
  Then(EvalView(n, w, frames), LAMBDA s : Rows([i \in DOMAIN s[2] |-> s[2][i].row]))

(* An absent or none cell is skipped.                                      *)
EvalAggregate(kind, w, frames) ==
  Then(EvalView(kind[3], w, frames), LAMBDA s :
    LET cells == [i \in DOMAIN s[2] |->
                    IF kind[4] \in DOMAIN s[2][i].row.cells THEN s[2][i].row.cells[kind[4]] ELSE Val(None)]
        present == SelectSeq(cells, LAMBDA c : c # Val(None))
    IN IF kind[2] = "count" THEN Val(IntVal(Len(s[2])))
       ELSE IF \E c \in Range(cells) : c[1] # "val" THEN Mismatch
       ELSE Val(Aggregated(kind[2], [i \in DOMAIN present |-> present[i][2]])))

EvalBinary(kind, w, frames) ==
  Then(EvalScalar(kind[Len(kind) - 1], w, frames), LAMBDA a :
  Then(EvalScalar(kind[Len(kind)], w, frames), LAMBDA b :
    CASE kind[1] = "concat" ->
           IF a[2][1] = "text" /\ b[2][1] = "text" THEN Val(<<"text", a[2][2] \o b[2][2]>>) ELSE Mismatch
      [] kind[1] = "arith" ->
           IF a[2][1] = "int" /\ b[2][1] = "int" THEN Arith(kind[2], a[2][2], b[2][2]) ELSE Mismatch
      [] kind[1] = "compare" -> Val(BoolVal(Compared(kind[2], a[2], b[2])))))

(* The right side of && and || only when the left one does not decide.     *)
EvalLogic(op, l, r, w, frames) ==
  Then(EvalScalar(l, w, frames), LAMBDA a :
    IF (a = True) = (op = "||") THEN Val(BoolVal(op = "||"))
    ELSE Then(EvalScalar(r, w, frames), LAMBDA b : Val(BoolVal(b = True))))

EvalUnary(op, a) ==
  IF op = "not" THEN Val(BoolVal(a # True))
  ELSE IF a[2][1] = "int" THEN Val(IntVal(-a[2][2])) ELSE Mismatch

(* A row stands for its key; members of a set are compared as they are,    *)
(* keys of a view by identity.                                             *)
EvalIn(needle, hay) ==
  LET v == IF needle[1] = "row" THEN needle[2].key ELSE needle[2]
  IN IF needle[1] \notin {"row", "val"} THEN Mismatch
     ELSE IF hay[1] = "rows"
     THEN Val(BoolVal(\E r \in Range(hay[2]) : KeyMatches(r.key, v)))
     ELSE IF hay[1] = "val" /\ hay[2][1] = "set" THEN Val(BoolVal(v \in hay[2][2])) ELSE Mismatch

Vacant(c) == c = Rows(<<>>) \/ c = Val(None)

EvalBuiltin(f, cells) ==
  LET c == cells[1]
  IN CASE cells = <<>> -> Mismatch
       [] f = "has" -> Val(BoolVal(~Vacant(c)))
       [] c[1] = "rows" -> Val(IntVal(Len(c[2])))
       [] c[1] = "val" /\ c[2][1] = "text" -> Val(IntVal(Len(c[2][2])))
       [] c[1] = "val" /\ c[2][1] = "set" -> Val(IntVal(Cardinality(c[2][2])))
       [] OTHER -> Mismatch

EvalMerge(kind, w, frames) ==
  Then(EvalView(kind[3], w, frames), LAMBDA l :
    Then(EvalView(kind[4], w, frames), LAMBDA r : Rows(Merged(kind[2], l[2], r[2]))))

EvalList(cells) ==
  IF \E c \in Range(cells) : c[1] # "val" THEN Mismatch
  ELSE Val(<<"set", {cells[i][2] : i \in DOMAIN cells}>>)

EvalLocal(frames, x) ==
  LET found == Binding(frames, x) IN IF found = Ill THEN Err("unbound") ELSE found

EvalAsValue(n, w, frames) ==
  LET kind == KindOf(n)
  IN CASE kind[1] = "literal" -> Val(kind[2])
       [] kind[1] = "root" -> RowCell(w)
       [] kind[1] = "parent" -> frames[Len(frames) - kind[2]].current
       [] kind[1] = "param" -> Val(Param[kind[2]])
       [] kind[1] = "local" -> EvalLocal(frames, kind[2])
       [] kind[1] = "hoisted" -> kind[2]
       [] kind[1] = "field" -> Then(Eval(kind[2], w, frames), LAMBDA c : EvalField(c, kind[3]))
       [] kind[1] = "key" -> Then(Eval(kind[2], w, frames), LAMBDA c :
                               IF c[1] = "row" THEN Val(c[2].key) ELSE Mismatch)
       [] kind[1] \in {"keys", "bind"} -> EvalSelect(n, w, frames)
       [] kind[1] = "traverse" -> CollectView(n, w, frames)
       [] kind[1] = "project" -> EvalProject(n, w, frames)
       [] kind[1] = "merge" -> EvalMerge(kind, w, frames)
       [] kind[1] = "aggregate" -> EvalAggregate(kind, w, frames)
       [] kind[1] \in {"arith", "concat", "compare"} -> EvalBinary(kind, w, frames)
       [] kind[1] = "logic" -> EvalLogic(kind[2], kind[3], kind[4], w, frames)
       [] kind[1] \in {"not", "neg"} ->
            Then(EvalScalar(kind[2], w, frames), LAMBDA a : EvalUnary(kind[1], a))
       [] kind[1] = "in" -> Then(EvalAll(<<kind[2], kind[3]>>, w, frames), LAMBDA c :
                               EvalIn(c[2][1], c[2][2]))
       [] kind[1] = "ternary" -> Then(EvalScalar(kind[2], w, frames), LAMBDA c :
                                    Eval(kind[IF c = True THEN 3 ELSE 4], w, frames))
       [] kind[1] = "fallback" -> Then(Eval(kind[2], w, frames), LAMBDA c :
                                    IF Vacant(c) THEN Eval(kind[3], w, frames) ELSE c)
       [] kind[1] = "builtin" -> Then(EvalAll(kind[3], w, frames), LAMBDA c :
                                    EvalBuiltin(kind[2], c[2]))
       [] kind[1] = "list" -> Then(EvalAll(kind[2], w, frames), LAMBDA c : EvalList(c[2]))
       [] kind[1] = "empty" -> Rows(<<>>)

Evaluate(as, n, w, frames) ==
  IF as = "view" THEN EvalAsView(n, w, frames) ELSE EvalAsValue(n, w, frames)

(* TypedExpr::evaluate_view: what a view shows of the instance.            *)
EvaluateView(n, w, frames) ==
  IF Scalar(TypeOf(n)) THEN Eval(n, w, frames) ELSE CollectView(n, w, frames)

-----------------------------------------------------------------------------
(* What a type promises of a cell.                                         *)

RECURSIVE Conforms(_, _)
Conforms(v, ty) ==
  CASE ty[1] = "opt" -> v = None \/ Conforms(v, ty[2])
    [] ty[1] = "ref" -> v[1] = "ref" /\ Conforms(v[2], ty[2])
    [] ty[1] = "set" -> v[1] = "set" /\ \A x \in v[2] : Conforms(x, ty[2])
    [] OTHER -> v[1] = ty[1]

RECURSIVE Fits(_, _)
RowFits(r, ty) ==
  /\ ty.key = NoKey \/ Conforms(r.key, ty.key)
  /\ \A f \in DOMAIN ty.fields : f \in DOMAIN r.cells /\ Fits(r.cells[f], ty.fields[f])
Fits(c, ty) ==
  CASE ty[1] = "row" -> c[1] = "row" /\ RowFits(c[2], ty[2])
    [] ty[1] = "view" -> c[1] = "rows" /\ \A r \in Range(c[2]) : RowFits(r, ty[2])
    [] OTHER -> c[1] = "val" /\ Conforms(c[2], ty)

(* The nodes below a node.                                                 *)
Below(n) ==
  LET kind == KindOf(n)
      exprs(seq) == {seq[i].expr : i \in DOMAIN seq}
  IN CASE kind[1] \in {"field", "key", "traverse", "not", "neg"} -> {kind[2]}
       [] kind[1] = "keys" -> {kind[2]} \union Range(kind[3])
       [] kind[1] = "bind" -> {kind[2]} \union ({kind[4]} \ {NoCondition})
       [] kind[1] = "project" -> {kind[2]} \union exprs(kind[3].outs) \union exprs(kind[3].sort)
       [] kind[1] \in {"merge", "arith", "compare", "logic"} -> {kind[3], kind[4]}
       [] kind[1] \in {"concat", "in", "fallback"} -> {kind[2], kind[3]}
       [] kind[1] = "aggregate" -> {kind[3]}
       [] kind[1] = "ternary" -> {kind[2], kind[3], kind[4]}
       [] kind[1] = "builtin" -> Range(kind[3])
       [] kind[1] = "list" -> Range(kind[2])
       [] OTHER -> {}

RECURSIVE Nodes(_)
Nodes(n) == {n} \union UNION {Nodes(b) : b \in Below(n)}

Locals(n) == {KindOf(b)[2] : b \in {x \in Nodes(n) : KindOf(x)[1] = "local"}}

(* The uses the checker accepts without looking at all of their operands.  *)
Unchecked(n) ==
  LET kind == KindOf(n)
      same(a, b) == Shape(TypeOf(a)) = Shape(TypeOf(b))
      plain(seq) == \A i \in DOMAIN seq : Scalar(TypeOf(seq[i].expr))
      keyOuts(proj) == SelectSeq(proj.outs, LAMBDA out : out.name \in Range(proj.key))
      otherNames(proj) == {out.name : out \in Range(proj.outs)} \ Range(proj.key)
      shared(a, b) == \A f \in DOMAIN TypeOf(a)[2].fields :
                        /\ f \in DOMAIN TypeOf(b)[2].fields
                        /\ Shape(TypeOf(a)[2].fields[f]) = Shape(TypeOf(b)[2].fields[f])
  IN CASE kind[1] = "fallback" ->
            ~(IF Is(kind[2], "opt") THEN TypeOf(kind[3]) = TypeOf(n) ELSE same(kind[2], kind[3]))
       [] kind[1] = "ternary" -> ~same(kind[3], kind[4])
       [] kind[1] = "in" -> Is(kind[2], "view")
       [] kind[1] = "merge" -> kind[2] = "|" /\ ~shared(kind[3], kind[4])
       [] kind[1] = "bind" -> kind[4] # NoCondition /\ \E b \in Nodes(kind[4]) : KindOf(b)[1] = "parent"
       [] kind[1] = "keys" -> \E k \in Range(kind[3]) : ~Scalar(TypeOf(k))
       [] kind[1] = "project" ->
            \/ ~plain(kind[3].sort) \/ ~plain(keyOuts(kind[3]))
            \/ Is(kind[2], "row") /\ kind[3].key # <<>>
            \/ \E out \in Range(keyOuts(kind[3])) : Locals(out.expr) \intersect otherNames(kind[3]) # {}
       [] kind[1] = "builtin" ->
            kind[3] = <<>> \/ (kind[2] = "size" /\ TypeOf(kind[3][1])[1] \notin {"text", "set", "view"})
       [] OTHER -> FALSE

(* What a typed expression makes of an instance: a cell of its type, or a  *)
(* failure no type excludes, a division by zero or a selector by one key   *)
(* that finds no row or several.                                           *)
Excusable == {Err("zero"), Err("cardinality")}
KeepsItsType(n, w, frames) ==
  LET c == Eval(n, w, frames) IN c \in Excusable \/ (~Failed(c) /\ Fits(c, TypeOf(n)))
=============================================================================
