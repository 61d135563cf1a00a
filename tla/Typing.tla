------------------------------- MODULE Typing -------------------------------
(***************************************************************************)
(* The static checker of liasse-expr (check/): an expression in a scope    *)
(* becomes a typed node, or is refused (Ill).                              *)
(*                                                                         *)
(* Expressions, types and nodes are tuples whose first element is a tag; a *)
(* node is its type and its kind.  A row type says the fields, the key and *)
(* the relation the rows come from, which its equality ignores.  Numbers   *)
(* are integers; decimals, times, structs, composite keys, buckets,        *)
(* keyrings, blobs and host functions are left out.                        *)
(***************************************************************************)
EXTENDS Integers, Sequences, FiniteSets, SequencesExt

CONSTANTS RootType,       \* the row type of the package root
          ParamType       \* the types of the parameters, by name

Ill == <<>>
NoKey == <<"nokey">>
NoCondition == <<>>
NoLimit == -1
IntType == <<"int">>
BoolType == <<"bool">>
TextType == <<"text">>
JsonType == <<"json">>
Opt(ty) == <<"opt", ty>>
SetOf(ty) == <<"set", ty>>
RefTo(key) == <<"ref", key>>
RowOf(r) == <<"row", r>>
ViewOf(r) == <<"view", r>>
RowType(fields, key, relation) == [fields |-> fields, key |-> key, relation |-> relation]

Aggregates == {"count", "sum", "avg", "min", "max", "distinct"}

Node(ty, kind) == <<ty, kind>>
TypeOf(n) == n[1]
KindOf(n) == n[2]
Is(n, tag) == n # Ill /\ TypeOf(n)[1] = tag
Relational(ty) == ty[1] \in {"row", "view"}
Scalar(ty) == ~Relational(ty)

(* The equality of ExprType: row types are the same whatever relation they *)
(* come from.                                                              *)
RECURSIVE Shape(_)
Shape(ty) ==
  IF Scalar(ty) THEN ty
  ELSE <<ty[1], [f \in DOMAIN ty[2].fields |-> Shape(ty[2].fields[f])], ty[2].key>>

-----------------------------------------------------------------------------
(* The syntax below an expression, in order.                               *)

OutputsOf(outs) == [i \in DOMAIN outs |-> outs[i].expr]
MembersOf(m) == [i \in DOMAIN m.key |-> <<"name", m.key[i]>>] \o OutputsOf(m.outs)
                  \o [i \in DOMAIN m.sort |-> m.sort[i].expr]

Children(e) ==
  CASE e[1] \in {"field", "same", "not", "neg"} -> <<e[2]>>
    [] e[1] = "keys" -> <<e[2]>> \o e[3]
    [] e[1] = "bind" -> IF e[4] = NoCondition THEN <<e[2]>> ELSE <<e[2], e[4]>>
    [] e[1] = "call" -> <<<<"name", e[2]>>>> \o e[3]
    [] e[1] = "block" -> <<e[2]>> \o MembersOf(e[3])
    [] e[1] = "object" -> OutputsOf(e[2])
    [] e[1] = "binary" -> <<e[3], e[4]>>
    [] e[1] = "ternary" -> <<e[2], e[3], e[4]>>
    [] e[1] = "combine" -> e[2]
    [] e[1] = "list" -> e[2]
    [] OTHER -> <<>>

RECURSIVE Names(_)
Names(e) == (IF e[1] = "name" THEN {e[2]} ELSE {})
              \union UNION {Names(c) : c \in Range(Children(e))}

(* A value of the source row that is neither a key output nor aggregated.  *)
(* Bare names and the fields of the bound rows are seen, `.x` is not.      *)
RECURSIVE ReadsNonKey(_, _, _, _)
ReadsNonKey(e, row, keys, rowBinds) ==
  /\ ~(e[1] = "call" /\ e[2] \in Aggregates)
  /\ \/ e[1] = "name" /\ e[2] \in DOMAIN row.fields \ keys
     \/ /\ e[1] = "field" /\ e[2][1] = "name" /\ e[2][2] \in DOMAIN rowBinds
        /\ e[3] \in DOMAIN rowBinds[e[2][2]][2].fields \ keys
     \/ \E c \in Range(Children(e)) : ReadsNonKey(c, row, keys, rowBinds)

(* The outputs in an order in which every one comes after those it names;  *)
(* shorter than the outputs when they depend on one another in a circle.   *)
RECURSIVE Ordered(_, _, _)
Ordered(outs, loops, done) ==
  LET named == {outs[i].name : i \in DOMAIN outs} \ loops
      needs(i) == {j \in DOMAIN outs :
                     /\ outs[j].name \in (Names(outs[i].expr) \intersect named) \ {outs[i].name}
                     /\ \A k \in 1..(j - 1) : outs[k].name # outs[j].name}
      ready == {i \in DOMAIN outs \ Range(done) : needs(i) \subseteq Range(done)}
  IN IF ready = {} THEN done ELSE Ordered(outs, loops, Append(done, Min(ready)))

-----------------------------------------------------------------------------
(* Scopes: a sequence of frames, each a current value and bindings.  The   *)
(* first frame is the scope of the expression, whose bindings come last.   *)

Frame(current, binds) == [current |-> current, binds |-> binds]
NoBinds == [x \in {} |-> x]
TopOf(frames) == frames[Len(frames)]
Push(frames, current, binds) == Append(frames, Frame(current, binds))
BindTo(binds, name, x) == [n \in DOMAIN binds \union {name} |-> IF n = name THEN x ELSE binds[n]]

BindAll(binds, pairs) == FoldLeft(LAMBDA b, p : BindTo(b, p[1], p[2]), binds, pairs)

Binding(frames, x) ==
  LET bound == {i \in DOMAIN frames : x \in DOMAIN frames[i].binds}
  IN IF bound = {} THEN Ill ELSE frames[Max(bound)].binds[x]

(* The innermost bindings, then the fields of the current row, then the    *)
(* bindings further out.                                                   *)
CheckName(frames, x) ==
  LET top == TopOf(frames)
      found == Binding(frames, x)
      local == Len(frames) > 1 /\ x \in DOMAIN top.binds
      field == top.current[1] = "row" /\ x \in DOMAIN top.current[2].fields
  IN IF local THEN Node(found, <<"local", x>>)
     ELSE IF field THEN Node(top.current[2].fields[x],
                             <<"field", Node(top.current, <<"parent", 0>>), x>>)
     ELSE IF found = Ill THEN Ill
     ELSE Node(found, <<"local", x>>)

CheckParent(frames, depth) ==
  IF depth >= Len(frames) THEN Ill
  ELSE Node(frames[Len(frames) - depth].current, <<"parent", depth>>)

CheckParam(x) ==
  IF x \in DOMAIN ParamType THEN Node(ParamType[x], <<"param", x>>) ELSE Ill

(* Traversal of a nested collection, from one row or from a view of rows.  *)
TraverseView(base, m) ==
  IF \/ ~(Is(base, "row") \/ Is(base, "view"))
     \/ m \notin DOMAIN TypeOf(base)[2].fields
     \/ TypeOf(base)[2].fields[m][1] # "view"
  THEN Ill
  ELSE Node(TypeOf(base)[2].fields[m], <<"traverse", base, m>>)

CheckField(base, m) ==
  IF Is(base, "view") THEN TraverseView(base, m)
  ELSE IF ~Is(base, "row") \/ m \notin DOMAIN TypeOf(base)[2].fields THEN Ill
  ELSE Node(TypeOf(base)[2].fields[m], <<"field", base, m>>)

(* The rows a projection can name along its source: collections traversed  *)
(* and rows bound by a selector.                                           *)
RECURSIVE TraverseBinds(_)
TraverseBinds(n) ==
  LET kind == KindOf(n)
      named(x) == IF TypeOf(n)[1] = "view" THEN <<<<x, RowOf(TypeOf(n)[2])>>>> ELSE <<>>
  IN CASE kind[1] \in {"traverse", "field"} -> TraverseBinds(kind[2]) \o named(kind[3])
       [] kind[1] = "bind" -> TraverseBinds(kind[2]) \o named(kind[3])
       [] kind[1] = "keys" -> TraverseBinds(kind[2])
       [] OTHER -> <<>>

-----------------------------------------------------------------------------
(* Operators.                                                              *)

CheckUnary(op, a) ==
  IF Is(a, IF op = "not" THEN "bool" ELSE "int") THEN Node(TypeOf(a), <<op, a>>) ELSE Ill

(* A mutant: an optional operand is taken for the value inside.            *)
FinishArithOnOptional(op, a, b) ==
  IF a = Ill \/ b = Ill THEN Ill
  ELSE LET int(n) == Is(n, "int") \/ TypeOf(n) = Opt(IntType)
       IN CASE Is(a, "text") /\ Is(b, "text") /\ op = "+" -> Node(TextType, <<"concat", a, b>>)
            [] int(a) /\ int(b) -> Node(IntType, <<"arith", op, a, b>>)
            [] OTHER -> Ill

FinishArith(op, a, b) ==
  IF a = Ill \/ b = Ill THEN Ill
  ELSE CASE Is(a, "opt") \/ Is(b, "opt") -> Ill
         [] Is(a, "text") /\ Is(b, "text") /\ op = "+" -> Node(TextType, <<"concat", a, b>>)
         [] Is(a, "int") /\ Is(b, "int") -> Node(IntType, <<"arith", op, a, b>>)
         [] OTHER -> Ill

Comparable(a, b) ==
  CASE a = b -> TRUE
    [] a[1] = "opt" -> a[2] = b \/ b = JsonType
    [] b[1] = "opt" -> b[2] = a \/ a = JsonType
    [] a[1] = "ref" /\ b[1] # "ref" -> a[2] = b
    [] b[1] = "ref" /\ a[1] # "ref" -> b[2] = a
    [] OTHER -> FALSE

(* A row compared with a reference stands for its key.                     *)
KeyOfRow(a, b) ==
  IF Is(a, "row") /\ Is(b, "ref") /\ TypeOf(a)[2].key # NoKey
  THEN Node(TypeOf(a)[2].key, <<"key", a>>) ELSE a

CheckCompare(op, l, r) ==
  LET a == KeyOfRow(l, r)
      b == KeyOfRow(r, l)
  IN IF a = Ill \/ b = Ill THEN Ill
     ELSE IF ~Scalar(TypeOf(a)) \/ ~Scalar(TypeOf(b)) THEN Ill
     ELSE IF Comparable(TypeOf(a), TypeOf(b)) THEN Node(BoolType, <<"compare", op, a, b>>) ELSE Ill

CheckLogic(op, a, b) ==
  IF Is(a, "bool") /\ Is(b, "bool") THEN Node(BoolType, <<"logic", op, a, b>>) ELSE Ill

(* Whatever is on the left of a view: a scalar is compared with the keys.  *)
CheckIn(a, b) ==
  IF a = Ill \/ b = Ill THEN Ill
  ELSE IF Is(b, "view") \/ (Is(b, "set") /\ Scalar(TypeOf(a)) /\ TypeOf(b)[2] = TypeOf(a))
  THEN Node(BoolType, <<"in", a, b>>) ELSE Ill

CheckFallback(a, b) ==
  IF a = Ill \/ b = Ill THEN Ill
  ELSE CASE Is(a, "view") /\ Is(b, "view") -> Node(TypeOf(a), <<"fallback", a, b>>)
         [] Is(a, "opt") -> Node(TypeOf(a)[2], <<"fallback", a, b>>)
         [] Scalar(TypeOf(a)) -> Node(TypeOf(a), <<"fallback", a, b>>)
         [] OTHER -> Ill

CheckTernary(c, a, b) ==
  IF ~Is(c, "bool") \/ a = Ill \/ b = Ill THEN Ill
  ELSE CASE Is(a, "view") -> Node(TypeOf(a), <<"ternary", c, a, b>>)
         [] Shape(TypeOf(a)) = Shape(TypeOf(b)) -> Node(TypeOf(a), <<"ternary", c, a, b>>)
         [] Is(b, "view") -> Node(TypeOf(b), <<"ternary", c, a, b>>)
         [] OTHER -> Ill

(* The relation whose rows a view selects, "" where a new key was made.    *)
RECURSIVE RelationOf(_)
RelationOf(n) ==
  LET kind == KindOf(n)
  IN CASE kind[1] = "project" -> IF kind[3].key = <<>> THEN RelationOf(kind[2]) ELSE ""
       [] kind[1] \in {"keys", "bind"} -> RelationOf(kind[2])
       [] kind[1] = "merge" -> RelationOf(kind[3])
       [] OTHER -> IF Relational(TypeOf(n)) THEN TypeOf(n)[2].relation ELSE ""

SameDomain(first, a, b) ==
  /\ Is(b, "view") /\ TypeOf(a)[2].key = TypeOf(b)[2].key
  /\ RelationOf(first) = "" \/ RelationOf(b) = "" \/ RelationOf(first) = RelationOf(b)

CheckCombination(parts, ops) ==
  IF Range(ops) = {"|", "&"} \/ ~Is(parts[1], "view") THEN Ill
  ELSE FoldLeftDomain(LAMBDA acc, i :
         IF i = 1 \/ acc = Ill THEN acc
         ELSE IF SameDomain(parts[1], acc, parts[i])
         THEN Node(TypeOf(acc), <<"merge", ops[i - 1], acc, parts[i]>>) ELSE Ill,
         parts[1], parts)

CheckSub(a, b) ==
  IF Is(a, "view") /\ Is(b, "view") THEN Node(TypeOf(a), <<"merge", "-", a, b>>)
  ELSE FinishArith("-", a, b)

CheckBinary(op, a, b) ==
  CASE op = "-" -> CheckSub(a, b)
    [] op \in {"+", "*", "/", "%"} -> FinishArith(op, a, b)
    [] op \in {"==", "!=", "<", "<="} -> CheckCompare(op, a, b)
    [] op \in {"&&", "||"} -> CheckLogic(op, a, b)
    [] op = "in" -> CheckIn(a, b)
    [] op = "??" -> CheckFallback(a, b)

CheckList(items) ==
  IF items = <<>> THEN Node(ViewOf(RowType(NoBinds, NoKey, "")), <<"empty">>)
  ELSE IF \E n \in Range(items) : n = Ill THEN Ill
  ELSE IF \E n \in Range(items) : Relational(TypeOf(n)) \/ Shape(TypeOf(n)) # Shape(TypeOf(items[1]))
  THEN Ill
  ELSE Node(SetOf(TypeOf(items[1])), <<"list", items>>)

StripOpt(ty) == IF ty[1] = "opt" THEN ty[2] ELSE ty

(* count takes a view, the others a scalar field of one; sum and avg want  *)
(* numbers.  The average of integers is left out with the decimals.        *)
CheckAggregate(f, base, m) ==
  IF ~Is(base, "view") THEN Ill
  ELSE IF f = "count" THEN Node(IntType, <<"aggregate", f, base, m>>)
  ELSE IF m \notin DOMAIN TypeOf(base)[2].fields THEN Ill
  ELSE LET ty == StripOpt(TypeOf(base)[2].fields[m])
       IN CASE Relational(ty) -> Ill
            [] f = "sum" -> IF ty = IntType THEN Node(ty, <<"aggregate", f, base, m>>) ELSE Ill
            [] f \in {"min", "max"} -> Node(Opt(ty), <<"aggregate", f, base, m>>)
            [] f = "distinct" -> Node(SetOf(ty), <<"aggregate", f, base, m>>)
            [] OTHER -> Ill

(* What size and has are applied to is not checked.                        *)
CheckBuiltin(f, args) ==
  IF \E n \in Range(args) : n = Ill THEN Ill
  ELSE Node(IF f = "size" THEN IntType ELSE BoolType, <<"builtin", f, args>>)

-----------------------------------------------------------------------------
(* Selectors and projections, and the checker over all of the syntax.      *)

CheckKeys(base, keys) ==
  IF ~Is(base, "view") \/ \E n \in Range(keys) : n = Ill THEN Ill
  ELSE Node(IF Len(keys) = 1 /\ ~Is(keys[1], "set") THEN RowOf(TypeOf(base)[2]) ELSE TypeOf(base),
            <<"keys", base, keys>>)

(* One scalar key names its output's type; several make a struct, which    *)
(* the instances do not use.                                               *)
ProjectedKey(keys, fields, row) ==
  IF keys = <<>> THEN row.key
  ELSE IF keys[1] \in DOMAIN fields /\ Scalar(fields[keys[1]]) THEN fields[keys[1]] ELSE NoKey

(* An object under the name of a nested collection projects its rows.      *)
NestedProjection(out, row) ==
  IF /\ out.expr[1] = "object" /\ out.name \in DOMAIN row.fields /\ Relational(row.fields[out.name])
  THEN <<"block", <<"field", <<"parent", 0>>, out.name>>,
         [key |-> <<>>, outs |-> out.expr[2], sort |-> <<>>, skip |-> 0, limit |-> NoLimit]>>
  ELSE out.expr

RECURSIVE Check(_, _)

CheckAll(exprs, frames) == [i \in DOMAIN exprs |-> Check(exprs[i], frames)]

(* The condition sees the row under its name and `.` as outside.           *)
CheckBind(base, name, cond, frames) ==
  IF ~Is(base, "view") THEN Ill
  ELSE IF cond = NoCondition THEN Node(TypeOf(base), <<"bind", base, name, NoCondition>>)
  ELSE LET inner == Push(frames, TopOf(frames).current,
                         BindTo(NoBinds, name, RowOf(TypeOf(base)[2])))
           typed == Check(cond, inner)
       IN IF Is(typed, "bool") THEN Node(TypeOf(base), <<"bind", base, name, typed>>) ELSE Ill

(* One output more: its check sees the outputs before it, unless a bound   *)
(* row has their name.                                                     *)
CheckOutput(acc, out, m, row, loops, rowBinds, frames) ==
  LET keys == Range(m.key)
      grouped == m.key # <<>>
      refused == \/ grouped /\ out.name \notin keys /\ ReadsNonKey(out.expr, row, keys, rowBinds)
                 \/ grouped /\ out.name \in keys /\ "group" \in Names(out.expr)
      typed == Check(NestedProjection(out, row), Append(frames, acc.frame))
  IN IF ~acc.ok \/ refused \/ typed = Ill THEN [acc EXCEPT !.ok = FALSE]
     ELSE [ok |-> TRUE,
           frame |-> IF out.name \in loops THEN acc.frame
                     ELSE [acc.frame EXCEPT !.binds = BindTo(@, out.name, TypeOf(typed))],
           fields |-> BindTo(acc.fields, out.name, TypeOf(typed)),
           outs |-> Append(acc.outs, [name |-> out.name, expr |-> typed])]

CheckBlock(base, m, frames) ==
  IF ~(Is(base, "view") \/ Is(base, "row")) THEN Ill
  ELSE
    LET row == TypeOf(base)[2]
        bound == TraverseBinds(base)
        grouping == IF m.key = <<>> THEN <<>> ELSE <<<<"group", ViewOf(row)>>>>
        rowBinds == BindAll(NoBinds, bound)
        binds == BindAll(rowBinds, grouping)
        order == Ordered(m.outs, DOMAIN binds, <<>>)
        start == [ok |-> Len(order) = Len(m.outs), frame |-> Frame(RowOf(row), binds),
                  fields |-> NoBinds, outs |-> <<>>]
        done == FoldLeft(LAMBDA acc, i :
                           CheckOutput(acc, m.outs[i], m, row, DOMAIN binds, rowBinds, frames),
                         start, order)
        sort == [i \in DOMAIN m.sort |->
                   [expr |-> Check(m.sort[i].expr, Append(frames, done.frame)), desc |-> m.sort[i].desc]]
        projected == RowType(done.fields, ProjectedKey(m.key, done.fields, row), "")
    IN IF ~done.ok \/ (\E i \in DOMAIN sort : sort[i].expr = Ill) THEN Ill
       ELSE Node(<<TypeOf(base)[1], projected>>,
                 <<"project", base, [key |-> m.key, outs |-> done.outs, sort |-> sort,
                                     skip |-> m.skip, limit |-> m.limit]>>)

CheckCall(f, args, frames) ==
  IF f \in Aggregates
  THEN IF Len(args) # 1 THEN Ill
       ELSE IF f = "count" THEN CheckAggregate(f, Check(args[1], frames), "")
       ELSE IF args[1][1] # "field" THEN Ill
       ELSE CheckAggregate(f, Check(args[1][2], frames), args[1][3])
  ELSE IF f \in {"size", "has"} THEN CheckBuiltin(f, CheckAll(args, frames))
  ELSE Ill

Check(e, frames) ==
  CASE e[1] = "none" -> Node(Opt(JsonType), <<"literal", <<"none">>>>)
    [] e[1] = "value" -> Node(<<e[2][1]>>, <<"literal", e[2]>>)
    [] e[1] = "root" -> Node(RowOf(RootType), <<"root">>)
    [] e[1] = "parent" -> CheckParent(frames, e[2])
    [] e[1] = "param" -> CheckParam(e[2])
    [] e[1] = "name" -> CheckName(frames, e[2])
    [] e[1] = "field" -> CheckField(Check(e[2], frames), e[3])
    [] e[1] = "same" -> TraverseView(Check(e[2], frames), e[3])
    [] e[1] = "keys" -> CheckKeys(Check(e[2], frames), CheckAll(e[3], frames))
    [] e[1] = "bind" -> CheckBind(Check(e[2], frames), e[3], e[4], frames)
    [] e[1] = "call" -> CheckCall(e[2], e[3], frames)
    [] e[1] = "block" -> CheckBlock(Check(e[2], frames), e[3], frames)
    [] e[1] \in {"not", "neg"} -> CheckUnary(e[1], Check(e[2], frames))
    [] e[1] = "binary" -> CheckBinary(e[2], Check(e[3], frames), Check(e[4], frames))
    [] e[1] = "ternary" ->
         CheckTernary(Check(e[2], frames), Check(e[3], frames), Check(e[4], frames))
    [] e[1] = "combine" -> CheckCombination(CheckAll(e[2], frames), e[3])
    [] e[1] = "list" -> CheckList(CheckAll(e[2], frames))
    [] OTHER -> Ill
=============================================================================
