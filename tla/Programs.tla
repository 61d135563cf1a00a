------------------------------ MODULE Programs ------------------------------
(***************************************************************************)
(* Mutation programs: the checks a program passes when it is loaded        *)
(* (liasse-model mutation/), and the interpreter that runs it              *)
(* (liasse-runtime interp.rs).                                             *)
(*                                                                         *)
(* Statements are assignments, clears, bare expressions and returns over   *)
(* the expressions of Typing; a parameter is a name of ParamNames, an      *)
(* insertion is `c + {..}`, a deletion `c - key` or `-selection`, a patch  *)
(* a block.  The rows of an instance are a function from addresses, the    *)
(* steps <<collection, key>> that lead to a row, to stored fields; the     *)
(* singleton fields of the root are the row at the empty address.  What a  *)
(* deletion does to references and the final checks are Deletion's and     *)
(* Admission's.  Structs, enums, composite keys and $erase are left out.   *)
(***************************************************************************)
EXTENDS Evaluation

CONSTANTS Offered,        \* the statements a program is written with, by its path
          MaxStatements,
          StoredRows,     \* the rows a program runs on
          ArgValues,      \* the arguments of a type, by the kind of the type
          ReceiverKeys,   \* the keys a mutation on rows is called with
          KeyField,       \* the key field of a collection, by its path
          Computed,       \* the computed fields, <<path, field>>: the key again
          RefersTo,       \* the collection a reference field refers to, by <<path, field>>
          ParamNames,     \* the names that are parameters
          HostOps,        \* [params, result, value] of the host functions
          Library         \* [path, params, body] of the mutations called by name

VARIABLES body, scope,    \* the statements written, the rows they are a mutation of
          run             \* a run of them

programVars == <<body, scope, run>>

Assign(target, value) == <<"assign", target, value>>
Clear(target) == <<"clear", target>>
BareExpr(e) == <<"bare", e>>
Return(e) == <<"return", e>>
ExprsOf(stmt) == Tail(stmt)

RowAt(path) == FoldLeft(LAMBDA r, m : r.fields[m][2], RootType, path)
IsParam(e) == e[1] = "name" /\ e[2] \in ParamNames
IsLocal(target) == target[1] = "name"
IsHost(e) == e[1] = "call" /\ e[2] \in DOMAIN HostOps
Builtins == Aggregates \union {"size", "has", "assert"}
IsProgramCall(e) == e[1] = "call" /\ e[2] \notin Builtins
IsAssert(e) == e[1] = "call" /\ e[2] = "assert"

-----------------------------------------------------------------------------
(* The parameters of a program: the types its uses give them.              *)

FieldOf(ty, m) ==
  IF ty # Ill /\ ty[1] = "row" /\ m \in DOMAIN ty[2].fields THEN ty[2].fields[m] ELSE Ill

RECURSIVE Resolve(_, _, _)
Resolve(e, receiver, binds) ==
  CASE e[1] = "parent" -> IF e[2] = 0 THEN receiver ELSE Ill
    [] e[1] = "root" -> RowOf(RootType)
    [] e[1] = "name" -> IF e[2] \in DOMAIN binds THEN binds[e[2]] ELSE Ill
    [] e[1] = "field" -> FieldOf(Resolve(e[2], receiver, binds), e[3])
    [] e[1] \in {"keys", "bind"} ->
         LET base == Resolve(e[2], receiver, binds)
         IN IF base = Ill \/ base[1] # "view" THEN Ill
            ELSE IF e[1] = "keys" THEN RowOf(base[2]) ELSE base
    [] OTHER -> Ill

(* The members of an object that are parameters, against a row's fields.   *)
ObjectUses(outs, row) ==
  LET used == SelectSeq(outs, LAMBDA o : IsParam(o.expr) /\ o.name \in DOMAIN row.fields)
  IN [i \in DOMAIN used |-> <<used[i].expr[2], row.fields[used[i].name]>>]

ParamsIn(exprs, ty) ==
  IF ty = Ill THEN <<>>
  ELSE LET used == SelectSeq(exprs, IsParam) IN [i \in DOMAIN used |-> <<used[i][2], ty>>]

ScalarOperators == {"==", "!=", "<", "<=", "+", "-", "*", "/", "%"}
OwnUses(e, receiver, binds) ==
  LET resolved(x) == Resolve(x, receiver, binds)
      keyType(ty) == IF ty = Ill \/ ty[1] # "view" THEN Ill ELSE ty[2].key
      scalar(ty) == IF ty # Ill /\ Scalar(ty) THEN ty ELSE Ill
      rowUses(outs, ty) == IF ty = Ill \/ ~Relational(ty) THEN <<>> ELSE ObjectUses(outs, ty[2])
  IN CASE e[1] = "keys" -> ParamsIn(e[3], keyType(resolved(e[2])))
       [] e[1] = "block" -> rowUses(e[3].outs, resolved(e[2]))
       [] e[1] = "object" -> rowUses(e[2], receiver)
       [] e[1] = "binary" ->
            (IF e[2] = "+" /\ e[4][1] = "object" THEN rowUses(e[4][2], resolved(e[3])) ELSE <<>>)
            \o (IF e[2] = "-" THEN ParamsIn(<<e[4]>>, keyType(resolved(e[3]))) ELSE <<>>)
            \o (IF e[2] \notin ScalarOperators THEN <<>>
                ELSE ParamsIn(<<e[3]>>, scalar(resolved(e[4])))
                       \o ParamsIn(<<e[4]>>, scalar(resolved(e[3]))))
       [] OTHER -> <<>>

(* The uses in an expression, outermost first.  A selector's condition     *)
(* sees the row it names.                                                  *)
RECURSIVE UsesIn(_, _, _)
UsesIn(e, receiver, binds) ==
  LET below == Children(e)
      row == IF e[1] = "bind" THEN Resolve(e[2], receiver, binds) ELSE Ill
      inner(i) == IF i = 2 /\ row # Ill /\ Relational(row) THEN BindTo(binds, e[3], RowOf(row[2])) ELSE binds
  IN OwnUses(e, receiver, binds)
       \o FlattenSeq([i \in DOMAIN below |-> UsesIn(below[i], receiver, inner(i))])

(* A statement at a time; a local stands for the type of its value.        *)
StatementUses(acc, stmt, receiver) ==
  LET local == stmt[1] = "assign" /\ IsLocal(stmt[2])
      bound == IF local THEN Resolve(stmt[3], receiver, acc.binds) ELSE Ill
      binds == IF bound # Ill THEN BindTo(acc.binds, stmt[2][2], bound) ELSE acc.binds
      target == IF stmt[1] = "assign" /\ ~local THEN Resolve(stmt[2], receiver, binds) ELSE Ill
      direct == IF target # Ill /\ Scalar(target) THEN ParamsIn(<<stmt[3]>>, target) ELSE <<>>
      exprs == ExprsOf(stmt)
  IN [binds |-> binds,
      uses |-> acc.uses \o direct
                 \o FlattenSeq([i \in DOMAIN exprs |-> UsesIn(exprs[i], receiver, binds)])]

ProgramUses(program, path) ==
  FoldLeft(LAMBDA acc, stmt : StatementUses(acc, stmt, RowOf(RowAt(path))),
           [binds |-> NoBinds, uses |-> <<>>], program).uses

RECURSIVE HostUses(_)
HostUses(e) ==
  LET below == Children(e)
      typeOf(i) == IF i \in DOMAIN HostOps[e[2]].params THEN HostOps[e[2]].params[i] ELSE JsonType
  IN (IF IsHost(e) THEN FlattenSeq([i \in DOMAIN e[3] |-> ParamsIn(<<e[3][i]>>, typeOf(i))]) ELSE <<>>)
       \o FlattenSeq([i \in DOMAIN below |-> HostUses(below[i])])

(* The first use of a parameter settles its type.                          *)
Settled(types, uses) ==
  FoldLeft(LAMBDA acc, u : IF u[1] \in DOMAIN acc THEN acc ELSE BindTo(acc, u[1], u[2]), types, uses)

AllExprs(program) == FlattenSeq([i \in DOMAIN program |-> ExprsOf(program[i])])
(* Host arguments settle what nothing else does.                           *)
ParamTypes(program, path, prototype) ==
  LET exprs == AllExprs(program)
  IN Settled(prototype, ProgramUses(program, path)
                          \o FlattenSeq([i \in DOMAIN exprs |-> HostUses(exprs[i])]))

(* A mutant: any two types go together.                                    *)
CompatibleAnyway(a, b) == a # Ill /\ b # Ill

(* A reference goes with the key it stands for.                            *)
Compatible(a, b) ==
  \/ ~Scalar(a) \/ ~Scalar(b)
  \/ a = b
  \/ a[1] = "ref" /\ a[2] = b
  \/ b[1] = "ref" /\ b[2] = a

(* The parameters whose inference is looked at: those inside a call are    *)
(* not, but for the arguments of a host function.                          *)
RECURSIVE ParamRefs(_)
ParamRefs(e) ==
  IF IsParam(e) THEN {e[2]}
  ELSE IF e[1] = "call" THEN (IF IsHost(e) THEN {a[2] : a \in {x \in Range(e[3]) : IsParam(x)}} ELSE {})
  ELSE UNION {ParamRefs(c) : c \in Range(Children(e))}

ParamsAreInferred(program, path, types) ==
  LET refs == UNION {ParamRefs(e) : e \in Range(AllExprs(program))}
      uses == Range(ProgramUses(program, path))
  IN /\ refs \subseteq DOMAIN types
     /\ \A u \in uses : u[1] \in refs => Compatible(types[u[1]], u[2])
-----------------------------------------------------------------------------
(* The statements of a program, checked in a scope of the parameters and   *)
(* the locals bound so far.                                                *)

RECURSIVE FromRow(_)
FromRow(e) ==
  CASE e[1] \in {"parent", "root"} -> e[1] = "root" \/ e[2] = 0
    [] e[1] \in {"field", "keys", "bind", "block", "not", "neg"} -> FromRow(e[2])
    [] e[1] = "binary" -> FromRow(e[3])
    [] OTHER -> FALSE

(* What may be a change of rows is not typed when a program is loaded.     *)
UsesMutationOperator(e) ==
  (e[1] \in {"block", "neg"} \/ (e[1] = "binary" /\ e[2] \in {"+", "-"})) /\ FromRow(e)
Deferred(e) == UsesMutationOperator(e) \/ IsProgramCall(e)

(* The field an expression names by its shape, and the shapes below it.    *)
RECURSIVE ShapeOf(_, _)
ResolveNode(e, path) ==
  IF e[1] # "field" THEN {}
  ELSE {<<shape, e[3]>> : shape \in {s \in ShapeOf(e[2], path) : e[3] \in DOMAIN RowAt(s).fields}}
IsCollection(node) == Relational(RowAt(node[1]).fields[node[2]])
ShapeOf(e, path) ==
  CASE e[1] = "parent" -> IF e[2] = 0 THEN {path} ELSE {}
    [] e[1] = "root" -> {<<>>}
    [] e[1] \in {"keys", "bind", "field"} ->
         {Append(n[1], n[2]) : n \in {x \in ResolveNode(IF e[1] = "field" THEN e ELSE e[2], path) : IsCollection(x)}}
    [] OTHER -> {}

NodeType(node) == RowAt(node[1]).fields[node[2]]
(* A scalar of the definition: references and sets are nodes of their own. *)
IsScalarNode(node) ==
  ~IsCollection(node) /\ StripOpt(NodeType(node))[1] \notin {"ref", "set"}

RECURSIVE Assignable(_, _)
Assignable(from, to) ==
  CASE from = to -> TRUE
    [] from[1] = "opt" /\ to[1] # "opt" -> FALSE
    [] to[1] = "opt" -> Assignable(StripOpt(from), to[2])
    [] OTHER -> to = JsonType
ValueAssignable(n, to) ==
  \/ KindOf(n) = <<"literal", None>> /\ to[1] = "opt"
  \/ Scalar(TypeOf(n)) /\ Assignable(TypeOf(n), to)

ScopeOf(path, binds) == <<Frame(RowOf(RowAt(path)), binds)>>
(* What a statement's value is typed as, unless it is deferred.            *)
ValueOf(stmt) ==
  CASE stmt[1] = "assign" -> stmt[3]
    [] stmt[1] = "bare" /\ IsAssert(stmt[2]) /\ stmt[2][3] # <<>> -> stmt[2][3][1]
    [] OTHER -> stmt[2]
TypedOr(e, n, P(_)) == Deferred(e) \/ (n # Ill /\ P(n))

(* A local of deferred value is not in scope, nor is one that reads such.  *)
CheckLocal(acc, name, value, n) ==
  IF Deferred(value) \/ Names(value) \intersect acc.deferred # {}
  THEN [acc EXCEPT !.deferred = @ \union {name}]
  ELSE IF n = Ill THEN [acc EXCEPT !.ok = FALSE] ELSE [acc EXCEPT !.binds = BindTo(@, name, TypeOf(n))]

CheckAssign(target, value, path, n) ==
  LET nodes == ResolveNode(target, path)
  IN /\ nodes \intersect Computed = {}
     /\ TypedOr(value, n, LAMBDA v :
          \A node \in nodes : IsScalarNode(node) => ValueAssignable(v, NodeType(node)))

CheckClear(target, path) ==
  \A node \in ResolveNode(target, path) :
    ~IsCollection(node) /\ StripOpt(NodeType(node))[1] # "set" => NodeType(node)[1] = "opt"

CheckBare(e, n) ==
  IF IsAssert(e) THEN e[3] # <<>> /\ TypedOr(e[3][1], n, LAMBDA v : TypeOf(v) = BoolType)
  ELSE TypedOr(e, n, LAMBDA v : TRUE)

CheckedAs(acc, stmt, path, last, n) ==
  LET ok == CASE stmt[1] = "return" -> last
              [] stmt[1] = "assign" -> CheckAssign(stmt[2], stmt[3], path, n)
              [] stmt[1] = "bare" -> CheckBare(stmt[2], n)
              [] stmt[1] = "clear" -> CheckClear(stmt[2], path)
  IN IF stmt[1] = "assign" /\ IsLocal(stmt[2]) THEN CheckLocal(acc, stmt[2][2], stmt[3], n)
     ELSE [acc EXCEPT !.ok = @ /\ ok]
CheckStatement(acc, stmt, path, last) ==
  CheckedAs(acc, stmt, path, last, Check(ValueOf(stmt), ScopeOf(path, acc.binds)))

StartOfCheck(types) == [ok |-> TRUE, binds |-> types, deferred |-> {}]
StatementsCheck(program, path, types) ==
  FoldLeftDomain(LAMBDA acc, i : CheckStatement(acc, program[i], path, i = Len(program)),
                 StartOfCheck(types), program).ok

(* MutPhase::check: a program the load of a definition accepts.            *)
AcceptedWith(program, path, types) ==
  ParamsAreInferred(program, path, types) /\ StatementsCheck(program, path, types)
Accepted(program, path, prototype) ==
  program # <<>> /\ AcceptedWith(program, path, ParamTypes(program, path, prototype))
-----------------------------------------------------------------------------
(* The state of a run: the rows, the row it is called on, its path, the    *)
(* parameters and locals, the program, and a failure when there is one.    *)

NoRow == <<"norow">>
Target(address, path) == <<"target", address, path>>
Nothing == <<"nothing">>
Running == <<"running">>
Fault(why) == Err(why)
OnRow(r, F(_)) == IF r[1] = "target" THEN F(r) ELSE r
Gives(c, st, F(_)) == IF Failed(c) THEN [st EXCEPT !.outcome = c] ELSE F(c)

IsUnder(address, other) == Len(other) > Len(address) /\ SubSeq(other, 1, Len(address)) = address
PathOf(address) == [i \in DOMAIN address |-> address[i][1]]
CollectionAt(working, address, m) ==
  {a \in DOMAIN working : Len(a) = Len(address) + 1 /\ IsUnder(address, a) /\ Last(a)[1] = m}

(* A row as expressions see it, with the rows nested in it.                *)
RECURSIVE RowRecord(_, _)
RowRecord(working, address) ==
  LET path == PathOf(address)
      key == IF address = <<>> THEN None ELSE Last(address)[2]
      stored == IF address \in DOMAIN working THEN working[address] ELSE NoBinds
      rowsOf(m) == LET keys == Sorted({Last(a)[2] : a \in CollectionAt(working, address, m)})
                   IN [i \in DOMAIN keys |-> RowRecord(working, Append(address, <<m, keys[i]>>))]
      cell(m) == CASE Relational(RowAt(path).fields[m]) -> Rows(rowsOf(m))
                   [] <<path, m>> \in Computed -> Val(key)
                   [] m \in DOMAIN stored -> Val(stored[m])
                   [] OTHER -> Val(None)
  IN [id |-> [i \in DOMAIN address |-> address[i][2]], key |-> key,
      cells |-> [m \in DOMAIN RowAt(path).fields |-> cell(m)]]

CurrentOf(st) == IF st.receiver = NoRow THEN <<>> ELSE st.receiver[2]
HasCurrent(st) == st.receiver = NoRow \/ CurrentOf(st) \in DOMAIN st.working

(* A local that stands for a row follows it, and is gone with it.          *)
RowLocal(target) == <<"rowlocal", target>>
ValueLocal(c, ty) == <<"valuelocal", c, ty>>
IsRowLocal(st, x) == x \in DOMAIN st.locals /\ st.locals[x][1] = "rowlocal"
LocalType(l) == IF l[1] = "rowlocal" THEN RowOf(RowAt(l[2][3])) ELSE l[3]
LocalCell(working, l) == IF l[1] = "rowlocal" THEN RowCell(RowRecord(working, l[2][2])) ELSE l[2]
LiveLocals(st) ==
  {x \in DOMAIN st.locals : IsRowLocal(st, x) => st.locals[x][2][2] \in DOMAIN st.working}

Over(binds, more) == [x \in DOMAIN binds \union DOMAIN more |-> IF x \in DOMAIN more THEN more[x] ELSE binds[x]]
TypesIn(st) == Over(st.types, [x \in LiveLocals(st) |-> LocalType(st.locals[x])])
CellsIn(st) == Over(st.args, [x \in LiveLocals(st) |-> LocalCell(st.working, st.locals[x])])

(* An expression as its scope types it, over the row at an address.        *)
EvalNode(n, st, address) ==
  IF n = Ill THEN <<Fault("malformed"), Ill>>
  ELSE <<Eval(n, RowRecord(st.working, <<>>),
              <<Frame(RowCell(RowRecord(st.working, address)), CellsIn(st))>>), n>>
EvalAt(e, st, path, address) ==
  EvalNode(Check(e, <<Frame(RowOf(RowAt(path)), TypesIn(st))>>), st, address)

ScalarCell(c) ==
  CASE c[1] = "row" -> Val(c[2].key) [] c[1] = "rows" -> Fault("type") [] OTHER -> c
FieldCell(c) == IF c[1] \in {"row", "rows"} THEN Fault("type") ELSE c
ScalarCells(cells) ==
  LET scalars == [i \in DOMAIN cells |-> ScalarCell(cells[i])]
  IN IF FailureIn(scalars) # {} THEN scalars[Min(FailureIn(scalars))]
     ELSE <<"cells", [i \in DOMAIN scalars |-> scalars[i][2]]>>

(* What a host function is given must be of its signature.                 *)
RECURSIVE EvalTyped(_, _)
HostValue(e, st) ==
  LET op == HostOps[e[2]]
  IN Then(ScalarCells([i \in DOMAIN e[3] |-> EvalTyped(e[3][i], st)[1]]), LAMBDA args :
       IF Len(args[2]) = Len(op.params) /\ \A i \in DOMAIN op.params : Conforms(args[2][i], op.params[i])
       THEN Val(op.value) ELSE Fault("host"))
EvalTyped(e, st) ==
  IF ~HasCurrent(st) THEN <<Fault("missing"), Ill>>
  ELSE IF IsHost(e) THEN <<HostValue(e, st), Node(HostOps[e[2]].result, <<"host">>)>>
  ELSE EvalAt(e, st, st.path, CurrentOf(st))

(* The expressions of a statement stand for what they were before it.      *)
RECURSIVE Pieces(_)
Pieces(e) == {e} \union UNION {Pieces(c) : c \in Range(Children(e))}
PiecesOf(stmt) == UNION {Pieces(e) : e \in Range(ExprsOf(stmt))}
BeforeStatement(st, stmt) == [st EXCEPT !.value = [e \in PiecesOf(stmt) |-> EvalTyped(e, st)]]
EvalValue(e, st) == st.value[e][1]
ScalarValue(e, st) == ScalarCell(EvalValue(e, st))
ScalarValues(exprs, st) == ScalarCells([i \in DOMAIN exprs |-> EvalValue(exprs[i], st)])

-----------------------------------------------------------------------------
(* The row, and the collection, an expression names for a change.          *)

RECURSIVE CollectionRef(_, _)
RowTarget(e, st) ==
  CASE e[1] = "parent" -> IF e[2] = 0 /\ st.receiver # NoRow THEN st.receiver ELSE Nothing
    [] e[1] = "name" -> IF IsRowLocal(st, e[2]) THEN st.locals[e[2]][2] ELSE Nothing
    [] e[1] = "keys" ->
         Then(CollectionRef(e[2], st), LAMBDA loc :
           IF loc = Nothing \/ e[3] = <<>> THEN Nothing
           ELSE Then(ScalarValue(e[3][1], st), LAMBDA key :
                  Target(Append(loc[2], <<Last(loc[3]), key[2]>>), loc[3])))
    [] OTHER -> Nothing

(* The name of a collection of the root is that collection wherever it is  *)
(* met; another one is looked for in the row it is a field of.             *)
CollectionRef(e, st) ==
  LET m == IF e[1] = "name" THEN e[2] ELSE e[3]
  IN IF e[1] \notin {"name", "field"} THEN Nothing
     ELSE IF <<m>> \in DOMAIN KeyField THEN <<"collection", <<>>, <<m>>>>
     ELSE IF e[1] = "name" THEN Nothing
     ELSE Then(RowTarget(e[2], st), LAMBDA row :
            IF row # Nothing /\ Append(row[3], m) \in DOMAIN KeyField
            THEN <<"collection", row[2], Append(row[3], m)>> ELSE Nothing)

KeysOf(c) ==
  CASE c[1] = "rows" -> [i \in DOMAIN c[2] |-> c[2][i].key] [] c[1] = "row" -> <<c[2].key>> [] OTHER -> <<>>

(* The rows a change of `base` reaches: the selected ones, or the one row. *)
IsBulk(base) == base[1] = "bind" \/ (base[1] = "keys" /\ Len(base[3]) # 1)
PlanRows(base, st) ==
  IF IsBulk(base) THEN Then(CollectionRef(base[2], st), LAMBDA loc :
         IF loc = Nothing THEN Nothing
         ELSE Then(EvalValue(base, st), LAMBDA c :
                <<"targets", [i \in DOMAIN KeysOf(c) |-> Target(Append(loc[2], <<Last(loc[3]), KeysOf(c)[i]>>), loc[3])]>>))
  ELSE Then(RowTarget(base, st), LAMBDA row : IF row = Nothing THEN Nothing ELSE <<"targets", <<row>>>>)
-----------------------------------------------------------------------------
(* Changes of rows.                                                        *)

RemoveRows(working, gone(_)) == [a \in {x \in DOMAIN working : ~gone(x)} |-> working[a]]
RemoveSubtree(working, address) ==
  RemoveRows(working, LAMBDA a : a = address \/ IsUnder(address, a))
WithRow(working, address, fields) == Over(working, [a \in {address} |-> fields])

(* A moved row takes the rows under it along, and the references to it.    *)
MovedTo(new, old, a) == new \o SubSeq(a, Len(old) + 1, Len(a))
Repointed(working, collection, old, new) ==
  [a \in DOMAIN working |-> [m \in DOMAIN working[a] |->
     IF /\ <<PathOf(a), m>> \in DOMAIN RefersTo /\ RefersTo[<<PathOf(a), m>>] = collection
        /\ working[a][m] = <<"ref", old>>
     THEN <<"ref", new>> ELSE working[a][m]]]

Place(st, row, fields) ==
  LET old == row[2]
      key == KeyField[row[3]]
      new == Append(Front(old), <<Last(old)[1], IF key \in DOMAIN fields THEN fields[key] ELSE None>>)
      subtree == {a \in DOMAIN st.working : a = old \/ IsUnder(old, a)}
      kept == [a \in DOMAIN st.working \ subtree |-> st.working[a]]
      moved == [a \in {MovedTo(new, old, x) : x \in subtree} |->
                  IF a = new THEN fields ELSE st.working[MovedTo(old, new, a)]]
      working == IF Len(old) = 1 THEN Repointed(Over(kept, moved), Last(old)[1], Last(old)[2], Last(new)[2])
                 ELSE Over(kept, moved)
  IN IF new = old THEN [st EXCEPT !.working = WithRow(@, old, fields)]
     ELSE IF DOMAIN moved \intersect DOMAIN kept # {} THEN [st EXCEPT !.outcome = Fault("duplicate")]
     ELSE [st EXCEPT !.working = working,
                     !.receiver = IF @ # NoRow /\ @[2] = old THEN Target(new, @[3]) ELSE @]

WriteField(st, row, m, v) ==
  IF row[2] \notin DOMAIN st.working THEN [st EXCEPT !.outcome = Fault("missing")]
  ELSE Place(st, row, Over(st.working[row[2]], [x \in {m} |-> v]))

(* A set of keys deletes every one of them.                                *)
DeletedKeys(v) == IF v[1] = "set" THEN Sorted(v[2]) ELSE <<v>>
DeleteRows(st, loc, keys) ==
  [st EXCEPT !.working =
     FoldLeft(LAMBDA w, key : RemoveSubtree(w, Append(loc[2], <<Last(loc[3]), key>>)), @, keys)]

(* A member's value; an object may say just the name of what it takes.     *)
InsertRow(st, loc, outs) ==
  Gives(ScalarValues(OutputsOf(outs), st), st, LAMBDA cells :
    LET row == RowAt(loc[3])
        given == [m \in {outs[i].name : i \in DOMAIN outs} |->
                    cells[2][CHOOSE i \in DOMAIN outs : outs[i].name = m]]
        key == KeyField[loc[3]]
        absent == {m \in DOMAIN row.fields : row.fields[m][1] = "opt"}
        address == Append(loc[2], <<Last(loc[3]), given[key]>>)
    IN IF key \notin DOMAIN given THEN [st EXCEPT !.outcome = Fault("nokey")]
       ELSE IF address \in DOMAIN st.working THEN [st EXCEPT !.outcome = Fault("duplicate")]
       ELSE [st EXCEPT !.working = WithRow(@, address, Over([m \in absent |-> None], given)),
                       !.inserted = Target(address, loc[3])])

InsertObject(st, loc, e) ==
  IF e[1] = "object" THEN InsertRow(st, loc, e[2]) ELSE [st EXCEPT !.outcome = Fault("malformed")]

(* The rows of a view become rows of a collection, in addition or instead. *)
FieldsOfRow(r, row) ==
  [m \in {x \in DOMAIN row.fields \intersect DOMAIN r.cells : r.cells[x][1] = "val"} |-> r.cells[m][2]]
InsertRows(st, loc, view, instead) ==
  Gives(Then(EvalValue(view, st), SourceRows), st, LAMBDA c :
    LET key == KeyField[loc[3]]
        staged == [i \in DOMAIN c[2] |-> FieldsOfRow(c[2][i], RowAt(loc[3]))]
        addressOf(i) == Append(loc[2], <<Last(loc[3]), staged[i][key]>>)
        present == CollectionAt(st.working, loc[2], Last(loc[3]))
        addresses == {addressOf(i) : i \in DOMAIN staged}
        rows == [a \in addresses |-> staged[CHOOSE i \in DOMAIN staged : addressOf(i) = a]]
        cleared == RemoveRows(st.working, LAMBDA a :
                     instead /\ \E d \in present \ addresses : a = d \/ IsUnder(d, a))
    IN IF \E i \in DOMAIN staged : key \notin DOMAIN staged[i] THEN [st EXCEPT !.outcome = Fault("nokey")]
       ELSE IF Cardinality(addresses) < Len(staged) \/ (~instead /\ addresses \intersect present # {})
       THEN [st EXCEPT !.outcome = Fault("duplicate")]
       ELSE [st EXCEPT !.working = Over(cleared, rows)])
-----------------------------------------------------------------------------
(* The statements.                                                         *)

RECURSIVE RunAssignable(_, _)
RunAssignable(from, to) ==
  from = to \/ (to[1] = "opt" /\ (from = Opt(JsonType) \/ RunAssignable(from, to[2])))

(* The value of an assignment, typed against the field's declared type.    *)
ValueFor(e, st, path, m) ==
  LET typed == st.value[e]
      to == RowAt(path).fields[m]
  IN IF Failed(FieldCell(typed[1])) THEN FieldCell(typed[1])
     ELSE IF /\ m \in DOMAIN RowAt(path).fields /\ <<path, m>> \notin Computed
             /\ Scalar(TypeOf(typed[2])) /\ ~RunAssignable(TypeOf(typed[2]), to)
     THEN Fault("type") ELSE typed[1]

IsStored(path, m) ==
  m \in DOMAIN RowAt(path).fields /\ ~Relational(RowAt(path).fields[m]) /\ <<path, m>> \notin Computed

IsRootField(target, st) ==
  /\ st.receiver = NoRow /\ target[1] = "field" /\ target[2][1] = "parent" /\ target[2][2] = 0
  /\ IsStored(<<>>, target[3])

WriteRows(st, rows, m, v) ==
  FoldLeft(LAMBDA acc, row : IF Failed(acc.outcome) THEN acc ELSE WriteField(acc, row, m, v), st, rows)

(* A target that names no row changes nothing.                             *)
AssignRows(st, target, value) ==
  IF target[1] # "field" THEN st
  ELSE Gives(PlanRows(target[2], st), st, LAMBDA plan :
         IF plan = Nothing \/ plan[2] = <<>> THEN st
         ELSE Gives(ValueFor(value, st, plan[2][1][3], target[3]), st, LAMBDA c :
                WriteRows(st, plan[2], target[3], c[2])))

AssignRootField(st, m, value) ==
  Gives(ValueFor(value, st, <<>>, m), st, LAMBDA c :
    [st EXCEPT !.working = WithRow(@, <<>>, Over(@[<<>>], [x \in {m} |-> c[2]]))])

AssignField(st, target, value) ==
  IF IsRootField(target, st) THEN AssignRootField(st, target[3], value)
  ELSE Gives(CollectionRef(target, st), st, LAMBDA loc :
         IF loc # Nothing THEN InsertRows(st, loc, value, TRUE) ELSE AssignRows(st, target, value))

(* A mutant: a local bound by a selector is never a row to write to.       *)
NeverWritten(st, x) == x \in {} /\ st.program = <<>>

(* The program assigns, or clears, a field through the local.              *)
RECURSIVE RootName(_)
RootName(e) ==
  CASE e[1] = "name" -> e[2] [] e[1] \in {"field", "keys", "bind"} -> RootName(e[2]) [] OTHER -> ""
LocalIsWritten(st, x) ==
  \E stmt \in Range(st.program) :
    stmt[1] \in {"assign", "clear"} /\ stmt[2][1] = "field" /\ RootName(stmt[2]) = x

(* What a local is bound to: a row inserted, rows deleted, a row to be     *)
(* written to, or a value.                                                 *)
BindRow(st, x, target) == [st EXCEPT !.locals = BindTo(@, x, RowLocal(target))]
BindValue(st, x, c, ty) == [st EXCEPT !.locals = BindTo(@, x, ValueLocal(c, ty))]

BindInserted(st, x, done) == IF Failed(done.outcome) THEN done ELSE BindRow(done, x, done.inserted)
BindDeleted(st, x, loc, keys) ==
  LET unique == FoldLeft(LAMBDA acc, k : IF k \in Range(acc) THEN acc ELSE Append(acc, k), <<>>, keys)
      address(k) == <<<<Last(loc[3]), k>>>>
      present == SelectSeq(unique, LAMBDA k : address(k) \in DOMAIN st.working)
      rows == Rows([i \in DOMAIN present |-> RowRecord(st.working, address(present[i]))])
  IN IF Len(loc[3]) > 1 THEN [st EXCEPT !.outcome = Fault("malformed")]
     ELSE BindValue(DeleteRows(st, loc, unique), x, rows, RootType.fields[loc[3][1]])

BindTyped(st, x, value) ==
  LET typed == st.value[value]
  IN Gives(typed[1], st, LAMBDA c : BindValue(st, x, c, TypeOf(typed[2])))

BindSelected(st, x, value) ==
  IF value[1] = "keys" /\ Len(value[3]) = 1 /\ LocalIsWritten(st, x)
  THEN Gives(RowTarget(value, st), st, LAMBDA row :
         IF row # Nothing /\ row[2] \in DOMAIN st.working THEN BindRow(st, x, row)
         ELSE BindTyped(st, x, value))
  ELSE BindTyped(st, x, value)

BindLocal(st, x, value) ==
  LET change == CASE value[1] = "binary" /\ value[2] \in {"+", "-"} -> CollectionRef(value[3], st)
                  [] value[1] = "neg" /\ value[2][1] \in {"keys", "bind"} -> CollectionRef(value[2][2], st)
                  [] OTHER -> Nothing
  IN Gives(change, st, LAMBDA loc :
       IF loc = Nothing THEN BindSelected(st, x, value)
       ELSE CASE value[1] = "neg" ->
                   Gives(EvalValue(value[2], st), st, LAMBDA c : BindDeleted(st, x, loc, KeysOf(c)))
              [] value[2] = "+" -> BindInserted(st, x, InsertObject(st, loc, value[4]))
              [] OTHER -> Gives(ScalarValue(value[4], st), st, LAMBDA c : BindDeleted(st, x, loc, DeletedKeys(c[2]))))
-----------------------------------------------------------------------------
(* Bare statements.                                                        *)

(* The members of a set field are added or taken out, none is skipped.     *)
SetTarget(e, st) ==
  IF e[1] # "field" THEN Nothing
  ELSE Then(RowTarget(e[2], st), LAMBDA row :
         IF row # Nothing /\ IsStored(row[3], e[3]) /\ RowAt(row[3]).fields[e[3]][1] = "set"
         THEN row ELSE Nothing)
ChangeSet(st, row, m, value, add) ==
  Gives(FieldCell(EvalValue(value, st)), st, LAMBDA c :
    LET fields == IF row[2] \in DOMAIN st.working THEN st.working[row[2]] ELSE NoBinds
        old == IF m \in DOMAIN fields /\ fields[m][1] = "set" THEN fields[m][2] ELSE {}
        incoming == (IF c[2][1] = "set" THEN c[2][2] ELSE {c[2]}) \ {None}
    IN WriteField(st, row, m, <<"set", IF add THEN old \union incoming ELSE old \ incoming>>))

AddOrRemove(st, op, target, value) ==
  Gives(CollectionRef(target, st), st, LAMBDA loc :
    CASE loc = Nothing ->
           Gives(SetTarget(target, st), st, LAMBDA row :
             IF row = Nothing THEN st ELSE ChangeSet(st, row, target[3], value, op = "+"))
      [] op = "-" -> Gives(ScalarValue(value, st), st, LAMBDA c : DeleteRows(st, loc, DeletedKeys(c[2])))
      [] value[1] = "object" -> InsertObject(st, loc, value)
      [] OTHER -> InsertRows(st, loc, value, FALSE))

RECURSIVE SelectionBase(_)
SelectionBase(e) == IF e[1] \in {"keys", "bind"} THEN SelectionBase(e[2]) ELSE e
DeleteSelection(st, e) ==
  Gives(CollectionRef(SelectionBase(e), st), st, LAMBDA loc :
    IF loc = Nothing THEN st
    ELSE Gives(EvalValue(e, st), st, LAMBDA c : DeleteRows(st, loc, KeysOf(c))))

(* A patch of one row reads it as it was before the patch, and types no    *)
(* member against its field.                                               *)
Patched(st, row, outs, cells) ==
  LET values == [m \in {outs[i].name : i \in DOMAIN outs} |->
                   cells[CHOOSE i \in DOMAIN outs : outs[i].name = m][2]]
  IN IF FailureIn(cells) # {} THEN [st EXCEPT !.outcome = cells[Min(FailureIn(cells))]]
     ELSE Place(st, row, Over(st.working[row[2]], values))
PatchRow(st, row, outs) ==
  Patched(st, row, outs,
          [i \in DOMAIN outs |-> IF outs[i].expr[1] = "none" THEN Val(None)
                                 ELSE FieldCell(EvalAt(outs[i].expr, st, row[3], row[2])[1])])
Patch(st, base, outs) ==
  Gives(PlanRows(base, st), st, LAMBDA plan :
    IF plan = Nothing THEN [st EXCEPT !.outcome = Fault("malformed")]
    ELSE IF ~IsBulk(base) /\ \E row \in Range(plan[2]) : row[2] \notin DOMAIN st.working
    THEN [st EXCEPT !.outcome = Fault("missing")]
    ELSE FoldLeft(LAMBDA acc, row :
           IF Failed(acc.outcome) \/ row[2] \notin DOMAIN acc.working THEN acc ELSE PatchRow(acc, row, outs),
           st, plan[2]))

ExecAssert(st, args) ==
  IF args = <<>> THEN [st EXCEPT !.outcome = Fault("malformed")]
  ELSE Gives(EvalValue(args[1], st), st, LAMBDA c :
         IF c = True THEN st ELSE [st EXCEPT !.outcome = Fault("assert")])

(* A mutation called by name runs on the same row, or on the root, with    *)
(* locals of its own.                                                      *)
MaxCallDepth == 64
StartOfRun(working, receiver, path, program, types, args, depth) ==
  [working |-> working, receiver |-> receiver, path |-> path, program |-> program, types |-> types,
   args |-> args, locals |-> NoBinds, inserted |-> NoRow, outcome |-> Running,
   value |-> NoBinds, depth |-> depth]

CalleeArgs(callee, outs, cells) ==
  LET given(p) == {i \in DOMAIN outs : outs[i].name = p}
  IN [p \in DOMAIN callee.params |->
        IF given(p) # {} THEN cells[2][Max(given(p))]
        ELSE IF callee.params[p][1] = "opt" THEN None ELSE NoRow]

RECURSIVE Exec(_, _)
CallMutation(st, callee, outs) ==
  IF st.depth >= MaxCallDepth \/ (callee.path # <<>> /\ (st.receiver = NoRow \/ st.receiver[3] # callee.path))
  THEN [st EXCEPT !.outcome = Fault("malformed")]
  ELSE Gives(ScalarValues(OutputsOf(outs), st), st, LAMBDA cells :
    LET args == CalleeArgs(callee, outs, cells)
        start == StartOfRun(st.working, IF callee.path = <<>> THEN NoRow ELSE st.receiver, callee.path,
                            callee.body, callee.params, [p \in DOMAIN args |-> Val(args[p])], st.depth + 1)
        done == FoldLeft(LAMBDA acc, stmt : IF Failed(acc.outcome) THEN acc ELSE Exec(stmt, acc),
                         start, callee.body)
    IN IF NoRow \in Range(args) THEN [st EXCEPT !.outcome = Fault("malformed")]
       ELSE [st EXCEPT !.working = done.working, !.outcome = done.outcome])

ExecBare(st, e) ==
  CASE IsAssert(e) -> ExecAssert(st, e[3])
    [] e[1] = "call" /\ e[2] \in DOMAIN Library -> CallMutation(st, Library[e[2]], e[3][1][2])
    [] e[1] = "binary" /\ e[2] \in {"+", "-"} -> AddOrRemove(st, e[2], e[3], e[4])
    [] e[1] = "neg" -> DeleteSelection(st, e[2])
    [] e[1] = "block" -> Patch(st, e[2], e[3].outs)
    [] OTHER -> st

ClearField(st, target) ==
  IF target[1] # "field" THEN st
  ELSE Gives(RowTarget(target[2], st), st, LAMBDA row :
         IF row = Nothing THEN st ELSE WriteField(st, row, target[3], None))

ExecStatement(stmt, st) ==
  CASE stmt[1] = "assign" ->
         IF IsLocal(stmt[2]) THEN BindLocal(st, stmt[2][2], stmt[3]) ELSE AssignField(st, stmt[2], stmt[3])
    [] stmt[1] = "clear" -> ClearField(st, stmt[2])
    [] stmt[1] = "bare" -> ExecBare(st, stmt[2])
    [] stmt[1] = "return" -> st
Exec(stmt, st) == ExecStatement(stmt, BeforeStatement(st, stmt))
-----------------------------------------------------------------------------
(* A call.  The key of a mutation on rows may be several: the row is the   *)
(* one of them that exists.                                                *)

NoRun == [outcome |-> <<"idle">>]
ProgramTypes == ParamTypes(body, scope, NoBinds)

(* An operand takes a key for every collection down the path.              *)
OperandsOf(keys) ==
  LET n == Len(scope)
  IN [i \in 1..(Len(keys) \div n) |->
        Target([d \in 1..n |-> <<scope[d], keys[(i - 1) * n + d]>>], scope)]
SelectReceiver(operands) ==
  LET present == SelectSeq(operands, LAMBDA t : t[2] \in DOMAIN StoredRows)
  IN IF Len(operands) = 1 THEN operands[1] ELSE IF Len(present) = 1 THEN present[1] ELSE Fault("receiver")

ArgsFor(types) == {[p \in DOMAIN types |-> Val(f[p])] :
                     f \in {g \in [DOMAIN types -> UNION {ArgValues[types[p][1]] : p \in DOMAIN types}] :
                              \A p \in DOMAIN types : g[p] \in ArgValues[types[p][1]]}}
Started(receiver, types, args) ==
  StartOfRun(StoredRows, receiver, scope, body, types, args, 0)

ProgramInit == body = <<>> /\ scope \in DOMAIN Offered /\ run = NoRun

Write ==
  /\ run = NoRun /\ Len(body) < MaxStatements
  /\ \E stmt \in Offered[scope] : body' = Append(body, stmt)
  /\ UNCHANGED <<scope, run>>

CallProgram ==
  /\ run = NoRun /\ Accepted(body, scope, NoBinds)
  /\ \E types \in {ProgramTypes} : \E args \in ArgsFor(types) :
       \E receiver \in (IF scope = <<>> THEN {NoRow} ELSE {SelectReceiver(OperandsOf(k)) : k \in ReceiverKeys}) :
         run' = IF Failed(receiver) THEN [Started(NoRow, types, args) EXCEPT !.outcome = receiver]
                ELSE Started(receiver, types, args)
  /\ UNCHANGED <<body, scope>>

(* The next statement; a failure leaves the rows as they were.             *)
ExecNext ==
  /\ run # NoRun /\ run.outcome = Running /\ run.program # <<>>
  /\ \E next \in {Exec(Head(run.program), [run EXCEPT !.program = body])} :
       run' = IF Failed(next.outcome)
              THEN [next EXCEPT !.working = StoredRows, !.program = <<>>, !.value = NoBinds]
              ELSE [next EXCEPT !.program = Tail(run.program), !.value = NoBinds]
  /\ UNCHANGED <<body, scope>>

(* The return is evaluated over what is to be committed; one that does not *)
(* type there, or whose row is gone, gives no response.                    *)
Responded(c) == IF c = Fault("malformed") THEN Nothing ELSE c
ReturnOf(st) ==
  LET last == Last(body)
  IN IF last[1] # "return" \/ ~HasCurrent(st) THEN Nothing
     ELSE Responded(EvalTyped(last[2], st)[1])
Finish ==
  /\ run # NoRun /\ run.outcome = Running /\ run.program = <<>>
  /\ \E response \in {ReturnOf(run)} :
       run' = IF Failed(response) THEN [run EXCEPT !.working = StoredRows, !.outcome = response]
              ELSE [run EXCEPT !.outcome = <<"done", response>>]
  /\ UNCHANGED <<body, scope>>

ProgramNext == Write \/ CallProgram \/ ExecNext \/ Finish
ProgramSpec == ProgramInit /\ [][ProgramNext]_programVars
-----------------------------------------------------------------------------
(* What a program is, seen with the types its load settles on.  The parts  *)
(* a load does not type (members of objects, changes of rows, references,  *)
(* sets) are typed here as the run will find them.                         *)

TypeSeen(n) == IF n = Ill \/ \E b \in Nodes(n) : Unchecked(b) THEN Ill ELSE TypeOf(n)
Sees(e, env, at) == TypeSeen(Check(e, ScopeOf(at, env)))
TypeGiven(e, env, at) ==
  IF IsHost(e)
  THEN LET op == HostOps[e[2]]
       IN IF Len(e[3]) = Len(op.params) /\ \A i \in DOMAIN op.params : Sees(e[3][i], env, at) = op.params[i]
          THEN op.result ELSE Ill
  ELSE Sees(e, env, at)
(* The types a statement's expressions have in the rows at each path.      *)
Paths == DOMAIN Offered \union DOMAIN KeyField
TypesGiven(stmt, env) == [e \in PiecesOf(stmt) |-> [at \in Paths |-> TypeGiven(e, env, at)]]

(* The rows, and the collection, an expression names, by their path.       *)
NoPath == <<"nopath">>
RowsOfType(r) == CHOOSE p \in Paths : RowAt(p) = r
RowNamed(given, e, at) ==
  LET ty == given[e][at]
  IN IF ty # Ill /\ Relational(ty) /\ (e[1] = "parent" \/ (e[1] = "name" /\ ty[1] = "row") \/ e[1] \in {"keys", "bind"})
     THEN RowsOfType(ty[2]) ELSE NoPath
CollectionNamed(given, e, at) ==
  LET ty == given[e][at]
  IN IF ty # Ill /\ ty[1] = "view" /\ e[1] = "field" THEN RowsOfType(ty[2]) ELSE NoPath

(* A parameter is of the type its uses give it; other members are not      *)
(* looked at when the program is loaded.                                   *)
MemberTyped(given, out, rows, at) ==
  /\ IsStored(rows, out.name)
  /\ IsParam(out.expr)
     \/ (given[out.expr][at] # Ill /\ RunAssignable(given[out.expr][at], RowAt(rows).fields[out.name]))

InsertTyped(given, e, at) ==
  LET rows == CollectionNamed(given, e[3], at)
  IN /\ e[1] = "binary" /\ e[2] = "+" /\ e[4][1] = "object" /\ rows # NoPath
     /\ KeyField[rows] \in {out.name : out \in Range(e[4][2])}
     /\ \A out \in Range(e[4][2]) : MemberTyped(given, out, rows, at)
(* Deleted rows can be bound where their collection is one of the root.    *)
DeleteTyped(given, e, at, bound) ==
  \/ /\ e[1] = "binary" /\ e[2] = "-" /\ CollectionNamed(given, e[3], at) # NoPath
     /\ bound => Len(CollectionNamed(given, e[3], at)) = 1
     /\ given[e[4]][at] # Ill /\ given[e[4]][at][1] # "view"
  \/ /\ e[1] = "neg" /\ e[2][1] \in {"keys", "bind"}
     /\ RowNamed(given, e[2], at) # NoPath /\ (bound => Len(RowNamed(given, e[2], at)) = 1)
(* A change of the members of a set.                                       *)
MembersTyped(given, e, at) ==
  LET row == RowNamed(given, e[3][2], at)
      member == given[e[4]][at]
  IN /\ e[1] = "binary" /\ e[2] \in {"+", "-"} /\ e[3][1] = "field"
     /\ row # NoPath /\ member # Ill /\ RowAt(row).fields[e[3][3]] \in {member, SetOf(member)}
PatchTyped(given, e, at) ==
  LET rows == RowNamed(given, e[2], at)
  IN /\ e[1] = "block" /\ rows \notin {NoPath, <<>>}
     /\ \A out \in Range(e[3].outs) : MemberTyped(given, out, rows, rows)
CallTyped(given, e, at) ==
  LET callee == Library[e[2]]
      outs == e[3][1][2]
  IN /\ e[1] = "call" /\ e[2] \in DOMAIN Library /\ callee.path \in {<<>>, at}
     /\ \A p \in DOMAIN callee.params : \E i \in DOMAIN outs : outs[i].name = p
     /\ \A out \in Range(outs) : out.name \in DOMAIN callee.params /\ given[out.expr][at] = callee.params[out.name]

BareTyped(given, e, at) ==
  \/ InsertTyped(given, e, at) \/ DeleteTyped(given, e, at, FALSE) \/ MembersTyped(given, e, at)
  \/ PatchTyped(given, e, at) \/ CallTyped(given, e, at)
  \/ IsAssert(e) /\ given[e[3][1]][at] = BoolType

(* What a load checks of an assignment to a scalar is left to it, but for  *)
(* a widening to json and for values it takes for changes of rows.         *)
AssignTyped(given, target, value, at) ==
  LET row == RowNamed(given, target[2], at)
      from == given[value][at]
      to == RowAt(row).fields[target[3]]
  IN /\ target[1] = "field" /\ row # NoPath /\ from # Ill /\ Scalar(from) /\ IsStored(row, target[3])
     /\ RunAssignable(from, to)
        \/ (~Deferred(value) /\ IsScalarNode(<<row, target[3]>>) /\ StripOpt(to) # JsonType
              /\ ResolveNode(target, at) # {})
ClearTyped(given, target, at) ==
  /\ target[1] = "field" /\ RowNamed(given, target[2], at) # NoPath
  /\ IsStored(RowNamed(given, target[2], at), target[3])
  /\ ResolveNode(target, at) # {} \/ RowAt(RowNamed(given, target[2], at)).fields[target[3]][1] = "opt"
  /\ StripOpt(RowAt(RowNamed(given, target[2], at)).fields[target[3]])[1] # "set"

(* Every local is bound once.                                              *)
LocalTyped(given, x, value, env, at) ==
  /\ x \notin DOMAIN env
  /\ \/ InsertTyped(given, value, at) \/ DeleteTyped(given, value, at, TRUE)
     \/ /\ given[value][at] # Ill
        /\ value[1] = "binary" => CollectionNamed(given, value[3], at) = NoPath
LocalGiven(given, x, value, env, at) ==
  BindTo(env, x, IF InsertTyped(given, value, at) THEN RowOf(RowAt(CollectionNamed(given, value[3], at)))
                 ELSE IF DeleteTyped(given, value, at, TRUE) THEN ViewOf(RowType(NoBinds, NoKey, ""))
                 ELSE given[value][at])

StatementTyped(given, stmt, env, at) ==
  CASE stmt[1] = "assign" -> IF IsLocal(stmt[2]) THEN LocalTyped(given, stmt[2][2], stmt[3], env, at)
                             ELSE AssignTyped(given, stmt[2], stmt[3], at)
    [] stmt[1] = "clear" -> ClearTyped(given, stmt[2], at)
    [] stmt[1] = "bare" -> BareTyped(given, stmt[2], at)
    [] stmt[1] = "return" -> given[stmt[2]][at] # Ill
TypeStatement(acc, given, stmt, at) ==
  IF ~StatementTyped(given, stmt, acc.env, at) THEN [acc EXCEPT !.ok = FALSE]
  ELSE IF stmt[1] = "assign" /\ IsLocal(stmt[2])
  THEN [acc EXCEPT !.env = LocalGiven(given, stmt[2][2], stmt[3], @, at)]
  ELSE acc
ProgramTyped(program, at, types) ==
  FoldLeft(LAMBDA acc, stmt : IF ~acc.ok THEN acc ELSE TypeStatement(acc, TypesGiven(stmt, acc.env), stmt, at),
           [ok |-> TRUE, env |-> types], program).ok

(* A parameter can be a reference here and its key there: a field holds    *)
(* whichever the parameter was settled as.                                 *)
Holds(v, ty) ==
  \/ Conforms(v, ty)
  \/ StripOpt(ty)[1] = "ref" /\ Conforms(v, StripOpt(ty)[2])
  \/ v[1] = "ref" /\ Conforms(v[2], ty)
RowsHoldTheirTypes(working) ==
  \A a \in DOMAIN working : \A m \in DOMAIN working[a] : Holds(working[a][m], RowAt(PathOf(a)).fields[m])
TypeFaults == {Fault(why) : why \in {"malformed", "type", "shape", "unbound", "host", "nokey"}}

(* liasse-model mutation/: a program that the load of a definition accepts *)
(* never fails a call for what its types already said, and leaves rows     *)
(* whose fields hold values of their declared types.                       *)
AcceptedProgramsRun ==
  (run # NoRun /\ run.outcome # Running /\ ProgramTyped(body, scope, run.types)) =>
    run.outcome \notin TypeFaults /\ RowsHoldTheirTypes(run.working)

(* A field of the row of the call, of a row selected by its key, or of a   *)
(* local that was last bound to such a row or to one inserted.             *)
BoundTo(program, x) == SelectSeq(program, LAMBDA s : s[1] = "assign" /\ s[2] = <<"name", x>>)
IsInsertion(e) == e[1] = "binary" /\ e[2] = "+" /\ e[4][1] = "object"
OneRow(e) == e[1] = "keys" /\ Len(e[3]) = 1
NamesOneRow(base, before) ==
  CASE base[1] = "name" -> LET bound == BoundTo(before, base[2])
                           IN bound # <<>> /\ (OneRow(Last(bound)[3]) \/ IsInsertion(Last(bound)[3]))
    [] OTHER -> OneRow(base) \/ (base[1] = "parent" /\ base[2] = 0 /\ scope # <<>>)
IsFieldWrite(stmt, before, st) ==
  /\ stmt[1] \in {"assign", "clear"} /\ stmt[2][1] = "field"
  /\ \/ NamesOneRow(stmt[2][2], before) /\ (stmt[2][2][1] = "parent" \/ stmt[2][3] \notin Range(KeyField))
     \/ stmt[1] = "assign" /\ IsRootField(stmt[2], st)

WrittenIsRead(before, after, value) == before = Fault("malformed") \/ after = value

(* liasse-runtime interp.rs: a write of a declared field that succeeds is  *)
(* read back by the statements after it, whatever handle of the row it     *)
(* goes through, also when the row moves to another key by that write and  *)
(* when it was bound by a statement before.                                *)
WritesReadBack ==
  [][run # NoRun /\ run.outcome = Running /\ run.program # <<>> /\ ~Failed(run'.outcome) =>
       \A stmt \in {Head(run.program)}, executed \in {Len(body) - Len(run.program)} :
         IsFieldWrite(stmt, SubSeq(body, 1, executed), run) =>
           WrittenIsRead(EvalTyped(stmt[2], run)[1], EvalTyped(stmt[2], run')[1],
                         IF stmt[1] = "clear" THEN Val(None) ELSE EvalTyped(stmt[3], run)[1])
    ]_run
=============================================================================
