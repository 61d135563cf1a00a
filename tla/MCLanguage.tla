----------------------------- MODULE MCLanguage -----------------------------
(***************************************************************************)
(* Expressions over one schema, grown a construct at a time.  Tasks have   *)
(* an owner, an optional number and nested steps; users are referred to.   *)
(* Beside them, pairs of key tuples grown a component at a time, forms of  *)
(* values grown a container at a time, mutation programs written a         *)
(* statement at a time and run, and the containers instances are exported  *)
(* to, damaged.                                                            *)
(***************************************************************************)
EXTENDS Pushdown, KeyBytes, Wire, Programs, Artifacts
LOCAL INSTANCE TLC

CONSTANT MaxSize          \* bound on the constructs around an atom

VARIABLES expr, size,     \* the expression, the constructs around its atom
          left, right,    \* two tuples of values
          descending,     \* the direction of each component
          type, form      \* the JSON of a value, and the type it is read by

Step == RowType("k" :> IntType @@ "n" :> IntType, IntType, "steps")
Task == RowType("id" :> IntType @@ "owner" :> RefTo(IntType) @@ "n" :> Opt(IntType)
                  @@ "tags" :> SetOf(IntType) @@ "steps" :> ViewOf(Step), IntType, "tasks")
User == RowType("id" :> IntType @@ "name" :> TextType @@ "no" :> IntType, IntType, "users")
MCRootType == RowType("tasks" :> ViewOf(Task) @@ "users" :> ViewOf(User)
                        @@ "motto" :> Opt(TextType), NoKey, "")
MCParamType == "p" :> SetOf(IntType)
MCParam == "p" :> <<"set", {IntVal(1), IntVal(3)}>>

Text(s) == <<"text", s>>
ARow(id, cells) == [id |-> id, key |-> id[Len(id)], cells |-> cells]
StepRow(t, k, n) == ARow(<<IntVal(t), IntVal(k)>>, "k" :> Val(IntVal(k)) @@ "n" :> Val(IntVal(n)))
TaskRow(id, owner, n, steps) ==
  ARow(<<IntVal(id)>>, "id" :> Val(IntVal(id)) @@ "owner" :> Val(<<"ref", IntVal(owner)>>)
                         @@ "n" :> Val(n) @@ "tags" :> Val(<<"set", {}>>) @@ "steps" :> Rows(steps))
UserRow(id, name) == ARow(<<IntVal(id)>>, "id" :> Val(IntVal(id)) @@ "name" :> Val(Text(name)) @@ "no" :> Val(IntVal(id)))
World(tasks, users) ==
  [id |-> <<>>, key |-> None, cells |-> "tasks" :> Rows(tasks) @@ "users" :> Rows(users) @@ "motto" :> Val(None)]

Worlds == {
  World(<<>>, <<UserRow(1, <<1>>)>>),
  World(<<TaskRow(1, 2, None, <<StepRow(1, 1, 0), StepRow(1, 2, 7)>>),
          TaskRow(2, 2, IntVal(5), <<>>),
          TaskRow(3, 1, IntVal(-2), <<StepRow(3, 1, 0)>>)>>,
        <<UserRow(1, <<2>>), UserRow(2, <<1, 1>>)>>)}

-----------------------------------------------------------------------------
(* The syntax offered.                                                     *)

Lit(n) == <<"value", IntVal(n)>>
Dot == <<"parent", 0>>
Nm(x) == <<"name", x>>
Fld(e, m) == <<"field", e, m>>
Bin(op, a, b) == <<"binary", op, a, b>>
Tasks == Fld(<<"root">>, "tasks")
Users == Fld(Dot, "users")
Plain(outs) == [key |-> <<>>, outs |-> outs, sort |-> <<>>, skip |-> 0, limit |-> NoLimit]
Out(name, e) == [name |-> name, expr |-> e]
By(e, desc) == [expr |-> e, desc |-> desc]
Counts == <<"call", "count", <<Nm("group")>>>>

Atoms == {<<"none">>, Lit(0), Lit(1), <<"value", Text(<<1>>)>>, <<"value", BoolVal(TRUE)>>,
          Dot, <<"param", "p">>, Nm("id"), Nm("n"), Nm("t"), Fld(Dot, "owner"),
          Tasks, Users, <<"list", <<>>>>}

Operands == {Lit(1), Nm("n"), Tasks, Users, Fld(Nm("t"), "owner"), <<"none">>}

Blocks(e) == {
  Plain(<<Out("id", Nm("id")), Out("n", e)>>),
  [Plain(<<Out("n", e)>>) EXCEPT !.sort = <<By(Nm("n"), TRUE)>>, !.skip = 1, !.limit = 1],
  [Plain(<<Out("n", Nm("n")), Out("m", e)>>) EXCEPT !.sort = <<By(e, FALSE)>>],
  [Plain(<<Out("n", e), Out("c", Counts)>>) EXCEPT !.key = <<"n">>],
  [Plain(<<Out("k", Nm("owner")), Out("m", e)>>) EXCEPT !.key = <<"k">>],
  Plain(<<Out("b", Nm("a")), Out("a", e), Out("steps", <<"object", <<Out("s", Nm("k"))>>>>)>>)}

(* Around anything.                                                        *)
Scalars(e) ==
  {Fld(e, m) : m \in {"id", "owner", "n", "users"}}
  \union {<<"keys", Tasks, <<e>>>>, <<"keys", Tasks, <<Lit(1), e>>>>,
          <<"bind", Tasks, "t", e>>, <<"bind", <<"same", Tasks, "steps">>, "s", e>>,
          <<"not", e>>, <<"neg", e>>, <<"list", <<e>>>>, <<"list", <<Lit(1), e>>>>}
  \union {<<"call", f, <<e>>>> : f \in {"sum", "size", "has"}}
  \union {<<"call", f, <<Fld(e, "n")>>>> : f \in {"sum", "min", "max", "distinct"}}
  \union {Bin(op, e, x) : op \in {"+", "/", "-", "==", "<", "&&", "in", "??"}, x \in Operands}
  \union {Bin(op, Lit(1), e) : op \in {"%", "*", "-", "!=", "<=", "in", "??"}}
  \union {Bin(op, <<"value", BoolVal(TRUE)>>, e) : op \in {"||", "&&"}}
  \union {<<"block", Tasks, b>> : b \in Blocks(e)}
  \union {<<"block", <<"same", Tasks, "steps">>, Plain(<<Out("x", e)>>)>>}

(* Around rows and views only.                                             *)
Views(e) ==
  {<<"same", e, "steps">>, Fld(e, "steps"), <<"keys", e, <<Lit(1)>>>>, <<"keys", e, <<<<"param", "p">>>>>>,
   <<"bind", e, "t", NoCondition>>, <<"bind", e, "t", Bin("<", Lit(1), Fld(Nm("t"), "id"))>>,
   <<"ternary", e, Tasks, <<"list", <<>>>>>>, <<"ternary", <<"value", BoolVal(FALSE)>>, e, Lit(1)>>,
   <<"combine", <<Tasks, e>>, <<"|">>>>, <<"combine", <<e, Tasks, e>>, <<"&", "&">>>>,
   <<"combine", <<e, Tasks, Users>>, <<"|", "&">>>>, <<"call", "count", <<e>>>>, Bin("-", e, Tasks)}
  \union {<<"block", e, b>> : b \in Blocks(Nm("id"))}

-----------------------------------------------------------------------------
(* Containers: alone, with children, with children of children, with a     *)
(* child that is none, with sections where the others are or outside.      *)

At(p) == [lineage |-> "main", point |-> p]
Export(definition, p, sections, children) ==
  [instance |-> "i", selected |-> At(p), definition |-> Opaque(definition), state |-> Opaque(p),
   sections |-> sections, children |-> children]
Child(i, bytes, mount) == [incarnation |-> i, bytes |-> bytes, mount |-> mount]
Mount(n) == [name |-> n, selected |-> At("p1")]
WithChildren(children) == Export("two", "p2", <<>>, children)
MCExports ==
  "leaf" :> Export("one", "p1", <<>>, <<>>)
  @@ "parent" :> Export("two", "p2", <<<<"state/decoy", Opaque("r")>>, <<"state/decoy", Opaque("s")>>>>,
                        <<Child("c", Exported("leaf"), Mount("m")), Child("d", Exported("leaf"), <<>>)>>)
  @@ "grandparent" :> WithChildren(<<Child("c", Exported("parent"), Mount("m"))>>)
  @@ "twice" :> WithChildren(<<Child("c", Exported("leaf"), Mount("m")), Child("c", Exported("parent"), Mount("n"))>>)
  @@ "junk" :> WithChildren(<<Child("c", Opaque("junk"), Mount("m"))>>)
  @@ [path \in {"liasse.json", "../x"} |-> Export("one", "p1", <<<<path, Opaque("clash")>>>>, <<>>)]
MCReplacements == {<<MimetypePath, Spaced>>, <<"resources/", Opaque("")>>, <<"../x", Opaque("")>>}
MCEdits == {
  <<<<"state", "path">>, Str("state/decoy")>>, <<<<"selected", "point">>, Str("p3")>>,
  <<<<"format">>, <<"int", 2>>>>, <<<<"extra">>, Str("")>>, <<<<"state", "sha256">>, Str("")>>,
  <<<<"definition", "identity">>, <<"digest", Digest(Opaque("two"))>>>>,
  <<<<"modules">>, Obj(<<>>)>>, <<<<"included_modules">>, Obj(<<>>)>>}
MCRenamings == {<<"p1", "p3">>}

-----------------------------------------------------------------------------
TopFrames(current) == <<Frame(current, NoBinds)>>
Typed(e) == Check(e, TopFrames(RowOf(RootType)))

NoTuples == left = <<>> /\ right = <<>> /\ descending = <<>>
NoForm == type = <<>> /\ form = Null
NoProgram == body = <<>> /\ scope = <<>> /\ run = NoRun
NoExpr == expr = <<"none">> /\ size = 0
LanguageInit ==
  /\ NoTuples /\ NoForm
  /\ \/ NoArtifact /\ ((expr \in Atoms /\ size = 0 /\ NoProgram) \/ (NoExpr /\ ProgramInit))
     \/ ArtifactInit /\ NoExpr /\ NoProgram

(* One construct more around the expression.                               *)
Grow ==
  /\ NoTuples /\ NoForm /\ NoProgram /\ NoArtifact
  /\ size < MaxSize
  /\ size = 2 => (Is(Typed(expr), "view") \/ Is(Typed(expr), "row"))
  /\ expr' \in Views(expr) \union (IF size < 2 THEN Scalars(expr) ELSE {})
  /\ size' = size + 1
  /\ UNCHANGED <<left, right, descending, type, form, body, scope, run, artifactVars>>

-----------------------------------------------------------------------------
(* Values next to each other in the order, or with bytes that are.         *)

Texts == {<<>>, <<0>>, <<0, 1>>, <<1>>, <<97>>, <<97, 0>>, <<195, 191>>}
Decimals == {<<"decimal", m, s>> : m \in {0, 1, 10, -1, -10, 12, -12, 9, 100}, s \in {-1, 0, 1}}
Calendar(magnitudes, zone) == <<"calendar", magnitudes, zone, <<0, 0, 0>>>>
HardValues ==
  {BoolVal(FALSE), BoolVal(TRUE), None}
  \union {IntVal(n) : n \in {0, 1, -1, 255, 256, -255, -256, 65536, -65535}}
  \union Decimals
  \union {TextVal(t) : t \in Texts} \union {<<"bytes", t>> : t \in Texts \union {<<255>>}}
  \union {<<"uuid", u>> : u \in {<<0, 1>>, <<1, 0>>}}
  \union {<<"date", -1, 12, 31>>, <<"date", 0, 1, 1>>, <<"date", 0, 1, 2>>}
  \union {<<"timestamp", 1, 1>>, <<"timestamp", 1000, 1000>>, <<"timestamp", 1001, 1000>>,
          <<"timestamp", -1, 1000>>, <<"timestamp", -1000000, 1000000>>}
  \union {<<"duration", n>> : n \in {-1, 0, 1}} \union {<<"fixed", 0>>}
  \union {Calendar(<<0, 1, 0, 0, 0>>, None), Calendar(<<0, 1, 0, 0, 0>>, TextVal(<<>>)),
          Calendar(<<0, 0, 0, 31, 0>>, TextVal(<<122>>))}
  \union {<<"enum", 0, <<1>>>>, <<"enum", 0, <<1, 0>>>>, <<"enum", 1, <<>>>>}
  \union {<<"ref", TextVal(<<97>>)>>, <<"ref", <<"decimal", 10, 1>>>>, <<"ref", <<"decimal", 1, 0>>>>,
          <<"refs", <<IntVal(1), TextVal(<<>>)>>>>, <<"refs", <<IntVal(1), TextVal(<<0>>)>>>>}
  \union {JsonOf(j) : j \in {
          <<"null">>, BoolVal(TRUE), <<"decimal", 10, 1>>, <<"decimal", 1, 0>>, TextVal(<<0>>),
          <<"array", <<>>>>, <<"array", <<<<"null">>>>>>, <<"array", <<<<"null">>, <<"null">>>>>>,
          <<"array", <<BoolVal(FALSE)>>>>,
          <<"object", <<<<<<97>>, <<"null">>>>>>>>, <<"object", <<<<<<97, 0>>, <<"null">>>>>>>>}}
  \union {<<"blob", <<1>>, 256, <<97>>, None>>, <<"blob", <<1>>, 256, <<97>>, TextVal(<<122>>)>>,
          <<"blob", <<1>>, 255, <<97, 0>>, None>>}
  \union {<<"struct", <<>>>>, <<"struct", <<<<<<97>>, None>>>>>>, <<"struct", <<<<<<97>>, IntVal(0)>>>>>>,
          <<"struct", <<<<<<97>>, IntVal(0)>>, <<<<98>>, IntVal(0)>>>>>>}
  \union {<<"set", S>> : S \in SUBSET {IntVal(0), IntVal(-1), TextVal(<<0>>)}}
  \union {<<"map", m>> : m \in UNION {[K -> {None, IntVal(0)}] : K \in SUBSET {IntVal(0), IntVal(1)}}}
  \union {Composite(<<TextVal(<<>>), IntVal(1)>>), Composite(<<TextVal(<<0>>), IntVal(0)>>)}

(* What follows components that are equal, or of which one's bytes begin   *)
(* the other's.                                                            *)
Following == {IntVal(-256), TextVal(<<>>), TextVal(<<0>>), <<"decimal", 1, 0>>}
Close(a, b) ==
  Same(a, b) \/ (a[1] = b[1] /\ a[1] \in {"text", "bytes", "decimal", "set", "struct"})

(* One component more in both tuples.                                      *)
Extend ==
  /\ NoExpr /\ NoForm /\ NoProgram /\ NoArtifact
  /\ \E d \in BOOLEAN : descending' = Append(descending, d)
  /\ \E a, b \in (IF left = <<>> THEN HardValues ELSE Following) :
       left' = Append(left, a) /\ right' = Append(right, b)
  /\ left # <<>> => Len(left) = 1 /\ Close(left[1], right[1])
  /\ UNCHANGED <<expr, size, type, form, body, scope, run, artifactVars>>

-----------------------------------------------------------------------------
(* Forms of values, spelled canonically or not, with the types that might  *)
(* read them.                                                              *)

Loose(v) == <<"string", v, FALSE>>
Spelled(vs) == {String(v) : v \in vs} \union {Loose(v) : v \in vs}
A == <<97>>
B == <<98>>
Json == <<"json">>
Scalars0 == [
  int |-> Spelled({IntVal(-1), IntVal(7)}) \union {Number(IntVal(7)), Number(<<"decimal", 15, 1>>)},
  decimal |-> Spelled({IntVal(10)}) \union {String(<<"decimal", 15, 1>>), Loose(<<"decimal", 100, 1>>),
                                            Number(<<"decimal", 10, 1>>)},
  uuid |-> Spelled({<<"uuid", <<1>>>>}), date |-> Spelled({<<"date", 1, 2, 3>>}),
  duration |-> Spelled({<<"duration", 5>>}), bool |-> {BoolVal(TRUE)},
  text |-> {String(TextVal(A))}]
OtherForms == {
  <<<<"timestamp", 1000>>, String(IntVal(5))>>, <<<<"timestamp", 1>>, Loose(IntVal(5))>>,
  <<<<"timestamp", 1>>, Number(IntVal(5))>>,
  <<<<"enum", <<A, B>>>>, String(TextVal(B))>>, <<<<"enum", <<A, B>>>>, String(TextVal(<<>>))>>,
  <<<<"period">>, String(<<"duration", 5>>)>>, <<<<"period">>, Loose(<<"duration", 5>>)>>,
  <<<<"period">>, Object(<<<<Magnitudes[2], Number(IntVal(1))>>, <<Zone, String(TextVal(A))>>>>)>>,
  <<<<"period">>, Object(<<<<Time, Loose(<<"duration", 5>>)>>, <<Policies[2], String(TextVal(<<2>>))>>>>)>>,
  <<<<"period">>, Object(<<>>)>>,
  <<<<"bytes">>, Object(<<<<Bytes, String(<<"bytes", A>>)>>, <<A, Null>>>>)>>,
  <<<<"blob">>, Object(<<<<Sha512, Loose(<<"bytes", A>>)>>, <<Bytes, String(IntVal(3))>>,
                        <<Media, String(TextVal(A))>>>>)>>,
  <<<<"blob">>, Object(<<<<Sha512, String(<<"bytes", A>>)>>, <<Bytes, String(IntVal(3))>>,
                        <<Media, String(TextVal(A))>>, <<BlobName, String(TextVal(B))>>>>)>>}
Forms0 == UNION {{<<<<k>>, w>> : w \in Scalars0[k]} : k \in DOMAIN Scalars0}
          \union {<<Json, w>> : w \in {Null, BoolVal(TRUE), Number(<<"decimal", 10, 1>>), String(TextVal(A))}}
          \union OtherForms
Array(ws) == <<"array", ws>>
Number1 == Number(IntVal(1))
Keys == {"int", "decimal", "text", "enum", "ref", "refs", "timestamp"}

(* One container more around a form, of it alone and with its like.        *)
Around(t, w) ==
  (IF Optional(t) THEN {} ELSE {<<<<"optional", t>>, x>> : x \in {w, Null}})
  \union {<<<<"set", t>>, Array(ws)>> : ws \in {<<>>, <<w>>, <<w, Null, w>>}}
  \union {<<<<"map", <<"int">>, t>>, Array(ws)>> :
            ws \in {<<Array(<<Number1, w>>)>>, <<Array(<<Number1, Null>>), Array(<<Number1, w>>)>>,
                    <<Array(<<Number1>>)>>}}
  \union {<<<<"struct", <<<<A, t>>, <<B, <<"optional", Json>>>>>>>>, Object(ms)>> :
            ms \in {<<<<A, w>>>>, <<<<B, Null>>, <<A, w>>>>, <<<<B, Number1>>>>, <<<<A, w>>, <<Zone, w>>>>}}
  \union (IF t # Json THEN {} ELSE {<<Json, Array(<<w, Null>>)>>, <<Json, Object(<<<<A, w>>>>)>>})
  \union (IF t[1] \notin Keys THEN {} ELSE
            {<<<<"ref", t>>, w>>, <<<<"map", t, Json>>, Array(<<Array(<<w, Number1>>), Array(<<w, Null>>)>>)>>}
            \union {<<<<c, <<<<A, t>>, <<B, <<"optional", t>>>>>>>>, x>> :
                      c \in {"refs", "composite"},
                      x \in {Array(<<w, w>>), Array(<<w, Null>>), Array(<<w>>), Object(<<<<A, w>>>>),
                             Object(<<<<A, w>>, <<B, w>>>>)}})

Wrap ==
  /\ expr = <<"none">> /\ size < 2 /\ NoTuples /\ NoProgram /\ NoArtifact
  /\ \E f \in (IF NoForm THEN Forms0 ELSE Around(type, form)) : type' = f[1] /\ form' = f[2]
  /\ size' = IF NoForm THEN 0 ELSE size + 1
  /\ UNCHANGED <<expr, left, right, descending, body, scope, run, artifactVars>>

-----------------------------------------------------------------------------
(* Programs on the root, on tasks and on their steps.                      *)

P == Nm("p")
T == Nm("t")
Row(e, k) == <<"keys", e, <<k>>>>
Plus(e, outs) == Bin("+", e, <<"object", outs>>)
Where(e, cond) == <<"bind", e, "u", cond>>
Block(e, outs) == <<"block", e, Plain(outs)>>
Low(e) == Bin("<", e, Lit(2))
Selected == Where(Tasks, Low(Fld(Nm("u"), "id")))
NewTask == Plus(Tasks, <<Out("id", P), Out("owner", Nm("q")), Out("n", Nm("q"))>>)
Rename == Block(Dot, <<Out("id", P), Out("n", Lit(1))>>)

MCParamNames == {"p", "q"}
MCComputed == {<<<<"users">>, "no">>}
MCKeyField == <<"tasks">> :> "id" @@ <<"users">> :> "id" @@ <<"tasks", "steps">> :> "k"
MCRefersTo == <<<<"tasks">>, "owner">> :> "users"
MCHostOps == "now" :> [params |-> <<IntType>>, result |-> IntType, value |-> IntVal(9)]
MCLibrary ==
  "mark" :> [path |-> <<"tasks">>, params |-> "x" :> Opt(IntType),
              body |-> <<Assign(Fld(Dot, "n"), Nm("x")), BareExpr(Bin("+", Fld(Dot, "tags"), Lit(7)))>>]
MCOffered ==
  <<>> :> {
    BareExpr(NewTask), Assign(T, Plus(Users, <<Out("id", P), Out("name", <<"value", Text(<<1>>)>>)>>)),
    Assign(T, Row(Tasks, P)), Assign(T, Selected), Assign(T, Bin("-", Tasks, P)), Assign(T, <<"neg", Selected>>),
    Assign(Fld(T, "n"), Lit(3)), Assign(Fld(T, "id"), Lit(2)), Assign(Fld(Row(Tasks, P), "n"), Nm("q")),
    Assign(Fld(Dot, "motto"), P), Clear(Fld(Dot, "motto")), Clear(Fld(T, "n")), Clear(Fld(Row(Tasks, Lit(1)), "id")),
    BareExpr(Bin("-", Fld(Row(Tasks, Lit(1)), "steps"), P)), BareExpr(<<"neg", Selected>>),
    BareExpr(Block(Selected, <<Out("n", P)>>)), Assign(Users, Where(Users, Low(Fld(Nm("u"), "id")))),
    BareExpr(<<"call", "assert", <<Bin("==", P, Fld(Row(Tasks, Lit(1)), "id"))>>>>), BareExpr(Bin("+", Users, Users)), Return(T)}
  @@ <<"tasks">> :> {
    Assign(Fld(Dot, "n"), P), Assign(Fld(Dot, "n"), <<"call", "now", <<P>>>>), Assign(Fld(Dot, "owner"), P),
    Assign(Fld(Dot, "n"), Bin("+", Fld(Dot, "id"), P)), Assign(Fld(Dot, "id"), P), Clear(Fld(Dot, "n")),
    Clear(Fld(Dot, "owner")), BareExpr(Rename), BareExpr(Plus(Fld(Dot, "steps"), <<Out("k", P), Out("n", Lit(0))>>)),
    BareExpr(Bin("+", Fld(Dot, "tags"), P)), BareExpr(Bin("-", Fld(Dot, "tags"), Lit(7))),
    BareExpr(<<"call", "mark", <<<<"object", <<Out("x", Lit(4))>>>>>>>>), BareExpr(Bin("-", Tasks, Fld(Dot, "id"))),
    Assign(T, Fld(Dot, "n")), Assign(T, Row(Fld(Dot, "steps"), P)), Assign(Fld(T, "n"), Lit(5)),
    Return(Block(Dot, <<Out("id", Nm("id")), Out("n", Nm("n"))>>)), Return(T)}
  @@ <<"tasks", "steps">> :> {
    Assign(Fld(Dot, "k"), P), BareExpr(Block(Dot, <<Out("n", <<"none">>)>>)), Assign(Fld(Dot, "n"), P), Return(Dot)}

MCStoredRows ==
  <<>> :> ("motto" :> None)
  @@ <<<<"tasks", IntVal(1)>>>> :> ("id" :> IntVal(1) @@ "owner" :> <<"ref", IntVal(1)>> @@ "n" :> None
                                      @@ "tags" :> <<"set", {IntVal(7)}>>)
  @@ <<<<"tasks", IntVal(2)>>>> :> ("id" :> IntVal(2) @@ "owner" :> <<"ref", IntVal(1)>> @@ "n" :> IntVal(5)
                                      @@ "tags" :> <<"set", {}>>)
  @@ <<<<"tasks", IntVal(1)>>, <<"steps", IntVal(1)>>>> :> ("k" :> IntVal(1) @@ "n" :> IntVal(0))
  @@ <<<<"users", IntVal(1)>>>> :> ("id" :> IntVal(1) @@ "name" :> Text(<<1>>))
MCArgValues ==
  [int |-> {IntVal(1), IntVal(2), IntVal(3)}, ref |-> {<<"ref", IntVal(1)>>}, text |-> {Text(<<1>>)},
   opt |-> {None}, bool |-> {BoolVal(TRUE)}, set |-> {<<"set", {IntVal(1)}>>}, json |-> {None}]
MCReceiverKeys == {<<IntVal(1)>>, <<IntVal(1), IntVal(1)>>, <<IntVal(2), IntVal(9)>>}

-----------------------------------------------------------------------------
ProgramStep == NoExpr /\ NoTuples /\ NoForm /\ NoArtifact
               /\ UNCHANGED <<expr, size, left, right, descending, type, form, artifactVars>>
ArtifactStep == UNCHANGED <<expr, size, left, right, descending, type, form, body, scope, run>>

LanguageNext ==
  \/ Grow \/ Extend \/ Wrap
  \/ (ProgramStep /\ Write) \/ (ProgramStep /\ CallProgram)
  \/ (ProgramStep /\ ExecNext) \/ (ProgramStep /\ Finish)
  \/ (ArtifactStep /\ ArtifactNext)
languageVars == <<expr, size, left, right, descending, type, form, body, scope, run, artifactVars>>
LanguageSpec == LanguageInit /\ [][LanguageNext]_languageVars

(* liasse-expr error.rs: past the checker a typed expression is well typed,*)
(* and evaluating it fails only on what no type can exclude.  Said here of *)
(* the expressions whose operands the checker looks at: mismatched `??`    *)
(* and `? :` operands, unions of different shapes and the like (Unchecked) *)
(* pass it and do go wrong.                                                *)
TypedExpressionsKeepTheirTypes ==
  LET n == Typed(expr)
  IN (n # Ill /\ \A b \in Nodes(n) : ~Unchecked(b)) =>
       \A w \in Worlds : KeepsItsType(n, w, TopFrames(RowCell(w)))

(* liasse-pred program.rs and liasse-store view_program.rs: "parity with   *)
(* the interpreter is by construction".                                    *)
ScansAgreeWithTheEvaluator ==
  LET n == Typed(expr)
  IN (n # Ill /\ Lowers(n)) => \A w \in Worlds : ScanAgrees(n, w, TopFrames(RowCell(w)))

(* liasse-pg key_enc.rs and sort_enc.rs: comparing the bytes of two keys,  *)
(* or of two $sort tuples, is comparing the tuples, descending components  *)
(* reversed; and only equal tuples have equal bytes.                       *)
BytesKeepTheOrder == OrderIsPreserved(left, right, descending)

(* liasse-value decode.rs and to_wire, liasse-pg value_codec.rs and        *)
(* liasse-runtime portable.rs: what a request may spell reads the same in  *)
(* authored data, and every form a value is written to reads back as it,   *)
(* timestamps with their precision where they are stored.  A JSON null in  *)
(* a `json?` member of a captured row is set aside: NullsSurviveCapture.   *)
ValuesReadBack ==
  type # <<>> =>
    \A v \in {DecodeAs(type, form, "authored")}, wire \in {DecodeAs(type, form, "wire")} :
      /\ wire # Refused => Same(wire, v)
      /\ v # Refused => ReadsBack(type, v)

(* And so do the containers the captured state travels in                  *)
(* (Artifacts.ArtifactsReadBack: liasse-artifact build.rs, artifact.rs).   *)
FormsKeepTheValue == ValuesReadBack /\ ArtifactsReadBack

(* portable.rs: "a capture round-trips a value back to itself given the    *)
(* definition's field types".                                              *)
NullsSurviveCapture ==
  type # <<>> /\ type[1] = "struct" =>
    \A row \in {DecodeAs(type, form, "authored")} : row = Refused \/ Same(Restored(type, Captured(row)), row)
=============================================================================
