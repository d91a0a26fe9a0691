----------------------------- MODULE MCAnalysis -----------------------------
(***************************************************************************)
(* The compiler on small programs: contracts for the analyzer and units    *)
(* for the type checker and the code generator, by theme.  A behaviour     *)
(* writes one of them.                                                     *)
(***************************************************************************)
EXTENDS LemAnalysis, LemMachine

Fn(name, annotations, params, body) ==
    [name |-> name, annotations |-> annotations, params |-> params, body |-> body,
     ret |-> "Unit", mutability |-> "Default", visibility |-> "Pub"]
Ann(name, arg) == [name |-> name, arg |-> arg]
Contract(functions, config, fields, base) ==
    [functions |-> functions, modifiers |-> <<>>, config |-> config, fields |-> fields, base |-> base,
     is_token |-> FALSE, fees_sum |-> 0, defaults |-> DOMAIN fields, immutables |-> {}, types |-> [v |-> "E", o |-> "Option"],
     sigs |-> [E |-> [variants |-> {"A", "B"}, holds |-> {}]], consts |-> <<>>, events |-> [Paid |-> [n |-> "U256"]],
     implements |-> {}, uses |-> {}, interfaces |-> [I |-> {"f", "g"}],
     traits |-> [T |-> [methods |-> {"f", "h"}, required |-> {"h"}, state |-> {"x"}]], special |-> [receive |-> 0, fallback |-> 0]]

SelfCall(name) == ExprStmt(Call(Member(Ident("self"), name), <<>>, 0))
ExtCall(span) == Call(Member(Ident("other"), "poke"), <<>>, span)
Set(field, value) == Assign(SelfField(field), "Assign", value)
Flag(name) == SelfField(name)
NotE(e) == Unary("Not", e)
Eq(l, r) == Binary("Eq", l, r)
Limit == AssertThat(Binary("LtEq", Ident("a"), Ident("b")))
Helper(body) == Fn("helper", {}, {}, body)
OuterAs(ann) == Fn("outer", ann, {}, <<SelfCall("helper")>>)
Outer == OuterAs({})

Map(field, key) == Index(SelfField(field), key)
BanParam == Assign(Map("banned", Ident("who")), "Assign", BoolLit(TRUE))

Guard(body) == [name |-> "guard", body |-> body]
OfName(n) == [k |-> "Named", name |-> n]
Holdings == {[k |-> "U256", args |-> <<>>], OfName("R"), [k |-> "Tuple", args |-> <<OfName("S")>>], [k |-> "Array", args |-> <<OfName("T")>>],
             [k |-> "Result", args |-> <<[k |-> "U256", args |-> <<>>], OfName("T")>>]}
TaxConfig(max, burn, others) ==
    [name |-> StrLit("n"), symbol |-> StrLit("s"), decimals |-> IntLit(2), maxSupply |-> IntLit(9),
     fees |-> [k |-> "Object", entries |-> [burn |-> IntLit(burn), holders |-> IntLit(0), others |-> IntLit(others)]]]
    @@ IF max = None THEN <<>> ELSE [maxFeePercent |-> IntLit(max)]

MCSkeletons ==
    [cei |-> {Contract(<<Helper(body), Outer, Fn("main", {}, {}, <<>>)>>, <<>>, <<>>, None) :
                body \in {<<>>, <<Set("x", IntLit(1))>>}},
     veto |-> {Contract(<<Helper(body), Fn("transfer", {}, {}, <<>>)>>, <<>>, <<>>, None) :
                body \in {<<>>, <<ExprStmt(ExtCall(0))>>, <<TryCatch(<<ExprStmt(ExtCall(0))>>, <<>>)>>}},
     supply |-> {Contract(<<Fn("mint", {}, {}, <<>>)>>, config, <<>>, None) :
                config \in {[maxSupply |-> IntLit(9)], [mintable |-> BoolLit(FALSE)]}},
     gate |-> {Contract(<<Fn("set", ann, {}, <<s>>), Fn("transfer", {}, {}, <<>>)>>, <<>>,
                        [open |-> "Bool", shut |-> "Bool"], None) :
                 ann \in {{}, {Ann("onlyRole", StrLit("GOVERNANCE"))}},
                 s \in {Set("open", BoolLit(TRUE)), Set("open", BoolLit(FALSE)), Set("shut", NotE(Flag("shut")))}},
     agent |-> {Contract(<<Helper(body), Outer, Fn("act", {Ann("agentCallable", cap)}, {}, <<>>)>>, <<>>, <<>>, None) :
                 cap \in {IntLit(0), IntLit(5)},
                 body \in {<<SelfCall("grantAgent")>>, <<SelfCall("transfer")>>, <<SelfCall("outer")>>}},
     tax |-> {Contract(<<Helper(body), Outer, Fn("distributeTaxes", {}, {}, <<>>), Fn("transfer", {}, {}, <<>>)>>, <<>>, <<>>,
                       "TaxToken") : body \in {<<>>, <<SelfCall("distributeTaxes")>>}},
     ban |-> {Contract(<<Fn("transfer", {}, {}, <<AssertThat(Map("banned", MsgSender))>>), Fn("helper", ann, {"who"}, <<BanParam>>),
                         OuterAs(ann), Fn("main", {}, {"who"}, <<>>)>>, <<>>, <<>>, None) :
                 ann \in {{}, {Ann("onlyRole", StrLit("GOVERNANCE"))}}},
     access |-> {Contract(<<Helper(body), Outer, Fn("main", {}, {"to"}, <<>>)>>, <<>>, <<>>, None) :
                 body \in {<<>>, <<Assign(Map("bal", MsgSender), "Add", IntLit(1))>>, <<Set("x", IntLit(1))>>}},
     init |-> {[Contract(<<Fn("other", {}, {}, body), Fn("init", {}, {}, <<>>)>>, <<>>, [x |-> "U256", m |-> "Map"], None)
                  EXCEPT !.defaults = {}, !.immutables = {"id"}] : body \in {<<>>, <<Set("id", IntLit(1))>>}},
     flow |-> {[Contract(<<[Fn("get", {}, {}, <<>>) EXCEPT !.ret = ret]>>, <<>>, <<>>, None) EXCEPT !.modifiers = mods] :
                 ret \in {"Unit", "U256"},
                 mods \in {<<>>, <<Guard(<<Placeholder, Limit>>)>>, <<Guard(<<Placeholder, Placeholder>>)>>,
                           <<Guard(<<If(Ident("x"), <<Placeholder>>, <<>>)>>)>>}},
     decl |-> {[Contract(<<Fn("f", {}, {}, <<>>), [Fn("get", ann, {}, <<>>) EXCEPT !.mutability = mut]>>, <<>>, [x |-> "U256"], None)
                  EXCEPT !.implements = imp, !.uses = use] :
                 ann \in {{}, {Ann("agentCallable", IntLit(1))}, {Ann("cosignRequired", None)}, {Ann("anomalyGuard", None)}},
                 mut \in {"Default", "View", "Pure"}, imp \in {{}, {"I"}}, use \in {{}, {"T"}}},
     types |-> {[Contract(<<>>, <<>>, <<>>, None) EXCEPT !.sigs = sigs, !.functions = <<Fn("get", {}, {}, <<>>)>>,
                   !.consts = consts] :
                 sigs \in [{"R", "S", "T"} -> {[variants |-> {}, holds |-> {h}] : h \in Holdings}],
                 consts \in {<<>>, [K |-> Binary("Add", IntLit(1), Ident("K"))], [K |-> SelfField("x")]}},
     fees |-> {Contract(<<Fn(helper, {}, {}, <<>>), Fn("get", {}, {}, <<>>)>>, TaxConfig(max, burn, others), <<>>, "TaxToken") :
                 helper \in {"helper", "distributeTaxes"}, max \in {None, 100, 2500, 2501, 65536 + 2600}, burn \in {0, 100, 2500, 2600},
                 others \in {0, 1}}]

MCPool(t, span) ==
    [cei |-> {ExprStmt(ExtCall(span)), Let(New(<<>>, span)), Set("x", IntLit(1)), Set("x", ExtCall(span)), SelfCall("helper"),
              SelfCall("outer"), ExprStmt(Call(Member(SelfField("q"), "pop"), <<>>, 0)),
              While(Call(Member(SelfField("q"), "pop"), <<>>, 0), <<ExprStmt(ExtCall(span))>>), Return(<<>>)},
     veto |-> {ExprStmt(ExtCall(span)), SelfCall("helper"), AssertThat(ExtCall(span)), Revert},
     supply |-> {Limit, Assign(SelfField("totalSupply"), "Add", Ident("a")),
                 Set("totalSupply", Binary("Sub", Binary("Add", Ident("a"), SelfField("totalSupply")), Ident("b"))),
                 AssertThat(Ident("x")), Return(<<>>)},
     gate |-> {AssertThat(Flag("open")), AssertThat(NotE(Flag("shut"))), If(Flag("shut"), <<Revert>>, <<>>),
               AssertThat(Binary("Or", Flag("open"), Ident("x"))), AssertThat(Eq(Flag("open"), BoolLit(FALSE))),
               If(Binary("And", Ident("x"), NotE(Flag("open"))), <<>>, <<Revert>>)},
     agent |-> {SelfCall("helper"), SelfCall("outer"), SelfCall("transfer"), Set("x", IntLit(1))},
     tax |-> {SelfCall("helper"), SelfCall("outer"), SelfCall("distributeTaxes"), Set("x", IntLit(1))},
     ban |-> {SelfCall("helper"), SelfCall("outer"), BanParam, Assign(Map("banned", MsgSender), "Assign", BoolLit(TRUE)),
              ExprStmt(Call(Member(SelfField("banned"), "set"), <<Ident("who"), BoolLit(TRUE)>>, 0))},
     access |-> {Assign(Map("bal", Ident("to")), "Add", IntLit(1)), Assign(Map("bal", MsgSender), "Assign", IntLit(1)),
                 Assign(Map("bal", Ident("y")), "Assign", Map("bal", MsgSender)), SelfCall("helper"), SelfCall("outer"),
                 Assign(Index(Map("allow", MsgSender), Ident("to")), "Assign", IntLit(1)),
                 Assign(Member(SelfField("fees"), "burn"), "Assign", IntLit(1))},
     init |-> {Set("x", IntLit(1)), Set("id", IntLit(1)), ExprStmt(AssignE(SelfField("id"), "Assign", IntLit(2))), Return(<<>>), Revert,
               If(Ident("c"), <<Set("x", IntLit(1)), Set("id", IntLit(1))>>, <<Set("x", IntLit(2))>>),
               Match(Ident("v"), <<Arm("A", <<>>, <<Set("id", IntLit(1))>>), Arm("B", <<>>, <<Set("id", IntLit(2)), Set("x", IntLit(1))>>)>>)},
     flow |-> {Return(<<IntLit(1)>>), Revert, Break, Continue, Placeholder, Loop(<<>>), Loop(<<If(Ident("c"), <<Break>>, <<>>)>>),
               Loop(<<ExprStmt(IfE(Ident("c"), <<Break>>, <<Return(<<IntLit(1)>>)>>))>>), If(Ident("c"), <<Revert>>, <<Return(<<IntLit(1)>>)>>),
               Loop(<<While(Ident("c"), <<Break>>)>>), Match(Ident("v"), <<Arm("A", <<>>, <<Return(<<IntLit(1)>>)>>)>>),
               Match(Ident("v"), <<Arm("A", <<>>, <<Revert>>), Arm("B", <<>>, <<Return(<<IntLit(1)>>)>>)>>),
               ExprStmt([k |-> "Match_", e |-> Ident("o"), arms |-> <<ExprArm("Some", IntLit(1)), ExprArm("None", IntLit(2))>>])},
     decl |-> {Emit("Paid", <<[key |-> "n", ty |-> ty, e |-> SelfField("x")]>>) : ty \in {"U256", "Bool", None}}
              \cup {Emit("Paid", <<>>), Emit("Lost", <<>>), Set("x", IntLit(1)), Let(SelfField("x")), Let(Member(Ident("msg"), "value")),
                    Assign(Map("m", MsgSender), "Assign", IntLit(1))},
     types |-> {}, fees |-> {}][t]

MCWraps == {"if", "else", "while", "match", "try", "catch", "unchecked"}

-----------------------------------------------------------------------------
(* Units to compile.                                                         *)

U(k) == Prim(k)
Id(n) == Ident(n)
F(n) == Member(Ident("self"), n)
Put(n, e) == Assign(F(n), "Assign", e)
LetVar(n, at, ty, e) == [k |-> "Let", pat |-> [k |-> "Ident", name |-> n, at |-> at], ty |-> ty, mutable |-> TRUE, e |-> e]
LetPair(m, n, e) == [k |-> "Let", pat |-> [k |-> "Tuple", ps |-> <<[k |-> "Ident", name |-> m, at |-> 61], [k |-> "Ident", name |-> n, at |-> 62]>>],
                     ty |-> None, mutable |-> FALSE, e |-> e]
Lit(k, n) == [k |-> "IntTyped", suffix |-> k, n |-> n]
Param(n, at, ty) == [name |-> n, at |-> at, ty |-> ty, default |-> <<>>]
Func(n, at, params, ret, annotations, body) ==
    [k |-> "Function", name |-> n, at |-> at, generics |-> <<>>, params |-> params, ret |-> ret, body |-> body, pub |-> TRUE,
     annotations |-> annotations]
Modif(n, at, body) == [k |-> "Modifier", name |-> n, at |-> at, params |-> <<>>, body |-> body]
StateOf(fields) == [k |-> "State", at |-> 50, name |-> "state", fields |-> fields]
Con(members) == [k |-> "Contract", name |-> "C", at |-> 51, base |-> <<>>, traits |-> {}, members |-> members]
Solo(fields, params) == <<Con(<<StateOf(fields), Func("main", 40, params, None, <<>>, <<>>)>>)>>

Bin(op, l, r) == Binary(op, l, r)
Ops == {"Add", "Sub", "Mul", "Div", "Rem"}
MethodCall(e, name, args) == Call(Member(e, name), args, 0)

\* A generic function, a struct and a contract that uses them.
Halves(e) == LetVar("t", 63, None, [k |-> "Tuple", es |-> <<e, BoolLit(TRUE)>>])
Library(body) ==
    <<[Func("id", 10, <<Param("x", 11, TypeRef("T", <<>>)), Param("c", 12, U("Bool"))>>, TypeRef("T", <<>>), <<>>, <<Return(<<Id("x")>>)>>)
         EXCEPT !.generics = <<[name |-> "T", at |-> 13, bound |-> None]>>],
      [k |-> "Struct", name |-> "P", at |-> 14, generics |-> <<>>, methods |-> <<>>,
       fields |-> <<[name |-> "m", ty |-> U("U32"), default |-> <<>>], [name |-> "n", ty |-> U("Bool"), default |-> <<>>]>>],
      Con(<<StateOf(<<Param("a", 30, U("U32")), Param("f", 31, U("Bool"))>>), Func("main", 40, <<Param("p", 20, U("U32"))>>, None, <<>>, body)>>)>>

MCUnits ==
    [words |-> {Solo(<<Param("a", 30, U("U32")), Param("i", 31, U("I32"))>>, <<Param("p", 20, U("U32")), Param("q", 21, U("I32"))>>)},
     wide |-> {Solo(<<Param("a", 30, U("U64")), Param("i", 31, U("I64"))>>, <<Param("p", 20, U("U64")), Param("q", 21, U("I64"))>>)},
     pair |-> {Solo(<<Param("b", 30, U("U128")), Param("f", 31, U("Bool"))>>, <<Param("p", 20, U("U128"))>>)},
     flow |-> {Solo(<<Param("a", 30, U("U32"))>>, <<Param("p", 20, U("U32"))>>)},
     mods |-> {<<Con(<<StateOf(<<Param("a", 30, U("U32")), Param("f", 31, U("Bool"))>>),
                       Modif("guard", 32, <<AssertThat(F("f")), Placeholder>>),
                       Modif("count", 33, <<Put("f", BoolLit(TRUE)), Placeholder, Put("a", Bin("Mul", F("a"), Lit("U32", 2)))>>),
                       Func("other", 34, <<>>, None, <<>>, <<Put("f", BoolLit(FALSE))>>),
                       Func(n, 40, <<Param("p", 20, U("U32"))>>, None, mods, <<>>)>>)>> :
                 n \in {"main", "clash"}, mods \in {<<>>, <<"guard">>, <<"count", "guard">>, <<"guard", "count">>}},
     addr |-> {Solo(<<Param("a", 30, U("U32")), Param("owner", 31, U("Address"))>>, <<Param("w", 20, U("Address"))>>)},
     kinds |-> {Library(<<>>)},
     parts |-> {Library(<<Halves(e), LetPair("u", "v", Id("t"))>>) : e \in {Id("p"), IntLit(1)}}]

MCPhrases(t) ==
    CASE t \in {"words", "wide"} ->
           LET k == IF t = "words" THEN "U32" ELSE "U64"
               s == IF t = "words" THEN "I32" ELSE "I64"
           IN  {Put("a", Bin(op, F("a"), Id("p"))) : op \in Ops} \cup {Put("i", Bin(op, F("i"), Id("q"))) : op \in Ops}
               \cup {Put("i", Bin(op, Id("q"), Lit(s, 1))) : op \in Ops} \cup {Put("i", Unary("Neg", Id("q")))}
               \cup {If(Bin(c, F("a"), Id("p")), <<Put("a", Lit(k, 1))>>, <<Put("i", Id("q"))>>) : c \in Comparisons \cup {"Eq", "NotEq"}}
               \cup {If(Bin(c, Id("q"), F("i")), <<Put("a", Lit(k, 0))>>, <<>>) : c \in Comparisons}
               \cup {Put("a", Bin("Sub", IntLit(1), F("a"))), Put("a", Bin("Add", F("a"), IntLit(1))), Put("i", Unary("Neg", F("i")))}
      [] t = "pair" ->
           {Put("b", Bin(op, F("b"), Id("p"))) : op \in {"Add", "Sub"}} \cup {Put("f", Bin(c, F("b"), Id("p"))) : c \in Comparisons \cup {"Eq", "NotEq"}}
           \cup {LetVar("x", 60, U("U128"), IntLit(n)) : n \in {0, 3}} \cup {Assign(Id("x"), op, Id("p")) : op \in {"Assign", "Add", "Sub"}}
           \cup {Put("b", Id("x"))}
      [] t = "flow" ->
           {LetVar("x", 60, U("U32"), IntLit(0)), Assign(Id("x"), "Add", IntLit(1)), Put("a", Id("x")), Return(<<>>), Revert,
            If(Bin("Eq", Id("p"), IntLit(1)), <<Return(<<>>)>>, <<Put("a", IntLit(3))>>),
            While(Bin("Lt", Id("x"), Id("p")), <<Assign(Id("x"), "Add", IntLit(1)), If(Bin("Eq", Id("x"), IntLit(2)), <<Break>>, <<>>)>>),
            While(Bin("Lt", Id("x"), Id("p")), <<Assign(Id("x"), "Add", IntLit(1)), If(Bin("Eq", Id("x"), IntLit(2)), <<Continue>>, <<>>), Put("a", Id("x"))>>),
            Loop(<<If(Bin("GtEq", Id("x"), Id("p")), <<Break>>, <<Loop(<<Assign(Id("x"), "Add", IntLit(2)), Break>>)>>), Put("a", Id("x"))>>),
            AssertThat(Bin("And", Bin("Lt", Id("p"), IntLit(3)), Unary("Not", Bin("Eq", F("a"), IntLit(2)))))}
      [] t = "mods" ->
           {Put("a", Bin("Add", F("a"), Id("p"))), Put("f", BoolLit(FALSE)), If(F("f"), <<Return(<<>>)>>, <<>>)}
      [] t = "addr" ->
           {Put("owner", Id("w")), If(MethodCall(Id("w"), "isZero", <<>>), <<Put("a", IntLit(1))>>, <<Revert>>),
            If(MethodCall(F("owner"), "isBurn", <<>>), <<Put("a", IntLit(2))>>, <<>>), AssertThat(Bin("Eq", F("owner"), Id("w"))),
            ExprStmt(MethodCall(Id("w"), "rawCall", <<F("a"), F("a")>>)), ExprStmt(MethodCall(Id("w"), "staticCall", <<F("a")>>)),
            LetVar("x", 60, None, Id("w")), Put("owner", Id("x"))}
      [] t \in {"kinds", "parts"} ->
           {Halves(e) : e \in {Id("p"), IntLit(1)}}
           \cup {LetPair("u", "v", Id("t"))} \cup {LetVar("y", 64, U(k), e) : k \in {"U32", "U8", "Bool"}, e \in {Id("u"), Id("v"), Id("p"), F("a")}}
           \cup {LetVar("z", 65, None, [k |-> "Cast", e |-> e, to |-> U(k)]) : e \in {Id("p"), Id("u")}, k \in {"U64", "U8"}}
           \cup {LetVar("s", 66, None, [k |-> "Array", es |-> es]) : es \in {<<IntLit(1), Id("p")>>, <<IntLit(1), IntLit(2)>>, <<Id("p"), BoolLit(TRUE)>>}}
           \cup {LetVar("o", 67, None, MethodCall(Id("s"), "get", <<IntLit(n)>>)) : n \in {1, 2}}
           \cup {LetVar("y", 64, U(k), [k |-> "Nullish", l |-> Id("o"), r |-> r]) : k \in {"U32", "U64"}, r \in {IntLit(1), Id("p")}}
           \cup {LetVar("g", 68, None, Call(Id("id"), args, 0)) :
                   args \in {<<Id("p"), BoolLit(TRUE)>>, <<Id("v"), F("a")>>, <<Id("p"), [k |-> "NamedArg", name |-> "c", e |-> Id("v")]>>, <<Id("v"), Id("p")>>}}
           \cup {Put("a", Id(n)) : n \in {"g", "u", "v"}} \cup {Assign(Id("y"), "Add", Id(n)) : n \in {"g", "p"}}
           \cup {LetVar("y", 64, U("U32"), [k |-> "Ternary", es |-> <<Id("v"), Id("g"), IntLit(1)>>])}
           \cup {LetVar("d", 69, None, [k |-> "Struct_", name |-> "P", fields |-> <<"m", "n">>, es |-> <<Id("p"), BoolLit(TRUE)>>]),
                 LetVar("y", 64, U("U32"), Member(Id("d"), "m")), LetVar("y", 64, U("U32"), Member(Id("d"), "n"))}
           \cup {LetVar("y", 64, U("U32"), [k |-> "Match_", e |-> Id(n), arms |-> <<ExprArm([k |-> "Ident", name |-> "w", at |-> 70], Id("w"))>>]) : n \in {"p", "v"}}

MCSlots(t) ==
    CASE t = "words" -> {[a |-> a, i |-> i] : a \in {1, 6}, i \in {-4, 3}} \cup {<<>>}
      [] t = "wide" -> {[a |-> a, i |-> i] : a \in {1, 14}, i \in {-8, 7}} \cup {<<>>}
      [] t = "pair" -> {[b |-> b, f |-> 1] : b \in {15, 16, 17, 240, 255}} \cup {<<>>}
      [] t = "mods" -> {[a |-> 2, f |-> 1], [a |-> 5, f |-> 0], <<>>}
      [] t = "addr" -> {[owner |-> 1], [owner |-> 5], <<>>}
      [] OTHER -> {<<>>, [a |-> 2]}

MCValues(k) ==
    CASE k = "U32" -> {0, 1, 3, 7} [] k = "I32" -> {-4, -1, 0, 3} [] k = "U64" -> {0, 1, 8, 15} [] k = "I64" -> {-8, -1, 0, 7}
      [] k = "U128" -> {0, 1, 15, 16, 255} [] k = "Address" -> {0, 1, 5} [] k = "Bool" -> {0, 1}

MCMaxStatements == [words |-> 1, wide |-> 1, pair |-> 3, flow |-> 3, mods |-> 2, addr |-> 3, kinds |-> 3, parts |-> 4]
MCSelector(name, params) == IF name \in {"other", "clash"} THEN 1 ELSE 2

-----------------------------------------------------------------------------

Blank == Contract(<<Fn("get", {}, {}, <<>>)>>, <<>>, <<>>, None)
Analysing == unit = None /\ topic = None /\ typed = None /\ module = None
Compiling == contract = Blank /\ theme = "none" /\ size = 0

Init == (AnalysisInit /\ Analysing) \/ (CompileInit /\ Compiling)
Next == (unit = None /\ AnalysisNext /\ UNCHANGED cvars) \/ (unit # None /\ Write /\ UNCHANGED avars)
Spec == Init /\ [][Next]_<<avars, cvars>>
=============================================================================
