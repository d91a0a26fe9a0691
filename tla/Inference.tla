----------------------------- MODULE Inference -----------------------------
(***************************************************************************)
(* Type inference (lemma-lang/src/type_checker/infer.rs, types.rs).  The   *)
(* table expr_types is the field ty that inference adds to every           *)
(* expression; re-typing the span of a literal changes that field alone.   *)
(* A rejected expression has type Bad, a rejected statement is not ok.     *)
(* cx holds the scope, the tables of the resolver and the enclosing        *)
(* function.                                                               *)
(***************************************************************************)
EXTENDS Resolver

Bad == Prim("Error")
BoolTy == Prim("Bool")
IntLiteralTy == Prim("IntLiteral")

UnsignedInts == <<"U8", "U16", "U32", "U64", "U128", "U256">>
SignedInts == <<"I8", "I16", "I32", "I64", "I128", "I256">>
IsUnsignedInt(t) == t.k \in ToSet(UnsignedInts)
IsSignedInt(t) == t.k \in ToSet(SignedInts)
IsInteger(t) == IsUnsignedInt(t) \/ IsSignedInt(t)
IsNumeric(t) == IsInteger(t) \/ t.k \in {"IntLiteral", "Decimal"}

\* bit_width, as the place in the ladder of widths.
WidthRank(t) == CHOOSE i \in 1..6 : t.k \in {UnsignedInts[i], SignedInts[i]}

CoercesInt(from, to) == from = IntLiteralTy /\ IsInteger(to)
IsArrayType(t) == t.k \in {"Array", "FixedArray"}
IsMapType(t) == t.k \in {"Map", "FastMap"}
IsUnknown(t) == t = UnknownTy

\* Mutant: integers of any two types fit each other.
TypesCompatibleAnyWidth(expected, found) == IsUnknown(expected) \/ IsUnknown(found) \/ expected = found \/ IsNumeric(found)

TypesCompatible(expected, found) ==
    IsUnknown(expected) \/ IsUnknown(found) \/ expected = found \/ CoercesInt(found, expected)

\* The type of the two operands together, and what their spans are re-typed to.
Unify(l, r) ==
    LET u == CASE l = r -> l [] CoercesInt(l, r) -> r [] CoercesInt(r, l) -> l [] OTHER -> Bad
    IN  [ty |-> u, l |-> IF CoercesInt(l, r) THEN r ELSE l, r |-> IF CoercesInt(r, l) THEN l ELSE r]

\* unify_branch_types: an Unknown branch takes the type of the other, nothing is re-typed.
UnifyBranches(a, b) == IF IsUnknown(a) THEN b ELSE IF IsUnknown(b) THEN a ELSE Unify(a, b).ty

IntOrUnknown(t) == IsInteger(t) \/ t \in {IntLiteralTy, UnknownTy}
NumericOrUnknown(t) == IsNumeric(t) \/ IsUnknown(t)
BoolOrUnknown(t) == t \in {BoolTy, UnknownTy}

-----------------------------------------------------------------------------
(* Operators.                                                                *)

InferLiteral(e) ==
    CASE e.k \in {"Int", "Hex", "Bin", "UnitLit"} -> IntLiteralTy
      [] e.k = "IntTyped" -> Prim(e.suffix)
      [] e.k \in {"True", "False"} -> BoolTy
      [] e.k = "Str" -> Prim("String")
      [] e.k = "Float" -> UnknownTy
      [] OTHER -> Prim(e.k)

Literals == {"Int", "Hex", "Bin", "UnitLit", "IntTyped", "True", "False", "Str", "Float", "Bytes", "Char", "Address"}

InferUnary(op, t) ==
    CASE op = "Not" -> IF BoolOrUnknown(t) THEN BoolTy ELSE Bad
      [] op \in {"Neg", "BitNot"} -> IF IntOrUnknown(t) THEN t ELSE Bad
      [] op = "Ref" -> t

InferNullish(l, r) ==
    CASE IsUnknown(l) \/ IsUnknown(r) -> r
      [] l.k = "Option" /\ ~IsUnknown(r) -> IF r \in {l.args[1], IntLiteralTy} THEN l.args[1] ELSE Bad
      [] OTHER -> Bad

Arithmetic == {"Add", "Sub", "Mul", "Div", "Rem", "Pow"}
Comparisons == {"Lt", "Gt", "LtEq", "GtEq"}

InferBinary(op, l, r) ==
    LET as(t) == [ty |-> t, l |-> l, r |-> r]
        open == IsUnknown(l) \/ IsUnknown(r)
        u == Unify(l, r)
        truth == [u EXCEPT !.ty = IF @ = Bad THEN Bad ELSE BoolTy]
        ints == IntOrUnknown(l) /\ IntOrUnknown(r)
        numbers == NumericOrUnknown(l) /\ NumericOrUnknown(r)
    IN  IF Bad \in {l, r} THEN as(Bad) ELSE
        CASE op \in Arithmetic -> IF ~numbers THEN as(Bad) ELSE IF open THEN as(UnknownTy) ELSE u
          [] op \in {"BitAnd", "BitOr", "BitXor"} -> IF ~ints THEN as(Bad) ELSE IF open THEN as(UnknownTy) ELSE u
          [] op \in {"Shl", "Shr"} ->
               IF ~ints THEN as(Bad)
               ELSE IF open THEN as(UnknownTy)
               ELSE IF l = IntLiteralTy THEN [ty |-> r, l |-> r, r |-> r] ELSE as(l)
          [] op \in {"Eq", "NotEq"} -> IF open THEN as(BoolTy) ELSE truth
          [] op \in Comparisons -> IF ~numbers THEN as(Bad) ELSE IF open THEN as(BoolTy) ELSE truth
          [] op \in {"And", "Or"} -> IF BoolOrUnknown(l) /\ BoolOrUnknown(r) THEN as(BoolTy) ELSE as(Bad)
          [] op = "Nullish" -> as(InferNullish(l, r))

\* `as` only widens, keeping the sign; a literal takes any integer type.
InferCast(from, to) ==
    CASE from = Bad -> Bad
      [] from # Bad /\ IsUnknown(to) -> UnknownTy
      [] from # Bad /\ ~IsUnknown(to) /\ (IsUnknown(from) \/ CoercesInt(from, to)) -> to
      [] from # Bad /\ IsInteger(from) /\ IsInteger(to) ->
           IF (IsUnsignedInt(from) <=> IsUnsignedInt(to)) /\ WidthRank(from) <= WidthRank(to) THEN to ELSE Bad
      [] OTHER -> Bad

-----------------------------------------------------------------------------
(* Calls, members and literals of structured types.                          *)

RECURSIVE Substitute(_, _), CollectTypeArgs(_, _, _), FirstBinding(_)

Substitute(t, subst) ==
    IF t.k = "TypeParam" THEN (IF t.name \in DOMAIN subst THEN subst[t.name] ELSE t)
    ELSE [t EXCEPT !.args = [i \in DOMAIN @ |-> Substitute(@[i], subst)]]

FirstBinding(substs) == IF substs = <<>> THEN NoNames ELSE Head(substs) @@ FirstBinding(Tail(substs))

CollectTypeArgs(param, arg, names) ==
    CASE param.k = "TypeParam" -> IF param.name \in names THEN (param.name :> arg) ELSE NoNames
      [] param.k \in {"Array", "FixedArray", "Option", "Result", "Map", "FastMap", "Tuple", "Named"} /\ arg.k = param.k ->
           FirstBinding([i \in 1..Min({Len(param.args), Len(arg.args)}) |-> CollectTypeArgs(param.args[i], arg.args[i], names)])
      [] OTHER -> NoNames

InferTypeArgs(params, args, names) ==
    FirstBinding([i \in 1..Min({Len(params), Len(args)}) |-> CollectTypeArgs(params[i], args[i], names)])

MethodsOf(at, cx) ==
    LET item == CHOOSE d \in ToSet(cx.unit) : d.at = at
    IN  IF item.k = "Contract" THEN {m.name : m \in {m \in ToSet(item.members) : m.k = "Function"}}
        ELSE IF item.k = "Struct" THEN {m.name : m \in ToSet(cx.sigs[at].methods)} ELSE {}

\* Only a contract names traits, and it must have the methods of the trait.
SatisfiesBound(t, bound, cx) ==
    /\ t.k = "Named"
    /\ \E d \in ToSet(cx.unit) : d.at = t.at /\ d.k = "Contract" /\ bound.name \in d.traits
    /\ \A d \in ToSet(cx.unit) : d.at = bound.at /\ d.k = "Trait" => d.methods \subseteq MethodsOf(t.at, cx)

CheckTraitBounds(subst, generics, cx) ==
    \A g \in ToSet(generics) :
       g.bound # None /\ g.name \in DOMAIN subst /\ subst[g.name].k \notin {"Unknown", "TypeParam"}
       => SatisfiesBound(subst[g.name], g.bound, cx)

IsNamedArg(a) == a.k = "NamedArg"

\* Missing arguments and unknown names are let through; a member call has no signature.
InferCall(callee, sig, args, cx) ==
    LET params == Front(callee.args)
        positional == SelectSeq(args, LAMBDA a : ~IsNamedArg(a))
        subst == IF sig = None THEN NoNames
                 ELSE InferTypeArgs(params, [i \in DOMAIN positional |-> positional[i].ty], {g.name : g \in ToSet(sig.generics)})
        byName(a) == IF sig = None THEN {} ELSE {p.ty : p \in {p \in ToSet(sig.params) : p.name = a.name}}
        pairs == {<<params[i], positional[i].ty>> : i \in DOMAIN positional}
                 \cup UNION {{<<p, a.ty>> : p \in byName(a)} : a \in {a \in ToSet(args) : IsNamedArg(a)}}
    IN  CASE callee.k = "Fn" ->
               IF /\ Len(positional) <= Len(params)
                  /\ sig # None => CheckTraitBounds(subst, sig.generics, cx)
                  /\ \A p \in pairs : TypesCompatible(Substitute(p[1], subst), p[2])
               THEN Substitute(Last(callee.args), subst) ELSE Bad
          [] IsUnknown(callee) -> UnknownTy
          [] OTHER -> Bad

AddressCalls == {"rawCall", "staticCall", "delegateCall"}
CallResult == TyOf("Result", <<Prim("Bytes"), UnknownTy>>)

CheckAddressCall(method, args) ==
    IF Len(args) = (IF method = "rawCall" THEN 2 ELSE 1) /\ args[1].ty \in {Prim("Bytes"), UnknownTy} THEN CallResult ELSE Bad

\* The builtin members of a type.
BuiltinMembers(t) ==
    CASE IsArrayType(t) -> [length |-> Prim("U256"), get |-> TyOf("Option", t.args), push |-> UnitTy, pop |-> UnitTy]
      [] IsMapType(t) -> [get |-> TyOf("Option", <<t.args[2]>>), getOr |-> t.args[2], set |-> UnitTy, delete |-> UnitTy,
                          has |-> BoolTy, size |-> Prim("U256")]
      [] t.k = "Set" -> [add |-> UnitTy, delete |-> UnitTy, has |-> BoolTy, size |-> Prim("U256"), intersection |-> t, union |-> t,
                         difference |-> t]
      [] t.k = "Option" -> [unwrap |-> t.args[1], isSome |-> BoolTy, isNone |-> BoolTy]
      [] IsInteger(t) \/ t = IntLiteralTy ->
           [n \in {"checkedAdd", "checkedSub", "checkedMul", "checkedDiv"} |-> TyOf("Result", <<t, UnknownTy>>)]
           @@ [n \in {"wrappingAdd", "wrappingSub", "wrappingMul", "saturatingAdd", "saturatingSub"} |-> t]
           @@ [tryInto |-> TyOf("Result", <<UnknownTy, UnknownTy>>), toI256 |-> Prim("I256"), toU256 |-> Prim("U256")]
      [] t.k = "Decimal" -> [toRaw |-> Prim("U256")]
      [] t.k = "String" -> [length |-> Prim("U256")]
      [] t.k = "Address" -> [isZero |-> BoolTy, toHash |-> Prim("Hash")] @@ [n \in AddressCalls |-> CallResult]
      [] t.k = "MsgContext" -> [sender |-> Prim("Address"), value |-> Prim("U128")]
      [] t.k = "BlockContext" -> [height |-> Prim("U64"), timestamp |-> Prim("U64")]
      [] OTHER -> NoNames

FunctionType(sig) == FnTy([i \in DOMAIN sig.params |-> sig.params[i].ty], sig.ret)
SymbolSig(at, k, cx) == at \in DOMAIN cx.sigs /\ cx.sigs[at].k = k

InferMember(base, name, cx) ==
    LET sig == cx.sigs[base.at]
        fields == {f \in ToSet(sig.fields) : f.name = name}
        methods == {m \in ToSet(sig.methods) : m.name = name}
    IN  CASE base = Bad -> Bad
          [] base # Bad /\ name \in DOMAIN BuiltinMembers(base) -> BuiltinMembers(base)[name]
          [] base.k = "Named" /\ SymbolSig(base.at, "Struct", cx) ->
               IF fields # {} THEN (CHOOSE f \in fields : TRUE).ty
               ELSE IF methods = {} THEN Bad
               ELSE LET m == CHOOSE m \in methods : TRUE
                    IN  IF SymbolSig(m.at, "Function", cx) THEN FunctionType(cx.sigs[m.at]) ELSE UnknownTy
          [] OTHER -> UnknownTy

InferIndex(base, idx) ==
    CASE Bad \in {base, idx} -> Bad
      [] IsUnknown(base) /\ idx # Bad -> UnknownTy
      [] IsArrayType(base) /\ idx # Bad -> IF IntOrUnknown(idx) THEN base.args[1] ELSE Bad
      [] IsMapType(base) /\ idx # Bad -> base.args[2]
      [] OTHER -> Bad

\* Which fields are given is checked, their types are not, and a spread does not make up for a missing one.
InferStructLit(e, cx) ==
    IF e.name \notin DOMAIN cx.names THEN UnknownTy
    ELSE LET at == cx.names[e.name].at
             declared == ToSet(cx.sigs[at].fields)
             fits == /\ ToSet(e.fields) \subseteq {f.name : f \in declared}
                     /\ {f.name : f \in {f \in declared : ~f.optional}} \subseteq ToSet(e.fields)
         IN  IF SymbolSig(at, "Struct", cx) /\ ~fits THEN Bad
             ELSE [k |-> "Named", at |-> at, name |-> e.name, args |-> <<>>]

InferNew(name, cx) ==
    IF name \notin DOMAIN cx.names THEN UnknownTy ELSE [k |-> "Named", at |-> cx.names[name].at, name |-> name, args |-> <<>>]

-----------------------------------------------------------------------------
(* Annotations.                                                              *)

RECURSIVE LowerCastTarget(_, _), AnnotationCountsFit(_, _)

\* A cast and a lambda parameter look names up among all declared types, not in the scope.
LowerCastTarget(ty, cx) ==
    LET args == [i \in DOMAIN ty.args |-> LowerCastTarget(ty.args[i], cx)]
    IN  CASE ty.k # "Named" -> [ty EXCEPT !.args = args]
          [] ty.k = "Named" /\ ty.name \notin DOMAIN cx.names -> UnknownTy
          [] OTHER -> [k |-> "Named", at |-> cx.names[ty.name].at, name |-> ty.name, args |-> args]

\* A generic type is written with all of its arguments or with none.
GenericArgCountFits(name, args, cx) ==
    args = <<>> \/ name \notin DOMAIN cx.names
    \/ LET at == cx.names[name].at
       IN  at \in DOMAIN cx.sigs /\ cx.sigs[at].k \in {"Struct", "Enum"} => Len(cx.sigs[at].generics) = Len(args)

AnnotationCountsFit(ty, cx) ==
    /\ ty.k = "Named" /\ ty.name # "_" => GenericArgCountFits(ty.name, ty.args, cx)
    /\ \A a \in ToSet(ty.args) : AnnotationCountsFit(a, cx)

FnAnnotationsFit(f, cx) ==
    /\ \A p \in ToSet(f.params) : AnnotationCountsFit(p.ty, cx)
    /\ f.ret # None => AnnotationCountsFit(f.ret, cx)

\* validate_type_annotations, validate_contract_member_annotations.
AnnotationsFit(d, cx) ==
    CASE d.k = "Function" -> FnAnnotationsFit(d, cx)
      [] d.k \in {"Const", "Immutable", "TypeAlias"} -> AnnotationCountsFit(d.ty, cx)
      [] d.k = "Modifier" -> \A p \in ToSet(d.params) : AnnotationCountsFit(p.ty, cx)
      [] d.k = "State" -> \A f \in ToSet(d.fields) : AnnotationCountsFit(f.ty, cx)
      [] d.k = "Struct" -> /\ \A f \in ToSet(d.fields) : AnnotationCountsFit(f.ty, cx)
                           /\ \A m \in ToSet(d.methods) : FnAnnotationsFit(m, cx)
      [] OTHER -> TRUE

-----------------------------------------------------------------------------
(* Expressions.                                                              *)

TypedAs(e, t) == [ty |-> t] @@ e
Retype(e, t) == [e EXCEPT !.ty = t]
In(cx, sc) == [cx EXCEPT !.sc = sc]
Inner(cx) == In(cx, PushValueScope(cx.sc))

SymbolOf(e, cx) == IF e.k = "Ident" THEN Lookup(cx.sc.values, e.name) ELSE None

TypeOfIdent(e, cx) ==
    LET sym == SymbolOf(e, cx)
    IN  IF sym = None THEN UnknownTy
        ELSE IF SymbolSig(sym.at, "Function", cx) THEN FunctionType(cx.sigs[sym.at]) ELSE Relowered(sym, cx.top)

AllOk(stmts) == \A i \in DOMAIN stmts : stmts[i].ok
AllTyped(es) == \A i \in DOMAIN es : es[i].ty # Bad

\* infer_block_type of a block that was walked.
BlockTy(stmts) ==
    CASE ~AllOk(stmts) -> Bad
      [] AllOk(stmts) /\ stmts # <<>> -> IF Last(stmts).k = "Expr" THEN Last(stmts).e.ty ELSE UnitTy
      [] stmts = <<>> -> UnitTy

RECURSIVE BranchesTy(_), UnifyElements(_, _, _)
BranchesTy(tys) == IF tys = <<>> THEN UnknownTy ELSE UnifyBranches(BranchesTy(Front(tys)), Last(tys))

\* An array literal: each element meets the type so far, and re-types the first element or itself.
UnifyElements(es, i, t) ==
    IF i > Len(es) THEN [es |-> es, ty |-> t]
    ELSE LET u == Unify(t, es[i].ty)
             met == [es EXCEPT ![i] = Retype(@, u.r)]
         IN  UnifyElements(IF u.l # t THEN [met EXCEPT ![1] = Retype(@, u.l)] ELSE met, i + 1, u.ty)

\* Assignments to what cannot change.
Frozen(sym) == sym # None /\ (sym.kind \in {"Param", "Const", "Immutable"} \/ (sym.kind = "Local" /\ ~sym.mutable))

MutatesImmutable(target, cx) ==
    \/ target.k = "Ident" /\ Frozen(SymbolOf(target, cx))
    \/ target.k = "Index" /\ Frozen(SymbolOf(target.l, cx))
    \/ /\ target.k = "Member" /\ target.name \in cx.immutables /\ cx.fn # "init"
       /\ LET base == SymbolOf(target.e, cx) IN base # None /\ base.kind = "SelfBinding"

\* check_assign on the inferred sides: the new type of the value, Bad if it is rejected.
CheckAssign(l, op, r, cx) ==
    IF \/ Bad \in {l.ty, r.ty} \/ MutatesImmutable(l, cx) \/ (op # "Assign" /\ ~IntOrUnknown(l.ty))
       \/ ~TypesCompatible(l.ty, r.ty)
    THEN Bad
    ELSE IF ~IsUnknown(l.ty) /\ r.ty = IntLiteralTy THEN l.ty ELSE r.ty

RECURSIVE Infer(_, _), WalkStmts(_, _), WalkArm(_, _)

\* The scope inside a node: the parameters of a lambda, the pattern of a for or of an arm, the variable of a catch.
InnerOf(n, cx) ==
    LET sc == PushValueScope(cx.sc)
    IN  In(cx, CASE n.k = "Lambda" -> BindParams(sc, n.params)
                 [] n.k = "For" -> Bind(sc, PatternBindings(n.pat))
                 [] n.k = "Try" -> Bind(sc, <<n.catch_var>>)
                 [] OTHER -> sc)

InArm(arm, cx) == In(cx, Bind(PushValueScope(cx.sc), PatternBindings(arm.pattern)))

\* The body of a lambda or of an arm may be one expression.
IsBlock(n) == "is_block" \in DOMAIN n => n.is_block

\* walk_match_arm, and the type of the arm.
BodyTy(n) == IF n.is_block THEN BlockTy(n.body) ELSE n.body[1].ty
ArmTyped(arm) == TypedAs(arm, IF AllTyped(arm.guard) THEN BodyTy(arm) ELSE Bad)

\* A node with its parts inferred or walked, before it is judged itself: cx is the scope around it, inner the one in it.
WalkParts(n, cx, inner) ==
    [f \in DOMAIN n |->
        CASE f \in {"e", "l", "r", "callee", "cond"} -> Infer(n[f], cx)
          [] f \in {"es", "args", "iter", "guard"} \/ (f = "body" /\ ~IsBlock(n)) -> [i \in DOMAIN n[f] |-> Infer(n[f][i], IF f = "body" THEN inner ELSE cx)]
          [] f = "arms" -> [i \in DOMAIN n.arms |-> ArmTyped(WalkArm(n.arms[i], InArm(n.arms[i], cx)))]
          [] f \in {"then", "else_", "body", "catch_body"} /\ IsBlock(n) -> WalkStmts(n[f], IF f = "body" /\ n.k = "Try" THEN Inner(cx) ELSE inner)
          [] OTHER -> n[f]]

WalkArm(arm, cx) == WalkParts(arm, cx, cx)

-----------------------------------------------------------------------------
(* Expressions whose parts are inferred.                                     *)

SigOf(sym, cx) == IF sym # None /\ SymbolSig(sym.at, "Function", cx) THEN cx.sigs[sym.at] ELSE None

InferCallExpr(e, cx) ==
    CASE ~AllTyped(e.args) \/ e.callee.ty = Bad -> Bad
      [] AllTyped(e.args) /\ e.callee.k = "Member" /\ e.callee.name \in AddressCalls ->
           IF e.callee.e.ty \in {Prim("Address"), UnknownTy} THEN CheckAddressCall(e.callee.name, e.args) ELSE Bad
      [] AllTyped(e.args) /\ e.callee.k = "Member" /\ e.callee.name \notin AddressCalls /\ e.callee.ty.k \notin {"Fn", "Unknown"} -> e.callee.ty
      [] OTHER -> InferCall(e.callee.ty, SigOf(SymbolOf(e.callee, cx), cx), e.args, cx)

InferLambda(e, t, cx) == IF t = Bad THEN Bad ELSE FnTy([i \in DOMAIN e.params |-> LowerCastTarget(e.params[i].ty, cx)], t)

\* The two sides with the types a binary operation gives them.
Sides(e, u) == TypedAs([e EXCEPT !.l = Retype(@, u.l), !.r = Retype(@, u.r)], u.ty)
Branches(e, u) == TypedAs([e EXCEPT !.es = <<@[1], Retype(@[2], u.l), Retype(@[3], u.r)>>], u.ty)
Elements(e, u) == TypedAs([e EXCEPT !.es = u.es], IF u.ty = Bad THEN Bad ELSE TyOf("Array", <<u.ty>>))
Assigned(e, t) == TypedAs([e EXCEPT !.r = Retype(@, t)], IF t = Bad THEN Bad ELSE UnitTy)

InferTernary(e) ==
    IF ~AllTyped(e.es) \/ ~BoolOrUnknown(e.es[1].ty) THEN TypedAs(e, Bad)
    ELSE IF UnknownTy \in {e.es[2].ty, e.es[3].ty} THEN TypedAs(e, UnifyBranches(e.es[2].ty, e.es[3].ty))
    ELSE Branches(e, Unify(e.es[2].ty, e.es[3].ty))

\* infer_array: an element that is rejected rejects the literal.
InferArray(e) ==
    IF e.es = <<>> THEN TypedAs(e, TyOf("Array", <<UnknownTy>>))
    ELSE IF ~AllTyped(e.es) THEN TypedAs(e, Bad) ELSE Elements(e, UnifyElements(e.es, 2, e.es[1].ty))

InferIf(e, then, else) ==
    IF Bad \in {then, else} \/ ~BoolOrUnknown(e.cond.ty) THEN Bad ELSE IF e.else_ = <<>> THEN UnitTy ELSE UnifyBranches(then, else)

InferTry(t) == CASE t.k = "Result" -> t.args[1] [] IsUnknown(t) -> UnknownTy [] OTHER -> Bad

\* A compound expression whose parts are inferred: its type when none of them is rejected.
Over(e, es, t) == TypedAs(e, IF AllTyped(es) THEN t ELSE Bad)

InferInner(e, cx) ==
    CASE e.k \in Literals -> TypedAs(e, InferLiteral(e))
      [] e.k = "Ident" -> TypedAs(e, TypeOfIdent(e, cx))
      [] e.k = "Unary" -> TypedAs(e, InferUnary(e.op, e.e.ty))
      [] e.k \in {"Binary", "Nullish"} -> Sides(e, InferBinary(IF e.k = "Nullish" THEN "Nullish" ELSE e.op, e.l.ty, e.r.ty))
      [] e.k = "Ternary" -> InferTernary(e)
      [] e.k = "Cast" -> TypedAs(e, InferCast(e.e.ty, LowerCastTarget(e.to, cx)))
      [] e.k = "NamedArg" -> TypedAs(e, e.e.ty)
      [] e.k = "Call" -> TypedAs(e, InferCallExpr(e, cx))
      [] e.k = "Member" -> TypedAs(e, InferMember(e.e.ty, e.name, cx))
      [] e.k = "Index" -> TypedAs(e, InferIndex(e.l.ty, e.r.ty))
      [] e.k = "Struct_" -> Over(e, e.es, InferStructLit(e, cx))
      [] e.k = "New" -> Over(e, e.args, InferNew(e.name, cx))
      [] e.k = "Array" -> InferArray(e)
      [] e.k = "Tuple" -> Over(e, e.es, TyOf("Tuple", [i \in DOMAIN e.es |-> e.es[i].ty]))
      [] e.k = "Template" -> Over(e, e.es, Prim("String"))
      [] e.k = "Lambda" -> TypedAs(e, InferLambda(e, BodyTy(e), cx))
      [] e.k = "Match_" -> Over(e, <<e.e>> \o e.arms, BranchesTy([i \in DOMAIN e.arms |-> e.arms[i].ty]))
      [] e.k = "If_" -> TypedAs(e, InferIf(e, BlockTy(e.then), BlockTy(e.else_)))
      [] e.k = "AssignE" -> Assigned(e, CheckAssign(e.l, e.op, e.r, cx))
      [] e.k = "Try_" -> TypedAs(e, InferTry(e.e.ty))

Infer(e, cx) == InferInner(WalkParts(e, cx, InnerOf(e, cx)), cx)
InferAll(es, cx) == [i \in DOMAIN es |-> Infer(es[i], cx)]

-----------------------------------------------------------------------------
(* Statements.                                                               *)

Checked(s, ok) == [ok |-> ok] @@ s

\* check_let against the declared type of a plain name.
DeclaredTy(s, cx) ==
    IF s.ty = None \/ s.pat.k # "Ident" THEN UnknownTy ELSE Relowered(DeclaredAs(s.pat.at, "Local", s.ty, cx.sc), cx.top)

CheckLet(s, declared, cx) ==
    Checked([s EXCEPT !.e = IF CoercesInt(@.ty, declared) THEN Retype(@, declared) ELSE @],
            s.e.ty # Bad /\ TypesCompatible(declared, s.e.ty) /\ (s.ty # None => AnnotationCountsFit(s.ty, cx)))

\* What the let gives the types of: a plain name without annotation, the names of a tuple or of a struct.
LetTypes(s, cx) ==
    LET t == s.e.ty
        sig == cx.sigs[cx.names[s.pat.name].at]
        named(i) == {f \in ToSet(sig.fields) : f.name = s.pat.fields[i]}
        bound(is, ty(_)) == FirstBinding([i \in DOMAIN s.pat.ps |->
                                            IF i \in is /\ s.pat.ps[i].k = "Ident" THEN (s.pat.ps[i].name :> ty(i)) ELSE NoNames])
    IN  CASE s.pat.k = "Ident" /\ s.ty = None -> (s.pat.name :> IF t = IntLiteralTy THEN Prim("U256") ELSE t)
          [] s.pat.k = "Tuple" /\ t.k = "Tuple" -> bound(DOMAIN t.args, LAMBDA i : t.args[i])
          [] s.pat.k = "Struct" /\ s.pat.name \in DOMAIN cx.names /\ SymbolSig(cx.names[s.pat.name].at, "Struct", cx) ->
               bound({i \in DOMAIN s.pat.fields : named(i) # {}}, LAMBDA i : (CHOOSE f \in named(i) : TRUE).ty)
          [] OTHER -> NoNames

\* The scope after a walked statement, with the types a let has found.
WithFound(sc, found) ==
    [sc EXCEPT !.values[Len(sc.values)] =
        [n \in DOMAIN @ |-> IF n \in DOMAIN found /\ @[n].ty = UnknownTy THEN [@[n] EXCEPT !.ty = found[n]] ELSE @[n]]]
AfterStmt(s, cx) == In(cx, WithFound(Declares(s, cx.sc), IF s.k = "Let" THEN LetTypes(s, cx) ELSE NoNames))

\* check_return: outside a function that has a signature nothing is expected.
CheckReturn(s, ret) ==
    IF ret = None THEN Checked(s, AllTyped(s.es))
    ELSE IF s.es = <<>> THEN Checked(s, ret \in {UnitTy, UnknownTy})
    ELSE Checked([s EXCEPT !.es = [i \in DOMAIN @ |-> IF CoercesInt(@[i].ty, ret) THEN Retype(@[i], ret) ELSE @[i]]],
                 AllTyped(s.es) /\ TypesCompatible(ret, s.es[1].ty))

\* The bounds of a range are integers, the condition of a loop is a bool.
LoopFits(s) ==
    CASE s.k = "While" -> BoolOrUnknown(s.iter[1].ty)
      [] s.k = "For" /\ Len(s.iter) = 2 -> IntOrUnknown(s.iter[1].ty) /\ IntOrUnknown(s.iter[2].ty)
      [] OTHER -> AllTyped(s.iter)

CheckedAssign(s, t) == Checked([s EXCEPT !.r = Retype(@, t)], t # Bad)

\* A statement whose parts are walked.
CheckStmt(s, cx) ==
    CASE s.k = "Let" -> CheckLet(s, DeclaredTy(s, cx), cx)
      [] s.k \in {"Const", "Expr"} -> Checked(s, s.e.ty # Bad)
      [] s.k = "Assign" -> CheckedAssign(s, CheckAssign(s.l, s.op, s.r, cx))
      [] s.k = "Return" -> CheckReturn(s, cx.ret)
      [] s.k = "If" -> Checked(s, BoolOrUnknown(s.cond.ty) /\ AllOk(s.then) /\ AllOk(s.else_))
      [] s.k \in Loops -> Checked(s, LoopFits(s) /\ AllOk(s.body))
      [] s.k = "Match" -> Checked(s, s.e.ty # Bad /\ AllTyped(s.arms))
      [] s.k \in {"Emit", "Assert", "Revert"} -> Checked(s, AllTyped(s.es))
      [] s.k = "Try" -> Checked(s, AllOk(s.body) /\ AllOk(s.catch_body))
      [] s.k = "Unchecked" -> Checked(s, AllOk(s.body))
      [] OTHER -> Checked(s, TRUE)

WalkStmt(s, cx) == CheckStmt(WalkParts(s, cx, InnerOf(s, cx)), cx)

\* A walked statement and the ones behind it.
WalkOn(s, rest, cx) == <<s>> \o WalkStmts(rest, IF s.ok THEN AfterStmt(s, cx) ELSE cx)
WalkStmts(stmts, cx) == IF stmts = <<>> THEN <<>> ELSE WalkOn(WalkStmt(Head(stmts), cx), Tail(stmts), cx)

-----------------------------------------------------------------------------
(* Items.                                                                    *)

\* The result type is that of the signature filed under the function's own symbol.
InFunction(f, cx) ==
    [cx EXCEPT !.sc = FunctionScope(f, @), !.fn = f.name, !.ret = IF SymbolSig(f.at, "Function", cx) THEN cx.sigs[f.at].ret ELSE None]

Defaults(f, cx) == FlattenSeq([i \in DOMAIN f.params |-> InferAll(f.params[i].default, cx)])
WalkedFunction(f, defaults) == Checked(f, AllOk(f.body) /\ AllTyped(defaults))
WalkedIn(f, cx) == WalkedFunction([f EXCEPT !.body = WalkStmts(@, cx)], Defaults(f, cx))
WalkFunction(f, cx) == WalkedIn(f, InFunction(f, cx))

\* The scope of what a declaration holds.
DeclScope(d, sc, inContract) ==
    CASE d.k = "Modifier" -> BindParams(PushValueScope(sc), d.params)
      [] d.k \in {"Receive", "Fallback"} -> PushValueScope(sc)
      [] d.k = "Struct" -> StructScope(d, sc, inContract)
      [] d.k = "Enum" -> GenericScope(sc, d.generics)
      [] OTHER -> sc

HasMethods(d, inContract) == d.k = "Struct" \/ (d.k = "Enum" /\ ~inContract)

\* A function by itself, or the ones that a declaration holds.
FunctionsOf(d, inContract) == IF d.k = "Function" THEN <<d>> ELSE IF HasMethods(d, inContract) THEN d.methods ELSE <<>>
WalkFunctions(fns, cx) == [i \in DOMAIN fns |-> WalkFunction(fns[i], cx)]

CheckDecl(d, fns, inContract) ==
    CASE d.k = "Function" -> fns[1]
      [] d.k = "Const" -> Checked(d, d.e.ty # Bad)
      [] d.k = "State" -> Checked(d, \A i \in DOMAIN d.fields : AllTyped(d.fields[i].default))
      [] d.k \in {"Modifier", "Receive", "Fallback"} -> Checked(d, AllOk(d.body))
      [] HasMethods(d, inContract) -> Checked([d EXCEPT !.methods = fns], AllOk(fns))
      [] OTHER -> Checked(d, TRUE)

WalkDeclParts(d, cx) ==
    CASE d.k = "Const" -> [d EXCEPT !.e = Infer(@, cx)]
      [] d.k = "State" -> [d EXCEPT !.fields = [i \in DOMAIN @ |-> [@[i] EXCEPT !.default = InferAll(@, cx)]]]
      [] d.k \in {"Modifier", "Receive", "Fallback"} -> [d EXCEPT !.body = WalkStmts(@, cx)]
      [] OTHER -> d

\* walk_item, walk_contract_member.
WalkDeclIn(d, cx, inContract) == CheckDecl(WalkDeclParts(d, cx), WalkFunctions(FunctionsOf(d, inContract), cx), inContract)
WalkDecl(d, cx, inContract) == WalkDeclIn(d, In(cx, DeclScope(d, cx.sc, inContract)), inContract)

\* Inferrer::new, over what the resolver has collected.
Collected(unit, sc) ==
    LET members == FlattenSeq([i \in DOMAIN unit |-> IF unit[i].k = "Contract" THEN unit[i].members ELSE <<>>])
    IN  [sc |-> sc, top |-> sc.types[1], sigs |-> Signatures(unit, sc), names |-> GlobalTypes(unit), unit |-> unit, fn |-> "", ret |-> None,
         immutables |-> {d.name : d \in {d \in ToSet(members) : d.k = "Immutable"}}]
Context(unit) == Collected(unit, GlobalScope(unit))

\* A contract is walked member by member in its scope, anything else by itself.
WalkDecls(ds, cx, inContract) == [i \in DOMAIN ds |-> WalkDecl(ds[i], cx, inContract)]
WalkedItem(item, ds) == IF item.k = "Contract" THEN Checked([item EXCEPT !.members = ds], AllOk(ds)) ELSE ds[1]
WalkItem(item, cx) == WalkedItem(item, WalkDecls(DeclsOf(item), In(cx, DeclsScope(item, cx.sc)), item.k = "Contract"))

AnnotationsFitIn(d, cx) == IF d.k = "Contract" THEN \A m \in ToSet(d.members) : AnnotationsFit(m, cx) ELSE AnnotationsFit(d, cx)

\* walk_ast: the unit with the types of its expressions; it is accepted if nothing in it is rejected.
WalkAst(unit, cx) == [cx |-> cx, ast |-> [i \in DOMAIN unit |-> WalkItem(unit[i], cx)]]

\* run_pipeline up to the type checker.
TypedAst(unit) == WalkAst(unit, Context(unit))
TypeChecks(t) == AllOk(t.ast) /\ ResolveErrors(t.cx.unit, t.cx.sc) = {} /\ \A d \in ToSet(t.cx.unit) : AnnotationsFitIn(d, t.cx)
=============================================================================
