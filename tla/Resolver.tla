------------------------------ MODULE Resolver ------------------------------
(***************************************************************************)
(* Name resolution (lemma-lang/src/type_checker/resolver.rs): the scopes   *)
(* of values and types, the symbols they hold and the signatures that are  *)
(* collected on the way.  A unit is a sequence of items; a declaration     *)
(* carries its symbol id, at.  An optional part is None or an empty        *)
(* sequence.  The resolver reports its errors as a set of names.           *)
(***************************************************************************)
EXTENDS LemAst

TyOf(k, args) == [k |-> k, args |-> args]
Prim(k) == TyOf(k, <<>>)
UnknownTy == Prim("Unknown")
UnitTy == Prim("Unit")
TypeRef(name, args) == [k |-> "Named", name |-> name, args |-> args]
FnTy(params, ret) == TyOf("Fn", Append(params, ret))

-----------------------------------------------------------------------------
(* Symbols and scopes, the innermost last.                                   *)

Symbol(at, kind, ty, ann) == [at |-> at, kind |-> kind, ty |-> ty, ann |-> ann, mutable |-> FALSE]
Untyped(at, kind) == Symbol(at, kind, UnknownTy, None)

NoNames == [n \in {} |-> None]
EmptyScope == [values |-> <<NoNames>>, types |-> <<NoNames>>]

PushValueScope(sc) == [sc EXCEPT !.values = Append(@, NoNames)]
PushTypeScope(sc) == [sc EXCEPT !.types = Append(@, NoNames)]

DefineValue(sc, name, sym) == [sc EXCEPT !.values[Len(sc.values)] = (name :> sym) @@ @]
DefineType(sc, name, sym) == [sc EXCEPT !.types[Len(sc.types)] = (name :> sym) @@ @]

\* lookup_value, lookup_type: the innermost scope that has the name.
Lookup(stack, name) ==
    LET having == {i \in DOMAIN stack : name \in DOMAIN stack[i]}
    IN  IF having = {} THEN None ELSE stack[Max(having)][name]

\* define_*_or_err: the name is already taken in the innermost scope.
Duplicate(stack, name) == IF name \in DOMAIN Last(stack) THEN {name} ELSE {}

RECURSIVE LowerType(_, _)

\* A name that is not in scope yet becomes Unknown.
LowerType(ty, types) ==
    LET args == [i \in DOMAIN ty.args |-> LowerType(ty.args[i], types)]
        sym == Lookup(types, ty.name)
    IN  CASE ty.k # "Named" -> [ty EXCEPT !.args = args]
          [] ty.k = "Named" /\ (ty.name = "_" \/ sym = None) -> UnknownTy
          [] OTHER -> IF sym.kind = "GenericParam" THEN [k |-> "TypeParam", name |-> ty.name, args |-> <<>>]
                      ELSE [k |-> "Named", at |-> sym.at, name |-> ty.name, args |-> args]

\* alloc_typed_with_ann: the annotation is kept for re_lower_forward_refs.
DeclaredAs(at, kind, ty, sc) == Symbol(at, kind, LowerType(ty, sc.types), ty)

\* re_lower_forward_refs runs when only the global scope is left.
Relowered(sym, globals) ==
    IF sym.ty = UnknownTy /\ sym.ann # None THEN LowerType(sym.ann, <<globals>>) ELSE sym.ty

RECURSIVE ResolveTypeRef(_, _)
ResolveTypeRef(ty, sc) ==
    (IF ty.k = "Named" /\ ty.name # "_" /\ Lookup(sc.types, ty.name) = None THEN {ty.name} ELSE {})
    \cup UNION {ResolveTypeRef(a, sc) : a \in ToSet(ty.args)}

ResolveOptional(ty, sc) == IF ty = None THEN {} ELSE ResolveTypeRef(ty, sc)

RECURSIVE PatternBindings(_)
PatternBindings(p) ==
    CASE p.k = "Ident" -> <<p>>
      [] p.k \in {"Tuple", "Struct", "Variant"} -> FlattenSeq([i \in DOMAIN p.ps |-> PatternBindings(p.ps[i])])
      [] OTHER -> <<>>

RECURSIVE Bind(_, _)

\* The bindings of a loop, an arm or a catch.
Bind(sc, bindings) ==
    IF bindings = <<>> THEN sc
    ELSE Bind(DefineValue(sc, Head(bindings).name, Untyped(Head(bindings).at, "Local")), Tail(bindings))

\* The symbols of a let: only a plain name takes the annotation, and a let may shadow anything.
RECURSIVE BindLet(_, _, _)
BindLet(sc, bindings, s) ==
    LET b == Head(bindings)
        sym == IF s.pat.k = "Ident" /\ s.ty # None THEN DeclaredAs(b.at, "Local", s.ty, sc) ELSE Untyped(b.at, "Local")
    IN  IF bindings = <<>> THEN sc
        ELSE BindLet(DefineValue(sc, b.name, [sym EXCEPT !.mutable = s.mutable]), Tail(bindings), s)

\* The scope after a statement.
Declares(s, sc) ==
    CASE s.k = "Let" -> BindLet(sc, PatternBindings(s.pat), s)
      [] s.k = "Const" -> DefineValue(sc, s.name, DeclaredAs(s.at, "Const", s.ty, sc))
      [] OTHER -> sc

RECURSIVE BindParams(_, _)
BindParams(sc, params) ==
    IF params = <<>> THEN sc
    ELSE BindParams(DefineValue(sc, Head(params).name, DeclaredAs(Head(params).at, "Param", Head(params).ty, sc)), Tail(params))

-----------------------------------------------------------------------------
(* Statements and expressions.                                               *)

RECURSIVE ResolveExpr(_, _), ResolveStmts(_, _), ResolveStmt(_, _)

ResolveAll(es, sc) == UNION {ResolveExpr(es[i], sc) : i \in DOMAIN es}
ResolveBlock(stmts, sc) == ResolveStmts(stmts, PushValueScope(sc))

ResolveMatchArm(arm, sc) ==
    LET inner == Bind(PushValueScope(sc), PatternBindings(arm.pattern))
    IN  ResolveAll(arm.guard, inner)
        \cup (IF arm.is_block THEN ResolveStmts(arm.body, inner) ELSE ResolveAll(arm.body, inner))

ResolveExpr(e, sc) ==
    CASE e.k = "Ident" -> IF Lookup(sc.values, e.name) = None THEN {e.name} ELSE {}
      [] e.k = "Call" -> ResolveExpr(e.callee, sc) \cup ResolveAll(e.args, sc)
      [] e.k \in {"Struct_", "New"} ->
           ResolveTypeRef(TypeRef(e.name, <<>>), sc) \cup ResolveAll(IF e.k = "New" THEN e.args ELSE e.es, sc)
      [] e.k = "NamedArg" -> ResolveExpr(e.e, sc)
      [] e.k = "Cast" -> ResolveExpr(e.e, sc) \cup ResolveTypeRef(e.to, sc)
      [] e.k = "Lambda" ->
           LET inner == BindParams(PushValueScope(sc), e.params)
           IN  UNION {ResolveTypeRef(e.params[i].ty, sc) : i \in DOMAIN e.params}
               \cup (IF e.is_block THEN ResolveStmts(e.body, inner) ELSE ResolveAll(e.body, inner))
      [] e.k = "If_" -> ResolveExpr(e.cond, sc) \cup ResolveBlock(e.then, sc) \cup ResolveBlock(e.else_, sc)
      [] e.k = "Match_" -> ResolveExpr(e.e, sc) \cup UNION {ResolveMatchArm(e.arms[i], sc) : i \in DOMAIN e.arms}
      [] OTHER -> ResolveAll(ExprChildren(e), sc)

\* The initializer of a let is resolved before its names are bound; a const may not reuse a name of its scope.
ResolveStmt(s, sc) ==
    CASE s.k = "Let" -> ResolveExpr(s.e, sc) \cup ResolveOptional(s.ty, sc)
      [] s.k = "Const" -> ResolveTypeRef(s.ty, sc) \cup ResolveExpr(s.e, sc) \cup Duplicate(sc.values, s.name)
      [] s.k = "If" -> ResolveExpr(s.cond, sc) \cup ResolveBlock(s.then, sc) \cup ResolveBlock(s.else_, sc)
      [] s.k \in {"While", "Loop"} -> ResolveAll(s.iter, sc) \cup ResolveBlock(s.body, sc)
      [] s.k = "For" -> ResolveAll(s.iter, sc) \cup ResolveStmts(s.body, Bind(PushValueScope(sc), PatternBindings(s.pat)))
      [] s.k = "Match" -> ResolveExpr(s.e, sc) \cup UNION {ResolveMatchArm(s.arms[i], sc) : i \in DOMAIN s.arms}
      [] s.k = "Try" -> ResolveBlock(s.body, sc) \cup ResolveStmts(s.catch_body, Bind(PushValueScope(sc), <<s.catch_var>>))
      [] s.k = "Unchecked" -> ResolveBlock(s.body, sc)
      [] OTHER -> ResolveAll(StmtChildren(s), sc)

ResolveStmts(stmts, sc) ==
    IF stmts = <<>> THEN {}
    ELSE ResolveStmt(Head(stmts), sc) \cup ResolveStmts(Tail(stmts), Declares(Head(stmts), sc))

-----------------------------------------------------------------------------
(* Functions.                                                                *)

RECURSIVE RegisterGenericParams(_, _)
RegisterGenericParams(sc, generics) ==
    IF generics = <<>> THEN sc
    ELSE RegisterGenericParams(DefineType(sc, Head(generics).name, Untyped(Head(generics).at, "GenericParam")), Tail(generics))

GenericScope(sc, generics) == RegisterGenericParams(PushTypeScope(sc), generics)

\* The scope the body of a function is resolved in.
FunctionScope(f, sc) == PushValueScope(BindParams(PushValueScope(GenericScope(sc, f.generics)), f.params))

Repeated(decls) == {decls[i].name : i \in {i \in DOMAIN decls : \E j \in 1..(i - 1) : decls[j].name = decls[i].name}}

\* The defaults are resolved while the parameters are bound, so one may use the parameters up to its own.
ResolveFunctionBody(f, sc) ==
    LET inner == GenericScope(sc, f.generics)
        upto(i) == BindParams(PushValueScope(inner), SubSeq(f.params, 1, i))
    IN  Repeated(f.generics) \cup Repeated(f.params) \cup ResolveOptional(f.ret, inner)
        \cup UNION {ResolveOptional(f.generics[i].bound, inner) : i \in DOMAIN f.generics}
        \cup UNION {ResolveTypeRef(f.params[i].ty, inner) \cup ResolveAll(f.params[i].default, upto(i)) : i \in DOMAIN f.params}
        \cup ResolveStmts(f.body, FunctionScope(f, sc))

\* The signature is filed under whatever symbol the name of the function finds.
FunctionSig(f, sc) ==
    LET inner == GenericScope(sc, f.generics)
        sym == Lookup(inner.values, f.name)
        bound(g) == IF g.bound = None THEN None ELSE [at |-> Lookup(inner.types, g.bound.name).at, name |-> g.bound.name]
        sig == [k |-> "Function",
                params |-> [i \in DOMAIN f.params |-> [name |-> f.params[i].name, ty |-> LowerType(f.params[i].ty, inner.types)]],
                ret |-> IF f.ret = None THEN UnitTy ELSE LowerType(f.ret, inner.types),
                generics |-> [i \in DOMAIN f.generics |-> [name |-> f.generics[i].name, bound |-> bound(f.generics[i])]]]
    IN  IF sym = None THEN <<>> ELSE <<[at |-> sym.at, sig |-> sig]>>

FunctionSigs(fns, sc) == FlattenSeq([i \in DOMAIN fns |-> FunctionSig(fns[i], sc)])

-----------------------------------------------------------------------------
(* Items and the members of contracts.                                       *)

TypeItems == {"Contract", "Interface", "Trait", "Library", "Struct", "Enum", "ErrorDecl", "TypeAlias", "Event"}
ValueItems == {"Function", "Modifier", "Const", "Immutable"}

\* The kind of the symbol a declaration gets: an event is a struct, a modifier a function.
SymbolKindOf(d) == CASE d.k = "Event" -> "Struct" [] d.k = "Modifier" -> "Function" [] OTHER -> d.k

RECURSIVE RegisterFields(_, _)
RegisterFields(sc, fields) ==
    IF fields = <<>> THEN sc
    ELSE RegisterFields(DefineValue(sc, Head(fields).name, DeclaredAs(Head(fields).at, "StateField", Head(fields).ty, sc)), Tail(fields))

RECURSIVE RegisterNames(_, _, _)

\* register_import, inject_base_members: the names that come from elsewhere replace what is there.
RegisterNames(sc, names, both) ==
    LET sym == Untyped(Head(names).at, IF both THEN "Imported" ELSE "Function")
        defined == DefineValue(sc, Head(names).name, sym)
    IN  IF names = <<>> THEN sc
        ELSE RegisterNames(IF both THEN DefineType(defined, Head(names).name, sym) ELSE defined, Tail(names), both)

\* build_global_scope, register_contract_member.
Register(sc, d) ==
    CASE d.k \in TypeItems -> DefineType(sc, d.name, Untyped(d.at, SymbolKindOf(d)))
      [] d.k \in {"Const", "Immutable"} -> DefineValue(sc, d.name, DeclaredAs(d.at, d.k, d.ty, sc))
      [] d.k \in {"Function", "Modifier"} -> DefineValue(sc, d.name, Untyped(d.at, "Function"))
      [] d.k = "State" -> RegisterFields(sc, d.fields)
      [] d.k = "Import" -> RegisterNames(sc, d.names, TRUE)
      [] OTHER -> sc

\* What registering rejects.
Redeclared(sc, d) ==
    CASE d.k \in TypeItems -> Duplicate(sc.types, d.name)
      [] d.k \in ValueItems -> Duplicate(sc.values, d.name)
      [] d.k = "State" -> Repeated(d.fields) \cup UNION {Duplicate(sc.values, d.fields[i].name) : i \in DOMAIN d.fields}
      [] OTHER -> {}

RECURSIVE RegisterAll(_, _)
RegisterAll(sc, decls) == IF decls = <<>> THEN sc ELSE RegisterAll(Register(sc, Head(decls)), Tail(decls))

RedeclaredIn(sc, decls) == UNION {Redeclared(RegisterAll(sc, SubSeq(decls, 1, i - 1)), decls[i]) : i \in DOMAIN decls}

BuiltinScope ==
    DefineValue(DefineValue(EmptyScope, "msg", Symbol(0, "BuiltinGlobal", Prim("MsgContext"), None)),
                "block", Symbol(0, "BuiltinGlobal", Prim("BlockContext"), None))
GlobalScope(unit) == RegisterAll(BuiltinScope, unit)

\* The members a contract inherits live in a scope around its own.
BaseScope(c, sc) ==
    PushTypeScope(PushValueScope(
        RegisterNames(DefineValue(PushTypeScope(PushValueScope(sc)), "self", Untyped(c.at, "SelfBinding")), c.base, FALSE)))
ContractScope(c, sc) == RegisterAll(BaseScope(c, sc), c.members)

\* The declarations of an item, a contract's being its members, and the scope they are read in.
DeclsOf(item) == IF item.k = "Contract" THEN item.members ELSE <<item>>
DeclsScope(item, sc) == IF item.k = "Contract" THEN ContractScope(item, sc) ELSE sc

\* The methods of a struct are names of their own at the top level, but not inside a contract.
StructScope(d, sc, inContract) ==
    IF inContract THEN GenericScope(sc, d.generics) ELSE RegisterAll(PushValueScope(GenericScope(sc, d.generics)), d.methods)

ResolveFns(fns, sc) == UNION {ResolveFunctionBody(fns[i], sc) : i \in DOMAIN fns}

\* resolve_item, resolve_contract_member.
ResolveDecl(d, sc, inContract) ==
    CASE d.k = "Function" -> ResolveFunctionBody(d, sc)
      [] d.k = "Const" -> ResolveTypeRef(d.ty, sc) \cup ResolveExpr(d.e, sc)
      [] d.k \in {"TypeAlias", "Immutable"} -> ResolveTypeRef(d.ty, sc)
      [] d.k = "State" -> UNION {ResolveTypeRef(d.fields[i].ty, sc) \cup ResolveAll(d.fields[i].default, sc) : i \in DOMAIN d.fields}
      [] d.k = "Modifier" ->
           UNION {ResolveTypeRef(d.params[i].ty, sc) : i \in DOMAIN d.params}
           \cup ResolveStmts(d.body, BindParams(PushValueScope(sc), d.params))
      [] d.k \in {"Receive", "Fallback"} -> ResolveBlock(d.body, sc)
      [] d.k = "Struct" ->
           Repeated(d.generics) \cup (IF inContract THEN {} ELSE Repeated(d.methods))
           \cup ResolveFns(d.methods, StructScope(d, sc, inContract))
      [] d.k = "Enum" /\ ~inContract -> Repeated(d.generics) \cup ResolveFns(d.methods, GenericScope(sc, d.generics))
      [] OTHER -> {}

ResolveDecls(ds, sc, inContract) == UNION {ResolveDecl(ds[i], sc, inContract) : i \in DOMAIN ds}
ResolveItem(item, sc) ==
    (IF item.k = "Contract" THEN RedeclaredIn(BaseScope(item, sc), item.members) ELSE {})
    \cup ResolveDecls(DeclsOf(item), DeclsScope(item, sc), item.k = "Contract")

\* The signatures in the order they are filed.
DeclSigs(d, sc, inContract) ==
    CASE d.k = "Function" -> FunctionSig(d, sc)
      [] d.k = "Struct" ->
           LET inner == StructScope(d, sc, inContract)
               found == SelectSeq(d.methods, LAMBDA m : Lookup(inner.values, m.name) # None)
           IN  FunctionSigs(d.methods, inner)
               \o <<[at |-> d.at,
                     sig |-> [k |-> "Struct", generics |-> d.generics,
                              fields |-> [i \in DOMAIN d.fields |->
                                            [name |-> d.fields[i].name, ty |-> LowerType(d.fields[i].ty, inner.types),
                                             optional |-> d.fields[i].default # <<>>]],
                              methods |-> [i \in DOMAIN found |-> [name |-> found[i].name, at |-> Lookup(inner.values, found[i].name).at]]]]>>
      [] d.k = "Enum" /\ ~inContract ->
           FunctionSigs(d.methods, GenericScope(sc, d.generics))
           \o <<[at |-> d.at, sig |-> [k |-> "Enum", generics |-> d.generics]]>>
      [] OTHER -> <<>>

DeclsSigs(ds, sc, inContract) == FlattenSeq([i \in DOMAIN ds |-> DeclSigs(ds[i], sc, inContract)])
ItemSigs(item, sc) == DeclsSigs(DeclsOf(item), DeclsScope(item, sc), item.k = "Contract")

\* sigs: what was filed last under a symbol.
LastFiled(filed) == [a \in {filed[i].at : i \in DOMAIN filed} |-> filed[Max({i \in DOMAIN filed : filed[i].at = a})].sig]
Signatures(unit, sc) == LastFiled(FlattenSeq([i \in DOMAIN unit |-> ItemSigs(unit[i], sc)]))

\* global_types: every declared type by its name alone, the one declared last.
GlobalTypes(unit) ==
    LET members == FlattenSeq([i \in DOMAIN unit |-> IF unit[i].k = "Contract" THEN unit[i].members ELSE <<>>])
        named == SelectSeq(unit \o members, LAMBDA d : SymbolKindOf(d) \in {"Struct", "Enum", "Contract", "TypeAlias", "Interface", "Trait"})
    IN  [n \in {named[i].name : i \in DOMAIN named} |-> named[Max({i \in DOMAIN named : named[i].name = n})]]

\* check_no_duplicate_top_level_names: one name, one item, whatever its kind.
DuplicateTopLevelNames(unit) == Repeated(SelectSeq(unit, LAMBDA d : d.k \notin {"Import", "Using"}))

\* resolve: the names that are not bound or bound twice.
ResolveErrors(unit, sc) ==
    DuplicateTopLevelNames(unit) \cup RedeclaredIn(BuiltinScope, unit) \cup UNION {ResolveItem(unit[i], sc) : i \in DOMAIN unit}
=============================================================================
