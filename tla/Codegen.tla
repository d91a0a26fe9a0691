------------------------------ MODULE Codegen ------------------------------
(***************************************************************************)
(* Code generation (lemma-lang/src/codegen): how a type-checked contract   *)
(* is lowered to WebAssembly.  A function body becomes a sequence of       *)
(* instructions with structured control.  The sequence that the code       *)
(* emits for one checked operation or one storage access, through locals   *)
(* of its own, is one instruction here, and this module says what it       *)
(* computes on words.  Lowering is Deferred where the code returns         *)
(* LangError::Codegen.                                                     *)
(***************************************************************************)
EXTENDS Inference

CONSTANTS Bits32, Bits64,     \* the widths of the two word types
          Selector(_, _)      \* the first bytes of the hash of a name and its parameter types

ASSUME WidthAssumption == Bits32 \in Nat \ {0} /\ Bits64 \in Nat \ {0} /\ Bits32 <= Bits64

Size(vt) == 2 ^ (IF vt = "I64" THEN Bits64 ELSE Bits32)

-----------------------------------------------------------------------------
(* Types.                                                                    *)

IsU128(t) == t.k = "U128"
IsAddress(t) == t.k = "Address"
IsI64(t) == t.k \in {"U64", "I64"}
IsSigned(t) == t.k \in {"I8", "I16", "I32", "I64"}
IsSubWord(t) == t.k \in {"U8", "U16", "I8", "I16"}

WasmValType(t) ==
    CASE t.k \in {"Bool", "U8", "U16", "U32", "I8", "I16", "I32", "IntLiteral", "Address"} -> "I32"
      [] t.k \in {"U64", "I64", "U128"} -> "I64"
      [] OTHER -> None

\* The words an operation on the type works on; a type without words of its own is taken for a 32-bit one.
Words(t) == IF IsU128(t) THEN <<"I64", "I64">> ELSE IF IsI64(t) THEN <<"I64">> ELSE <<"I32">>

StorageByteWidth(t) ==
    CASE t.k = "Bool" -> 1
      [] t.k \in {"U32", "I32"} -> 4
      [] t.k \in {"U64", "I64"} -> 8
      [] t.k = "U128" -> 16
      [] t.k = "Address" -> 20
      [] OTHER -> None

-----------------------------------------------------------------------------
(* Checked arithmetic on words, None for a trap.                             *)

AsSigned(x, n) == IF x >= n \div 2 THEN x - n ELSE x
Negative(x, n) == x >= n \div 2
Quotient(x, y) == LET q == (IF x < 0 THEN -x ELSE x) \div (IF y < 0 THEN -y ELSE y) IN IF (x < 0) = (y < 0) THEN q ELSE -q

CheckedAdd(t, n, a, b) ==
    LET r == (a + b) % n
        overflow == IF IsSigned(t) THEN Negative(a, n) # Negative(r, n) /\ Negative(b, n) # Negative(r, n) ELSE r < a
    IN  IF overflow THEN None ELSE r

CheckedSub(t, n, a, b) ==
    LET r == (a - b) % n
        overflow == IF IsSigned(t) THEN Negative(a, n) # Negative(b, n) /\ Negative(a, n) # Negative(r, n) ELSE a < b
    IN  IF overflow THEN None ELSE r

\* The machine itself traps on a division by zero and on the quotient that is one too large.
DivWords(t, n, a, b) ==
    LET q == Quotient(AsSigned(a, n), AsSigned(b, n))
    IN  CASE b = 0 -> None
          [] b # 0 /\ IsSigned(t) -> IF q = n \div 2 THEN None ELSE q % n
          [] OTHER -> a \div b

CheckedMul(t, n, a, b) == LET r == (a * b) % n IN IF a # 0 /\ DivWords(t, n, r, a) # b THEN None ELSE r

CheckedDiv(t, n, a, b) == IF b = 0 THEN None ELSE DivWords(t, n, a, b)

CheckedRem(t, n, a, b) ==
    LET x == AsSigned(a, n)
        y == AsSigned(b, n)
    IN  CASE b = 0 -> None
          [] b # 0 /\ IsSigned(t) -> (x - y * Quotient(x, y)) % n
          [] OTHER -> a % b

CheckedWord(f, t, a, b) ==
    LET n == Size(Words(t)[1])
    IN  CASE f = "Add" -> CheckedAdd(t, n, a, b)
          [] f = "Sub" -> CheckedSub(t, n, a, b)
          [] f = "Mul" -> CheckedMul(t, n, a, b)
          [] f = "Div" -> CheckedDiv(t, n, a, b)
          [] f = "Rem" -> CheckedRem(t, n, a, b)

\* Mutant: the carry of the low words is lost.
CheckedAddU128WithoutCarry(a, b) ==
    LET n == Size("I64")
        hi == (a[2] + b[2]) % n
    IN  IF hi < a[2] THEN None ELSE <<(a[1] + b[1]) % n, hi>>

\* Two words, low before high: the carry of the low words meets the sum of the high ones.
CheckedAddU128(a, b) ==
    LET n == Size("I64")
        lo == (a[1] + b[1]) % n
        carry == IF lo < a[1] THEN 1 ELSE 0
        hi == (a[2] + b[2]) % n
    IN  IF hi < a[2] \/ (hi + carry) % n < carry THEN None ELSE <<lo, (hi + carry) % n>>

CheckedSubU128(a, b) ==
    LET n == Size("I64")
        borrow == IF a[1] < b[1] THEN 1 ELSE 0
        hi == (a[2] - b[2]) % n
    IN  IF a[2] < b[2] \/ hi < borrow THEN None ELSE <<(a[1] - b[1]) % n, hi - borrow>>

U128Eq(a, b) == a[1] = b[1] /\ a[2] = b[2]
U128Lt(a, b) == a[2] < b[2] \/ (a[2] = b[2] /\ a[1] < b[1])
U128Gt(a, b) == a[2] > b[2] \/ (a[2] = b[2] /\ a[1] > b[1])

\* The order of two words is that of their type.
WordLt(t, a, b) == LET n == Size(Words(t)[1]) IN IF IsSigned(t) THEN AsSigned(a, n) < AsSigned(b, n) ELSE a < b

CompareWords(f, t, a, b) ==
    LET pair == IsU128(t)
        eq == IF pair THEN U128Eq(a, b) ELSE a = b
        lt == IF pair THEN U128Lt(a, b) ELSE WordLt(t, a[1], b[1])
        gt == IF pair THEN U128Gt(a, b) ELSE WordLt(t, b[1], a[1])
    IN  CASE f = "Eq" -> eq [] f = "NotEq" -> ~eq [] f = "Lt" -> lt [] f = "Gt" -> gt [] f = "LtEq" -> ~gt [] f = "GtEq" -> ~lt

-----------------------------------------------------------------------------
(* Pieces of code: what was lowered, or that lowering stopped.               *)

Emitted(code) == [ok |-> TRUE, code |-> code]
Deferred == [ok |-> FALSE, code |-> <<>>]

Both(a, b) == IF a.ok /\ b.ok THEN Emitted(a.code \o b.code) ELSE Deferred
Joined(parts) == FoldLeft(Both, Emitted(<<>>), parts)

Plain(op) == Emitted(<<[op |-> op]>>)
WordConst(vt, n) == Emitted(<<[op |-> "Const", t |-> vt, v |-> n % Size(vt)]>>)
LocalGet(i) == Emitted(<<[op |-> "Get", i |-> i]>>)
LocalSet(i) == Emitted(<<[op |-> "Set", i |-> i]>>)
Typed(op, f, t) == Emitted(<<[op |-> op, f |-> f, ty |-> t]>>)
Jump(op, depth) == Emitted(<<[op |-> op, depth |-> depth]>>)
Nest(op, body) == IF body.ok THEN Emitted(<<[op |-> op, body |-> body.code]>>) ELSE Deferred
IfElse(then, else) ==
    IF then.ok /\ else.ok THEN Emitted(<<[op |-> "If", body |-> then.code, else |-> else.code]>>) ELSE Deferred
TrapIf == IfElse(Plain("Unreachable"), Emitted(<<>>))

-----------------------------------------------------------------------------
(* Expressions.  cg is the lowering context: the locals by name and their    *)
(* word types, the types of the state fields, the open loops and the depth   *)
(* of the blocks.                                                            *)

IsSelfRef(e) == e.k = "Ident" /\ e.name = "self"
Lo(name) == <<name, "lo">>
Hi(name) == <<name, "hi">>
One(name) == <<name, "">>

ResolveExprType(e, cg) ==
    IF e.ty # UnknownTy THEN e.ty
    ELSE IF e.k # "Member" THEN None
    ELSE IF IsSelfRef(e.e) /\ e.name \in DOMAIN cg.fields THEN cg.fields[e.name] ELSE None

\* Only a plain literal is split in two words, and only a plain one is checked against its width.
EmitLiteral(e) ==
    LET wide == IsI64(e.ty)
    IN  CASE e.k = "Int" ->
               IF IsU128(e.ty) THEN Joined(<<WordConst("I64", e.n), WordConst("I64", e.n \div Size("I64"))>>)
               ELSE IF wide THEN (IF e.n >= Size("I64") \div 2 THEN Deferred ELSE WordConst("I64", e.n))
               ELSE IF e.n >= Size("I32") THEN Deferred ELSE WordConst("I32", e.n)
          [] e.k \in {"IntTyped", "Hex"} -> WordConst(IF wide THEN "I64" ELSE "I32", e.n)
          [] e.k \in {"True", "False"} -> WordConst("I32", IF e.k = "True" THEN 1 ELSE 0)
          [] e.k = "UnitLit" ->
               IF e.n * e.unit >= (IF wide THEN Size("I64") \div 2 ELSE Size("I32")) THEN Deferred
               ELSE WordConst(IF wide THEN "I64" ELSE "I32", e.n * e.unit)
          [] OTHER -> Deferred

EmitIdent(name, cg) ==
    IF Lo(name) \in DOMAIN cg.locals THEN Joined(<<LocalGet(cg.locals[Lo(name)]), LocalGet(cg.locals[Hi(name)])>>)
    ELSE IF One(name) \in DOMAIN cg.locals THEN LocalGet(cg.locals[One(name)]) ELSE Deferred

\* The three constant addresses lie at fixed places of the memory.
AddressConstants == [zero |-> 0, burn |-> 1, nativeLem |-> 2]
AddressPredicates == [isZero |-> 0, isBurn |-> 1, isNativeLem |-> 2]

EmitAddressConstant(field) ==
    IF field \in DOMAIN AddressConstants THEN WordConst("I32", AddressConstants[field]) ELSE Deferred

\* What a read leaves on the stack for the bytes of a slot, and what a write stores for the words on it.
LoadU128(v) == <<v % Size("I64"), v \div Size("I64")>>
LoadWord(t, v) == <<v % Size(Words(t)[1])>>
StoredWords(t, ws) == IF IsU128(t) THEN ws[1] + ws[2] * Size("I64") ELSE ws[1]

EmitStorageRead(field, cg) ==
    IF field \notin DOMAIN cg.fields THEN Deferred
    ELSE IF StorageByteWidth(cg.fields[field]) = None THEN Deferred ELSE Typed("StorageRead", field, cg.fields[field])

RECURSIVE EmitExpr(_, _)

\* The type of the operation is that of its left side.
BinaryOp(op, t) ==
    CASE t = None -> Deferred
      [] t # None /\ op \in {"Add", "Sub", "Mul", "Div", "Rem"} ->
           IF IsSubWord(t) \/ (IsU128(t) /\ op \in {"Mul", "Div", "Rem"}) THEN Deferred ELSE Typed("Checked", op, t)
      [] t # None /\ op \in Comparisons \cup {"Eq", "NotEq"} -> Typed("Compare", op, t)
      [] t # None /\ op \in {"And", "Or"} -> Plain(op)
      [] OTHER -> Deferred

EmitBinary(e, cg) == Joined(<<EmitExpr(e.l, cg), EmitExpr(e.r, cg), BinaryOp(e.op, ResolveExprType(e.l, cg))>>)

\* The zero of a negation is one word, and the type is that of the negation itself.
EmitUnary(e, cg) ==
    CASE e.op = "Not" -> Joined(<<EmitExpr(e.e, cg), Plain("Eqz")>>)
      [] e.op = "Neg" /\ ~IsSubWord(e.ty) ->
           Joined(<<WordConst(IF IsI64(e.ty) THEN "I64" ELSE "I32", 0), EmitExpr(e.e, cg), Typed("Checked", "Sub", e.ty)>>)
      [] OTHER -> Deferred

\* A call to a contract passes no gas and no value whatever its options say.
EmitCrossContractCall(e, cg) ==
    IF e.args = <<>> \/ IsNamedArg(e.args[1]) THEN Deferred
    ELSE Joined(<<EmitExpr(e.callee.e, cg), EmitExpr(e.args[1], cg), Typed("HostCall", e.callee.name, UnitTy)>>)

EmitCall(e, cg) ==
    LET method == e.callee.name
    IN  CASE e.callee.k = "Member" /\ method \in DOMAIN AddressPredicates ->
               IF e.args # <<>> THEN Deferred
               ELSE Joined(<<EmitExpr(e.callee.e, cg), Typed("IsConstant", AddressPredicates[method], Prim("Address"))>>)
          [] e.callee.k = "Member" /\ method \in AddressCalls -> EmitCrossContractCall(e, cg)
          [] OTHER -> Deferred

EmitExpr(e, cg) ==
    CASE e.k \in Literals -> EmitLiteral(e)
      [] e.k = "Ident" -> EmitIdent(e.name, cg)
      [] e.k = "Binary" -> EmitBinary(e, cg)
      [] e.k = "Unary" -> EmitUnary(e, cg)
      [] e.k = "Member" /\ IsSelfRef(e.e) -> EmitStorageRead(e.name, cg)
      [] e.k = "Member" /\ e.e.k = "Ident" /\ ~IsSelfRef(e.e) -> IF e.e.name = "Address" THEN EmitAddressConstant(e.name) ELSE Deferred
      [] e.k = "Call" -> EmitCall(e, cg)
      [] OTHER -> Deferred

-----------------------------------------------------------------------------
(* Statements.  Lowering one may add locals.                                 *)

Lowered(piece, cg) == [ok |-> piece.ok, code |-> piece.code, cg |-> cg]

\* A new local for the name, whatever local had it before.
NewLocal(name, t, cg) ==
    LET at == Len(cg.types)
    IN  [cg EXCEPT !.types = @ \o Words(t),
                   !.locals = (IF IsU128(t) THEN (Lo(name) :> at) @@ (Hi(name) :> at + 1) ELSE (One(name) :> at)) @@ @]

SetPair(hi, lo) == Joined(<<LocalSet(hi), LocalSet(lo)>>)
StoreLocal(t, at) == IF IsU128(t) THEN SetPair(at + 1, at) ELSE LocalSet(at)

\* The local has the type of the initializer, not the annotated one, and is already in scope there.
EmitBinding(name, e, cg) ==
    LET inner == NewLocal(name, e.ty, cg)
    IN  IF WasmValType(e.ty) = None THEN Lowered(Deferred, cg)
        ELSE Lowered(Joined(<<EmitExpr(e, inner), StoreLocal(e.ty, Len(cg.types))>>), inner)

EmitStorageWrite(field, e, cg) ==
    IF field \notin DOMAIN cg.fields THEN Deferred
    ELSE IF StorageByteWidth(cg.fields[field]) = None THEN Deferred
    ELSE Joined(<<EmitExpr(e, cg), Typed("StorageWrite", field, cg.fields[field])>>)

\* The operation of a compound assignment, on the local and the value.
EmitCompound(s, pair, cg) ==
    LET t == IF pair THEN Prim("U128") ELSE s.l.ty
    IN  IF IsSubWord(t) \/ (pair /\ s.op \notin {"Add", "Sub"}) THEN <<Deferred>>
        ELSE <<EmitIdent(s.l.name, cg), EmitExpr(s.r, cg), Typed("Checked", s.op, t)>>

AssignLocal(s, cg) ==
    LET pair == Lo(s.l.name) \in DOMAIN cg.locals
        value == IF s.op = "Assign" THEN <<EmitExpr(s.r, cg)>> ELSE EmitCompound(s, pair, cg)
        set == IF pair THEN SetPair(cg.locals[Hi(s.l.name)], cg.locals[Lo(s.l.name)])
               ELSE IF One(s.l.name) \in DOMAIN cg.locals THEN LocalSet(cg.locals[One(s.l.name)]) ELSE Deferred
    IN  Joined(Append(value, set))

EmitAssign(s, cg) ==
    CASE s.l.k = "Ident" -> AssignLocal(s, cg)
      [] s.l.k = "Member" -> IF IsSelfRef(s.l.e) /\ s.op = "Assign" THEN EmitStorageWrite(s.l.name, s.r, cg) ELSE Deferred
      [] OTHER -> Deferred

RECURSIVE EmitStmt(_, _), EmitBlock(_, _)

Deeper(cg, by) == [cg EXCEPT !.depth = @ + by]
\* What the statements of a block declared stays declared after it.
AfterBlock(cg, inner) == [cg EXCEPT !.locals = inner.locals, !.types = inner.types]

IfLowered(cond, then, else, cg) == Lowered(Joined(<<cond, IfElse(then, else)>>), AfterBlock(cg, else.cg))
EmitElse(s, then, cg) == IfLowered(EmitExpr(s.cond, cg), then, EmitBlock(s.else_, then.cg), cg)
EmitIf(s, cg) == EmitElse(s, EmitBlock(s.then, Deeper(cg, 1)), cg)

\* A block around a loop: leaving it is the break, its head the continue.
LoopLowered(exit, body, cg) == Lowered(Nest("Block", Nest("Loop", Joined(exit \o <<body, Jump("Br", 0)>>))), AfterBlock(cg, body.cg))
EmitLoopIn(s, in, cg) ==
    LoopLowered(IF s.k = "While" THEN <<EmitExpr(s.iter[1], in), Plain("Eqz"), Jump("BrIf", 1)>> ELSE <<>>, EmitBlock(s.body, in), cg)
EmitLoop(s, cg) == EmitLoopIn(s, [Deeper(cg, 2) EXCEPT !.loops = Append(@, [break |-> cg.depth + 1, continue |-> cg.depth + 2])], cg)

EmitJump(target, cg) == IF cg.loops = <<>> THEN Deferred ELSE Jump("Br", cg.depth - Last(cg.loops)[target])

EmitStmt(s, cg) ==
    CASE s.k = "Let" -> IF s.pat.k = "Ident" THEN EmitBinding(s.pat.name, s.e, cg) ELSE Lowered(Deferred, cg)
      [] s.k = "Const" -> EmitBinding(s.name, s.e, cg)
      [] s.k = "Assign" -> Lowered(EmitAssign(s, cg), cg)
      [] s.k = "If" -> EmitIf(s, cg)
      [] s.k \in {"While", "Loop"} -> EmitLoop(s, cg)
      [] s.k = "Break" -> Lowered(EmitJump("break", cg), cg)
      [] s.k = "Continue" -> Lowered(EmitJump("continue", cg), cg)
      [] s.k = "Return" -> Lowered(Joined([i \in DOMAIN s.es |-> EmitExpr(s.es[i], cg)] \o <<Plain("Return")>>), cg)
      [] s.k = "Assert" -> Lowered(Joined(<<EmitExpr(s.es[1], cg), Plain("Eqz"), TrapIf>>), cg)
      [] s.k = "Revert" -> Lowered(Plain("Unreachable"), cg)
      [] s.k = "Expr" -> Lowered(Joined(<<EmitExpr(s.e, cg), Plain("Drop")>>), cg)
      [] OTHER -> Lowered(Deferred, cg)

Follow(first, rest) == Lowered(Both(first, rest), rest.cg)
EmitRest(first, stmts, cg) == IF first.ok THEN Follow(first, EmitBlock(stmts, first.cg)) ELSE Lowered(Deferred, cg)
EmitBlock(stmts, cg) == IF stmts = <<>> THEN Lowered(Emitted(<<>>), cg) ELSE EmitRest(EmitStmt(Head(stmts), cg), Tail(stmts), cg)

\* The place of the first placeholder, 0 if there is none.
PlaceholderAt(stmts) ==
    LET at == {i \in DOMAIN stmts : stmts[i].k = "Placeholder"} IN IF at = {} THEN 0 ELSE Min(at)

RECURSIVE EmitWithModifiers(_, _, _, _)

\* Each modifier is wrapped around what follows it, in the scope of what was lowered before.
EmitPost(post, inner) == Follow(inner, EmitBlock(post, inner.cg))
EmitInner(body, names, mods, post, pre) == Follow(pre, EmitPost(post, EmitWithModifiers(body, names, mods, pre.cg)))
EmitAround(body, names, mods, m, at, cg) ==
    IF m.params # <<>> \/ at = 0 THEN Lowered(Deferred, cg)
    ELSE EmitInner(body, names, mods, SubSeq(m.body, at + 1, Len(m.body)), EmitBlock(SubSeq(m.body, 1, at - 1), cg))

EmitWithModifiers(body, names, mods, cg) ==
    IF names = <<>> THEN EmitBlock(body, cg)
    ELSE EmitAround(body, Tail(names), mods, mods[Head(names)], PlaceholderAt(mods[Head(names)].body), cg)

-----------------------------------------------------------------------------
(* Functions and the module.                                                 *)

MembersOf(c, k) == SelectSeq(c.members, LAMBDA m : m.k = k)

\* The first state field of the unit that has the name, in whichever contract.
StateFields(c, cx) ==
    LET contracts == SelectSeq(cx.unit, LAMBDA d : d.k = "Contract")
        blocks == FlattenSeq([i \in DOMAIN contracts |-> MembersOf(contracts[i], "State")])
        all == FlattenSeq([i \in DOMAIN blocks |-> blocks[i].fields])
        own == FlattenSeq([i \in DOMAIN MembersOf(c, "State") |-> MembersOf(c, "State")[i].fields])
        first(n) == all[Min({i \in DOMAIN all : all[i].name = n})]
    IN  [n \in {f.name : f \in ToSet(own)} |-> LowerType(first(n).ty, <<cx.top>>)]

RECURSIVE ParamLocals(_, _)
ParamLocals(params, cg) == IF params = <<>> THEN cg ELSE ParamLocals(Tail(params), NewLocal(Head(params).name, Head(params).ty, cg))

\* get_fn_resolved_params: the parameters of the signature that is filed under the symbol.
ResolvedParams(f, cx) == IF SymbolSig(f.at, "Function", cx) THEN cx.sigs[f.at].params ELSE <<>>

EmitFunction(f, c, cx) ==
    LET params == ResolvedParams(f, cx)
        mods == MembersOf(c, "Modifier")
        byName == [n \in {m.name : m \in ToSet(mods)} |-> CHOOSE m \in ToSet(mods) : m.name = n]
        empty == [locals |-> NoNames, types |-> <<>>, fields |-> StateFields(c, cx), loops |-> <<>>, depth |-> 0]
    IN  IF \E p \in ToSet(params) : WasmValType(p.ty) = None THEN Lowered(Deferred, empty)
        ELSE EmitWithModifiers(f.body, SelectSeq(f.annotations, LAMBDA a : a \in DOMAIN byName), byName, ParamLocals(params, empty))

FunctionSelector(f, cx) == Selector(f.name, [i \in DOMAIN ResolvedParams(f, cx) |-> ResolvedParams(f, cx)[i].ty.k])

\* emit_module: the public functions, unless two of them have the same selector.
ModuleOf(fns, selectors, bodies, cx) ==
    [ok |-> IsInjective(selectors) /\ \A i \in DOMAIN fns : bodies[i].ok,
     fns |-> [i \in DOMAIN fns |-> [selector |-> selectors[i], name |-> fns[i].name, params |-> ResolvedParams(fns[i], cx),
                                 types |-> bodies[i].cg.types, code |-> bodies[i].code]]]

EmitModule(c, cx) ==
    LET fns == SelectSeq(MembersOf(c, "Function"), LAMBDA f : f.pub)
    IN  ModuleOf(fns, [i \in DOMAIN fns |-> FunctionSelector(fns[i], cx)], [i \in DOMAIN fns |-> EmitFunction(fns[i], c, cx)], cx)
=============================================================================
