----------------------------- MODULE LemMachine -----------------------------
(***************************************************************************)
(* What the type checker and the code generator promise together, over     *)
(* units whose last function is written statement by statement.  A unit    *)
(* has two meanings here: the one of the language, where every value       *)
(* carries its type and an operation on values of the wrong types is       *)
(* stuck, and the one of the emitted module on a stack machine.            *)
(***************************************************************************)
EXTENDS Codegen

CONSTANTS Units,         \* by topic, the units to start from
          Phrases(_),    \* by topic, the statements that may be written
          Slots(_),      \* by topic, the storages to run on
          Values(_),     \* by the kind of a type, the arguments to run with
          MaxStatements, \* by topic, how many of them
          Fuel

VARIABLES unit, topic, typed, module
cvars == <<unit, topic, typed, module>>

-----------------------------------------------------------------------------
(* Values: [k, v] for a number, a bool (0 or 1) or an address, [k, vs] for   *)
(* what has parts.  An untyped literal keeps the kind IntLiteralTy until       *)
(* something with a type takes it.                                           *)

Scalar(k, v) == [k |-> k, v |-> v]
Compound(k, vs) == [k |-> k, vs |-> vs]
Truth(b) == Scalar("Bool", IF b THEN 1 ELSE 0)

\* How an evaluation ends that has no value: Unchecked is a mismatch the checker left to the run.
Trap == Prim("Trap")
Stuck == Prim("Stuck")
UncheckedEnd == Prim("Unchecked")
Halts(v) == v \in {Trap, Stuck, UncheckedEnd}

BitsOf(t) == <<Bits32 - 1, Bits32 - 1, Bits32, Bits64, 2 * Bits64, 4 * Bits64>>[WidthRank(t)]
InRange(n, t) ==
    IF IsUnsignedInt(t) THEN n \in 0..(2 ^ BitsOf(t) - 1) ELSE n \in -(2 ^ (BitsOf(t) - 1))..(2 ^ (BitsOf(t) - 1) - 1)
Number(k, n) == IF k = "IntLiteral" THEN Scalar(k, n) ELSE IF InRange(n, Prim(k)) THEN Scalar(k, n) ELSE Trap

RECURSIVE Fits(_, _), HasUnknown(_)

Fits(v, t) ==
    CASE t.k \in {"Unknown", "TypeParam"} -> TRUE
      [] t.k \notin {"Unknown", "TypeParam"} /\ v.k = "IntLiteral" -> IsInteger(t) \/ t = IntLiteralTy
      [] t.k \in {"Tuple", "Array", "Option"} /\ v.k = t.k ->
           \A i \in DOMAIN v.vs : Fits(v.vs[i], IF t.k = "Tuple" THEN t.args[i] ELSE t.args[1])
      [] t.k = "Named" /\ v.k = "Named" -> v.name = t.name
      [] OTHER -> v.k = t.k

HasUnknown(t) == IsUnknown(t) \/ \E i \in DOMAIN t.args : HasUnknown(t.args[i])

\* A mismatch is the checker's fault unless it knew of an operand of unknown type.
Mismatch(es) == IF \E i \in DOMAIN es : HasUnknown(es[i].ty) THEN UncheckedEnd ELSE Stuck

\* The value of e, taken by something of type t.
Taken(v, t, e) ==
    IF Halts(v) \/ HasUnknown(t) THEN v
    ELSE IF ~Fits(v, t) THEN Mismatch(<<e>>)
    ELSE IF v.k = "IntLiteral" /\ IsInteger(t) THEN Number(t.k, v.v) ELSE v

Integral(v) == v.k = "IntLiteral" \/ IsInteger(Prim(v.k))

\* Two numbers of one kind, a literal being of any.
Agree(l, r) == Integral(l) /\ Integral(r) /\ (l.k = r.k \/ "IntLiteral" \in {l.k, r.k})

Calculate(op, l, r) ==
    LET k == IF l.k = "IntLiteral" THEN r.k ELSE l.k
        q == Quotient(l.v, r.v)
    IN  CASE op = "Add" -> Number(k, l.v + r.v)
          [] op = "Sub" -> Number(k, l.v - r.v)
          [] op = "Mul" -> Number(k, l.v * r.v)
          [] op = "Div" -> IF r.v = 0 THEN Trap ELSE Number(k, q)
          [] op = "Rem" -> IF r.v = 0 THEN Trap ELSE Number(k, l.v - r.v * q)
          [] op = "Lt" -> Truth(l.v < r.v)
          [] op = "Gt" -> Truth(l.v > r.v)
          [] op = "LtEq" -> Truth(l.v <= r.v)
          [] op = "GtEq" -> Truth(l.v >= r.v)

\* Both operands are evaluated, also those of And and Or.
Operate(op, l, r, es) ==
    CASE op \in {"Add", "Sub", "Mul", "Div", "Rem"} \cup Comparisons -> IF Agree(l, r) THEN Calculate(op, l, r) ELSE Mismatch(es)
      [] op \in {"Eq", "NotEq"} ->
           IF Agree(l, r) THEN Truth((l.v = r.v) = (op = "Eq"))
           ELSE IF l.k = r.k THEN Truth((l = r) = (op = "Eq")) ELSE Mismatch(es)
      [] op \in {"And", "Or"} ->
           IF l.k = "Bool" /\ r.k = "Bool" THEN Truth(IF op = "And" THEN l.v * r.v = 1 ELSE l.v + r.v > 0) ELSE Mismatch(es)

-----------------------------------------------------------------------------
(* Running a function of the language.  st is the frames of the environment, *)
(* the innermost last, the storage and how the last statement ended.         *)

Variable(st, name) == Lookup(st.env, name)
Declare(st, name, v) == [st EXCEPT !.env[Len(st.env)] = (name :> v) @@ @]
Update(st, name, v) == [st EXCEPT !.env[Max({i \in DOMAIN st.env : name \in DOMAIN st.env[i]})][name] = v]
EndAt(st, sig) == [st EXCEPT !.sig = sig]

RECURSIVE Eval(_, _), EvalTyped(_, _), EvalCompound(_, _), CallFunction(_, _, _, _), Exec(_, _), ExecAll(_, _)

FirstHalt(vs) == vs[Min({i \in DOMAIN vs : Halts(vs[i])})]
AnyHalt(vs) == \E i \in DOMAIN vs : Halts(vs[i])

ElementAt(base, i, es) ==
    IF base.k # "Array" \/ ~Integral(i) THEN Mismatch(es)
    ELSE IF i.v \in 0..(Len(base.vs) - 1) THEN base.vs[i.v + 1] ELSE Trap

\* The members that are not called, and the methods of the builtin types.
MemberOf(base, e) ==
    CASE base.k = "Named" -> IF e.name \in DOMAIN base.vs THEN base.vs[e.name] ELSE Mismatch(<<e.e>>)
      [] base.k = "Array" /\ e.name = "length" -> Number("U256", Len(base.vs))
      [] OTHER -> Mismatch(<<e.e>>)

MethodOf(base, name, args, es) ==
    CASE base.k = "Array" /\ name = "get" ->
           LET x == ElementAt(base, args[1], es) IN IF x = Trap THEN Compound("Option", <<>>) ELSE IF Halts(x) THEN x ELSE Compound("Option", <<x>>)
      [] base.k = "Option" /\ name = "isSome" -> Truth(base.vs # <<>>)
      [] base.k = "Option" /\ name = "unwrap" -> IF base.vs = <<>> THEN Trap ELSE base.vs[1]
      [] base.k = "Address" /\ name \in DOMAIN AddressPredicates -> Truth(base.v = AddressPredicates[name])
      [] base.k = "Address" /\ name \in AddressCalls -> Compound("Result", <<>>)
      [] OTHER -> Mismatch(es)

EvalMethod(e, base, args) == IF Halts(base) THEN base ELSE MethodOf(base, e.callee.name, args, <<e.callee.e>> \o e.args)

EvalCalled(e, args, st) ==
    IF AnyHalt(args) THEN FirstHalt(args)
    ELSE IF e.callee.k = "Ident" THEN CallFunction(e, st.fns[e.callee.name], args, st)
    ELSE EvalMethod(e, Eval(e.callee.e, st), args)

EvalCall(e, st) == EvalCalled(e, [i \in DOMAIN e.args |-> Eval(IF IsNamedArg(e.args[i]) THEN e.args[i].e ELSE e.args[i], st)], st)

\* The value of a block is that of its last statement, if that is an expression.
Nested(st, names) == [st EXCEPT !.env = Append(@, names)]
LastValue(s, st) == IF s.k = "Expr" /\ st.sig = "next" THEN Eval(s.e, st) ELSE Prim("Unit")
BlockValue(stmts, st) == IF stmts = <<>> THEN Prim("Unit") ELSE LastValue(Last(stmts), ExecAll(Front(stmts), Nested(st, NoNames)))

\* The first arm whose guard holds; a plain name binds the value.
RECURSIVE EvalArms(_, _, _)
ArmNames(arm, v) == IF arm.pattern.k = "Ident" THEN (arm.pattern.name :> v) ELSE NoNames
GuardOf(arm, st) == IF arm.guard = <<>> THEN Truth(TRUE) ELSE Eval(arm.guard[1], st)

EvalGuarded(arms, guard, v, st) ==
    IF Halts(guard) THEN guard
    ELSE IF guard.k # "Bool" THEN UncheckedEnd
    ELSE IF guard.v = 0 THEN EvalArms(Tail(arms), v, st)
    ELSE Eval(Head(arms).body[1], Nested(st, ArmNames(Head(arms), v)))

EvalArms(arms, v, st) == IF arms = <<>> THEN Trap ELSE EvalGuarded(arms, GuardOf(Head(arms), Nested(st, ArmNames(Head(arms), v))), v, st)

EvalParts(e, vs, st) ==
    CASE e.k = "Binary" -> Operate(e.op, vs[1], vs[2], ExprChildren(e))
      [] e.k = "Unary" /\ e.op = "Not" -> IF vs[1].k = "Bool" THEN Truth(vs[1].v = 0) ELSE Mismatch(<<e.e>>)
      [] e.k = "Unary" /\ e.op = "Neg" -> IF Integral(vs[1]) THEN Number(vs[1].k, -vs[1].v) ELSE Mismatch(<<e.e>>)
      [] e.k = "Nullish" ->
           IF vs[1].k # "Option" THEN Mismatch(<<e.l>>) ELSE IF vs[1].vs = <<>> THEN vs[2] ELSE vs[1].vs[1]
      [] e.k = "Cast" -> IF IsUnknown(e.ty) THEN vs[1] ELSE IF Integral(vs[1]) THEN Number(e.ty.k, vs[1].v) ELSE Mismatch(<<e.e>>)
      [] e.k = "Index" -> ElementAt(vs[1], vs[2], <<e.l, e.r>>)
      [] e.k \in {"Tuple", "Array"} -> Compound(e.k, vs)
      [] e.k = "Struct_" ->
           [k |-> "Named", name |-> e.name, vs |-> [f \in ToSet(e.fields) |-> vs[CHOOSE i \in DOMAIN e.fields : e.fields[i] = f]]]

EvalIf(cond, then, else, e) ==
    IF Halts(cond) THEN cond
    ELSE IF cond.k # "Bool" THEN Mismatch(<<e>>)
    ELSE IF cond.v = 1 THEN then ELSE else

EvalAll(es, st) == [i \in DOMAIN es |-> Eval(es[i], st)]
EvalOver(e, vs, st) == IF AnyHalt(vs) THEN FirstHalt(vs) ELSE EvalParts(e, vs, st)
EvalMember(e, base) == IF Halts(base) THEN base ELSE MemberOf(base, e)
EvalMatch(e, v, st) == IF Halts(v) THEN v ELSE EvalArms(e.arms, v, st)

\* A field of the state has whatever type it was declared with; the type of any other compound was inferred.
Eval(e, st) ==
    CASE e.k \in {"Int", "Hex", "UnitLit"} -> Scalar("IntLiteral", IF e.k = "UnitLit" THEN e.n * e.unit ELSE e.n)
      [] e.k = "IntTyped" -> Number(e.suffix, e.n)
      [] e.k \in {"True", "False"} -> Truth(e.k = "True")
      [] e.k = "Member" /\ IsSelfRef(e.e) -> st.store[e.name]
      [] OTHER -> EvalTyped(e, EvalCompound(e, st))

EvalCompound(e, st) ==
    CASE e.k = "Ident" -> Variable(st, e.name)
      [] e.k = "Member" -> EvalMember(e, Eval(e.e, st))
      [] e.k = "Call" -> EvalCall(e, st)
      [] e.k = "Ternary" -> EvalIf(Eval(e.es[1], st), Eval(e.es[2], st), Eval(e.es[3], st), e.es[1])
      [] e.k = "If_" -> EvalIf(Eval(e.cond, st), BlockValue(e.then, st), BlockValue(e.else_, st), e.cond)
      [] e.k = "Match_" -> EvalMatch(e, Eval(e.e, st), st)
      [] OTHER -> EvalOver(e, EvalAll(ExprChildren(e), st), st)

\* Every value has the type that was inferred for its expression.
EvalTyped(e, v) == IF Halts(v) \/ Fits(v, e.ty) THEN v ELSE Mismatch(ExprChildren(e))

\* A function whose body writes no storage: positional arguments by place, the others by name.
PlaceOf(f, arg, i) == IF IsNamedArg(arg) THEN CHOOSE j \in DOMAIN f.sig.params : f.sig.params[j].name = arg.name ELSE i
ValueOfCall(end) == CASE end.sig = "return" -> end.val [] end.sig = "next" -> Prim("Unit") [] OTHER -> Prim(end.sig)

CallWith(f, params, taken, st) ==
    IF AnyHalt(taken) THEN FirstHalt(taken)
    ELSE LET frame == [n \in {params[i].name : i \in DOMAIN taken} |-> taken[CHOOSE i \in DOMAIN taken : params[i].name = n]]
         IN  ValueOfCall(ExecAll(f.body, [st EXCEPT !.env = <<frame, NoNames>>, !.ret = f.sig.ret]))

CallPlaced(e, f, params, args, st) == CallWith(f, params, [i \in DOMAIN args |-> Taken(args[i], params[i].ty, e.args[i])], st)
CallFunction(e, f, args, st) == CallPlaced(e, f, [i \in DOMAIN args |-> f.sig.params[PlaceOf(f, e.args[i], i)]], args, st)

-----------------------------------------------------------------------------
(* Statements.                                                               *)

EndWith(st, v) == [st EXCEPT !.sig = v.k]

RECURSIVE DeclareAll(_, _, _)
DeclareAll(st, names, vs) == IF names = <<>> THEN st ELSE DeclareAll(Declare(st, Head(names), Head(vs)), Tail(names), Tail(vs))

LetTy(s) == CASE s.ty # None -> s.ty [] s.ty = None /\ s.e.ty = IntLiteralTy /\ s.pat.k = "Ident" -> Prim("U256") [] OTHER -> UnknownTy

ExecLet(s, v, st) ==
    CASE Halts(v) -> EndWith(st, v)
      [] ~Halts(v) /\ s.pat.k = "Ident" -> Declare(st, s.pat.name, v)
      [] ~Halts(v) /\ s.pat.k = "Tuple" ->
           IF v.k = "Tuple" THEN DeclareAll(st, [i \in DOMAIN s.pat.ps |-> s.pat.ps[i].name], v.vs) ELSE EndWith(st, Mismatch(<<s.e>>))

\* What is assigned: the value, or what the operator makes of the old one and it.
NewValue(s, old, v) == IF Halts(old) THEN old ELSE IF Halts(v) \/ s.op = "Assign" THEN v ELSE Operate(s.op, old, v, <<s.l, s.r>>)
TakenBy(s, v, st) == IF s.l.k = "Member" THEN Taken(v, st.fields[s.l.name], s.l) ELSE Taken(v, s.l.ty, s.r)
ExecAssign(s, v, st) ==
    IF Halts(v) THEN EndWith(st, v)
    ELSE IF s.l.k = "Member" THEN [st EXCEPT !.store[s.l.name] = v] ELSE Update(st, s.l.name, v)

Scoped(stmts, st) == [ExecAll(stmts, Nested(st, NoNames)) EXCEPT !.env = SubSeq(@, 1, Len(st.env))]

ExecIf(cond, then, else, st, e) ==
    IF Halts(cond) THEN EndWith(st, cond)
    ELSE IF cond.k # "Bool" THEN EndWith(st, Mismatch(<<e>>))
    ELSE Scoped(IF cond.v = 1 THEN then ELSE else, st)

\* A loop is an if around its body that breaks otherwise.
LoopCond(s, st) == IF s.k = "Loop" THEN Truth(TRUE) ELSE Eval(s.iter[1], st)
ExecLoop(s, end) ==
    CASE end.sig = "break" -> EndAt(end, "next")
      [] end.sig \in {"next", "continue"} -> Exec(s, [EndAt(end, "next") EXCEPT !.fuel = @ - 1])
      [] OTHER -> end

ExecAssert(v, st) == IF Halts(v) THEN EndWith(st, v) ELSE IF v.k # "Bool" THEN EndWith(st, UncheckedEnd) ELSE IF v.v = 0 THEN EndWith(st, Trap) ELSE st
ExecExpr(v, st) == IF Halts(v) THEN EndWith(st, v) ELSE st
ExecReturn(v, st) == IF Halts(v) THEN EndWith(st, v) ELSE [st EXCEPT !.sig = "return", !.val = v]

Exec(s, st) ==
    CASE s.k = "Let" -> ExecLet(s, Taken(Eval(s.e, st), LetTy(s), s.e), st)
      [] s.k = "Assign" -> ExecAssign(s, TakenBy(s, NewValue(s, Eval(s.l, st), Eval(s.r, st)), st), st)
      [] s.k = "If" -> ExecIf(Eval(s.cond, st), s.then, s.else_, st, s.cond)
      [] s.k \in {"While", "Loop"} ->
           IF st.fuel = 0 THEN EndAt(st, "diverge") ELSE ExecLoop(s, ExecIf(LoopCond(s, st), s.body, <<Break>>, st, s.iter[1]))
      [] s.k = "Break" -> EndAt(st, "break")
      [] s.k = "Continue" -> EndAt(st, "continue")
      [] s.k = "Assert" -> ExecAssert(Eval(s.es[1], st), st)
      [] s.k = "Revert" -> EndWith(st, Trap)
      [] s.k = "Expr" -> ExecExpr(Eval(s.e, st), st)
      [] s.k = "Return" -> ExecReturn(IF s.es = <<>> THEN Prim("Unit") ELSE Taken(Eval(s.es[1], st), st.ret, s.es[1]), st)

ExecAll(stmts, st) == IF stmts = <<>> \/ st.sig # "next" THEN st ELSE ExecAll(Tail(stmts), Exec(Head(stmts), st))

\* The body of a function inside its modifiers.
RECURSIVE Unfolded(_, _, _)
Unfolded(body, names, mods) ==
    LET m == mods[Head(names)].body
        at == PlaceholderAt(m)
    IN  IF names = <<>> THEN body
        ELSE SubSeq(m, 1, at - 1) \o Unfolded(body, Tail(names), mods) \o SubSeq(m, at + 1, Len(m))

-----------------------------------------------------------------------------
(* The validator of the machine: types and any, whether what lies under them *)
(* is unreachable and so of any type.  None is a rejected stack.             *)

RECURSIVE PopTypes(_, _), ValidAll(_, _, _), Validated(_, _, _)

PopTypes(s, ts) ==
    CASE s = None \/ ts = <<>> -> s
      [] s # None /\ ts # <<>> ->
           IF s.types = <<>> THEN (IF s.any THEN s ELSE None)
           ELSE IF Last(s.types) = Last(ts) THEN PopTypes([s EXCEPT !.types = Front(@)], Front(ts)) ELSE None

PushTypes(s, ts) == IF s = None THEN None ELSE [s EXCEPT !.types = @ \o ts]
NoReturn == [types |-> <<>>, any |-> TRUE]
EmptyStack == [types |-> <<>>, any |-> FALSE]

\* A block takes nothing and leaves nothing.
ValidBlock(code, locals) == LET s == ValidAll(code, EmptyStack, locals) IN s # None /\ s.types = <<>>

Validated(op, s, locals) ==
    CASE op.op = "Const" -> PushTypes(s, <<op.t>>)
      [] op.op = "Get" -> PushTypes(s, <<locals[op.i + 1]>>)
      [] op.op = "Set" -> PopTypes(s, <<locals[op.i + 1]>>)
      [] op.op = "Checked" -> PushTypes(PopTypes(s, Words(op.ty) \o Words(op.ty)), Words(op.ty))
      [] op.op = "Compare" -> PushTypes(PopTypes(s, Words(op.ty) \o Words(op.ty)), <<"I32">>)
      [] op.op \in {"And", "Or", "HostCall"} -> PushTypes(PopTypes(s, <<"I32", "I32">>), <<"I32">>)
      [] op.op \in {"Eqz", "IsConstant"} -> PushTypes(PopTypes(s, <<"I32">>), <<"I32">>)
      [] op.op = "StorageRead" -> PushTypes(s, Words(op.ty))
      [] op.op = "StorageWrite" -> PopTypes(s, Words(op.ty))
      [] op.op = "Drop" -> IF s.types = <<>> THEN (IF s.any THEN s ELSE None) ELSE [s EXCEPT !.types = Front(@)]
      [] op.op \in {"Unreachable", "Return", "Br"} -> NoReturn
      [] op.op = "BrIf" -> PopTypes(s, <<"I32">>)
      [] op.op = "If" -> IF ValidBlock(op.body, locals) /\ ValidBlock(op.else, locals) THEN PopTypes(s, <<"I32">>) ELSE None
      [] op.op \in {"Block", "Loop"} -> IF ValidBlock(op.body, locals) THEN s ELSE None

ValidAll(code, s, locals) == IF code = <<>> \/ s = None THEN s ELSE ValidAll(Tail(code), Validated(Head(code), s, locals), locals)

ValidModule(m) == \A i \in DOMAIN m.fns : ValidBlock(m.fns[i].code, m.fns[i].types)

-----------------------------------------------------------------------------
(* The machine: m has the stack of words, the locals, the storage, where a   *)
(* slot is [width, v], and the memory, of which only the addresses matter.   *)

Push(m, ws) == [m EXCEPT !.stack = @ \o ws]
Pop(m, n) == [m EXCEPT !.stack = SubSeq(@, 1, Len(@) - n)]
Top(m, n) == SubSeq(m.stack, Len(m.stack) - n + 1, Len(m.stack))
Bit(b) == IF b THEN 1 ELSE 0
Failed(m) == [m EXCEPT !.status = "Trap"]

\* An address in memory: its pointer is its place.
Alloc(m, address) == [m EXCEPT !.mem = Append(@, address)]
Pointer(m) == Len(m.mem) - 1

RunChecked(op, m) ==
    LET n == Len(Words(op.ty))
        b == Top(m, n)
        a == Top(Pop(m, n), n)
        rest == Pop(m, 2 * n)
        r == CASE n = 1 -> CheckedWord(op.f, op.ty, a[1], b[1])
               [] n = 2 /\ op.f = "Add" -> CheckedAddU128(a, b)
               [] n = 2 /\ op.f = "Sub" -> CheckedSubU128(a, b)
    IN  IF r = None THEN Failed(m) ELSE Push(rest, IF n = 1 THEN <<r>> ELSE r)

RunCompare(op, m) ==
    LET n == Len(Words(op.ty))
    IN  Push(Pop(m, 2 * n), <<Bit(CompareWords(op.f, op.ty, Top(Pop(m, n), n), Top(m, n)))>>)

\* A slot that was never written is zero; one of another width is a trap.
RunStorageRead(op, m) ==
    LET slot == m.store[op.f]
        zero == IF IsU128(op.ty) THEN <<0, 0>> ELSE <<0>>
    IN  IF op.f \notin DOMAIN m.store THEN Push(m, zero)
        ELSE IF slot.width # StorageByteWidth(op.ty) THEN Failed(m)
        ELSE IF IsU128(op.ty) THEN Push(m, LoadU128(slot.v))
        ELSE IF IsAddress(op.ty) THEN LET n == Alloc(m, slot.v) IN Push(n, <<Pointer(n)>>)
        ELSE Push(m, LoadWord(op.ty, slot.v))

RunStorageWrite(op, m) ==
    LET ws == Top(m, Len(Words(op.ty)))
        v == IF IsAddress(op.ty) THEN m.mem[ws[1] + 1] ELSE StoredWords(op.ty, ws)
    IN  [Pop(m, Len(ws)) EXCEPT !.store = (op.f :> [width |-> StorageByteWidth(op.ty), v |-> v]) @@ @]

RECURSIVE RunOp(_, _), RunAll(_, _)

\* The end of a block: a branch to it goes on behind it with the stack it began with.
Left(m, before) ==
    IF m.status # "br" THEN m
    ELSE IF m.to = 0 THEN [m EXCEPT !.status = "next", !.stack = before.stack] ELSE [m EXCEPT !.to = @ - 1]

RunLoopOp(op, m) ==
    LET body == RunAll(op.body, m)
    IN  CASE m.fuel = 0 -> [m EXCEPT !.status = "diverge"]
          [] m.fuel > 0 /\ body.status = "br" /\ body.to = 0 ->
               RunOp(op, [body EXCEPT !.status = "next", !.stack = m.stack, !.fuel = @ - 1])
          [] OTHER -> Left(body, m)

RunOp(op, m) ==
    CASE op.op = "Const" -> Push(m, <<op.v>>)
      [] op.op = "Get" -> Push(m, <<m.locals[op.i + 1]>>)
      [] op.op = "Set" -> [Pop(m, 1) EXCEPT !.locals[op.i + 1] = Last(m.stack)]
      [] op.op = "Checked" -> RunChecked(op, m)
      [] op.op = "Compare" -> RunCompare(op, m)
      [] op.op = "And" -> Push(Pop(m, 2), <<Bit(Top(m, 2) = <<1, 1>>)>>)
      [] op.op = "Or" -> Push(Pop(m, 2), <<Bit(Top(m, 2) # <<0, 0>>)>>)
      [] op.op = "HostCall" -> Push(Pop(m, 2), <<0>>)
      [] op.op = "Eqz" -> Push(Pop(m, 1), <<Bit(Last(m.stack) = 0)>>)
      [] op.op = "IsConstant" -> Push(Pop(m, 1), <<Bit(m.mem[Last(m.stack) + 1] = op.f)>>)
      [] op.op = "StorageRead" -> RunStorageRead(op, m)
      [] op.op = "StorageWrite" -> RunStorageWrite(op, m)
      [] op.op = "Drop" -> Pop(m, 1)
      [] op.op = "Unreachable" -> Failed(m)
      [] op.op = "Return" -> [m EXCEPT !.status = "return"]
      [] op.op = "Br" -> [m EXCEPT !.status = "br", !.to = op.depth]
      [] op.op = "BrIf" -> IF Last(m.stack) = 0 THEN Pop(m, 1) ELSE [Pop(m, 1) EXCEPT !.status = "br", !.to = op.depth]
      [] op.op = "If" -> LET n == Pop(m, 1) IN Left(RunAll(IF Last(m.stack) # 0 THEN op.body ELSE op.else, n), n)
      [] op.op = "Block" -> Left(RunAll(op.body, m), m)
      [] op.op = "Loop" -> RunLoopOp(op, m)

RunAll(code, m) == IF code = <<>> \/ m.status # "next" THEN m ELSE RunAll(Tail(code), RunOp(Head(code), m))

\* The words of an argument; an address is copied into memory of its own.
RECURSIVE Decoded(_, _, _)
Decoded(m, params, args) ==
    LET t == Head(params).ty
        v == Head(args)
        copied == Alloc(m, v)
    IN  CASE params = <<>> -> m
          [] params # <<>> /\ IsU128(t) -> Decoded(Push(m, LoadU128(v)), Tail(params), Tail(args))
          [] params # <<>> /\ IsAddress(t) -> Decoded(Push(copied, <<Pointer(copied)>>), Tail(params), Tail(args))
          [] OTHER -> Decoded(Push(m, <<v>>), Tail(params), Tail(args))

\* The entry point: the selector picks the function, one that matches none is a trap unless there are no functions.
Dispatch(mod, selector, args, store) ==
    LET boot == [status |-> "next", to |-> 0, stack |-> <<>>, locals |-> <<>>, store |-> store, mem |-> <<0, 1, 2>>, fuel |-> Fuel]
        matching == {i \in DOMAIN mod.fns : mod.fns[i].selector = selector}
        f == mod.fns[Min(matching)]
        called == Decoded(boot, f.params, args)
        frame == [i \in DOMAIN f.types |-> IF i <= Len(called.stack) THEN called.stack[i] ELSE 0]
    IN  IF mod.fns = <<>> THEN boot
        ELSE IF matching = {} THEN Failed(boot) ELSE RunAll(f.code, [called EXCEPT !.stack = <<>>, !.locals = frame])

-----------------------------------------------------------------------------
(* Writing a unit.                                                           *)

TheContract(u) == Last(u)
Written(u) == Last(TheContract(u).members)
WithStatement(u, s) == [u EXCEPT ![Len(u)].members[Len(TheContract(u).members)].body = Append(@, s)]

Compile(t) == EmitModule(TheContract(t.ast), t.cx)

CompileInit ==
    /\ topic \in DOMAIN Units
    /\ typed \in {t \in {TypedAst(u) : u \in Units[topic]} : TypeChecks(t)}
    /\ unit = typed.cx.unit
    /\ module = Compile(typed)

\* The unit stays one that the type checker accepts.
Write ==
    /\ Len(Written(unit).body) < MaxStatements[topic]
    /\ typed' \in {t \in {TypedAst(WithStatement(unit, s)) : s \in Phrases(topic)} : TypeChecks(t)}
    /\ unit' = typed'.cx.unit
    /\ module' = Compile(typed')
    /\ topic' = topic

-----------------------------------------------------------------------------
(* The runs of a unit.                                                       *)

Fields == LET blocks == MembersOf(TheContract(unit), "State") IN FlattenSeq([i \in DOMAIN blocks |-> blocks[i].fields])
FieldTypes == [n \in {f.name : f \in ToSet(Fields)} |-> (CHOOSE f \in ToSet(Fields) : f.name = n).ty]
Fns == MembersOf(TheContract(typed.ast), "Function")
EntryPoints == IF unit = None THEN {} ELSE {f \in ToSet(Fns) : f.pub}
Modifiers == LET ms == MembersOf(TheContract(typed.ast), "Modifier") IN [n \in {m.name : m \in ToSet(ms)} |-> CHOOSE m \in ToSet(ms) : m.name = n]
Sigs == typed.cx.sigs
Callables == LET fs == ToSet(Fns) \cup {d \in ToSet(typed.ast) : d.k = "Function"}
             IN  [n \in {f.name : f \in fs} |-> LET f == CHOOSE f \in fs : f.name = n IN [body |-> f.body, sig |-> Sigs[f.at]]]

Arguments(params) == {args \in [DOMAIN params -> UNION {Values(p.ty.k) : p \in ToSet(params)}] : \A i \in DOMAIN params : args[i] \in Values(params[i].ty.k)}
ZeroOf(t) == IF t.k \in {"Bool", "Address"} THEN Scalar(t.k, 0) ELSE IF IsInteger(t) THEN Scalar(t.k, 0) ELSE Compound(t.k, <<>>)

\* A number as the bits of its width, and back.
BitsIn(v) == IF v.k \in {"Bool", "Address"} THEN v.v ELSE v.v % 2 ^ BitsOf(Prim(v.k))

\* A run of the language: the storage holds what the slots hold, the parameters what the arguments are.
Interpreted(f, args, slots) ==
    LET params == Sigs[f.at].params
        frame == [n \in {p.name : p \in ToSet(params)} |-> LET i == CHOOSE i \in DOMAIN params : params[i].name = n IN Scalar(params[i].ty.k, args[i])]
        store == [n \in DOMAIN FieldTypes |-> IF n \in DOMAIN slots THEN Scalar(FieldTypes[n].k, slots[n]) ELSE ZeroOf(FieldTypes[n])]
        mods == SelectSeq(f.annotations, LAMBDA a : a \in DOMAIN Modifiers)
    IN  ExecAll(Unfolded(f.body, mods, Modifiers),
                [env |-> <<frame, NoNames>>, store |-> store, sig |-> "next", val |-> None, ret |-> Sigs[f.at].ret, fuel |-> Fuel,
                 fns |-> Callables, fields |-> FieldTypes])

Encoded(f, args) == [i \in DOMAIN args |-> BitsIn(Scalar(Sigs[f.at].params[i].ty.k, args[i]))]
SlotOf(n, v) == [width |-> StorageByteWidth(FieldTypes[n]), v |-> BitsIn(v)]
Executed(f, args, slots) ==
    Dispatch(module, FunctionSelector(f, typed.cx), Encoded(f, args), [n \in DOMAIN slots |-> SlotOf(n, Scalar(FieldTypes[n].k, slots[n]))])

-----------------------------------------------------------------------------
(* The expressions of a function and its modifiers.                          *)

CodeOf(f) == Unfolded(f.body, SelectSeq(f.annotations, LAMBDA a : a \in DOMAIN Modifiers), Modifiers)
Lets(f) == SelectSeq(VisitAll(CodeOf(f)), LAMBDA n : n.k = "Let")
Exprs(f) == {n \in Visited(CodeOf(f)) : n.k \notin Statements}

\* Where the emitted code is known to differ from the language: a name that is bound twice, an operation whose left
\* side is an untyped literal, the negation of one or of a field, a literal beyond the sign bit, a type of four words,
\* addresses compared by their place, a return that a modifier has code behind, and a field whose name another
\* contract of the unit gives another type.
Settled(f) ==
    LET names == [i \in DOMAIN Lets(f) |-> Lets(f)[i].pat.name] \o [i \in DOMAIN Sigs[f.at].params |-> Sigs[f.at].params[i].name]
        behind == \E a \in ToSet(f.annotations) \cap DOMAIN Modifiers : Last(Modifiers[a].body).k # "Placeholder"
        left(e) == ResolveExprType(e.l, [fields |-> FieldTypes])
    IN  /\ IsInjective(names)
        /\ FieldTypes = StateFields(TheContract(unit), typed.cx)
        /\ \A e \in Exprs(f) :
              /\ e.k # "NamedArg" => e.ty.k # "U256"
              /\ e.k = "Int" => e.n < 2 ^ (Bits32 - 1)
              /\ e.k = "Binary" => left(e) # None /\ left(e) # IntLiteralTy /\ (e.op \in {"Eq", "NotEq"} => left(e).k # "Address")
              /\ e.k = "Unary" /\ e.op = "Neg" => e.ty \notin {UnknownTy, IntLiteralTy}
        /\ behind => \A n \in Visited(CodeOf(f)) : n.k # "Return"

-----------------------------------------------------------------------------

\* The type checker keeps its word (infer.rs, resolver.rs): however an accepted unit is run, no operation meets a value
\* of the wrong type and every expression has a value of the type inferred for it, unless the checker itself gave an
\* operand the type Unknown (a state field, above all) and so left the check to the run.
TypesSound ==
    \A f \in EntryPoints : \A args \in Arguments(Sigs[f.at].params) : \A slots \in Slots(topic) :
       Interpreted(f, args, slots).sig # "Stuck"

\* A module that was emitted and that the machine accepts does what the source says (codegen/wasm/lower): on every
\* argument and storage the entry point traps exactly when the function reverts, overflows or divides by zero, and
\* otherwise leaves the same value in every field.  The hypothesis names where this is known to fail.
CompiledFaithful ==
    \A f \in EntryPoints : module.ok /\ ValidModule(module) /\ Settled(f) =>
      \A args \in Arguments(Sigs[f.at].params) : \A slots \in Slots(topic) :
         LET said == Interpreted(f, args, slots)
             done == Executed(f, args, slots)
             slot(n) == IF n \in DOMAIN done.store THEN done.store[n] ELSE SlotOf(n, ZeroOf(FieldTypes[n]))
         IN  CASE said.sig = "Trap" -> done.status = "Trap"
               [] said.sig \in {"next", "return"} ->
                    done.status \in {"next", "return"} /\ \A n \in DOMAIN FieldTypes : slot(n) = SlotOf(n, said.store[n])
               [] OTHER -> TRUE
=============================================================================
