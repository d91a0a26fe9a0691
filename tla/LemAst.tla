------------------------------- MODULE LemAst -------------------------------
(***************************************************************************)
(* The syntax tree of a Lem program and its traversal                      *)
(* (lemma-lang/src/parser/ast, visit.rs, type_checker/typed_contract.rs).  *)
(* A node is a record whose field k is its kind.  Optional parts are       *)
(* sequences of at most one node, `span` stands for the place of a call.   *)
(***************************************************************************)
EXTENDS Options, Integers, FiniteSets, Sequences, SequencesExt

BoolLit(b) == IF b THEN [k |-> "True"] ELSE [k |-> "False"]
IntLit(n) == [k |-> "Int", n |-> n]
StrLit(s) == [k |-> "Str", s |-> s]
Ident(name) == [k |-> "Ident", name |-> name]
Member(base, name) == [k |-> "Member", e |-> base, name |-> name]
Index(base, idx) == [k |-> "Index", l |-> base, r |-> idx]
Unary(op, e) == [k |-> "Unary", op |-> op, e |-> e]
Binary(op, l, r) == [k |-> "Binary", op |-> op, l |-> l, r |-> r]
Ternary(cond, then, else) == [k |-> "Ternary", es |-> <<cond, then, else>>]
Call(callee, args, span) == [k |-> "Call", callee |-> callee, opts |-> <<>>, args |-> args, span |-> span]
New(args, span) == [k |-> "New", opts |-> <<>>, args |-> args, span |-> span]
AssignE(target, op, value) == [k |-> "AssignE", l |-> target, op |-> op, r |-> value]

IfE(cond, then, else) == [k |-> "If_", cond |-> cond, then |-> then, else_ |-> else]

Let(e) == [k |-> "Let", e |-> e]
Assign(target, op, value) == [k |-> "Assign", l |-> target, op |-> op, r |-> value]
If(cond, then, else) == [k |-> "If", cond |-> cond, then |-> then, else_ |-> else]
While(cond, body) == [k |-> "While", iter |-> <<cond>>, body |-> body]
For(iter, body) == [k |-> "For", iter |-> iter, body |-> body]
Loop(body) == [k |-> "Loop", iter |-> <<>>, body |-> body]
Match(e, arms) == [k |-> "Match", e |-> e, arms |-> arms]
Arm(pattern, guard, body) == [pattern |-> pattern, guard |-> guard, body |-> body, is_block |-> TRUE]
ExprArm(pattern, e) == [pattern |-> pattern, guard |-> <<>>, body |-> <<e>>, is_block |-> FALSE]
TryCatch(body, catch_body) == [k |-> "Try", body |-> body, catch_body |-> catch_body]
Unchecked(body) == [k |-> "Unchecked", body |-> body]
AssertThat(cond) == [k |-> "Assert", es |-> <<cond>>]
Revert == [k |-> "Revert", es |-> <<>>]
Return(es) == [k |-> "Return", es |-> es]
Emit(event, fields) == [k |-> "Emit", event |-> event, fields |-> fields, es |-> [i \in DOMAIN fields |-> fields[i].e]]
Break == [k |-> "Break"]
Continue == [k |-> "Continue"]
Placeholder == [k |-> "Placeholder"]
ExprStmt(e) == [k |-> "Expr", e |-> e]

Loops == {"While", "For", "Loop"}
Assigns == {"Assign", "AssignE"}

\* walk_stmt: what is visited below a statement, in order.
StmtChildren(s) ==
    CASE s.k \in {"Let", "Const", "Expr"} -> <<s.e>>
      [] s.k = "Assign" -> <<s.l, s.r>>
      [] s.k \in {"Return", "Emit", "Assert", "Revert"} -> s.es
      [] s.k = "If" -> <<s.cond>> \o s.then \o s.else_
      [] s.k \in Loops -> s.iter \o s.body
      [] s.k = "Match" -> <<s.e>> \o FlattenSeq([i \in DOMAIN s.arms |-> s.arms[i].guard \o s.arms[i].body])
      [] s.k = "Try" -> s.body \o s.catch_body
      [] s.k = "Unchecked" -> s.body
      [] OTHER -> <<>>

\* walk_expr: the same for an expression; the body of a lambda is not visited.
ExprChildren(e) ==
    CASE e.k = "Call" -> <<e.callee>> \o e.opts \o e.args
      [] e.k = "New" -> e.opts \o e.args
      [] e.k \in {"AssignE", "Index", "Binary", "Nullish"} -> <<e.l, e.r>>
      [] e.k \in {"Member", "Unary", "Try_", "Cast"} -> <<e.e>>
      [] e.k \in {"Ternary", "Tuple", "Array", "Struct_", "Template"} -> e.es
      [] e.k = "If_" -> <<e.cond>> \o e.then \o e.else_
      [] e.k = "Match_" -> <<e.e>> \o FlattenSeq([i \in DOMAIN e.arms |-> e.arms[i].guard \o e.arms[i].body])
      [] OTHER -> <<>>

Statements == {"Let", "Const", "Expr", "Assign", "Return", "Emit", "Assert", "Revert", "If", "Match", "Try",
               "Unchecked", "Break", "Continue", "Placeholder"} \cup Loops

Children(n) == IF n.k \in Statements THEN StmtChildren(n) ELSE ExprChildren(n)

RECURSIVE Visit(_)

\* The nodes below and at n, in the order of the Visitor.
Visit(n) == LET below == Children(n) IN <<n>> \o FlattenSeq([i \in DOMAIN below |-> Visit(below[i])])

VisitAll(nodes) == FlattenSeq([i \in DOMAIN nodes |-> Visit(nodes[i])])
Visited(nodes) == ToSet(VisitAll(nodes))

IsSelf(e) == e = Ident("self")
SelfField(name) == Member(Ident("self"), name)

\* self.<field>, and its name.
IsSelfField(e) == e.k = "Member" /\ IsSelf(e.e)
FieldOf(e) == IF IsSelfField(e) THEN e.name ELSE None

\* The name of a called function or method.
CallName(callee) == IF callee.k \in {"Ident", "Member"} THEN callee.name ELSE None

-----------------------------------------------------------------------------
(* A contract: functions [name, annotations, params, body], where an         *)
(* annotation is [name, arg] and an argument a literal, or None.             *)

FunctionNamed(c, name) == c.functions[CHOOSE i \in DOMAIN c.functions : c.functions[i].name = name]
Functions(c) == ToSet(c.functions)
FunctionNames(c) == {f.name : f \in Functions(c)}
Annotated(f, name) == \E a \in f.annotations : a.name = name

\* A configuration is a function from keys to literals.
Configured(c, key, kinds) == key \in DOMAIN c.config /\ c.config[key].k \in kinds

\* auth_set
RequiresGovernance(f) == \E a \in f.annotations : a.name = "onlyRole" /\ a.arg = StrLit("GOVERNANCE")
RequiresOwnerOnly(f) == Annotated(f, "onlyOwner")
IsAccessUnrestricted(f) ==
    ~Annotated(f, "onlyOwner") /\ ~\E a \in f.annotations : a.name = "onlyRole" /\ a.arg # None /\ a.arg.k = "Str"

\* is_transfer_path_entry
IsTransferPathEntry(f) == f.name \in {"transfer", "transferFrom"} \/ Annotated(f, "onTransfer")

BlockContainsRevert(stmts) == \E i \in DOMAIN stmts : stmts[i].k = "Revert"

-----------------------------------------------------------------------------
(* What the analyzer reads off a function before any rule looks at it        *)
(* (analyzer/cfg.rs, dataflow.rs): its writes and calls in the order of the  *)
(* text, the call graph and what is reachable in it.                         *)

IsCollectionMutator(method) ==
    method \in {"set", "delete", "add", "remove", "push", "pop", "insert", "removeAt", "clear", "sort", "sortBy",
                "reverse"}

\* state_write_key: self.f, or self.f[..].
StateWriteKey(target) == IF target.k = "Index" THEN FieldOf(target.l) ELSE FieldOf(target)

StateWrite(key) == [k |-> "StateWrite", key |-> key]
ExternalCall(span) == [k |-> "ExternalCall", span |-> span]
InternalCall(callee) == [k |-> "InternalCall", callee |-> callee]

\* A call of self.m or m is internal, a mutator of a state field is a write, any other method is external.
CallNode(e) ==
    LET mutator == e.callee.k = "Member" /\ IsCollectionMutator(e.callee.name) /\ IsSelfField(e.callee.e)
    IN  CASE mutator -> <<StateWrite(FieldOf(e.callee.e))>>
          [] e.callee.k = "Member" /\ ~IsSelf(e.callee.e) /\ ~mutator -> <<ExternalCall(e.span)>>
          [] e.callee.k = "Ident" \/ IsSelfField(e.callee) -> <<InternalCall(e.callee.name)>>
          [] OTHER -> <<>>

\* What FnWalk records when it visits n: a write before its value is visited.
NodeOf(n) ==
    CASE n.k \in Assigns -> IF StateWriteKey(n.l) = None THEN <<>> ELSE <<StateWrite(StateWriteKey(n.l))>>
      [] n.k = "Call" -> CallNode(n)
      [] n.k = "New" -> <<ExternalCall(n.span)>>
      [] OTHER -> <<>>

\* walk_function
CfgNodes(stmts) == LET seen == VisitAll(stmts) IN FlattenSeq([i \in DOMAIN seen |-> NodeOf(seen[i])])
NodesOf(stmts, kind) == {n \in ToSet(CfgNodes(stmts)) : n.k = kind}

ExtCalls(stmts) == {n.span : n \in NodesOf(stmts, "ExternalCall")}
InternalCalls(stmts) == {n.callee : n \in NodesOf(stmts, "InternalCall")}

BuildCallGraph(c) == [f \in FunctionNames(c) |-> InternalCalls(FunctionNamed(c, f).body)]

RECURSIVE CallersOf(_, _), CalleesOf(_, _)

\* transitive_callers: the functions that reach one of the seed.
CallersOf(seed, graph) ==
    LET more == seed \cup {f \in DOMAIN graph : graph[f] \cap seed # {}}
    IN  IF more = seed THEN seed ELSE CallersOf(more, graph)

\* transitive_callees: the functions that the seed reaches.
CalleesOf(seed, graph) ==
    LET more == seed \cup UNION {graph[f] : f \in seed \cap DOMAIN graph}
    IN  IF more = seed THEN seed ELSE CalleesOf(more, graph)

DirectStateWrites(f) == {n.key : n \in NodesOf(f.body, "StateWrite")}

\* transitive_writes: the state fields a function may write, its callees included.
TransitiveWrites(c) ==
    LET graph == BuildCallGraph(c)
    IN  [f \in FunctionNames(c) |->
           UNION {DirectStateWrites(FunctionNamed(c, g)) : g \in CalleesOf({f}, graph) \cap FunctionNames(c)}]

\* state_write_reachability, for one field.
WritersOf(c, field) == LET writes == TransitiveWrites(c) IN {f \in DOMAIN writes : field \in writes[f]}

-----------------------------------------------------------------------------
(* Restriction fields: what is read to deny a transfer.                      *)

RECURSIVE SelfFieldReads(_)

\* collect_self_field_reads
SelfFieldReads(e) ==
    CASE IsSelfField(e) -> {e.name}
      [] e.k \in {"Member", "Unary", "Try_", "Cast"} /\ ~IsSelfField(e) -> SelfFieldReads(e.e)
      [] e.k \in {"Index", "Binary", "Nullish"} -> SelfFieldReads(e.l) \cup SelfFieldReads(e.r)
      [] e.k = "Ternary" -> UNION {SelfFieldReads(e.es[i]) : i \in DOMAIN e.es}
      [] e.k = "Call" -> SelfFieldReads(e.callee) \cup UNION {SelfFieldReads(e.args[i]) : i \in DOMAIN e.args}
      [] OTHER -> {}

\* The conditions that deny when they have the value `on`.
Denials(stmts) ==
    LET seen == Visited(stmts)
    IN  {[cond |-> n.es[1], on |-> FALSE] : n \in {n \in seen : n.k = "Assert"}}
        \cup {[cond |-> n.cond, on |-> TRUE] : n \in {n \in seen : n.k = "If" /\ BlockContainsRevert(n.then)}}
        \cup {[cond |-> n.cond, on |-> FALSE] : n \in {n \in seen : n.k = "If" /\ BlockContainsRevert(n.else_)}}

\* restriction_fields
RestrictionFields(c) ==
    UNION {SelfFieldReads(d.cond) : d \in UNION {Denials(f.body) : f \in {f \in Functions(c) : IsTransferPathEntry(f)}}}
=============================================================================
