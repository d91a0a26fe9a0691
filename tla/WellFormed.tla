----------------------------- MODULE WellFormed -----------------------------
(***************************************************************************)
(* The well-formedness rules of the type checker                           *)
(* (lemma-lang/src/type_checker/wellformed/mod.rs), run on a typed tree.   *)
(* Each rule is the set of what it objects to.  Besides its functions a    *)
(* contract has fields (name -> type) of which `defaults` have an          *)
(* initializer, immutables, constants (name -> expression), events         *)
(* (name -> field -> type), the interfaces it implements, the traits it    *)
(* uses, and the program's type declarations (`sigs`).                     *)
(***************************************************************************)
EXTENDS TokenRules

RECURSIVE BodiesInExpr(_), BodiesInStmt(_)

\* walk_expr_for_stmts: the statement lists inside an expression, at any depth.
BodiesInExpr(e) ==
    LET inside(b) == {b} \cup UNION {BodiesInStmt(b[i]) : i \in DOMAIN b}
        armed(a) == UNION {BodiesInExpr(g) : g \in ToSet(a.guard)}
                      \cup IF a.is_block THEN inside(a.body) ELSE BodiesInExpr(a.body[1])
    IN  CASE e.k = "If_" -> BodiesInExpr(e.cond) \cup inside(e.then) \cup inside(e.else_)
          [] e.k = "Match_" -> BodiesInExpr(e.e) \cup UNION {armed(e.arms[i]) : i \in DOMAIN e.arms}
          [] OTHER -> UNION {BodiesInExpr(c) : c \in ToSet(ExprChildren(e))}

\* walk_stmt_expr_bodies: those in the expressions of a statement.  Headers and arms are not looked into.
BodiesInStmt(s) ==
    CASE s.k \in {"Let", "Expr", "Const"} -> BodiesInExpr(s.e)
      [] s.k = "Assign" -> BodiesInExpr(s.r)
      [] s.k \in {"Return", "Emit", "Assert", "Revert"} -> UNION {BodiesInExpr(e) : e \in ToSet(s.es)}
      [] OTHER -> {}

-----------------------------------------------------------------------------
(* Initialization: WF-001 to WF-003 *)

SetsField(s, field) ==
    LET a == IF s.k = "Expr" THEN s.e ELSE s IN a.k \in Assigns /\ a.op = "Assign" /\ a.l = SelfField(field)

RECURSIVE AssignedOnAllPaths(_, _)

AssignedOnAllPaths(stmts, field) ==
    \E i \in DOMAIN stmts : LET s == stmts[i] IN
       CASE SetsField(s, field) -> TRUE
         [] s.k \in {"If", "Try", "Unchecked"} -> \A b \in Blocks(s) : AssignedOnAllPaths(b, field)
         [] s.k = "Match" -> /\ s.arms # <<>>
                             /\ \A j \in DOMAIN s.arms :
                                  s.arms[j].is_block /\ AssignedOnAllPaths(s.arms[j].body, field)
         [] OTHER -> FALSE

SmallerOf(s) == CHOOSE x \in s : \A y \in s : x <= y
LargerOf(s) == CHOOSE x \in s : \A y \in s : x >= y

RECURSIVE ImmutableAssignmentRange(_, _)

\* The least and the greatest number of assignments on any path.
ImmutableAssignmentRange(stmts, field) ==
    IF stmts = <<>> THEN <<0, 0>>
    ELSE LET s == Head(stmts)
             below == {ImmutableAssignmentRange(b, field) : b \in Blocks(s)}
             arms == below \cup IF s.k = "Match" /\ \E i \in DOMAIN s.arms : ~s.arms[i].is_block THEN {<<0, 0>>} ELSE {}
             rest == ImmutableAssignmentRange(Tail(stmts), field)
             here == CASE SetsField(s, field) -> <<1, 1>>
                       [] s.k \in Loops -> <<0, LargerOf({r[2] : r \in below})>>
                       [] ~SetsField(s, field) /\ s.k \notin Loops /\ arms # {} ->
                            <<SmallerOf({r[1] : r \in arms}), LargerOf({r[2] : r \in arms})>>
                       [] OTHER -> <<0, 0>>
         IN  <<here[1] + rest[1], here[2] + rest[2]>>

RECURSIVE SelfFieldAssigned(_, _)

\* count_self_field_assignments, compared with none.
SelfFieldAssigned(stmts, field) ==
    \E i \in DOMAIN stmts : \/ SetsField(stmts[i], field)
                            \/ \E b \in Blocks(stmts[i]) : SelfFieldAssigned(b, field)

\* collect_raw_state_fields: the fields an init has to assign.
RawStateFields(c) == {f \in DOMAIN c.fields : c.fields[f] \notin {"Map", "FastMap", "Set"} /\ f \notin c.defaults}

HasInit(c) == "init" \in FunctionNames(c)
InitBody(c) == FunctionNamed(c, "init").body

StateInit(c) == {f \in RawStateFields(c) : ~HasInit(c) \/ ~AssignedOnAllPaths(InitBody(c), f)}

ImmutableOnce(c) ==
    {f \in c.immutables :
       \/ ~HasInit(c)
       \/ ImmutableAssignmentRange(InitBody(c), f)[1] = 0
       \/ ImmutableAssignmentRange(InitBody(c), f)[2] > 1
       \/ \E g \in Functions(c) : g.name # "init" /\ SelfFieldAssigned(g.body, f)}

InitWellformed(c) ==
    LET inits == {i \in DOMAIN c.functions : c.functions[i].name = "init"}
    IN  {x \in {"duplicate"} : Cardinality(inits) > 1} \cup {x \in {"missing"} : c.is_token /\ inits = {}}
        \cup {a.name : a \in {a \in UNION {c.functions[i].annotations : i \in inits} :
                                a.name \in {"onlyOwner", "onlyRole", "whenNotPaused"}}}

-----------------------------------------------------------------------------
(* Control flow: WF-004 to WF-007 *)

RECURSIVE BodyContainsBreak(_), PathAlwaysTerminates(_)

\* Mutation: only the loop's own statements are searched.
BodyContainsBreakDirectly(stmts) == \E i \in DOMAIN stmts : stmts[i].k = "Break"

BodyContainsBreak(stmts) ==
    \E i \in DOMAIN stmts : \/ stmts[i].k = "Break"
                            \/ \E b \in Blocks(stmts[i]) \cup BodiesInStmt(stmts[i]) : BodyContainsBreak(b)

PathAlwaysTerminates(stmts) ==
    \E i \in DOMAIN stmts : LET s == stmts[i] IN
       CASE s.k \in {"Return", "Revert"} -> TRUE
         [] s.k = "Loop" -> ~BodyContainsBreak(s.body)
         [] s.k \in {"If", "Try", "Unchecked"} -> \A b \in Blocks(s) : PathAlwaysTerminates(b)
         [] s.k = "Match" -> /\ s.arms # <<>>
                             /\ \A j \in DOMAIN s.arms : s.arms[j].is_block /\ PathAlwaysTerminates(s.arms[j].body)
         [] OTHER -> FALSE

ReturnCompleteness(c) == NamesOf({f \in Functions(c) : f.ret # "Unit" /\ ~PathAlwaysTerminates(f.body)})

\* The variants a value of the matched expression can have; None when its type has none.
ExpectedVariants(c, e) ==
    IF e.k # "Ident" \/ e.name \notin DOMAIN c.types THEN None
    ELSE LET t == c.types[e.name]
         IN  CASE t = "Bool" -> {"true", "false"}
               [] t = "Option" -> {"Some", "None"}
               [] t = "Result" -> {"Ok", "Err"}
               [] t \in DOMAIN c.sigs -> c.sigs[t].variants
               [] OTHER -> None

\* variant_name_from_pattern is the pattern's name, "_" that of a wildcard.
Missing(c, m) ==
    LET patterns == {m.arms[i].pattern : i \in DOMAIN m.arms}
        expected == ExpectedVariants(c, m.e)
    IN  IF "_" \in patterns \/ expected = None THEN {} ELSE expected \ patterns

RECURSIVE MissingInStmts(_, _), MissingInExpr(_, _)

MissingInExpr(c, e) ==
    CASE e.k = "Match_" ->
           Missing(c, e) \cup UNION {IF a.is_block THEN MissingInStmts(c, a.body) ELSE MissingInExpr(c, a.body[1]) :
                                     a \in ToSet(e.arms)}
      [] e.k = "If_" -> MissingInStmts(c, e.then) \cup MissingInStmts(c, e.else_)
      [] OTHER -> {}

MissingInStmts(c, stmts) ==
    UNION {LET s == stmts[i] IN
             (IF s.k = "Match" THEN Missing(c, s) ELSE {}) \cup UNION {MissingInStmts(c, b) : b \in Blocks(s)}
             \cup CASE s.k \in {"Let", "Expr"} -> MissingInExpr(c, s.e)
                    [] s.k = "Assign" -> MissingInExpr(c, s.r)
                    [] s.k = "Return" /\ s.es # <<>> -> MissingInExpr(c, s.es[1])
                    [] OTHER -> {} : i \in DOMAIN stmts}

AllBodies(c) == {f.body : f \in Functions(c)} \cup {m.body : m \in ToSet(c.modifiers)}

MatchExhaustiveness(c) == UNION {MissingInStmts(c, b) : b \in AllBodies(c)}

RECURSIVE HasPlaceholder(_)

HasPlaceholder(stmts) ==
    \E i \in DOMAIN stmts : \/ stmts[i].k = "Placeholder"
                            \/ \E b \in Blocks(stmts[i]) \cup BodiesInStmt(stmts[i]) : HasPlaceholder(b)

\* In a modifier a placeholder may stand once, and not inside another statement.
PlaceholderScope(c) ==
    NamesOf({f \in Functions(c) : HasPlaceholder(f.body)})
    \cup NamesOf({m \in ToSet(c.modifiers) :
           \/ Cardinality({i \in DOMAIN m.body : m.body[i].k = "Placeholder"}) > 1
           \/ \E i \in DOMAIN m.body : \E b \in Blocks(m.body[i]) \cup BodiesInStmt(m.body[i]) : HasPlaceholder(b)})

RECURSIVE StrayJumps(_)

\* Wf007Checker: the visitor, which counts the loops it is in.
StrayJumps(n) ==
    CASE n.k \in {"Break", "Continue"} -> {n.k}
      [] n.k \in Loops -> {}
      [] OTHER -> UNION {StrayJumps(m) : m \in ToSet(Children(n))}

LoopControlFlow(c) == UNION {UNION {StrayJumps(b[i]) : i \in DOMAIN b} : b \in AllBodies(c)}
=============================================================================
