---------------------------- MODULE SafetyRules ----------------------------
(***************************************************************************)
(* The contract-safety rules of the Lem compiler                           *)
(* (lemma-lang/src/analyzer/rules).  A rule is the set of the functions it *)
(* rejects; a contract is accepted when every rule's set is empty.         *)
(***************************************************************************)
EXTENDS LemAst

Governed(f) == RequiresGovernance(f)
Entries(c) == {f \in Functions(c) : IsTransferPathEntry(f)}
NamesOf(fs) == {f.name : f \in fs}

-----------------------------------------------------------------------------
(* SAFETY-004: state is written before an external call.                     *)

TransitiveWriters(c) == LET writes == TransitiveWrites(c) IN {f \in DOMAIN writes : writes[f] # {}}

Mutates(node, writers) == node.k = "StateWrite" \/ (node.k = "InternalCall" /\ node.callee \in writers)

\* The blocks of statements directly below a statement; the expression of a match arm is none.
Blocks(s) ==
    CASE s.k = "If" -> {s.then, s.else_}
      [] s.k \in Loops \cup {"Unchecked"} -> {s.body}
      [] s.k = "Match" -> {s.arms[i].body : i \in {i \in DOMAIN s.arms : s.arms[i].is_block}}
      [] s.k = "Try" -> {s.body, s.catch_body}
      [] OTHER -> {}

LoopBodyViolation(body, writers) ==
    LET nodes == ToSet(CfgNodes(body))
    IN  (\E n \in nodes : n.k = "ExternalCall") /\ (\E n \in nodes : Mutates(n, writers))

RECURSIVE LoopReentrancy(_, _)

LoopReentrancy(stmts, writers) ==
    \E i \in DOMAIN stmts :
       \/ stmts[i].k \in Loops /\ LoopBodyViolation(stmts[i].body, writers)
       \/ \E block \in Blocks(stmts[i]) : LoopReentrancy(block, writers)

\* Mutant: a helper that writes state is not a write.
WriteAfterCallDirect(stmts, writers) ==
    LET nodes == CfgNodes(stmts)
    IN  \E i, j \in DOMAIN nodes : i < j /\ nodes[i].k = "ExternalCall" /\ nodes[j].k = "StateWrite"

WriteAfterCall(stmts, writers) ==
    LET nodes == CfgNodes(stmts)
    IN  \E i, j \in DOMAIN nodes : i < j /\ nodes[i].k = "ExternalCall" /\ Mutates(nodes[j], writers)

StateAfterCall(c) ==
    LET writers == TransitiveWriters(c)
    IN  NamesOf({f \in Functions(c) : LoopReentrancy(f.body, writers) \/ WriteAfterCall(f.body, writers)})

-----------------------------------------------------------------------------
(* SAFETY-025: no external contract can veto a transfer.                     *)

SpansIn(nodes) == {n.span : n \in {n \in Visited(nodes) : n.k \in {"Call", "New"}}}

RECURSIVE CallSpans(_), ProtectedBelow(_)

\* TryBodyCallCollector: every call below s, but for the catch blocks below it.
CallSpans(s) ==
    IF s.k \notin Statements THEN SpansIn(<<s>>)
    ELSE LET below == IF s.k = "Try" THEN s.body ELSE StmtChildren(s)
         IN  UNION {CallSpans(below[i]) : i \in DOMAIN below}

\* ExtCallContextScanner: the calls in the body of a try; a catch block is not searched.
ProtectedBelow(s) ==
    IF s.k = "Try" THEN UNION {CallSpans(s.body[i]) : i \in DOMAIN s.body}
    ELSE UNION {UNION {ProtectedBelow(block[i]) : i \in DOMAIN block} : block \in Blocks(s)}

ProtectedSpans(stmts) == UNION {ProtectedBelow(stmts[i]) : i \in DOMAIN stmts}

\* The functions on a transfer path with an external call outside of a try: a veto, or inconclusive.
SellPathExternalVeto(c) ==
    LET reachable == CalleesOf(NamesOf(Entries(c)), BuildCallGraph(c))
    IN  NamesOf({f \in Functions(c) : f.name \in reachable /\ ~(ExtCalls(f.body) \subseteq ProtectedSpans(f.body))})

-----------------------------------------------------------------------------
(* SAFETY-003: the supply is capped.                                         *)

RECURSIVE AddsToSupply(_), IsComparison(_), CapAssertBeforeWrite(_)

AddsToSupply(e) ==
    /\ e.k = "Binary"
    /\ \/ e.op = "Add" /\ SelfField("totalSupply") \in {e.l, e.r}
       \/ AddsToSupply(e.l)
       \/ AddsToSupply(e.r)

IsIncreasingSupplyWrite(a) ==
    a.l = SelfField("totalSupply") /\ (a.op = "Add" \/ (a.op = "Assign" /\ AddsToSupply(a.r)))

\* The statements that are an increasing write: an assignment, or an assignment expression on its own.
IncreasesSupply(s) ==
    \/ s.k = "Assign" /\ IsIncreasingSupplyWrite(s)
    \/ s.k = "Expr" /\ s.e.k = "AssignE" /\ IsIncreasingSupplyWrite(s.e)
HasIncreasingWrite(stmts) == \E s \in Visited(stmts) : IncreasesSupply(s)

IsComparison(e) ==
    \/ e.k = "Binary" /\ e.op \in {"LtEq", "Lt"}
    \/ e.k = "Binary" /\ e.op \in {"And", "Or"} /\ (IsComparison(e.l) \/ IsComparison(e.r))
    \/ e.k = "Unary" /\ IsComparison(e.e)

\* Mutant: a comparison inside of an earlier block counts as a guard of what follows it.
GuardsNested(stmts, i) == \E j \in 1..(i - 1) : \E s \in Visited(<<stmts[j]>>) : s.k = "Assert" /\ IsComparison(s.es[1])

\* saw_cap_assert when the scan reaches statement i
Guards(stmts, i) == \E j \in 1..(i - 1) : stmts[j].k = "Assert" /\ IsComparison(stmts[j].es[1])

\* The scan ends at the first increasing write of the block itself.
CapAssertBeforeWrite(stmts) ==
    LET writes == {i \in DOMAIN stmts : IncreasesSupply(stmts[i])}
        scanned == {i \in DOMAIN stmts : \A w \in writes : i <= w}
    IN  \A i \in scanned :
           \/ Guards(stmts, i)
           \/ /\ i \notin writes
              /\ \A block \in Blocks(stmts[i]) : HasIncreasingWrite(block) => CapAssertBeforeWrite(block)

SupplyCapViolation(c) ==
    LET writers == {f \in Functions(c) : HasIncreasingWrite(f.body)}
        fixed == Configured(c, "mintable", {"False"})
        capped == Configured(c, "maxSupply", {"Int", "Percent"})
    IN  NamesOf({f \in writers : fixed \/ (capped /\ ~CapAssertBeforeWrite(f.body))})

-----------------------------------------------------------------------------
(* SAFETY-009: a flag that gates transfers is not turned back.               *)

RECURSIVE FlagReads(_, _), OpaqueReads(_)

\* collect_opaque_flag_reads; the blocks of an if or match expression are not searched.
OpaqueReads(e) ==
    CASE IsSelfField(e) -> {e.name}
      [] e.k \in {"Member", "Unary", "Try_", "Cast", "Match_"} /\ ~IsSelfField(e) -> OpaqueReads(e.e)
      [] e.k \in {"Binary", "Nullish", "Index"} -> OpaqueReads(e.l) \cup OpaqueReads(e.r)
      [] e.k = "Call" -> OpaqueReads(e.callee) \cup UNION {OpaqueReads(e.args[i]) : i \in DOMAIN e.args}
      [] e.k = "Ternary" -> UNION {OpaqueReads(e.es[i]) : i \in DOMAIN e.es}
      [] e.k = "If_" -> OpaqueReads(e.cond)
      [] OTHER -> {}

\* collect_flag_reads: [flag, kind], where kind is the parity of the negations above the read, or "opaque".
FlagReads(e, negated) ==
    CASE IsSelfField(e) -> {[flag |-> e.name, kind |-> IF negated THEN "negated" ELSE "plain"]}
      [] e.k = "Unary" -> IF e.op = "Not" THEN FlagReads(e.e, ~negated) ELSE {}
      [] e.k = "Binary" /\ e.op \in {"And", "Or"} -> FlagReads(e.l, negated) \cup FlagReads(e.r, negated)
      [] e.k = "Member" /\ ~IsSelfField(e) -> FlagReads(e.e, negated)
      [] \/ e.k = "Binary" /\ e.op \notin {"And", "Or"}
         \/ e.k \in {"Ternary", "If_", "Match_", "Call", "Index", "Cast", "Nullish", "Try_"} ->
           {[flag |-> f, kind |-> "opaque"] : f \in OpaqueReads(e)}
      [] OTHER -> {}

\* record_condition: the values of the flag for which the denial [cond, on] denies.
BlockedBy(read, on) ==
    CASE read.kind = "opaque" -> BOOLEAN
      [] read.kind = "plain" -> {on}
      [] read.kind = "negated" -> {~on}

TransferDenials(c) == UNION {Denials(f.body) : f \in Entries(c)}

\* blocking_values: the union over all denials; a flag whose reads were not recognised blocks with either value.
BlockingValues(c, flag) ==
    LET blocked == UNION {UNION {BlockedBy(r, d.on) : r \in {r \in FlagReads(d.cond, FALSE) : r.flag = flag}}
                          : d \in TransferDenials(c)}
    IN  IF blocked = {} THEN BOOLEAN ELSE blocked

\* writes_blocking_value: a literal in `blocking`, or anything that is no literal.
WritesBlockingValue(stmts, flag, blocking) ==
    \E a \in Visited(stmts) :
       /\ a.k \in Assigns
       /\ a.l = SelfField(flag)
       /\ a.r.k \in {"True", "False"} => (a.r.k = "True") \in blocking

GatingFlags(c) == RestrictionFields(c) \cap {f \in DOMAIN c.fields : c.fields[f] = "Bool"}

OneWayGate(c) ==
    NamesOf({f \in Functions(c) :
               ~Governed(f) /\ \E flag \in GatingFlags(c) : WritesBlockingValue(f.body, flag, BlockingValues(c, flag))})

-----------------------------------------------------------------------------
(* SAFETY-005: who may not transfer is decided by governance.                *)

IsParam(f, e) == e.k = "Ident" /\ e.name \in f.params

\* direct_param_keyed_writers, for one function.
WritesParamKey(f, restriction) ==
    \E n \in Visited(f.body) :
       \/ /\ n.k \in Assigns
          /\ n.l.k = "Index" /\ FieldOf(n.l.l) \in restriction /\ IsParam(f, n.l.r)
       \/ /\ n.k = "Call" /\ n.callee.k = "Member" /\ n.callee.name \in {"set", "add"}
          /\ FieldOf(n.callee.e) \in restriction
          /\ n.args # <<>> /\ IsParam(f, n.args[1])

UngovernedBlacklist(c) ==
    LET direct == NamesOf({f \in Functions(c) : WritesParamKey(f, RestrictionFields(c))})
        levers == CallersOf(direct, BuildCallGraph(c))
    IN  NamesOf({f \in Functions(c) : f.name \in levers /\ ~Governed(f)})

-----------------------------------------------------------------------------
(* Rules that look at one function or one declaration.                       *)

\* SAFETY-001: a token has an unrestricted transfer.
Honeypot(c) ==
    LET restricted == NamesOf({f \in Functions(c) : ~IsAccessUnrestricted(f)})
    IN  IF ~c.is_token THEN {}
        ELSE ({"transfer"} \ FunctionNames(c)) \cup ({"transfer", "transferFrom"} \cap restricted)

\* SAFETY-006
UnboundedApproval(c) ==
    NamesOf({f \in Functions(c) : f.name = "approve" /\ f.params \cap {"expiry", "deadline", "expires"} = {}})

\* SAFETY-007
UnsafeUpgrade(c) ==
    NamesOf({f \in Functions(c) : /\ Configured(c, "upgradeable", {"True"})
                                  /\ f.name \in WritersOf(c, "upgradeable")
                                  /\ ~Governed(f)})

\* SAFETY-008
HookEscape(c) == NamesOf({f \in Functions(c) : Annotated(f, "onTransfer") /\ ExtCalls(f.body) # {}})

\* SAFETY-010: an external call, or a pause flag, on a transfer path is declared.
FieldConfig == [paused |-> "pausable", frozen |-> "freezable"]
ReadsSelfField(e, field) == SelfField(field) \in Visited(<<e>>)
UndeclaredRestriction(c) ==
    NamesOf({f \in Entries(c) :
               \/ ExtCalls(f.body) # {} /\ ~(Configured(c, "externalChecker", {"Str"}) /\ c.config["externalChecker"].s # "")
               \/ \E field \in DOMAIN FieldConfig :
                     /\ \E d \in Denials(f.body) : ReadsSelfField(d.cond, field)
                     /\ ~Configured(c, FieldConfig[field], {"True"})})
=============================================================================
