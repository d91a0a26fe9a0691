---------------------------- MODULE LemAnalysis ----------------------------
(***************************************************************************)
(* What the safety analyzer promises of the contracts it accepts, over     *)
(* contracts that are written statement by statement.  contract is the     *)
(* contract under analysis, growing the function whose body is extended.   *)
(***************************************************************************)
EXTENDS WellFormed, Declarations

-----------------------------------------------------------------------------
(***************************************************************************)
(* The state-access sets and express eligibility of a function             *)
(* (lemma-lang/src/analyzer/state_access.rs), the input of the scheduler.  *)
(***************************************************************************)
MsgSender == Member(Ident("msg"), "sender")

Field(f) == [kind |-> "Field", field |-> f, key |-> None]
SenderSlot(f) == [kind |-> "SenderSlot", field |-> f, key |-> None]
ParamSlot(f, key) == [kind |-> "ParamSlot", field |-> f, key |-> key]
DynamicSlot(f) == [kind |-> "DynamicSlot", field |-> f, key |-> None]

NoAccess == [reads |-> {}, writes |-> {}, has_external_call |-> FALSE]
Union2(a, b) ==
    [reads |-> a.reads \cup b.reads, writes |-> a.writes \cup b.writes,
     has_external_call |-> a.has_external_call \/ b.has_external_call]
Reads(keys) == [NoAccess EXCEPT !.reads = keys]
Writes(keys) == [NoAccess EXCEPT !.writes = keys]

\* Mutant: any parameter is taken for the sender.
ClassifyIndexedLoose(field, idx, params) ==
    IF idx = MsgSender \/ (idx.k = "Ident" /\ idx.name \in params) THEN SenderSlot(field) ELSE DynamicSlot(field)

ClassifyIndexed(field, idx, params) ==
    CASE idx = MsgSender -> SenderSlot(field)
      [] idx.k = "Ident" /\ idx.name \in params -> ParamSlot(field, idx.name)
      [] OTHER -> DynamicSlot(field)

\* classify_access_key: at most one key.
AccessKeys(e, params) ==
    CASE IsSelfField(e) -> {Field(e.name)}
      [] e.k = "Index" /\ IsSelfField(e.l) -> {ClassifyIndexed(e.l.name, e.r, params)}
      [] OTHER -> {}

RECURSIVE Access(_, _), AccessAll(_, _)

AccessAll(nodes, params) ==
    IF nodes = <<>> THEN NoAccess ELSE Union2(Access(Head(nodes), params), AccessAll(Tail(nodes), params))

\* A mutator of a state field writes the sender's slot if its first argument is the sender, else the field.
MutatorWrites(e, params) ==
    IF e.callee.k = "Member" /\ IsCollectionMutator(e.callee.name) /\ IsSelfField(e.callee.e)
    THEN IF e.args # <<>> /\ e.args[1] = MsgSender THEN {SenderSlot(e.callee.e.name)} ELSE {Field(e.callee.e.name)}
    ELSE {}

AssignAccess(a, params) ==
    Union2(Union2(Writes(AccessKeys(a.l, params)), Reads(IF a.op = "Assign" THEN {} ELSE AccessKeys(a.l, params))),
           AccessAll((IF a.l.k = "Index" THEN <<a.l.r>> ELSE <<>>) \o <<a.r>>, params))

\* AccessWalker
Access(n, params) ==
    CASE n.k \in Assigns -> AssignAccess(n, params)
      [] n.k = "Index" /\ IsSelfField(n.l) -> Union2(Reads(AccessKeys(n, params)), Access(n.r, params))
      [] n.k = "Member" -> Union2(Reads(AccessKeys(n, params)), AccessAll(Children(n), params))
      [] n.k = "Call" -> Union2(Writes(MutatorWrites(n, params)), AccessAll(Children(n), params))
      [] n.k \notin Assigns \cup {"Member", "Call"} /\ ~(n.k = "Index" /\ IsSelfField(n.l)) ->
           AccessAll(Children(n), params)

\* direct_access
DirectAccess(f) == [AccessAll(f.body, f.params) EXCEPT !.has_external_call = ExtCalls(f.body) # {}]

RECURSIVE UnionOf(_)
UnionOf(accesses) ==
    IF accesses = {} THEN NoAccess
    ELSE LET a == CHOOSE a \in accesses : TRUE IN Union2(a, UnionOf(accesses \ {a}))

\* close_transitively
Reached(c, f) == {g \in Functions(c) : g.name \in CalleesOf({f.name}, BuildCallGraph(c))}

\* analyze_state_access: callees and modifiers folded in.
StateAccessOf(c, f) ==
    UnionOf({DirectAccess(g) : g \in Reached(c, f)}
            \cup {DirectAccess(m) : m \in {m \in ToSet(c.modifiers) : Annotated(f, m.name)}})

IsExpressEligible(a) == ~a.has_external_call /\ \A key \in a.writes : key.kind = "SenderSlot"

-----------------------------------------------------------------------------
(***************************************************************************)
(* What a Lem function does when it runs: the reference the analyzer is    *)
(* held against.  A run is a sequence of steps and an end.  A step is the  *)
(* evaluation of one expression or assignment, its operands included, with *)
(* the depth of internal calls at which it happens.  Conditions may go     *)
(* either way, external calls may fail, loops go round at most MaxRounds   *)
(* times and internal calls nest at most MaxDepth deep.                    *)
(***************************************************************************)
CONSTANTS MaxRounds, MaxDepth

Run(steps, end) == [steps |-> steps, end |-> end]
Ended(runs, from, to) == {IF r.end \in from THEN [r EXCEPT !.end = to] ELSE r : r \in runs}

\* Each run of `first`, and then one of `second` where the first did not end.
Then(first, second) ==
    UNION {IF r.end # "next" THEN {r} ELSE {Run(r.steps \o q.steps, q.end) : q \in second} : r \in first}

IsExternal(n) ==
    \/ n.k = "New"
    \/ /\ n.k = "Call" /\ n.callee.k = "Member" /\ ~IsSelf(n.callee.e)
       /\ ~(IsSelfField(n.callee.e) /\ n.callee.name \in CollectionMethods)
CallsOut(n) == \E m \in Visited(<<n>>) : IsExternal(m)
Callees(n) ==
    LET calls == SelectSeq(Visit(n), LAMBDA m : m.k = "Call" /\ (m.callee.k = "Ident" \/ IsSelfField(m.callee)))
    IN  [i \in DOMAIN calls |-> calls[i].callee.name]

\* Where a step happens: the function, the depth of calls, and whether in the header of a loop.
At(fn, depth) == [fn |-> fn, depth |-> depth, header |-> FALSE]

RECURSIVE RunStmts(_, _, _), RunStmt(_, _, _), RunCalls(_, _, _), RunLoop(_, _, _, _), EvaluateAll(_, _, _),
          RunArms(_, _, _, _)

\* The bodies of the internal calls, one after the other.
RunCalls(names, c, depth) ==
    IF names = <<>> \/ depth > MaxDepth THEN {Run(<<>>, "next")}
    ELSE LET runs == IF Head(names) \notin FunctionNames(c) THEN {Run(<<>>, "next")}
                     ELSE RunStmts(FunctionNamed(c, Head(names)).body, c, At(Head(names), depth))
         IN  Then(Ended(runs, {"return"}, "next"), RunCalls(Tail(names), c, depth))

\* The evaluation of one node: an external call in it may fail.
Evaluate(n, c, at) ==
    LET step == <<[n |-> n, at |-> at]>>
    IN  Then({Run(step, end) : end \in {"next"} \cup IF CallsOut(n) THEN {"veto"} ELSE {}},
             RunCalls(Callees(n), c, at.depth + 1))

EvaluateAll(nodes, c, at) ==
    IF nodes = <<>> THEN {Run(<<>>, "next")} ELSE Then(Evaluate(Head(nodes), c, at), EvaluateAll(Tail(nodes), c, at))

\* A loop without a condition goes on until it is left.
RunLoop(s, c, at, rounds) ==
    LET turn == Ended(RunStmts(s.body, c, at), {"continue"}, "next")
    IN  Then(EvaluateAll(s.iter, c, [at EXCEPT !.header = TRUE]),
             {Run(<<>>, "next") : x \in {s.k} \ {"Loop"}}
             \cup IF rounds > 0 THEN Ended(Then(turn, RunLoop(s, c, at, rounds - 1)), {"break"}, "next")
                  ELSE {Run(<<>>, "diverge") : x \in {s.k} \cap {"Loop"}})

\* The arms a value of variant v goes through until one takes it.
RunArms(arms, v, c, at) ==
    IF arms = <<>> THEN {Run(<<>>, "stuck")}
    ELSE LET a == Head(arms)
             taken == Then(EvaluateAll(a.guard, c, at), RunStmts(a.body, c, at))
             passed == RunArms(Tail(arms), v, c, at)
         IN  IF a.pattern \notin {v, "_"} THEN passed ELSE taken \cup IF a.guard = <<>> THEN {} ELSE passed

RunStmt(s, c, at) ==
    CASE s.k = "Expr" /\ s.e.k \in {"If_", "Match_"} -> RunStmt(s.e, c, at)
      [] s.k \in {"Let", "Expr"} /\ s.e.k \notin {"If_", "Match_"} -> Evaluate(s.e, c, at)
      [] s.k = "Emit" -> Evaluate(s, c, at)
      [] s.k = "Assert" -> Then(Evaluate(s, c, at), {Run(<<>>, "next"), Run(<<>>, "revert")})
      [] s.k = "Revert" -> {Run(<<>>, "revert")}
      [] s.k = "Return" -> Then(EvaluateAll(s.es, c, at), {Run(<<>>, "return")})
      [] s.k = "Break" -> {Run(<<>>, "break")}
      [] s.k = "Continue" -> {Run(<<>>, "continue")}
      [] s.k \in {"If", "If_"} -> Then(Evaluate(s.cond, c, at), RunStmts(s.then, c, at) \cup RunStmts(s.else_, c, at))
      [] s.k \in Loops -> RunLoop(s, c, at, MaxRounds)
      [] s.k \in {"Match", "Match_"} ->
           LET arm(a) == Then(EvaluateAll(a.guard, c, at), RunStmts(a.body, c, at))
               variants == ExpectedVariants(c, s.e)
           IN  Then(Evaluate(s.e, c, at),
                    IF variants = None THEN UNION {arm(s.arms[i]) : i \in DOMAIN s.arms}
                    ELSE UNION {RunArms(s.arms, v, c, at) : v \in variants})
      [] s.k = "Try" ->
           LET runs == RunStmts(s.body, c, at)
               failed == {r \in runs : r.end \in {"revert", "veto"}}
           IN  (runs \ failed) \cup Then({Run(r.steps, "next") : r \in failed}, RunStmts(s.catch_body, c, at))
      [] s.k = "Unchecked" -> RunStmts(s.body, c, at)
      [] OTHER -> Evaluate(s, c, at)

RunStmts(stmts, c, at) ==
    IF stmts = <<>> THEN {Run(<<>>, "next")}
    ELSE Then(RunStmt(Head(stmts), c, at), RunStmts(Tail(stmts), c, at))

RunsOf(c, f) == RunStmts(f.body, c, At(f.name, 0))

-----------------------------------------------------------------------------
\* Pool(t, span): the statements of theme t, with their external call at span.
CONSTANTS Skeletons, Pool(_, _), Wraps, MaxSize

VARIABLES contract, theme, size
avars == <<contract, theme, size>>

\* The last function of a skeleton is the one that is written.
Body(c) == Last(c.functions).body
WithBody(c, body) == [c EXCEPT !.functions[Len(c.functions)].body = body]

AnalysisInit == \E t \in DOMAIN Skeletons : theme = t /\ contract \in Skeletons[t] /\ size = 0

Append1 == \E s \in Pool(theme, size + 1) : contract' = WithBody(contract, Append(Body(contract), s))

\* The last statement becomes a block of its own.
Wrap ==
    /\ Body(contract) # <<>>
    /\ \E w \in Wraps :
          LET last == <<Last(Body(contract))>>
              wrapped == CASE w = "if" -> If(Ident("x"), last, <<>>)
                           [] w = "else" -> If(Ident("x"), <<>>, last)
                           [] w = "while" -> While(Ident("x"), last)
                           [] w = "match" -> Match(Ident("x"), <<Arm("A", <<>>, last), Arm("_", <<>>, <<>>)>>)
                           [] w = "try" -> TryCatch(last, <<>>)
                           [] w = "catch" -> TryCatch(<<Revert>>, last)
                           [] w = "unchecked" -> Unchecked(last)
          IN  contract' = WithBody(contract, Append(Front(Body(contract)), wrapped))

AnalysisNext == size < MaxSize /\ size' = size + 1 /\ theme' = theme /\ (Append1 \/ Wrap)

-----------------------------------------------------------------------------

Steps(r) == DOMAIN r.steps
NodesAt(r, i) == Visited(<<r.steps[i].n>>)

WritesState(n) ==
    \E m \in Visited(<<n>>) :
       \/ m.k \in Assigns /\ StateWriteKey(m.l) # None
       \/ m.k = "Call" /\ m.callee.k = "Member" /\ IsSelfField(m.callee.e) /\ IsCollectionMutator(m.callee.name)

\* SAFETY-004 keeps its word: on every run of an accepted function, whatever its branches and helpers do, once a
\* statement of the function has called another contract no later statement writes state, neither itself nor through
\* the functions it calls (reentrancy.rs check).  A write in the header of a loop is not compared with the body's calls.
CallsComeLast ==
    StateAfterCall(contract) = {} =>
      \A f \in Functions(contract) : \A r \in RunsOf(contract, f) :
         \A i, j, k \in Steps(r) :
            /\ i < j /\ j <= k
            /\ r.steps[i].at.depth = 0 /\ r.steps[j].at.depth = 0
            /\ CallsOut(r.steps[i].n)
            => ~WritesState(r.steps[k].n) \/ r.steps[k].at.header

\* SAFETY-025: in an accepted contract no failure of an external call makes a transfer fail, on any path through the
\* transfer and its helpers (sell_path_veto.rs).
NoExternalVeto ==
    SellPathExternalVeto(contract) = {} =>
      \A f \in Entries(contract) : \A r \in RunsOf(contract, f) : r.end # "veto"

Increases(n) == n.k \in Assigns /\ IsIncreasingSupplyWrite(n)

\* SAFETY-003: on every path a function that raises the supply has asserted a comparison before, and a token that is
\* not mintable never raises it (supply_cap.rs has_cap_assert_before_write).
SupplyGuarded ==
    SupplyCapViolation(contract) = {} =>
      \A f \in Functions(contract) : \A r \in RunsOf(contract, f) :
         \A i \in {i \in Steps(r) : r.steps[i].at.depth = 0 /\ Increases(r.steps[i].n)} :
            /\ ~Configured(contract, "mintable", {"False"})
            /\ Configured(contract, "maxSupply", {"Int"}) =>
                 \E j \in 1..(i - 1) : /\ r.steps[j].at.depth = 0
                                       /\ r.steps[j].n.k = "Assert" /\ IsComparison(r.steps[j].n.es[1])

RECURSIVE Holds(_, _, _)

\* The value of a condition, given the flags and the value of everything else.
Holds(e, flags, other) ==
    CASE IsSelfField(e) -> IF e.name \in DOMAIN flags THEN flags[e.name] ELSE other
      [] e.k = "Unary" -> ~Holds(e.e, flags, other)
      [] e.k = "Binary" ->
           LET l == Holds(e.l, flags, other)
               r == Holds(e.r, flags, other)
           IN  (e.op = "And" /\ l /\ r) \/ (e.op = "Or" /\ (l \/ r)) \/ (e.op = "Eq" /\ l = r)
      [] e.k \in {"True", "False"} -> e.k = "True"
      [] OTHER -> other

BoolFields == {f \in DOMAIN contract.fields : contract.fields[f] = "Bool"}

\* The flags after an assignment to one of them.
Flipped(a, flags, other) ==
    IF FieldOf(a.l) \in DOMAIN flags THEN [flags EXCEPT ![FieldOf(a.l)] = Holds(a.r, flags, other)] ELSE flags

\* SAFETY-009: in an accepted contract nothing but governance can turn a flag so that a check which lets transfers
\* pass begins to deny them (one_way_gate.rs).
GatesStayOpen ==
    OneWayGate(contract) = {} =>
      \A f \in {f \in Functions(contract) : ~Governed(f)} :
         \A a \in {a \in Visited(f.body) : a.k \in Assigns} :
            \A d \in TransferDenials(contract) : \A flags \in [BoolFields -> BOOLEAN] : \A other \in BOOLEAN :
               Holds(d.cond, flags, other) # d.on => Holds(d.cond, Flipped(a, flags, other), other) # d.on

StepCalls(r, i) == {CallName(m.callee) : m \in {m \in NodesAt(r, i) : m.k = "Call"}}

\* SAFETY-014, 016: on no path does a function an agent may call grant a policy, at whatever depth, and one that
\* declares maxValueOut 0 moves no value (agent.rs transitive_callees).
AgentsBounded ==
    \A f \in {f \in Functions(contract) : IsAgentCallable(f)} : \A r \in RunsOf(contract, f) : \A i \in Steps(r) :
       /\ AgentReGrant(contract) = {} => StepCalls(r, i) \cap GrantCalls = {}
       /\ AgentOutflowUnbounded(contract) = {} /\ ZeroCap(f) => StepCalls(r, i) \cap TransferCalls = {}

\* SAFETY-020: no transfer of an accepted tax token ever runs distributeTaxes (tax.rs check_020_separation).
TransfersDoNotDistribute ==
    IsTaxToken(contract) /\ Tax(contract) = {} =>
      \A f \in Entries(contract) : \A r \in RunsOf(contract, f) : \A i \in Steps(r) :
         "distributeTaxes" \in FunctionNames(contract) => "distributeTaxes" \notin StepCalls(r, i)

\* SAFETY-005: only governance reaches a write, under a key it was given, to what transfers are checked against
\* (blacklist.rs transitive_callers).
RestrictionsGoverned ==
    UngovernedBlacklist(contract) = {} =>
      \A f \in {f \in Functions(contract) : ~Governed(f)} : \A r \in RunsOf(contract, f) : \A i \in Steps(r) :
         LET frame == FunctionNamed(contract, r.steps[i].at.fn)
         IN  ~WritesParamKey([frame EXCEPT !.body = <<r.steps[i].n>>], RestrictionFields(contract))

\* The slots [field, index] a node writes, the index None for a whole field.
Slot(target) ==
    CASE IsSelfField(target) -> {[field |-> target.name, idx |-> None]}
      [] target.k = "Index" /\ IsSelfField(target.l) -> {[field |-> target.l.name, idx |-> target.r]}
      [] OTHER -> {}

Covers(key, slot) ==
    /\ key.field = slot.field
    /\ \/ key.kind \in {"Field", "DynamicSlot"}
       \/ key.kind = "SenderSlot" /\ slot.idx = MsgSender
       \/ key.kind = "ParamSlot" /\ slot.idx = Ident(key.key)

\* Every slot a function writes on any path, itself or through a helper, is covered by its access set, and so is the
\* old value that a compound assignment reads (state_access.rs close_transitively).
AccessCovered ==
    \A f \in Functions(contract) :
       LET access == StateAccessOf(contract, f)
       IN  \A r \in RunsOf(contract, f) : \A i \in Steps(r) : \A a \in {a \in NodesAt(r, i) : a.k \in Assigns} :
              \A slot \in Slot(a.l) :
                 /\ \E key \in access.writes : Covers(key, slot)
                 /\ a.op # "Assign" => \E key \in access.reads : Covers(key, slot)

-----------------------------------------------------------------------------

\* How often a run of a function, outside the functions it calls, does what is asked.
Times(r, test(_)) == Cardinality({i \in Steps(r) : r.steps[i].at.depth = 0 /\ test(r.steps[i].n)})
Given(r, field) == Times(r, LAMBDA n : SetsField(n, field))

HasTry(stmts) == \E n \in Visited(stmts) : n.k = "Try"

\* WF-001, 002: an init that runs to its end has given every field a value and every immutable exactly one.  A return
\* in the middle is not looked at by the rules, nor what a failed try did before its catch.
InitCompletes ==
    HasInit(contract) => LET init == FunctionNamed(contract, "init") IN
      \A r \in RunsOf(contract, init) :
         r.end = "next" =>
           /\ \A f \in RawStateFields(contract) : Given(r, f) > 0
           /\ ~HasTry(init.body) => \A f \in contract.immutables : Given(r, f) = 1

\* WF-004 to 007: a function that owes a value never runs off its end, no jump leaves a function, no value of a
\* matched type is without an arm, and only a modifier runs its placeholder, at most once.
RunsStayInside ==
    /\ \A f \in Functions(contract) : \A r \in RunsOf(contract, f) :
          /\ r.end \notin {"break", "continue", "stuck"}
          /\ r.end = "next" => f.ret = "Unit"
          /\ Times(r, LAMBDA n : n.k = "Placeholder") = 0
    /\ \A m \in ToSet(contract.modifiers) : \A r \in RunStmts(m.body, contract, At(m.name, 0)) :
          /\ r.end \notin {"break", "continue", "stuck"}
          /\ Times(r, LAMBDA n : n.k = "Placeholder") <= 1

RECURSIVE Laid(_, _, _)

\* A value of the type can be laid out inline with at most n declarations inside one another.
Laid(sigs, ty, n) ==
    CASE ty.k = "Named" -> n > 0 /\ (ty.name \in DOMAIN sigs => \A f \in sigs[ty.name].holds : Laid(sigs, f, n - 1))
      [] ty.k \in {"Tuple", "FixedArray", "Result"} -> \A a \in ToSet(ty.args) : Laid(sigs, a, n)
      [] OTHER -> TRUE

\* WF-011: every declared type has a finite layout.
TypesFinite ==
    \A t \in DOMAIN contract.sigs :
       Laid(contract.sigs, [k |-> "Named", name |-> t], Cardinality(DOMAIN contract.sigs))

\* WF-014: the fees of a tax token stay within its own limit and the protocol's, whatever width the limit is read at.
FeesWithinCeiling ==
    contract.base = "TaxToken" =>
      LET fees == contract.config["fees"].entries
          sum == fees["burn"].n + fees["holders"].n + fees["others"].n
      IN  sum <= PROTOCOL_MAX_FEE_BPS /\ ("maxFeePercent" \in DOMAIN contract.config => sum <= contract.config["maxFeePercent"].n)

\* WF-012, 015: on every run the events carry the fields they declare, and a view or pure function leaves
\* the fields of the contract alone, a pure one does not even look at them.
EffectsDeclared ==
    \A f \in Functions(contract) : \A r \in RunsOf(contract, f) : \A i \in Steps(r) : \A n \in NodesAt(r, i) :
       r.steps[i].at.depth = 0 =>
         /\ f.mutability \in {"View", "Pure"} => ~(n.k \in Assigns /\ IsSelfField(n.l))
         /\ f.mutability = "Pure" => ~IsSelfField(n)
         /\ n.k = "Emit" => {x.key : x \in ToSet(n.fields)} = DOMAIN contract.events[n.event]

\* A contract the well-formedness rules accept runs as they promise.
RunsWellFormed ==
    WellFormedContract(contract) => InitCompletes /\ RunsStayInside /\ TypesFinite /\ FeesWithinCeiling /\ EffectsDeclared

\* Calls to other contracts are kept in their place: nothing is written after
\* one, and none can veto a transfer.
CallsContained == CallsComeLast /\ NoExternalVeto

\* The holders of an accepted token are protected from its owner: supply, gates
\* and restrictions stay under the checks the rules ask for.
HoldersProtected == SupplyGuarded /\ GatesStayOpen /\ RestrictionsGoverned

\* What must not be reached at any call depth is not reached.
DelegationBounded == AgentsBounded /\ TransfersDoNotDistribute
=============================================================================
