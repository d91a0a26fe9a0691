----------------------------- MODULE TokenRules -----------------------------
(***************************************************************************)
(* The remaining rules of the safety analyzer: fees and taxes (SAFETY-002, *)
(* 020 to 022), launch (023), delegated calls (011), unchecked arithmetic  *)
(* (012) and agents (014 to 019), and the verdict over all rules           *)
(* (lemma-lang/src/analyzer/rules, safety.rs).                             *)
(***************************************************************************)
EXTENDS SafetyRules

CONSTANTS PROTOCOL_MAX_FEE_BPS, U16_MAX

Components == {"burn", "holders", "others"}
ClampBps(n) == IF n > U16_MAX THEN U16_MAX ELSE n
Named(c, name) == {f \in Functions(c) : f.name = name}
IsTaxToken(c) == c.base = "TaxToken"

\* get_config_bps
ConfigBps(c, key) ==
    CASE Configured(c, key, {"Int"}) -> ClampBps(c.config[key].n)
      [] Configured(c, key, {"Percent"}) -> ClampBps(100 * c.config[key].n)
      [] OTHER -> PROTOCOL_MAX_FEE_BPS

\* The assignments to self.fees.<component>.
FeesWrites(stmts) ==
    {a \in Visited(stmts) : a.k \in Assigns /\ a.l.k = "Member" /\ a.l.name \in Components /\ a.l.e = SelfField("fees")}

IntLiteral(e) == IF e.k \in {"Int", "IntTyped"} THEN e.n ELSE None

SetsAll(writes) == {a.l.name : a \in writes} = Components

\* The last literal written to a component, in the order of the text.
LastLiteral(stmts, component) ==
    LET seen == SelectSeq(VisitAll(stmts), LAMBDA n : n \in FeesWrites(stmts) /\ n.l.name = component)
    IN  IF seen = <<>> THEN 0 ELSE IntLiteral(Last(seen).r)

LiteralSum(stmts) == LastLiteral(stmts, "burn") + LastLiteral(stmts, "holders") + LastLiteral(stmts, "others")

\* SAFETY-002; "config" stands for the declaration.
FeeTooHigh(c) ==
    LET cap == ConfigBps(c, "maxFeePercent")
        literal(f) == \A a \in FeesWrites(f.body) : IntLiteral(a.r) # None
    IN  IF c.config = <<>> THEN {}
        ELSE {x \in {"config"} : cap > PROTOCOL_MAX_FEE_BPS \/ (IsTaxToken(c) /\ ClampBps(c.fees_sum) > cap)}
             \cup NamesOf({f \in Functions(c) :
                             /\ IsTaxToken(c)
                             /\ \/ ~literal(f)
                                \/ SetsAll(FeesWrites(f.body)) /\ ClampBps(LiteralSum(f.body)) > cap})

-----------------------------------------------------------------------------
(* SAFETY-020: the taxes are distributed apart from transfers.               *)

CallsHelper(c, f) == \E callee \in InternalCalls(f.body) : callee # f.name

\* check_020_separation
DistributeOnTransferPath(c) ==
    LET graph == BuildCallGraph(c)
        reachable == CalleesOf(NamesOf(Entries(c)), graph)
    IN  IF Entries(c) = {} THEN {"transfer"} ELSE {f \in reachable \cap DOMAIN graph : "distributeTaxes" \in graph[f]}

\* check_020_budget_bound
DistributeUnbounded(c, f) ==
    CallsHelper(c, f) \/ {SelfField("balances"), SelfField("totalSupply")} \cap Visited(f.body) # {}

IsLiteralZero(e) == e.k \in {"Int", "IntTyped"} /\ e.n = 0
PoolWrites(stmts) == {a \in Visited(stmts) : a.k \in Assigns /\ a.l = SelfField("taxPool")}

\* check_020_zero_before_interaction: the pool is zeroed, in the order of the text, before any external call.
DistributeUnsettled(c, f) ==
    LET nodes == CfgNodes(f.body)
        zeroed(i) == \E j \in 1..(i - 1) : nodes[j] = StateWrite("taxPool")
        is_external(n) == n.k = "Call" /\ n.callee.k = "Member" /\ ~IsSelf(n.callee.e)
    IN  /\ ExtCalls(f.body) # {}
        /\ \/ CallsHelper(c, f)
           \/ PoolWrites(f.body) = {}
           \/ \E a \in PoolWrites(f.body) : ~IsLiteralZero(a.r)
           \/ \E i \in DOMAIN nodes : nodes[i].k = "ExternalCall" /\ ~zeroed(i)
           \/ \E n \in Visited(f.body) : is_external(n) /\ SelfField("taxPool") \in Visited(n.args)

TaxDistribution(c) ==
    IF Named(c, "distributeTaxes") = {} THEN {}
    ELSE DistributeOnTransferPath(c)
         \cup NamesOf({f \in Named(c, "distributeTaxes") : DistributeUnbounded(c, f) \/ DistributeUnsettled(c, f)})

-----------------------------------------------------------------------------
(* SAFETY-021: isTaxable is pure.  SAFETY-022: a raise of the fees waits.    *)

CollectionReads == {"get", "getOr", "has", "contains", "keys", "values", "entries", "len", "isEmpty", "indexOf",
                    "slice", "concat", "map", "filter", "find", "some", "every", "reduce"}
Randomness == {"random", "randao", "prevrandao"}

\* ImpurityScanner
Impure(n) ==
    \/ n.k \in Assigns /\ StateWriteKey(n.l) # None
    \/ n.k = "New"
    \/ n.k = "Member" /\ n.e = Ident("block") /\ n.name \in Randomness
    \/ n.k = "Call" /\ n.callee.k = "Ident" /\ n.callee.name \in {"SystemTime", "random", "rand"}
    \/ n.k = "Call" /\ n.callee.k = "Member" /\ ~IsSelf(n.callee.e)
       /\ ~(IsSelfField(n.callee.e) /\ n.callee.name \in CollectionReads)

TaxablePredicateImpure(c) == NamesOf({f \in Named(c, "isTaxable") : \E n \in Visited(f.body) : Impure(n)})

RECURSIVE ReadsBlockHeight(_)

ReadsBlockHeight(e) ==
    \/ e = Member(Ident("block"), "height")
    \/ e.k = "Binary" /\ (ReadsBlockHeight(e.l) \/ ReadsBlockHeight(e.r))
    \/ e.k = "Unary" /\ ReadsBlockHeight(e.e)
    \/ e.k = "Ternary" /\ \E i \in DOMAIN e.es : ReadsBlockHeight(e.es[i])

HasTimelock(stmts) ==
    \E a \in Visited(stmts) : a.k \in Assigns /\ a.l = SelfField("feeEffectiveBlock") /\ ReadsBlockHeight(a.r)

\* classify_fees_setter_shape = CanonicalTimelock
CanonicalTimelock(body) ==
    LET writes(s) == FeesWrites(<<s>>) # {}
        branches(s) == FeesWrites(s.then) \cup FeesWrites(s.else_) # {}
    IN  /\ \A i \in DOMAIN body : body[i].k # "If" => ~writes(body[i])
        /\ \E i \in DOMAIN body :
              body[i].k = "If" /\ branches(body[i]) /\ (HasTimelock(body[i].then) \/ HasTimelock(body[i].else_))

FeeRaiseNoTimelock(c) ==
    NamesOf({f \in Functions(c) : FeesWrites(f.body) # {} /\ (CallsHelper(c, f) \/ ~CanonicalTimelock(f.body))})

Tax(c) == IF IsTaxToken(c) THEN TaxDistribution(c) \cup TaxablePredicateImpure(c) \cup FeeRaiseNoTimelock(c) ELSE {}

-----------------------------------------------------------------------------
(* SAFETY-011, 012, 023.                                                     *)

CollectionMethods ==
    (CollectionReads \ {"len", "isEmpty"})
    \cup {"set", "delete", "mapValues", "add", "remove", "intersection", "union", "difference", "push", "pop", "insert",
          "removeAt", "clear", "first", "last", "findIndex", "count", "sum", "max", "min", "sort", "sortBy", "reverse",
          "enumerate", "zip", "flatten", "chunk"}

\* is_self_field_call, is_ungated_delegate_call
IsSelfFieldCall(e) == e.callee.k = "Member" /\ IsSelfField(e.callee.e) /\ e.callee.name \notin CollectionMethods
IsDelegateCall(e) == e.callee.k = "Member" /\ ~IsSelfField(e.callee.e) /\ e.callee.name = "delegateCall"

UnsafeDelegate(c) ==
    NamesOf({f \in Functions(c) :
               \E e \in Visited(f.body) :
                  e.k = "Call" /\ (IsSelfFieldCall(e) \/ (IsDelegateCall(e) /\ ~Annotated(f, "allowDelegate")))})

RECURSIVE HasArithmetic(_)

\* first_arithmetic_op
HasArithmetic(e) ==
    CASE e.k = "Binary" -> e.op \in {"Add", "Sub", "Mul"} \/ HasArithmetic(e.l) \/ HasArithmetic(e.r)
      [] e.k = "Index" -> HasArithmetic(e.l) \/ HasArithmetic(e.r)
      [] e.k \in {"Unary", "Member", "Cast"} -> HasArithmetic(e.e)
      [] OTHER -> FALSE

UncheckedArithmetic(c) ==
    NamesOf({f \in Functions(c) :
               \E u \in Visited(f.body) :
                  u.k = "Unchecked" /\ \E a \in Visited(u.body) :
                                          a.k \in Assigns /\ StateWriteKey(a.l) # None /\ HasArithmetic(a.r)})

\* SAFETY-023: a wallet cap consults the list of exempt wallets.
ConsultsExempt(stmts) ==
    \E n \in Visited(stmts) :
       n = SelfField("walletExempt") \/ (n.k = "Call" /\ CallName(n.callee) = "isWalletExempt")

MaxWalletNoExempt(c) ==
    IF "maxWallet" \notin DOMAIN c.config THEN {}
    ELSE IF Entries(c) = {} THEN {"transfer"}
    ELSE NamesOf({f \in Entries(c) : ~ConsultsExempt(f.body)})

MissingOwner(c) ==
    NamesOf({f \in Functions(c) : c.base = None /\ RequiresOwnerOnly(f) /\ "owner" \notin DOMAIN c.fields})

-----------------------------------------------------------------------------
(* SAFETY-014 to 019: what an agent may call.                                *)

PolicyMutations ==
    {"grantAgent", "revokeAgent", "updateAgentPolicy", "setAgentPolicy", "grantAgentPolicy", "extendAgentPolicy",
     "setRefillPerEpoch", "setActiveWindow", "setCosignThreshold", "setAutoRevoke", "updateCategories",
     "setAgentsPaused", "pauseAgents", "unpauseAgents", "setKyaTier", "updateKyaTier"}
GrantCalls == {"grantAgent", "grantAgentPolicy", "extendAgentPolicy"}
TransferCalls == {"transfer", "transferFrom", "send", "sendValue", "call"}
AgentState == {"agentPolicies", "agentPolicy", "agents_paused", "agentsPaused", "agentBudgets", "agentBudget",
               "spentTotal", "spent_total", "spentThisEpoch", "spent_this_epoch", "sessionKeys", "sessionKey"}

IsAgentCallable(f) == Annotated(f, "agentCallable")
CallNames(stmts) == {CallName(n.callee) : n \in {n \in Visited(stmts) : n.k = "Call"}}

\* The functions an agent reaches through f, f included.
AgentReach(c, f) == {g \in Functions(c) : g.name \in CalleesOf({f.name}, BuildCallGraph(c))}

\* extract_max_value_out: the literal after maxValueOut in @agentCallable, None if there is none.
MaxValueOut(f) == (CHOOSE a \in f.annotations : a.name = "agentCallable").arg
ZeroCap(f) == MaxValueOut(f) = IntLit(0)

LoopBodies(stmts) == {s.body : s \in {s \in Visited(stmts) : s.k \in Loops}}

AgentOutflowUnbounded(c) ==
    NamesOf({f \in Functions(c) :
               /\ IsAgentCallable(f)
               /\ \/ MaxValueOut(f) = None \/ MaxValueOut(f).k \notin {"Int", "IntTyped", "Hex"}
                  \/ \E g \in AgentReach(c, f) :
                        \/ ZeroCap(f) /\ CallNames(g.body) \cap TransferCalls # {}
                        \/ \E body \in LoopBodies(g.body) : CallNames(body) \cap TransferCalls # {}})

\* SAFETY-015: with or without an agent that reaches it.
AgentPolicySelfEscalation(c) == NamesOf({f \in Functions(c) : f.name \in PolicyMutations /\ ~RequiresOwnerOnly(f)})

\* Mutant: only what the entry calls itself is searched for grants.
AgentReGrantDirect(c) ==
    NamesOf({f \in Functions(c) : IsAgentCallable(f) /\ CallNames(f.body) \cap GrantCalls # {}})

AgentReGrant(c) ==
    NamesOf({f \in Functions(c) :
               IsAgentCallable(f) /\ \E g \in AgentReach(c, f) : CallNames(g.body) \cap GrantCalls # {}})

AgentGateBypassed(c) ==
    NamesOf({f \in Functions(c) :
               /\ ~IsAgentCallable(f) /\ ~RequiresOwnerOnly(f)
               /\ {SelfField(field) : field \in AgentState} \cap Visited(f.body) # {}})

CosignActions == {"cosignedAction", "approvedAction", "ownerApproved", "coSignedTransfer", "coSignedWithdraw"}
AgentSigners == {Member(Ident("msg"), key) : key \in {"sessionKey", "agentKey", "signerKey"}}

AgentCosignForgeable(c) ==
    NamesOf({f \in Functions(c) :
               /\ Annotated(f, "cosignRequired") \/ f.name \in CosignActions
               /\ \/ AgentSigners \cap Visited(f.body) # {}
                  \/ SelfField("owner") \notin Visited(f.body)
                     /\ CallNames(f.body) \cap {"requireOwner", "isOwner"} = {}})

AnomalyPredicates == {"checkAnomaly", "isAnomalous", "anomalyGuard", "shouldAutoRevoke", "deadmanCheck"}
NonDeterministicCalls == {"random", "rand", "getRandom", "getEntropy", "currentTime", "getTime", "now", "SystemTime"}

AgentAnomalyNonDeterministic(c) ==
    NamesOf({f \in Functions(c) :
               /\ Annotated(f, "anomalyGuard") \/ f.name \in AnomalyPredicates
               /\ \/ ExtCalls(f.body) # {}
                  \/ \E n \in Visited(f.body) :
                        \/ n.k = "Call" /\ n.callee.k = "Ident" /\ n.callee.name \in NonDeterministicCalls
                        \/ n.k = "Member" /\ n.e = Ident("block") /\ n.name \in Randomness})

-----------------------------------------------------------------------------

\* analyze_safety: the functions rejected, by any rule.
AnalyzeSafety(c) ==
    StateAfterCall(c) \cup UncheckedArithmetic(c) \cup HookEscape(c) \cup UnsafeDelegate(c) \cup FeeTooHigh(c)
    \cup SupplyCapViolation(c) \cup UnboundedApproval(c) \cup UnsafeUpgrade(c) \cup OneWayGate(c)
    \cup UngovernedBlacklist(c) \cup Honeypot(c) \cup UndeclaredRestriction(c) \cup Tax(c)
    \cup MaxWalletNoExempt(c) \cup MissingOwner(c) \cup SellPathExternalVeto(c)
    \cup AgentOutflowUnbounded(c) \cup AgentPolicySelfEscalation(c) \cup AgentReGrant(c)
    \cup AgentGateBypassed(c) \cup AgentCosignForgeable(c) \cup AgentAnomalyNonDeterministic(c)

Accepted(c) == AnalyzeSafety(c) = {}
=============================================================================
