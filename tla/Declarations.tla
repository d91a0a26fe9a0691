---------------------------- MODULE Declarations ----------------------------
(***************************************************************************)
(* The well-formedness rules about declarations (WF-008 to WF-018 of       *)
(* type_checker/wellformed/mod.rs): interfaces and traits, recursive       *)
(* types, events, constants, token configurations, effects, annotations.   *)
(***************************************************************************)
EXTENDS WellFormed

-----------------------------------------------------------------------------
(* Interfaces and traits: WF-008 to WF-010 *)

\* A trait has `methods`, of which `required` have no body, and `state`.
InterfaceCompleteness(c) ==
    LET provided == FunctionNames(c) \cup UNION {c.traits[t].methods : t \in c.uses \cap DOMAIN c.traits}
    IN  UNION {c.interfaces[i] \ provided : i \in c.implements \cap DOMAIN c.interfaces}

TraitUsesCompleteness(c) ==
    UNION {(c.traits[t].required \ FunctionNames(c)) \cup (c.traits[t].state \ DOMAIN c.fields) :
           t \in c.uses \cap DOMAIN c.traits}

SpecialFnUniqueness(c) == {k \in DOMAIN c.special : c.special[k] > 1}

-----------------------------------------------------------------------------
(* Recursive types: WF-011.  A type is a name, or [k, args].                 *)

RECURSIVE ByValueNamedIds(_)

\* The declared types a value of type ty holds inline.
ByValueNamedIds(ty) ==
    CASE ty.k = "Named" -> {ty.name}
      [] ty.k \in {"Tuple", "FixedArray", "Result"} -> UNION {ByValueNamedIds(a) : a \in ToSet(ty.args)}
      [] OTHER -> {}

Adjacency(sigs) == [t \in DOMAIN sigs |-> UNION {ByValueNamedIds(f) : f \in sigs[t].holds}]

RECURSIVE DfsDetectCycle(_, _, _, _), DfsAll(_, _, _, _)

\* The search keeps what it has finished (visited) and reported; visiting is the stack above node.
DfsDetectCycle(node, adjacency, visiting, found) ==
    IF node \in found.visited THEN found
    ELSE IF node \in visiting THEN [found EXCEPT !.reported = @ \cup {node}]
    ELSE LET deps == IF node \in DOMAIN adjacency THEN adjacency[node] ELSE {}
             below == DfsAll(deps, adjacency, visiting \cup {node}, found)
         IN  [below EXCEPT !.visited = @ \cup {node}]

DfsAll(nodes, adjacency, visiting, found) ==
    IF nodes = {} THEN found
    ELSE LET first == CHOOSE n \in nodes : TRUE
         IN  DfsAll(nodes \ {first}, adjacency, visiting, DfsDetectCycle(first, adjacency, visiting, found))

RecursiveType(c) ==
    LET adjacency == Adjacency(c.sigs)
    IN  DfsAll(DOMAIN adjacency, adjacency, {}, [visited |-> {}, reported |-> {}]).reported

-----------------------------------------------------------------------------
(* Events and constants: WF-012, WF-013 *)

\* An emit names an event and gives fields, a sequence of [key, ty].
SingleEmit(c, emit) ==
    IF emit.event \notin DOMAIN c.events THEN {emit.event}
    ELSE LET schema == c.events[emit.event]
             keys == {f.key : f \in ToSet(emit.fields)}
         IN  {emit.fields[i].key : i \in {i \in DOMAIN emit.fields : \E j \in 1..(i - 1) : emit.fields[j].key = emit.fields[i].key}}
             \cup (keys \ DOMAIN schema) \cup (DOMAIN schema \ keys)
             \cup {f.key : f \in {f \in ToSet(emit.fields) : f.key \in DOMAIN schema /\ f.ty \notin {schema[f.key], None}}}

RECURSIVE EmitsIn(_)

EmitsIn(stmts) ==
    UNION {LET s == stmts[i] IN
             {e \in {s} : s.k = "Emit"} \cup UNION {EmitsIn(b) : b \in Blocks(s) \cup BodiesInStmt(s)} : i \in DOMAIN stmts}

EmitSchema(c) == UNION {SingleEmit(c, e) : e \in UNION {EmitsIn(b) : b \in AllBodies(c)}}

RECURSIVE NonConst(_, _)

\* What in an initializer is not evaluable; a name that was not resolved passes.
NonConst(c, e) ==
    CASE e.k \in {"True", "False", "Int", "Str"} -> {}
      [] e.k = "Ident" -> {e.name} \cap ({"msg", "block"} \cup (DOMAIN c.types \ DOMAIN c.consts))
      [] e.k \in {"Binary", "Unary", "Tuple", "Array", "Struct_"} -> UNION {NonConst(c, x) : x \in ToSet(ExprChildren(e))}
      [] OTHER -> {e.k}

ConstEvaluability(c) == UNION {NonConst(c, c.consts[n]) : n \in DOMAIN c.consts}

-----------------------------------------------------------------------------
(* Token configurations: WF-014 *)

StrKind == {"Str"}
IntKind == {"Int"}
BoolKind == {"True", "False"}

\* The mandatory keys of a base and what their values may be.
TokenKeys == [name |-> StrKind, symbol |-> StrKind, decimals |-> IntKind, maxSupply |-> IntKind]
NftKeys == [name |-> StrKind, symbol |-> StrKind, maxSupply |-> IntKind]
MultiTokenKeys == [name |-> StrKind]
VaultKeys == [name |-> StrKind, asset |-> StrKind]
Mandatory == [Token |-> TokenKeys, TaxToken |-> TokenKeys, NFT |-> NftKeys, MultiToken |-> MultiTokenKeys, Vault |-> VaultKeys]

OptionalKeys ==
    [maxWallet |-> IntKind, approvalExpiry |-> {"Unit", "Int"}, approvalOneTime |-> BoolKind, mintable |-> BoolKind,
     pausable |-> BoolKind, freezable |-> BoolKind, upgradeable |-> BoolKind, externalChecker |-> StrKind]
NoKeys == [k \in {} |-> {}]

\* The limit is read as a u16, which wraps.
MaxFeeBps(c) ==
    IF Configured(c, "maxFeePercent", IntKind) THEN c.config["maxFeePercent"].n % (U16_MAX + 1) ELSE PROTOCOL_MAX_FEE_BPS

\* A fee block: burn, holders and others, all integers, within the limit.
BadFees(c, fees) ==
    \/ fees.k # "Object"
    \/ DOMAIN fees.entries # {"burn", "holders", "others"}
    \/ \E k \in DOMAIN fees.entries : fees.entries[k].k # "Int"
    \/ fees.entries["burn"].n + fees.entries["holders"].n + fees.entries["others"].n > MaxFeeBps(c)
    \/ fees.entries["others"].n > 0 /\ "distributeTaxes" \notin FunctionNames(c)

BadMaxFee(max) == max.k # "Int" \/ max.n > PROTOCOL_MAX_FEE_BPS

TaxSchema(c) ==
    {k \in {"fees"} : k \notin DOMAIN c.config \/ BadFees(c, c.config[k])}
    \cup {k \in {"maxFeePercent"} \cap DOMAIN c.config : BadMaxFee(c.config[k])}

TokenConfig(c) ==
    IF c.base \notin DOMAIN Mandatory THEN {}
    ELSE LET mandatory == Mandatory[c.base]
             optional == IF c.base \in {"Token", "TaxToken"} THEN OptionalKeys ELSE NoKeys
             known == DOMAIN mandatory \cup DOMAIN optional
                        \cup IF c.base = "TaxToken" THEN {"fees", "maxFeePercent"} ELSE {}
         IN  {k \in DOMAIN mandatory : ~Configured(c, k, mandatory[k])}
             \cup {k \in DOMAIN optional \cap DOMAIN c.config : ~Configured(c, k, optional[k])}
             \cup (DOMAIN c.config \ known)
             \cup {k \in {"maxWallet"} \cap DOMAIN c.config \cap known :
                     "isWalletExempt" \notin FunctionNames(c) /\ "walletExempt" \notin DOMAIN c.fields}
             \cup IF c.base = "TaxToken" THEN TaxSchema(c) ELSE {}

-----------------------------------------------------------------------------
(* Effects and annotations: WF-015 to WF-018 *)

\* PureChecker: a state read hides what is below it, msg and block are context.
PureViolations(f) == {n \in Visited(f.body) : IsSelfField(n) \/ n \in {Ident("msg"), Ident("block")}}

\* ViewChecker: only an assignment to self.<field> itself counts.
ViewViolations(f) == {n \in Visited(f.body) : n.k \in Assigns /\ IsSelfField(n.l)}

EffectConformance(c) ==
    NamesOf({f \in Functions(c) : \/ f.mutability = "Pure" /\ PureViolations(f) # {}
                                  \/ f.mutability = "View" /\ ViewViolations(f) # {}})

\* The argument of an annotation here is that of maxValueOut.
AgentCallableAnnotation(c) ==
    NamesOf({f \in Functions(c) : \E a \in f.annotations :
               a.name = "agentCallable" /\ (a.arg = None \/ a.arg.k # "Int")})

CosignPlacement(c) ==
    NamesOf({f \in Functions(c) : f.name # "init" /\ Annotated(f, "cosignRequired") /\ f.visibility \notin {"Pub", "External"}})

AnomalyGuardPlacement(c) ==
    NamesOf({f \in Functions(c) : f.name # "init" /\ Annotated(f, "anomalyGuard") /\ f.ret # "Bool"})

\* check: a contract is accepted when no rule objects.
WellFormedContract(c) ==
    /\ StateInit(c) = {} /\ ImmutableOnce(c) = {} /\ InitWellformed(c) = {}
    /\ ReturnCompleteness(c) = {} /\ MatchExhaustiveness(c) = {} /\ PlaceholderScope(c) = {} /\ LoopControlFlow(c) = {}
    /\ InterfaceCompleteness(c) = {} /\ TraitUsesCompleteness(c) = {} /\ SpecialFnUniqueness(c) = {} /\ RecursiveType(c) = {}
    /\ EmitSchema(c) = {} /\ ConstEvaluability(c) = {} /\ TokenConfig(c) = {} /\ EffectConformance(c) = {}
    /\ AgentCallableAnnotation(c) = {} /\ CosignPlacement(c) = {} /\ AnomalyGuardPlacement(c) = {}
=============================================================================
