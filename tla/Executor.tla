------------------------------ MODULE Executor ------------------------------
(***************************************************************************)
(* The transaction executor (lemma-vm/src/executor.rs and executor/): the  *)
(* intrinsic charge, the Warden, transfers, deploys, calls with nested     *)
(* calls between contracts (linker.rs, host.rs), gas (gas.rs), settlement. *)
(*                                                                         *)
(* A contract is an arbitrary program: between two host calls it burns     *)
(* fuel, and it may trap at any time; an operation that lacks gas traps,   *)
(* which is one of the traps it may take anyway.  Code is a record of what *)
(* the executor finds out about a module.  Transactions run one after      *)
(* another (Flux models the parallel scheduler).                           *)
(***************************************************************************)
EXTENDS Warden, Scratch

Seqs == INSTANCE SequencesExt

CONSTANTS
    Accounts,              \* addresses: users and contracts
    Workloads,             \* [txs, limit, ops]: the transactions of a behaviour, how many of
                           \* them run, and the host operations of each
    Keys, Values, Targets, \* storage keys, values and accounts the contracts use
    Schedule,              \* GasSchedule
    FORWARD_DIVISOR,       \* 64: the share of its gas a caller keeps
    MAX_CALL_DEPTH,
    MAX_CONTRACT_WASM_SIZE, MAX_SUPPORTED_HOST_ABI,
    GenesisWorld,
    AddressFromDeployer(_, _),
    Registry,              \* address of the registry system contract
    MaxCallEpoch           \* bound of the model

VARIABLES
    world,      \* committed state: storage, balance, nonce, code, code_store, policy, paused
    workload,   \* the transactions clients submit in this behaviour
    running,    \* the transaction under way, or None
    frames,     \* its stack of HostStates, the entry contract first
    receipt,    \* of the last transaction
    finished,   \* number of transactions executed
    warm_code,  \* code already compiled in this block
    manifests,  \* cached safety manifests, by contract
    block_epoch, \* of the block
    ops,        \* host operations of the running transaction
    views,      \* ghost: what each frame should see, see OverlayExact
    moved,      \* ghost: value of an agent's executed transactions, by epoch
    refused     \* ghost: violations counted against the agent, by epoch

xvars == <<world, workload, running, frames, receipt, finished, warm_code, manifests,
           block_epoch, ops, views, moved, refused>>
block == <<workload, block_epoch>>
Slots == Accounts \X Keys

ExecInit ==
    /\ world = GenesisWorld
    /\ workload \in Workloads
    /\ running = None /\ frames = <<>> /\ ops = 0
    /\ receipt = [ok |-> TRUE, gas_used |-> 0, logs |-> <<>>, gas_limit |-> 0]
    /\ finished = 0
    /\ warm_code = {} /\ manifests = <<>>
    /\ block_epoch = 0
    /\ views = <<>> /\ moved = [e \in 0..MaxCallEpoch |-> 0] /\ refused = [e \in 0..MaxCallEpoch |-> 0]

-----------------------------------------------------------------------------
(* Gas *)

IntrinsicGas(tx) == Schedule.tx_base + Schedule.tx_calldata_per_byte * tx.data.size

Forwardable(gas) == gas - gas \div FORWARD_DIVISOR

\* What is left when the transaction's own work begins.
MeterAtStart(tx) ==
    tx.gas_limit - IntrinsicGas(tx) - (IF tx.session_key THEN Schedule.warden_check ELSE 0)

-----------------------------------------------------------------------------
(* Settlement *)

\* Mutant: a failed transaction leaves its transfers behind.
FailedKeepsBalances(s, tx) ==
    [world EXCEPT !.nonce[tx.sender] = @ + 1, !.balance = s.balance @@ @]

Failed(s, tx) == [world EXCEPT !.nonce[tx.sender] = @ + 1]

\* The transaction ends with this world state and receipt.
Finish(tx, new_world, ok, remaining, logs) ==
    /\ world' = new_world
    /\ receipt' = [ok |-> ok, gas_used |-> tx.gas_limit - remaining, logs |-> logs,
                   gas_limit |-> tx.gas_limit]
    /\ finished' = finished + 1
    /\ running' = None /\ frames' = <<>> /\ views' = <<>> /\ ops' = 0
    /\ moved' = IF ok /\ tx.session_key THEN [moved EXCEPT ![block_epoch] = @ + tx.value] ELSE moved
    /\ UNCHANGED block

\* settle: a success is checked against the manifest of the entry contract
\* before it is committed; the mandate receipt of the Warden comes first.
Settle(tx, ok, logs, contract, manifest, s, remaining) ==
    LET held == ok /\ ValidateSafetyInvariants(manifest, contract, s.storage, world.storage)
    IN  /\ Finish(tx, IF held THEN CommitWithNonce(world, s, tx.sender) ELSE Failed(s, tx),
                  held, remaining,
                  IF held THEN (IF tx.session_key THEN <<"warden">> ELSE <<>>) \o logs ELSE <<>>)
        /\ UNCHANGED refused

-----------------------------------------------------------------------------
(* Before execution *)

Ready(tx) == running = None /\ finished < workload.limit /\ tx \in workload.txs

\* The intrinsic charge fails: the whole gas limit is gone.
IntrinsicFails(tx) ==
    /\ Ready(tx)
    /\ tx.gas_limit < IntrinsicGas(tx)
    /\ Finish(tx, Failed(NewScratch(world.policy), tx), FALSE, 0, <<>>)
    /\ UNCHANGED <<warm_code, manifests, refused>>

Outcome(tx) == WardenOutcome(world.policy, world.paused, tx, block_epoch)

\* fail_before_execution: no gas for the check, or the owner has to co-sign.
FailBeforeExecution(tx) ==
    LET remaining == IF MeterAtStart(tx) < 0 THEN tx.gas_limit - IntrinsicGas(tx) ELSE MeterAtStart(tx)
    IN  /\ Ready(tx)
        /\ tx.session_key
        /\ tx.gas_limit >= IntrinsicGas(tx)
        /\ MeterAtStart(tx) < 0 \/ Outcome(tx) = "PendingOwnerCosign"
        /\ Finish(tx, Failed(NewScratch(world.policy), tx), FALSE, remaining, <<>>)
        /\ UNCHANGED <<warm_code, manifests, refused>>

\* A violation: counted by the dead-man's switch unless the owner paused agents.
WardenRefuses(tx) ==
    LET policy == IF world.paused THEN world.policy ELSE HandleViolation(world.policy, block_epoch)
    IN  /\ Ready(tx)
        /\ tx.session_key
        /\ MeterAtStart(tx) >= 0
        /\ Outcome(tx) \in {"AgentsPaused", "PolicyNotFound", "Violation"}
        /\ Finish(tx, [Failed(NewScratch(policy), tx) EXCEPT !.policy = policy],
                  FALSE, MeterAtStart(tx), <<>>)
        /\ refused' = IF world.policy = None \/ world.paused THEN refused
                      ELSE [refused EXCEPT ![block_epoch] = @ + 1]
        /\ UNCHANGED <<warm_code, manifests>>

\* The guard of everything below, and the scratch it starts from.
Cleared(tx) ==
    /\ Ready(tx)
    /\ tx.gas_limit >= IntrinsicGas(tx)
    /\ MeterAtStart(tx) >= 0
    /\ tx.session_key => Outcome(tx) = "Applied"

Scratched(tx) ==
    NewScratch(IF tx.session_key THEN Spent(world.policy, tx, block_epoch) ELSE world.policy)

-----------------------------------------------------------------------------
(* Transfers *)

\* Debit, then credit what is there after the debit: a transfer to oneself is none.
Moved(s, from, to, amount) ==
    LET debited == [s EXCEPT !.balance = (from :> SnapBalance(world, s, from) - amount) @@ @]
    IN  [debited EXCEPT !.balance = (to :> SnapBalance(world, debited, to) + amount) @@ @]

ExecuteTransfer(tx) ==
    LET s == Scratched(tx)
        remaining == MeterAtStart(tx) - Schedule.call_value_transfer
        funded == tx.to # None /\ world.balance[tx.sender] >= tx.value
    IN  /\ Cleared(tx)
        /\ tx.tx_type = "Transfer"
        /\ \/ /\ remaining < 0
              /\ Settle(tx, FALSE, <<>>, tx.sender, {}, s, MeterAtStart(tx))
           \/ /\ remaining >= 0
              /\ Settle(tx, funded, <<>>, tx.sender, {},
                        IF funded THEN Moved(s, tx.sender, tx.to, tx.value) ELSE s,
                        remaining)
        /\ UNCHANGED <<warm_code, manifests>>

ExecuteUnsupported(tx) ==
    /\ Cleared(tx)
    /\ tx.tx_type \notin {"Transfer", "ContractDeploy", "ContractCall"}
    /\ Settle(tx, FALSE, <<>>, tx.sender, {}, Scratched(tx), MeterAtStart(tx))
    /\ UNCHANGED <<warm_code, manifests>>

-----------------------------------------------------------------------------
(* Running a contract *)

\* A full view of the state, kept beside each frame: what the frame would see if
\* a call copied the whole state and a return put the copy in the caller's place.
ViewOf(s, events) ==
    [storage |-> [k \in Slots |-> SnapRead(world, s, k)],
     balance |-> [a \in Accounts |-> SnapBalance(world, s, a)],
     events |-> events]

\* Start the entry contract with the rest of the gas.
Enter(tx, kind, contract, manifest, s, remaining) ==
    /\ running' = [tx |-> tx, kind |-> kind, contract |-> contract, manifest |-> manifest,
                   scratch |-> s, meter |-> remaining]
    /\ frames' = <<[contract |-> contract, msg_sender |-> tx.sender, callee |-> contract,
                    mode |-> "Normal", fuel |-> remaining, active |-> {}, state |-> Snapshot(s),
                    events |-> <<>>]>>
    /\ views' = <<ViewOf(Snapshot(s), <<>>)>>
    /\ UNCHANGED <<world, receipt, finished, ops, moved, refused, block>>

\* execute_call up to the entry point.  The manifest is cached and the code made
\* warm even when the charge that follows fails.
ExecuteCall(tx) ==
    LET s == Scratched(tx)
        code == world.code[tx.to]
        manifest == Lookup(manifests, tx.to, code.manifest)
        check == IF manifest = {} THEN 0 ELSE Schedule.invariant_check
        cold == IF code \in warm_code THEN 0 ELSE Schedule.code_cold_surcharge
        meter == MeterAtStart(tx)
    IN  /\ Cleared(tx)
        /\ tx.tx_type = "ContractCall"
        /\ \/ /\ tx.to = None \/ (tx.to # None /\ world.code[tx.to] = None)
              /\ Settle(tx, FALSE, <<>>, tx.sender, {}, s, meter)
              /\ UNCHANGED <<warm_code, manifests>>
           \/ /\ tx.to # None /\ world.code[tx.to] # None
              /\ manifests' = (tx.to :> manifest) @@ manifests
              /\ \/ /\ meter < check
                    /\ Settle(tx, FALSE, <<>>, tx.to, manifest, s, meter)
                    /\ UNCHANGED warm_code
                 \/ /\ meter >= check
                    /\ warm_code' = warm_code \cup {code}
                    /\ IF meter - check < cold
                       THEN Settle(tx, FALSE, <<>>, tx.to, manifest, s, meter - check)
                       ELSE IF ~code.has_call
                       THEN Settle(tx, FALSE, <<>>, tx.to, manifest, s, meter - check - cold)
                       ELSE Enter(tx, "call", tx.to, manifest, s, meter - check - cold)

\* What execute_deploy does once init has run: register a token, charge for the
\* manifest and cache it, settle.
FinishDeploy(tx, contract, code, s, remaining) ==
    LET check == IF code.manifest = {} THEN 0 ELSE Schedule.invariant_check
        registered == IF code.is_token
                      THEN [s EXCEPT !.storage = (<<Registry, contract>> :> 1) @@ @] ELSE s
    IN  IF remaining < check
        THEN /\ Settle(tx, FALSE, <<>>, contract, code.manifest, registered, remaining)
             /\ UNCHANGED manifests
        ELSE /\ Settle(tx, TRUE, <<>>, contract, code.manifest, registered, remaining - check)
             /\ manifests' = (contract :> code.manifest) @@ manifests

ExecuteDeploy(tx) ==
    LET s == Scratched(tx)
        code == tx.data
        contract == AddressFromDeployer(tx.sender, world.nonce[tx.sender])
        cost == Schedule.deploy_base
                  + (IF HasCodeHash(world, s, code) THEN 0 ELSE Schedule.deploy_storage_per_byte * code.size)
        deployed == [s EXCEPT !.code = (contract :> code) @@ @]
        meter == MeterAtStart(tx)
    IN  /\ Cleared(tx)
        /\ tx.tx_type = "ContractDeploy"
        /\ \/ /\ \/ code.size > MAX_CONTRACT_WASM_SIZE
                 \/ world.code[contract] # None
                 \/ ~code.compiles
                 \/ code.host_abi > MAX_SUPPORTED_HOST_ABI
                 \/ meter < cost
              /\ Settle(tx, FALSE, <<>>, contract, {}, s, meter)
              /\ UNCHANGED manifests
           \/ /\ code.size <= MAX_CONTRACT_WASM_SIZE /\ world.code[contract] = None
              /\ code.compiles /\ code.host_abi <= MAX_SUPPORTED_HOST_ABI
              /\ meter >= cost
              /\ IF code.has_init
                 THEN Enter(tx, "deploy", contract, code.manifest, deployed, meter - cost) /\ UNCHANGED manifests
                 ELSE FinishDeploy(tx, contract, code, deployed, meter - cost)
        /\ UNCHANGED warm_code

-----------------------------------------------------------------------------
(* Host functions, called by the top frame *)

Top == frames[Len(frames)]
View == views[Len(views)]
OnTop(f, v) ==
    /\ frames' = [frames EXCEPT ![Len(frames)] = f]
    /\ views' = [views EXCEPT ![Len(views)] = v]

\* A host operation of this cost; without the gas the contract can only trap.
HostCall(cost) ==
    /\ running # None
    /\ ops < workload.ops
    /\ ops' = ops + 1
    /\ Top.fuel >= cost
    /\ UNCHANGED <<world, running, receipt, finished, warm_code, manifests, moved, refused, block>>

StorageWrite(key, value) ==
    LET slot == <<Top.contract, key>>
        cost == IF SnapExists(world, Top.state, slot) THEN Schedule.storage_write_update
                ELSE Schedule.storage_write_create
    IN  /\ HostCall(cost)
        /\ OnTop([Top EXCEPT !.fuel = @ - cost, !.state = SnapWrite(@, slot, value)],
                 [View EXCEPT !.storage[slot] = value])

StorageDelete(key) ==
    LET slot == <<Top.contract, key>>
    IN  /\ HostCall(Schedule.storage_delete)
        /\ OnTop([Top EXCEPT !.fuel = @ - Schedule.storage_delete, !.state = SnapDelete(@, slot)],
                 [View EXCEPT !.storage[slot] = NoValue])

\* transfer from the contract's own balance; without funds only the gas goes.
HostTransfer(to, amount) ==
    LET from == Top.contract
        funded == SnapBalance(world, Top.state, from) >= amount
    IN  /\ HostCall(Schedule.call_value_transfer)
        /\ OnTop([Top EXCEPT !.fuel = @ - Schedule.call_value_transfer,
                             !.state = IF funded
                                       THEN Moved(@, from, to, amount)
                                       ELSE @],
                 IF funded
                 THEN [View EXCEPT !.balance = [[@ EXCEPT ![from] = @ - amount] EXCEPT ![to] = @ + amount]]
                 ELSE View)

EmitEvent ==
    /\ HostCall(Schedule.emit_event_base)
    /\ OnTop([Top EXCEPT !.fuel = @ - Schedule.emit_event_base, !.events = Append(@, Top.contract)],
             [View EXCEPT !.events = Append(@, Top.contract)])

-----------------------------------------------------------------------------
(* Calls between contracts *)

\* enter_call; depth is the number of active callees.  The entry contract of the
\* transaction is not among them.
MayEnter(callee) == Cardinality(Top.active) < MAX_CALL_DEPTH /\ callee \notin Top.active

\* dispatch_call: the base cost and the forwarded gas leave the caller for good,
\* also when there is nothing to call.
DispatchCall(callee, gas, mode) ==
    LET after_base == Top.fuel - Schedule.call_base
        to_callee == IF gas <= Forwardable(after_base) THEN gas ELSE Forwardable(after_base)
        code == SnapCode(world, Top.state, callee)
        caller == [Top EXCEPT !.fuel = after_base - to_callee]
        frame == [contract |-> IF mode = "Delegate" THEN Top.contract ELSE callee,
                  msg_sender |-> IF mode = "Delegate" THEN Top.msg_sender ELSE Top.contract,
                  callee |-> callee, mode |-> mode, fuel |-> to_callee,
                  active |-> Top.active \cup {callee}, state |-> Top.state, events |-> <<>>]
    IN  /\ HostCall(Schedule.call_base)
        /\ MayEnter(callee)
        /\ IF code = None \/ (code # None /\ ~code.has_call)
           THEN OnTop(caller, View)
           ELSE /\ frames' = Append([frames EXCEPT ![Len(frames)] = caller], frame)
                /\ views' = Append(views, [View EXCEPT !.events = <<>>])

\* What a callee that returned leaves its caller.
Merged(f, caller) ==
    IF f.mode = "Static" THEN caller
    ELSE [caller EXCEPT !.state = MergeInto(f.state, @), !.events = @ \o f.events]

\* The callee returns or traps; the caller goes on in both cases.
CalleeEnds(ok) ==
    LET n == Len(frames)
        caller == frames[n - 1]
        seen == views[n - 1]
    IN  /\ running # None /\ n > 1
        /\ frames' = Append(SubSeq(frames, 1, n - 2), IF ok THEN Merged(Top, caller) ELSE caller)
        /\ views' = Append(SubSeq(views, 1, n - 2),
                           IF ok /\ Top.mode # "Static"
                           THEN [View EXCEPT !.events = seen.events \o @] ELSE seen)
        /\ UNCHANGED <<world, running, receipt, finished, warm_code, manifests, ops, moved, refused, block>>

\* The entry contract returns: its fuel is charged and its writes are settled.
EntryReturns ==
    LET r == running
        s == MergeSnapshot(r.scratch, Top.state)
    IN  /\ running # None /\ Len(frames) = 1
        /\ IF r.kind = "call"
           THEN Settle(r.tx, TRUE, Top.events, r.contract, r.manifest, s, Top.fuel) /\ UNCHANGED manifests
           ELSE FinishDeploy(r.tx, r.contract, r.tx.data, s, Top.fuel)
        /\ UNCHANGED warm_code

\* The entry contract traps: what it burnt is not charged to the meter.
EntryTraps ==
    /\ running # None /\ Len(frames) = 1
    /\ Settle(running.tx, FALSE, <<>>, running.contract, running.manifest, running.scratch, running.meter)
    /\ UNCHANGED <<warm_code, manifests>>

NextBlock ==
    /\ running = None /\ block_epoch < MaxCallEpoch
    /\ block_epoch' = block_epoch + 1
    /\ warm_code' = {} /\ manifests' = <<>>
    /\ UNCHANGED <<world, workload, running, frames, receipt, finished, ops, views, moved, refused>>

ExecNext ==
    \/ \E tx \in workload.txs :
         \/ IntrinsicFails(tx) \/ FailBeforeExecution(tx) \/ WardenRefuses(tx)
         \/ ExecuteTransfer(tx) \/ ExecuteCall(tx) \/ ExecuteDeploy(tx) \/ ExecuteUnsupported(tx)
    \/ \E k \in Keys, v \in Values : StorageWrite(k, v)
    \/ \E k \in Keys : StorageDelete(k)
    \/ \E a \in Targets : HostTransfer(a, 1)
    \/ EmitEvent
    \/ \E a \in Targets, m \in {"Normal", "Static", "Delegate"} : DispatchCall(a, Top.fuel, m)
    \/ \E ok \in BOOLEAN : CalleeEnds(ok)
    \/ EntryReturns \/ EntryTraps
    \/ NextBlock

-----------------------------------------------------------------------------
(* Properties *)

Policies == {world.policy} \ {None}

ExecTypeOK ==
    /\ world.balance \in [Accounts -> Nat] /\ world.nonce \in [Accounts -> 0..workload.limit]
    /\ \A slot \in DOMAIN world.storage : slot \in Slots \cup ({Registry} \X Accounts)
    /\ running = None <=> frames = <<>>
    /\ Len(views) = Len(frames)
    /\ \A i \in DOMAIN frames :
         /\ frames[i].fuel \in Nat
         /\ DOMAIN frames[i].state.storage \cap frames[i].state.deletes = {}
    /\ receipt.gas_used \in 0..receipt.gas_limit

\* Every running contract reads through its overlay what it would read of a full
\* copy of the state that a call hands down and an ordinary return hands back:
\* a static or trapped callee leaves nothing, deletes survive the merges.
OverlayExact ==
    \A i \in DOMAIN frames : ViewOf(frames[i].state, frames[i].events) = views[i]

\* A transaction that fails changes no storage, balance or code; one that
\* succeeds leaves exactly what its entry contract saw when it returned.  Either
\* way it takes one nonce of its sender and no other.
AllOrNothing ==
    [][finished' > finished =>
        /\ \E a \in Accounts : world'.nonce = [world.nonce EXCEPT ![a] = @ + 1]
        /\ IF receipt'.ok
           THEN frames # <<>> =>
                  /\ [s \in Slots |-> Lookup(world'.storage, s, NoValue)] = views[1].storage
                  /\ world'.balance = views[1].balance
                  /\ running.kind = "call" => Seqs!IsSuffix(views[1].events, receipt'.logs)
           ELSE /\ world'.storage = world.storage /\ world'.balance = world.balance
                /\ world'.code = world.code /\ receipt'.logs = <<>>]_xvars

SumOf(balance) == MapThenSumSet(LAMBDA a : balance[a], Accounts)

\* Transfers, by transactions and by contracts at any call depth, neither create
\* nor destroy value.
ValueConserved ==
    /\ SumOf(world.balance) = SumOf(GenesisWorld.balance)
    /\ \A i \in DOMAIN frames :
         SumOf([a \in Accounts |-> SnapBalance(world, frames[i].state, a)]) = SumOf(GenesisWorld.balance)

\* The gas held by a stack of calls never exceeds what the entry contract was
\* given, and no caller is left with less than its reserved share of the fuel it
\* had when it called.
GasConserved ==
    /\ running # None => FoldFunction(LAMBDA f, sum : f.fuel + sum, 0, frames) <= running.meter
    /\ \A i \in DOMAIN frames : \A j \in DOMAIN frames :
         i < j => frames[j].fuel <= frames[i].fuel * FORWARD_DIVISOR + FORWARD_DIVISOR - 1

\* No contract is called twice on one stack (enter_call), so the stack is bounded
\* by the number of contracts and by MAX_CALL_DEPTH.
CalledOnce ==
    /\ \A i, j \in 2..Len(frames) : i # j => frames[i].callee # frames[j].callee
    /\ Len(frames) <= MAX_CALL_DEPTH + 1

\* What an agent has spent is what its executed transactions moved: the counters
\* agree with them, whatever failed, was refused or crossed an epoch in between,
\* and so the caps of the policy bound them.
AgentSpendingCapped ==
    \A p \in Policies :
        LET total == MapThenSumSet(LAMBDA e : moved[e], 0..MaxCallEpoch)
        IN  /\ p.spent_total = total
            /\ p.last_epoch = block_epoch => p.spent_this_epoch = moved[block_epoch]
            /\ \A e \in 0..MaxCallEpoch : moved[e] <= p.per_epoch_cap
            /\ total <= GenesisWorld.policy.budget_total + block_epoch * p.refill_per_epoch

\* An agent that reached its violation limit in one epoch is revoked in that
\* epoch and stays revoked.
RevokedForGood ==
    \A p \in Policies :
        (p.max_violations_per_epoch > 0
          /\ \E e \in 0..MaxCallEpoch : refused[e] >= p.max_violations_per_epoch)
            => p.expiry_epoch <= block_epoch

FeesOf(contract, c, storage) ==
    MapThenSumSet(LAMBDA k : Lookup(storage, <<contract, k>>, 0), c.fee_keys)

\* A transaction that enters a contract cannot lower a field the contract only
\* raises, nor take its fees over their cap, through any nesting of calls,
\* deletes and rewrites.  (Contracts that are only called are not checked.)
RatchetsHold ==
    [][running # None /\ running' = None =>
        \A c \in running.manifest :
          /\ c.type = "ratchet_up" =>
               Lookup(world'.storage, <<running.contract, c.key>>, 0)
                 >= Lookup(world.storage, <<running.contract, c.key>>, 0)
          /\ c.type = "fee_cap" /\ FeesOf(running.contract, c, world.storage) <= c.max_sum_bps =>
               FeesOf(running.contract, c, world'.storage) <= c.max_sum_bps]_xvars

\* The stack of calls is sound: every frame sees the right state, holds value and
\* gas that exist, and no contract is entered twice.
FramesSound == OverlayExact /\ ValueConserved /\ GasConserved /\ CalledOnce

\* An agent stays within its policy and a revoked one stays revoked.
AgentsStayInPolicy == AgentSpendingCapped /\ RevokedForGood
=============================================================================
