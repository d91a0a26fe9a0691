------------------------------ MODULE MCLibrary ------------------------------
(***************************************************************************)
(* The parts of a node that share no state in the model: the DAG store,    *)
(* the consensus library, the executor and the storage.  A behaviour       *)
(* exercises one of them and leaves the others at their initial state.     *)
(***************************************************************************)
EXTENDS DagStore, Epochs, Certificates, Fees, Reputation, Executor,
        Trie, Snapshots, WorldStore

VARIABLE component

-----------------------------------------------------------------------------
(* A store fed with the blocks of three validators, of which 1 has half of *)
(* the power, so that {1, 2} and {1, 3} are quorums.  Validator 3 signs    *)
(* two blocks in rounds 0 and 1, one block of 2 lacks a strong-link        *)
(* quorum, one copy of a block is damaged, 4 is a member in the second     *)
(* epoch only.                                                             *)

MCValidatorSet == <<1 :> 2 @@ 2 :> 1 @@ 3 :> 1, 1 :> 2 @@ 2 :> 1 @@ 4 :> 1>>

Ref(r, v, k) == [round |-> r, author |-> v, digest |-> k]

Blk(r, v, k, parents) ==
  [round |-> r, author |-> v, digest |-> k, epoch |-> 1, ancestors |-> parents,
   intact |-> TRUE]

Round0 == {Blk(0, 1, 1, {}), Blk(0, 2, 1, {}), Blk(0, 3, 1, {}), Blk(0, 3, 2, {})}

Round1 ==
  {Blk(1, 1, 1, {Ref(0, 1, 1), Ref(0, 2, 1)}),
   Blk(1, 2, 2, {Ref(0, 2, 1), Ref(0, 3, 1)}),                \* no quorum
   Blk(1, 3, 1, {Ref(0, 1, 1), Ref(0, 3, 1)}),
   Blk(1, 3, 2, {Ref(0, 1, 1), Ref(0, 2, 1)})}

Round2 ==
  {Blk(2, 1, 1, {Ref(1, 1, 1), Ref(1, 3, 1)}),
   Blk(2, 3, 1, {Ref(1, 1, 1), Ref(1, 3, 2), Ref(0, 2, 1)})}  \* a weak link

Damaged == {[Blk(1, 1, 1, {}) EXCEPT !.intact = FALSE]}

NextEpoch ==
  {[Blk(0, v, 9, {}) EXCEPT !.epoch = 2] : v \in {1, 4}}
    \cup {[Blk(0, 4, 9, {}) EXCEPT !.epoch = 2, !.intact = FALSE]}

MCDagBlock == Round0 \cup Round1 \cup Round2 \cup Damaged \cup NextEpoch

-----------------------------------------------------------------------------
(* The consensus library on small instances: a validator set of three, of  *)
(* which one is not bonded yet, two epochs, committees of three and four.  *)

Bonded(stake) ==
    [status |-> "Bonded", tombstoned |-> FALSE, active |-> stake, pending_active |-> 0,
     pending_inactive |-> <<>>, inactive |-> 0, delegated |-> 0, jailed_until |-> 0]
MCGenesis == (1 :> Bonded(8)) @@ (2 :> Bonded(5)) @@
             (3 :> [Bonded(0) EXCEPT !.status = "Unbonded", !.pending_active = 4])
MCSchedule == <<4, 2>>

Power(S) == [a \in S |-> 1]
MCVset == (1 :> 1) @@ (2 :> 2) @@ (3 :> 1)
MCTrueSets == <<Power(1..4), Power(2..5), Power({1, 3, 4, 5})>>
FakeSet == Power(7..8)   \* a set no epoch ever had
MCCommittees == {1..4, 2..5, 1..3}

FakeHeaders == {[digest |-> 0, validators_hash |-> v, next_validators_hash |-> FakeSet] :
                   v \in {MCTrueSets[i] : i \in DOMAIN MCTrueSets} \cup {FakeSet}}
Forged ==
    {[header |-> h, qc |-> [digest |-> d, signers |-> S], next_vset |-> v,
      sig_ok |-> Byzantine \cup DOMAIN FakeSet] :
        h \in FakeHeaders, d \in {0, 1}, S \in {Byzantine, DOMAIN MCTrueSets[1], Byzantine \cup DOMAIN FakeSet},
        v \in {FakeSet, MCTrueSets[1]}}
Genuine ==
    UNION {{[header |-> TrueHeader(i), qc |-> [digest |-> d, signers |-> S], next_vset |-> v,
             sig_ok |-> DOMAIN MCTrueSets[i]] :
        d \in {0, i}, S \in {DOMAIN MCTrueSets[i], DOMAIN MCTrueSets[i] \ Byzantine, Byzantine},
        v \in {FakeSet, MCTrueSets[i + 1]}} : i \in 1..Len(MCTrueSets) - 1}
MCProofs == {<<s>> : s \in Forged \cup Genuine} \cup {<<s, t>> : s, t \in Forged \cup Genuine}

ConsensusInit == EpochInit /\ CertInit /\ LightInit /\ FeeInit /\ RepInit

\* Every component keeps its variables in their types.
ConsensusTypeOK == EpochTypeOK /\ CertTypeOK /\ FeeTypeOK

-----------------------------------------------------------------------------
(* Workloads of the executor: calls that nest, an agent under a policy,    *)
(* transactions that fail before they run, deploys.                        *)

MCAccounts == {"user", "bank", "shop", "new0", "new1"}
MCAddress(sender, nonce) == IF nonce = 0 THEN "new0" ELSE "new1"

Module(size, manifest) ==
    [size |-> size, compiles |-> TRUE, has_call |-> TRUE, has_init |-> FALSE,
     manifest |-> manifest, is_token |-> FALSE, host_abi |-> 1]
NoData == Module(0, {})
Guarded == {[type |-> "ratchet_up", key |-> "x"],
            [type |-> "fee_cap", fee_keys |-> {"x", "y"}, max_sum_bps |-> 2],
            [type |-> "ratchet_bool", key |-> "y", locked_value |-> 2],
            [type |-> "ratchet_off", key |-> "y"]}
BankCode == Module(2, Guarded)
ShopCode == Module(1, {})

MCPolicy ==
    [expiry_epoch |-> 9, active_window |-> None, allowed_actions |-> {"Transfer", "PayAgent"},
     allowed_targets |-> {"bank", "user"}, required_kya_tier |-> 0, min_counterparty_reputation |-> 0,
     per_tx_cap |-> 2, per_epoch_cap |-> 3, budget_total |-> 3, budget_ceiling |-> 5,
     refill_per_epoch |-> 1, spent_this_epoch |-> 0, spent_total |-> 0,
     categories |-> <<[cap |-> 3, spent |-> 0, actions |-> {"Transfer"}]>>,
     violations_this_epoch |-> 0, max_violations_per_epoch |-> 2, last_epoch |-> 0,
     cosign_threshold |-> 2, anomaly_enabled |-> TRUE, has_history |-> FALSE,
     avg_value_ema |-> 0, avg_tx_count_ema |-> 0, tx_count_this_epoch |-> 0,
     spike_ratio |-> 150, burst_ratio |-> 150, seen_targets |-> {}]

MCWorld ==
    [storage |-> (<<"bank", "x">> :> 1), policy |-> MCPolicy, paused |-> FALSE,
     balance |-> [a \in MCAccounts |-> IF a = "user" THEN 4 ELSE IF a = "bank" THEN 1 ELSE 0],
     nonce |-> [a \in MCAccounts |-> 0],
     code |-> [a \in MCAccounts |-> IF a = "bank" THEN BankCode
                                    ELSE IF a = "shop" THEN ShopCode ELSE None],
     code_store |-> {BankCode, ShopCode}]

MCAgents == ("bank" :> [kya_tier |-> 1, reputation_score |-> 1])

Tx(type, to, limit) ==
    [sender |-> "user", to |-> to, value |-> 0, tx_type |-> type, gas_limit |-> limit,
     data |-> NoData, session_key |-> FALSE, owner_cosignature |-> FALSE]
Pay(value, to, limit) == [Tx("Transfer", to, limit) EXCEPT !.value = value]
ByAgent(tx) == [tx EXCEPT !.session_key = TRUE]
Deploy(wasm, limit) == [Tx("ContractDeploy", None, limit) EXCEPT !.data = wasm]

Token == [Module(2, {[type |-> "ratchet_up", key |-> "x"]}) EXCEPT !.has_init = TRUE, !.is_token = TRUE]

Submits(txs, n, calls) == [txs |-> txs, limit |-> n, ops |-> calls]
MCWorkloads ==
    { Submits({Tx("ContractCall", "bank", 12)}, 1, 4),
      Submits({Tx("ContractCall", "shop", 14)}, 1, 4),
      Submits({Tx("ContractCall", "bank", 5)}, 2, 2),
      Submits({ByAgent(Pay(v, "bank", 3)) : v \in 1..3}
                 \cup {[ByAgent(Pay(2, "bank", 3)) EXCEPT !.owner_cosignature = TRUE],
                       ByAgent(Pay(1, "user", 3)), ByAgent(Pay(1, None, 3)), ByAgent(Pay(1, "shop", 1))}, 4, 0),
      Submits({Pay(5, "shop", 3), Pay(2, "user", 3), Pay(1, "bank", 1), Pay(1, "bank", 0),
                Tx("Stake", "bank", 4), Tx("ContractCall", "user", 4), Tx("ContractCall", "bank", 1),
                Tx("ContractCall", "bank", 2)}, 2, 0),
      Submits({Deploy(Token, 9), Deploy(Token, 4), Deploy([Token EXCEPT !.host_abi = 2], 9),
                Deploy([Token EXCEPT !.has_init = FALSE, !.has_call = FALSE], 7),
                Deploy([Token EXCEPT !.has_init = FALSE], 6), Tx("ContractCall", "new0", 6)}, 2, 1) }

MCGasSchedule ==
    [tx_base |-> 1, tx_calldata_per_byte |-> 1, warden_check |-> 1, call_value_transfer |-> 1,
     invariant_check |-> 1, code_cold_surcharge |-> 1, deploy_base |-> 1,
     deploy_storage_per_byte |-> 1, storage_write_update |-> 1, storage_write_create |-> 2,
     storage_delete |-> 1, emit_event_base |-> 1, call_base |-> 1]

-----------------------------------------------------------------------------
(* A trie over two nibbles with keys that are prefixes of others, the     *)
(* snapshots of three heights, and a world state of two accounts.          *)

Bytes == {<<a, b>> : a, b \in 0..1}
MCKeys == Bytes \cup {a \o b : a \in {<<0, 0>>, <<0, 1>>}, b \in Bytes} \cup {<<>>}

ToAccount(kind, a, v) == [kind |-> kind, addr |-> a, slot |-> None, value |-> v]
ToSlot(a, s, v) == [kind |-> "Storage", addr |-> a, slot |-> s, value |-> v]
MCGenesisAccounts == ("user" :> [NewAccount EXCEPT !.balance = 2])
MCBlockWrites ==
    { <<>>,
      <<ToAccount("Balance", "user", 1), ToAccount("Nonce", "user", 1)>>,
      <<ToSlot("bank", 1, 7), ToSlot("bank", 2, 8),
        ToAccount("Balance", "bank", 1), ToAccount("Balance", "user", 0)>>,
      <<ToSlot("bank", 1, None), ToSlot("user", 1, 7)>>,
      <<ToAccount("Nonce", "user", 2), ToAccount("Code", "bank", "wasm")>>,
      <<ToSlot("bank", 2, 9), ToAccount("Code", "bank", None)>> }
MCForeignRoots == {("peer" :> NewAccount)}

storage_vars == <<tvars, svars, wvars>>

StorageInit == TrieInit /\ SnapshotInit /\ WorldInit

StorageNext ==
    \/ component = "trie" /\ TrieNext /\ UNCHANGED <<svars, wvars>>
    \/ component = "snapshots" /\ SnapshotNext /\ UNCHANGED <<tvars, wvars>>
    \/ component = "world" /\ WorldNext /\ UNCHANGED <<tvars, svars>>

-----------------------------------------------------------------------------
consensus_vars == <<evars, cvars, lvars, fvars, rvars>>
library_vars == <<vars, consensus_vars, xvars, storage_vars, component>>

LibraryInit ==
    /\ Init /\ ConsensusInit /\ ExecInit /\ StorageInit
    /\ component \in {"dag", "epochs", "certificates", "light client", "fees", "reputation",
                       "execution", "trie", "snapshots", "world"}
    /\ component # "fees" => base_fee = MIN_BASE_FEE_DROP /\ gas.limit = 8
    /\ component # "reputation" => next_committee = 1..4
    /\ component # "execution" => workload = CHOOSE w \in Workloads : TRUE

Consensus ==
    \/ component = "epochs" /\ EpochNext /\ UNCHANGED <<cvars, lvars, fvars, rvars>>
    \/ component = "certificates" /\ CertNext /\ UNCHANGED <<evars, lvars, fvars, rvars>>
    \/ component = "light client" /\ LightNext /\ UNCHANGED <<evars, cvars, fvars, rvars>>
    \/ component = "fees" /\ FeeNext /\ UNCHANGED <<evars, cvars, lvars, rvars>>
    \/ component = "reputation" /\ RepNext /\ UNCHANGED <<evars, cvars, lvars, fvars>>

LibraryNext ==
    /\ UNCHANGED component
    /\ \/ component = "dag" /\ Next /\ UNCHANGED <<consensus_vars, xvars, storage_vars>>
       \/ Consensus /\ UNCHANGED <<vars, xvars, storage_vars>>
       \/ component = "execution" /\ ExecNext /\ UNCHANGED <<vars, consensus_vars, storage_vars>>
       \/ StorageNext /\ UNCHANGED <<vars, consensus_vars, xvars>>

LibrarySpec == LibraryInit /\ [][LibraryNext]_library_vars

\* The trie alone.
TrieSpec == LibraryInit /\ component = "trie" /\ [][LibraryNext]_library_vars

\* Every component keeps its variables in their types, whatever the others do.
LibraryTypeOK ==
    TypeOK /\ ConsensusTypeOK /\ ExecTypeOK /\ SnapshotTypeOK /\ WorldTypeOK
=============================================================================
