------------------------------- MODULE Warden -------------------------------
(***************************************************************************)
(* What guards an execution.  Before it, the Warden: what an agent's       *)
(* session key may spend (lemma-vm/src/warden.rs, policy types in          *)
(* lemma-core/src/agent.rs).  After it, the contract's safety manifest.    *)
(*                                                                         *)
(* Both are pure functions; the executor stores what the Warden returns.   *)
(*                                                                         *)
(* Absent options are None, the tiers of an identity are 0, 1 and 2, the   *)
(* categories a sequence in the order of their names, and the right shift  *)
(* by 3 of the moving averages a division by EMA_DIVISOR.  Amounts do not  *)
(* reach the bounds of u128.                                               *)
(***************************************************************************)
EXTENDS Options, Integers, Sequences, FiniteSets, FiniteSetsExt

CONSTANTS
    EMA_DIVISOR,
    MAX_SEEN_TARGETS,
    ANOMALY_NOVEL_TARGET_HIGH_VALUE_PCT,
    Agents           \* agent registry: address -> [kya_tier, reputation_score]

\* The transaction types of the executor keep their names as actions.
ClassifyAction(tx) == tx.tx_type

\* A registered payee is held to the policy's requirements; an unregistered one
\* is refused when there are any.
CounterpartyAccepted(p, target) ==
    IF target \in DOMAIN Agents
    THEN /\ "PayAgent" \in p.allowed_actions
         /\ Agents[target].kya_tier >= p.required_kya_tier
         /\ Agents[target].reputation_score >= p.min_counterparty_reputation
    ELSE p.required_kya_tier = 0 /\ p.min_counterparty_reputation = 0

\* The checks of steps 2 to 6: they do not depend on what was spent.
Permitted(p, tx, epoch) ==
    /\ epoch < p.expiry_epoch
    /\ p.active_window = None \/ epoch \in p.active_window
    /\ ClassifyAction(tx) \in p.allowed_actions
    /\ tx.to = None \/ (tx.to \in p.allowed_targets /\ CounterpartyAccepted(p, tx.to))
    /\ tx.value <= p.per_tx_cap

\* Mutant: the first transaction of an epoch keeps the old epoch's counters.
EpochResetForgotten(p, epoch) == [p EXCEPT !.last_epoch = epoch]

\* apply_epoch_reset: fresh counters, one refill up to the ceiling, and the
\* transaction count folded into its average.
ApplyEpochReset(p, epoch) ==
    LET refilled == p.budget_total + p.refill_per_epoch
        avg == p.avg_tx_count_ema
    IN  [p EXCEPT
          !.spent_this_epoch = 0,
          !.categories = [i \in DOMAIN @ |-> [@[i] EXCEPT !.spent = 0]],
          !.violations_this_epoch = 0,
          !.last_epoch = epoch,
          !.budget_total = IF p.refill_per_epoch = 0 THEN @
                           ELSE IF p.budget_ceiling # None /\ refilled > p.budget_ceiling
                                THEN p.budget_ceiling ELSE refilled,
          !.avg_tx_count_ema = avg - (avg \div EMA_DIVISOR) + (p.tx_count_this_epoch \div EMA_DIVISOR),
          !.has_history = @ \/ p.tx_count_this_epoch > 0,
          !.tx_count_this_epoch = 0]

AtEpoch(p, epoch) == IF epoch > p.last_epoch THEN ApplyEpochReset(p, epoch) ELSE p

\* The first category, by name, that lists the action; 0 if there is none.
CategoryOf(p, action) ==
    LET listing == {i \in DOMAIN p.categories : action \in p.categories[i].actions}
    IN  IF listing = {} THEN 0 ELSE CHOOSE i \in listing : \A j \in listing : i <= j

\* Steps 7 to 9, on the policy after the epoch reset.
WithinBudgets(p, tx) ==
    LET c == CategoryOf(p, ClassifyAction(tx))
    IN  /\ c = 0 \/ p.categories[c].spent + tx.value <= p.categories[c].cap
        /\ p.spent_this_epoch + tx.value <= p.per_epoch_cap
        /\ p.spent_total + tx.value <= p.budget_total

NeedsCosign(p, tx) ==
    p.cosign_threshold # None /\ tx.value >= p.cosign_threshold /\ ~tx.owner_cosignature

\* anomaly_detected: a value spike, a burst, or a new target for a high value.
AnomalyDetected(p, tx) ==
    \/ p.avg_value_ema > 0 /\ tx.value * 100 > p.avg_value_ema * p.spike_ratio
    \/ p.avg_tx_count_ema > 0 /\ p.tx_count_this_epoch * 100 > p.avg_tx_count_ema * p.burst_ratio
    \/ /\ tx.to # None /\ tx.to \notin p.seen_targets
       /\ Cardinality(p.seen_targets) < MAX_SEEN_TARGETS
       /\ tx.value * 100 >= p.per_tx_cap * ANOMALY_NOVEL_TARGET_HIGH_VALUE_PCT

\* What warden_check returns; only "Applied" changes the stored policy.
WardenOutcome(p, paused, tx, epoch) ==
    CASE paused -> "AgentsPaused"
      [] ~paused /\ p = None -> "PolicyNotFound"
      [] OTHER ->
           LET q == AtEpoch(p, epoch)
           IN  IF ~Permitted(p, tx, epoch) \/ ~WithinBudgets(q, tx) THEN "Violation"
               ELSE IF NeedsCosign(q, tx) THEN "PendingOwnerCosign"
               ELSE IF q.anomaly_enabled /\ q.has_history /\ AnomalyDetected(q, tx) THEN "Violation"
               ELSE "Applied"

UpdateHistory(p, tx) ==
    [p EXCEPT !.avg_value_ema = @ - (@ \div EMA_DIVISOR) + (tx.value \div EMA_DIVISOR),
              !.tx_count_this_epoch = @ + 1,
              !.seen_targets = IF tx.to # None /\ Cardinality(@) < MAX_SEEN_TARGETS
                               THEN @ \cup {tx.to} ELSE @]

\* The policy an applied transaction leaves.
Spent(p, tx, epoch) ==
    LET q == AtEpoch(p, epoch)
        c == CategoryOf(q, ClassifyAction(tx))
        r == [q EXCEPT !.spent_this_epoch = @ + tx.value,
                       !.spent_total = @ + tx.value,
                       !.categories = [i \in DOMAIN @ |->
                          IF i = c THEN [@[i] EXCEPT !.spent = @ + tx.value] ELSE @[i]]]
    IN  IF q.anomaly_enabled THEN UpdateHistory(r, tx) ELSE r

\* The dead-man's switch: the policy expires with the violation that reaches the
\* limit of the epoch; a limit of 0 disables it.
HandleViolation(p, epoch) ==
    LET q == AtEpoch(p, epoch)
    IN  IF p = None \/ p.max_violations_per_epoch = 0 THEN p
        ELSE [q EXCEPT !.violations_this_epoch = @ + 1,
                       !.expiry_epoch = IF q.violations_this_epoch + 1 >= q.max_violations_per_epoch
                                        THEN epoch ELSE @]

-----------------------------------------------------------------------------
(***************************************************************************)
(* The run-time safety constraints of a contract                           *)
(* (lemma-vm/src/safety_manifest.rs): what settle checks of the storage a  *)
(* transaction wrote, against the state before it.                         *)
(*                                                                         *)
(* writes maps the slots a transaction wrote to their new value, None for  *)
(* a deletion; committed maps slots to values.  A value stands for the     *)
(* little-endian number its bytes encode, absent and empty being 0 where   *)
(* the code reads them so; values are short enough to be numbers.          *)
(***************************************************************************)
Stored(committed, slot) == IF slot \in DOMAIN committed THEN {committed[slot]} ELSE {}

\* A value written over another is not the locked one.  Deleting the field and
\* writing a field that has no value are both allowed.
RatchetBoolHolds(c, contract, writes, committed) ==
    LET slot == <<contract, c.key>>
    IN  slot \in DOMAIN writes /\ writes[slot] = c.locked_value
          => \A old \in Stored(committed, slot) : old = c.locked_value

RatchetOffHolds(c, contract, writes, committed) ==
    LET slot == <<contract, c.key>>
    IN  slot \in DOMAIN writes /\ writes[slot] \in Nat \ {0}
          => \A old \in Stored(committed, slot) : old # 0

\* The value of a fee after the transaction, 0 for a deleted or absent one.
FeeAfter(slot, writes, committed) ==
    IF slot \in DOMAIN writes
    THEN IF writes[slot] \in Nat THEN writes[slot] ELSE 0
    ELSE IF slot \in DOMAIN committed THEN committed[slot] ELSE 0

FeeCapHolds(c, contract, writes, committed) ==
    (\E k \in c.fee_keys : <<contract, k>> \in DOMAIN writes)
      => MapThenSumSet(LAMBDA k : FeeAfter(<<contract, k>>, writes, committed), c.fee_keys)
           <= c.max_sum_bps

\* Mutant: a deletion is not a decrease.
RatchetUpKeepsDeletes(c, contract, writes, committed) ==
    LET slot == <<contract, c.key>>
    IN  slot \in DOMAIN writes
          => \A old \in Stored(committed, slot) : writes[slot] \notin Nat \/ writes[slot] >= old

\* A deletion counts as 0 here.
RatchetUpHolds(c, contract, writes, committed) ==
    LET slot == <<contract, c.key>>
    IN  slot \in DOMAIN writes
          => \A old \in Stored(committed, slot) :
               IF writes[slot] \in Nat THEN writes[slot] >= old ELSE old = 0

ValidateSafetyInvariants(manifest, contract, writes, committed) ==
    \A c \in manifest :
      CASE c.type = "ratchet_bool" -> RatchetBoolHolds(c, contract, writes, committed)
        [] c.type = "ratchet_off" -> RatchetOffHolds(c, contract, writes, committed)
        [] c.type = "fee_cap" -> FeeCapHolds(c, contract, writes, committed)
        [] c.type = "ratchet_up" -> RatchetUpHolds(c, contract, writes, committed)
=============================================================================
