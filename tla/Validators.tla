----------------------------- MODULE Validators -----------------------------
(***************************************************************************)
(* Validator records and everything the consensus crate does to them:      *)
(* voting power and committee selection (lemma-core validator.rs,          *)
(* validator_set.rs), slashing, jail and the signed-blocks window          *)
(* (lemma-consensus slashing/), rewards (rewards.rs) and the settlement    *)
(* of an epoch boundary (epoch/transition.rs).  Pure functions; the state  *)
(* machine that calls them is Epochs.                                      *)
(*                                                                         *)
(* A validator map is a function from addresses to records; 0 stands for   *)
(* jailed_until = None, since every sentence ends after time 0.  Amounts   *)
(* are naturals: u128 overflow needs more Drop than the supply can hold.   *)
(* The unbonding entries of a validator are a function from slot numbers   *)
(* to entries: the vector of the source is never read in order.            *)
(***************************************************************************)
EXTENDS Integers, Sequences, Stake

CONSTANTS
    MAX_FRACTION_BPS,              \* the whole, 10_000 basis points
    DOUBLE_SIGN_SLASH_BPS, DOWNTIME_SLASH_BPS, SHARE_WITHHOLDING_SLASH_BPS,
    EVIDENCE_MAX_AGE_SECONDS,      \* the unbonding period
    DOWNTIME_JAIL_DURATION_SECONDS, SHARE_WITHHOLDING_JAIL_DURATION_SECONDS,
    SIGNED_BLOCKS_WINDOW, MAX_MISSED_BLOCKS,
    EPOCHS_PER_YEAR, INFLATION_SCHEDULE_BPS,
    DROPS_PER_DRIP,
    MinStake

\* Fractions are basis points of a whole; the schedule and the durations are
\* constants of the source.
ASSUME RatesAssumption ==
    /\ MAX_FRACTION_BPS \in Nat \ {0} /\ DROPS_PER_DRIP \in Nat \ {0} /\ EPOCHS_PER_YEAR \in Nat \ {0}
    /\ DOUBLE_SIGN_SLASH_BPS \in 0..MAX_FRACTION_BPS
    /\ DOWNTIME_SLASH_BPS \in 0..MAX_FRACTION_BPS
    /\ SHARE_WITHHOLDING_SLASH_BPS \in 0..MAX_FRACTION_BPS
    /\ SIGNED_BLOCKS_WINDOW \in Nat \ {0} /\ MAX_MISSED_BLOCKS \in Nat
    /\ DOWNTIME_JAIL_DURATION_SECONDS \in Nat /\ SHARE_WITHHOLDING_JAIL_DURATION_SECONDS \in Nat
    /\ EVIDENCE_MAX_AGE_SECONDS \in Nat /\ MinStake \in Nat
    /\ INFLATION_SCHEDULE_BPS \in Seq(Nat) /\ INFLATION_SCHEDULE_BPS # <<>>

UnbondingEntry == [initial_balance : Nat, start_height : Nat, complete_time : Nat, on_hold : BOOLEAN]

\* A validator's record, with unbonding entries `pending`.
Validator(pending) ==
    [status : {"Unbonded", "Bonded", "Unbonding"}, tombstoned : BOOLEAN,
     active : Nat, pending_active : Nat, pending_inactive : {pending},
     inactive : Nat, delegated : Nat, jailed_until : Nat]

IsValidator(v) ==
    /\ v \in Validator(v.pending_inactive)
    /\ IsFiniteSet(DOMAIN v.pending_inactive)
    /\ v.pending_inactive \in [DOMAIN v.pending_inactive -> UnbondingEntry]

BalanceOf(pending) == [i \in DOMAIN pending |-> pending[i].initial_balance]
PendingInactive(v) == SumFunction(BalanceOf(v.pending_inactive))

\* Stake::total_bonded, and with the matured part the validator's whole stake.
TotalBonded(v) == v.active + v.pending_active + PendingInactive(v)
WholeStake(v) == TotalBonded(v) + v.inactive

VotingPower(v) == v.active + v.delegated

IsActive(v) == v.status = "Bonded" /\ ~v.tombstoned /\ v.jailed_until = 0

\* from_active_validators: the next committee, each member with its power.
FromActiveValidators(validators) ==
    [a \in {b \in DOMAIN validators : IsActive(validators[b])} |-> VotingPower(validators[a])]

-----------------------------------------------------------------------------
(* Slashing *)

Fraction(amount, bps) == (amount * bps) \div MAX_FRACTION_BPS

AfterInfraction(entry, infraction_height) == entry.start_height > infraction_height

\* Mutant: unbonding stake is cut without being counted as burned.
BurnedFromActive(v, infraction_height, power, bps) ==
    LET intended == Fraction(power, bps) IN IF v.active < intended THEN v.active ELSE intended

\* What slash removes: the fraction of the power at the infraction, as far as
\* the active stake goes, and the fraction of every entry that began to unbond
\* after it.
Burned(v, infraction_height, power, bps) ==
    LET intended == Fraction(power, bps)
        from_active == IF v.active < intended THEN v.active ELSE intended
        hit == {i \in DOMAIN v.pending_inactive :
                  AfterInfraction(v.pending_inactive[i], infraction_height)}
    IN  from_active + SumFunction([i \in hit |-> Fraction(v.pending_inactive[i].initial_balance, bps)])

\* Mutant: the active stake is not a floor.
SlashBelowZero(v, infraction_height, power, bps) == [v EXCEPT !.active = @ - Fraction(power, bps)]

SlashEntries(pending, infraction_height, bps) ==
    [i \in DOMAIN pending |->
       IF AfterInfraction(pending[i], infraction_height)
       THEN [pending[i] EXCEPT !.initial_balance = @ - Fraction(@, bps)]
       ELSE pending[i]]

Slash(v, infraction_height, power, bps) ==
    LET intended == Fraction(power, bps)
    IN  [v EXCEPT !.active = IF @ < intended THEN 0 ELSE @ - intended,
                  !.pending_inactive = SlashEntries(@, infraction_height, bps)]

Tombstone(v) == [v EXCEPT !.tombstoned = TRUE]

Jail(v, until_time) == [v EXCEPT !.jailed_until = IF @ > until_time THEN @ ELSE until_time]

Expired(infraction_time, current_time) == current_time - infraction_time >= EVIDENCE_MAX_AGE_SECONDS

\* verify_double_sign on evidence whose two signed votes conflict in one slot.
VerifyDoubleSign(evidence, committee, current_time, dedup) ==
    /\ evidence.validator \in committee
    /\ ~Expired(evidence.infraction_time, current_time)
    /\ <<evidence.validator, evidence.infraction_height>> \notin dedup

ApplyDoubleSign(v, evidence) ==
    Tombstone(Slash(v, evidence.infraction_height, evidence.power, DOUBLE_SIGN_SLASH_BPS))

ApplyDowntime(v, breach_height, power, block_time) ==
    Jail(Slash(v, breach_height, power, DOWNTIME_SLASH_BPS), block_time + DOWNTIME_JAIL_DURATION_SECONDS)

\* apply_withholding_slashes for one member of the withholding set.
ApplyWithholding(v, infraction_height, power, block_time) ==
    Jail(Slash(v, infraction_height, power, SHARE_WITHHOLDING_SLASH_BPS),
         block_time + SHARE_WITHHOLDING_JAIL_DURATION_SECONDS)

-----------------------------------------------------------------------------
(* The signed-blocks window *)

NoBreach == -1
NewWindow == [bits |-> [i \in 0..SIGNED_BLOCKS_WINDOW - 1 |-> TRUE], missed_count |-> 0,
              last_breach_height |-> NoBreach]

Window == [bits : [0..SIGNED_BLOCKS_WINDOW - 1 -> BOOLEAN], missed_count : Nat,
           last_breach_height : Nat \cup {NoBreach}]

\* The counter moves only when the slot's old bit changes.
Counted(w, slot, signed) ==
    CASE w.bits[slot] /\ ~signed -> w.missed_count + 1
      [] ~w.bits[slot] /\ signed -> IF w.missed_count = 0 THEN 0 ELSE w.missed_count - 1
      [] OTHER -> w.missed_count

Breaches(w, height, signed) ==
    /\ Counted(w, height % SIGNED_BLOCKS_WINDOW, signed) > MAX_MISSED_BLOCKS
    /\ w.last_breach_height # height

RecordBlock(w, height, signed) ==
    LET slot == height % SIGNED_BLOCKS_WINDOW
    IN  [bits |-> [w.bits EXCEPT ![slot] = signed],
         missed_count |-> Counted(w, slot, signed),
         last_breach_height |-> IF Breaches(w, height, signed) THEN height ELSE w.last_breach_height]

-----------------------------------------------------------------------------
(* Rewards *)

ComputeEpochInflation(total_supply, epoch_number) ==
    LET year == epoch_number \div EPOCHS_PER_YEAR
        last == Len(INFLATION_SCHEDULE_BPS)
        rate == INFLATION_SCHEDULE_BPS[IF year + 1 < last THEN year + 1 ELSE last]
    IN  ((total_supply * rate) \div MAX_FRACTION_BPS) \div EPOCHS_PER_YEAR

\* A member's share of the pool, in whole Drip, by its share of the power.
RewardShare(members, pool, addr) ==
    LET total == TotalPower(members) \div DROPS_PER_DRIP
    IN  IF total = 0 THEN 0
        ELSE (((pool \div DROPS_PER_DRIP) * (members[addr] \div DROPS_PER_DRIP)) \div total) * DROPS_PER_DRIP

\* distribute_rewards: shares go to the active stake; the remainder is burned.
DistributeRewards(validators, members, pool) ==
    [a \in DOMAIN validators |->
       IF a \in DOMAIN members
       THEN [validators[a] EXCEPT !.active = @ + RewardShare(members, pool, a)]
       ELSE validators[a]]

Distributed(members, pool) == SumFunction([a \in DOMAIN members |-> RewardShare(members, pool, a)])

-----------------------------------------------------------------------------
(* The epoch boundary *)

\* Mutant: an epoch boundary settles every unbonding, whatever its time.
MaturedAlways(entry, block_time) == ~entry.on_hold

Matured(entry, block_time) == ~entry.on_hold /\ entry.complete_time <= block_time

SettleExpiredUnbonding(v, block_time) ==
    LET done == {i \in DOMAIN v.pending_inactive : Matured(v.pending_inactive[i], block_time)}
    IN  [v EXCEPT !.inactive = @ + SumFunctionOnSet(BalanceOf(v.pending_inactive), done),
                  !.pending_inactive = Restrict(@, DOMAIN @ \ done)]

ActivatePendingStake(v) == [v EXCEPT !.active = @ + v.pending_active, !.pending_active = 0]

\* Mutant: the jail is opened one second early.
ServedEarly(v, block_time) == v.jailed_until # 0 /\ block_time + 1 >= v.jailed_until

Served(v, block_time) == v.jailed_until # 0 /\ block_time >= v.jailed_until

NextStatus(v) ==
    CASE v.tombstoned -> v.status
      [] ~v.tombstoned /\ v.status = "Unbonded" /\ v.active >= MinStake -> "Bonded"
      [] ~v.tombstoned /\ v.status = "Bonded" /\ v.active < MinStake -> "Unbonding"
      [] ~v.tombstoned /\ v.status = "Unbonding" /\ v.active = 0 /\ DOMAIN v.pending_inactive = {} -> "Unbonded"
      [] OTHER -> v.status

UpdateValidatorStatus(v, block_time) ==
    [v EXCEPT !.jailed_until = IF Served(v, block_time) THEN 0 ELSE @, !.status = NextStatus(v)]

\* The validators after advance_epoch; the code writes them in place, also when
\* it then fails because nobody is left for the next committee.
SettledValidators(validators, members, minted, block_time) ==
    LET paid == DistributeRewards(validators, members, minted)
    IN  [a \in DOMAIN paid |->
           UpdateValidatorStatus(ActivatePendingStake(SettleExpiredUnbonding(paid[a], block_time)), block_time)]
=============================================================================
