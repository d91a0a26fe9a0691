------------------------------- MODULE Epochs -------------------------------
(***************************************************************************)
(* The life of the validator set across blocks and epochs: the calls that  *)
(* change validator records, in every order.  The consensus crate offers   *)
(* them as functions over an injected map (slashing/, epoch/transition.rs, *)
(* epoch/recovery.rs) and the node's Shield orchestrator adds the          *)
(* withholding penalty; bonding and unbonding are staking transactions,    *)
(* external to the source, modelled by the fields they must fill.          *)
(***************************************************************************)
EXTENDS Validators

CONSTANTS
    GenesisValidators, \* the validators at the start, address -> record
    EPOCH_DURATION_SECONDS,
    UnbondAmount,     \* stake one unbonding transaction takes out
    MaxHeight, MaxEpoch,
    MaxEvents         \* bounds of the model; an event is an absence, an offence,
                      \* a withheld share or a staking transaction

\* At the start some validator is active, and nobody unbonds since a later block.
ASSUME GenesisAssumption ==
    /\ IsFiniteSet(DOMAIN GenesisValidators)
    /\ GenesisValidators = [a \in DOMAIN GenesisValidators |-> GenesisValidators[a]]
    /\ \A a \in DOMAIN GenesisValidators :
         /\ IsValidator(GenesisValidators[a])
         /\ \A i \in DOMAIN GenesisValidators[a].pending_inactive :
              GenesisValidators[a].pending_inactive[i].start_height = 0
    /\ \E a \in DOMAIN GenesisValidators : IsActive(GenesisValidators[a])
    /\ UnbondAmount \in Nat

VARIABLES
    validators,
    epoch,            \* number, start_height, start_timestamp, members
    height, time,     \* of the last block
    windows,          \* address -> signed-blocks window
    offences,         \* double signs committed, each a piece of evidence
    dedup,            \* evidence already processed
    recovered,        \* forced closes already applied
    supply,           \* the total supply the caller keeps from the results
    halted,           \* advance_epoch found no member for the next committee
    shielded,         \* epochs whose Shield round has run
    events,           \* events so far
    released          \* ghost: unbonding entries that matured, with the time

evars == <<validators, epoch, height, time, windows, offences, dedup, recovered,
           supply, halted, shielded, events, released>>

Addresses == DOMAIN GenesisValidators
StakeOf(vals) == SumFunction([a \in DOMAIN vals |-> WholeStake(vals[a])])
Members == DOMAIN epoch.members
Infraction == [validator : Addresses, infraction_height : Nat, infraction_time : Nat, power : Nat]

EpochTypeOK ==
    /\ \A a \in Addresses : IsValidator(validators[a])
    /\ epoch.number \in Nat /\ epoch.start_height \in Nat /\ epoch.start_timestamp \in Nat
    /\ Members \subseteq Addresses /\ Members # {} /\ \A a \in Members : epoch.members[a] \in Nat
    /\ height \in Nat /\ time \in Nat /\ supply \in Nat /\ halted \in BOOLEAN
    /\ \A a \in Addresses : windows[a] \in Window
    /\ offences \subseteq Infraction
    /\ dedup \subseteq Addresses \X Nat /\ recovered \subseteq Nat \X Nat

EpochInit ==
    /\ validators = GenesisValidators
    /\ epoch = [number |-> 0, start_height |-> 1, start_timestamp |-> 0,
                members |-> FromActiveValidators(GenesisValidators)]
    /\ height = 0 /\ time = 0
    /\ windows = [a \in Addresses |-> NewWindow]
    /\ offences = {} /\ dedup = {} /\ recovered = {} /\ released = {}
    /\ supply = StakeOf(GenesisValidators)
    /\ halted = FALSE /\ shielded = 0 /\ events = 0

\* The caller closes an epoch when it is over.
Due == time >= epoch.start_timestamp + EPOCH_DURATION_SECONDS

Event == events < MaxEvents /\ events' = events + 1

-----------------------------------------------------------------------------
(* A block: every member's window records whether it signed; a breach is       *)
(* slashed and jailed at once and its window starts over.                      *)

ProduceBlock(absent) ==
    LET h == height + 1
        breached == {a \in Members : Breaches(windows[a], h, a \notin absent)}
    IN  /\ height < MaxHeight /\ ~Due
        /\ IF absent = {} THEN UNCHANGED events ELSE Event
        /\ height' = h
        /\ time' = time + 1
        /\ windows' = [a \in Addresses |->
             IF a \in breached THEN NewWindow
             ELSE IF a \in Members THEN RecordBlock(windows[a], h, a \notin absent) ELSE windows[a]]
        /\ validators' = [a \in Addresses |->
             IF a \in breached
             THEN ApplyDowntime(validators[a], h, epoch.members[a], time + 1) ELSE validators[a]]
        /\ supply' = supply - SumFunction([a \in breached |->
             Burned(validators[a], h, epoch.members[a], DOWNTIME_SLASH_BPS)])
        /\ UNCHANGED <<epoch, offences, dedup, recovered, halted, shielded, released>>

\* A member signs two blocks in one slot; the evidence turns up later or never.
DoubleSign(a) ==
    /\ Event
    /\ offences' = offences \cup {[validator |-> a, infraction_height |-> height,
                                   infraction_time |-> time, power |-> epoch.members[a]]}
    /\ UNCHANGED <<validators, epoch, height, time, windows, dedup, recovered, supply, halted, shielded, released>>

\* The committee of the infraction's epoch had the validator as a member.
ReportDoubleSign(e) ==
    /\ VerifyDoubleSign(e, {e.validator}, time, dedup)
    /\ validators' = [validators EXCEPT ![e.validator] = ApplyDoubleSign(validators[e.validator], e)]
    /\ supply' = supply - Burned(validators[e.validator], e.infraction_height, e.power, DOUBLE_SIGN_SLASH_BPS)
    /\ dedup' = dedup \cup {<<e.validator, e.infraction_height>>}
    /\ UNCHANGED <<epoch, height, time, windows, offences, recovered, halted, shielded, events, released>>

\* The Shield round of a new epoch, once, names the members that posted no valid
\* share.
SlashWithholders(withholders) ==
    /\ Event
    /\ shielded <= epoch.number /\ height < epoch.start_height
    /\ shielded' = epoch.number + 1
    /\ validators' = [a \in Addresses |->
         IF a \in withholders
         THEN ApplyWithholding(validators[a], height, epoch.members[a], time) ELSE validators[a]]
    /\ supply' = supply - SumFunction([a \in withholders |->
         Burned(validators[a], height, epoch.members[a], SHARE_WITHHOLDING_SLASH_BPS)])
    /\ UNCHANGED <<epoch, height, time, windows, offences, dedup, recovered, halted, released>>

-----------------------------------------------------------------------------
(* Staking transactions (external) *)

FreeSlot(pending) == CHOOSE i \in 0..Cardinality(DOMAIN pending) : i \notin DOMAIN pending

WithEntry(pending, entry) ==
    [i \in DOMAIN pending \cup {FreeSlot(pending)} |-> IF i \in DOMAIN pending THEN pending[i] ELSE entry]

BeginUnbonding(a, amount) ==
    LET v == validators[a]
        entry == [initial_balance |-> amount, start_height |-> height,
                  complete_time |-> time + EVIDENCE_MAX_AGE_SECONDS, on_hold |-> FALSE]
    IN  /\ Event
        /\ amount <= v.active
        /\ validators' = [validators EXCEPT ![a] =
             [v EXCEPT !.active = @ - amount, !.pending_inactive = WithEntry(@, entry)]]
        /\ UNCHANGED <<epoch, height, time, windows, offences, dedup, recovered, supply, halted, shielded, released>>

Rebond(a) ==
    LET v == validators[a]
    IN  /\ v.inactive > 0
        /\ Event
        /\ validators' = [validators EXCEPT ![a] =
             [v EXCEPT !.inactive = 0, !.pending_active = @ + v.inactive]]
        /\ UNCHANGED <<epoch, height, time, windows, offences, dedup, recovered, supply, halted, shielded, released>>

-----------------------------------------------------------------------------
(* The epoch boundary *)

ReleasedNow == UNION {{[validator |-> a, start_height |-> e.start_height, time |-> time] :
                          e \in {f \in Range(validators[a].pending_inactive) : Matured(f, time)}}
                       : a \in Addresses}

TransitionEpoch ==
    LET minted == ComputeEpochInflation(supply, epoch.number)
        settled == SettledValidators(validators, epoch.members, minted, time)
        next == FromActiveValidators(settled)
    IN  /\ validators' = settled
        /\ released' = released \cup ReleasedNow
        /\ IF DOMAIN next = {}
           THEN halted' = TRUE /\ UNCHANGED <<epoch, supply>>
           ELSE /\ epoch' = [number |-> epoch.number + 1, start_height |-> height + 1,
                             start_timestamp |-> time, members |-> next]
                /\ supply' = supply + Distributed(epoch.members, minted)
                /\ UNCHANGED halted
        /\ UNCHANGED <<height, time, windows, offences, dedup, shielded, events>>

CloseEpoch ==
    /\ epoch.number < MaxEpoch
    /\ Due
    /\ TransitionEpoch
    /\ UNCHANGED recovered

\* force_epoch_close: a quorum of the committee closes the epoch at a commit
\* that is final already; every earlier return leaves the validators alone.
ForceEpochClose(signers, at_commit_index) ==
    /\ epoch.number < MaxEpoch
    /\ Quorum(epoch.members, signers)
    /\ at_commit_index <= height
    /\ <<epoch.number, at_commit_index>> \notin recovered
    /\ TransitionEpoch
    /\ recovered' = recovered \cup {<<epoch.number, at_commit_index>>}

EpochNext ==
    /\ ~halted
    /\ \/ \E absent \in {S \in SUBSET Members : Cardinality(S) <= 1} : ProduceBlock(absent)
       \/ \E a \in Members : DoubleSign(a) \/ SlashWithholders({a})
       \/ \E e \in offences : ReportDoubleSign(e)
       \/ \E a \in Addresses : BeginUnbonding(a, UnbondAmount) \/ Rebond(a)
       \/ CloseEpoch
       \/ \E signers \in SUBSET Members : ForceEpochClose(signers, height)

-----------------------------------------------------------------------------
(* Properties *)

\* No Drop is lost or made up between the buckets of the validators, the reward
\* remainder and the burns the calls report: the supply a caller keeps from
\* those reports is exactly the stake that exists, until an epoch boundary fails.
SupplyConserved == ~halted => supply = StakeOf(validators)

\* The shares of a committee never add up to more than the pool they are paid
\* from, in whole Drip and with the powers fixed at the epoch's start, so the
\* remainder of the epoch boundary cannot underflow.
RewardsFitPool == \A pool \in 0..9 : Distributed(epoch.members, pool) <= pool

\* Stake that began to unbond after an infraction matures only when evidence of
\* the infraction would be refused as expired anyway: nobody saves stake from a
\* slash by unbonding.
EvidenceOutlivesUnbonding ==
    \A o \in offences, r \in released :
      r.validator = o.validator /\ r.start_height > o.infraction_height
        => Expired(o.infraction_time, r.time)

\* The incremental counter of a signed-blocks window is the number of blocks it
\* holds as missed, through overwritten slots, breaches and resets.
MissedCountExact ==
    \A a \in Addresses :
      windows[a].missed_count = Cardinality({i \in DOMAIN windows[a].bits : ~windows[a].bits[i]})

\* A committee is formed only of validators that are not tombstoned, have served
\* the jail term they had been given, and hold the minimum stake.
CommitteeEligible ==
    [][epoch' # epoch =>
         \A a \in DOMAIN epoch'.members :
           /\ ~validators[a].tombstoned
           /\ validators[a].jailed_until <= time
           /\ validators'[a].active >= MinStake]_evars

\* Stake is neither made up nor lost, and the rewards come out of their pool.
StakeConserved == SupplyConserved /\ RewardsFitPool

\* A fault stays punishable: downtime is counted exactly and a double sign can be
\* proved as long as the stake behind it can be slashed.
FaultsStayPunishable == EvidenceOutlivesUnbonding /\ MissedCountExact
=============================================================================
