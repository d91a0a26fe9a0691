----------------------------- MODULE Admission -----------------------------
(***************************************************************************)
(* The admission policy of the mempool: ingress validation, circuit        *)
(* breaker, priority, replace-by-fee floor and Express classification      *)
(* (lemma-mempool/src/{validation,circuit_breaker,qos,pool,express}.rs).   *)
(* Pure functions of a transaction, the world state it is checked against  *)
(* and the load of the pool; the fee market of the contracts; and the rate *)
(* limiter of the accounts.                                                *)
(***************************************************************************)
EXTENDS Options, Integers

CONSTANTS
    MAX_NONCE_GAP,
    BUSY_THRESHOLD_PCT, CRITICAL_THRESHOLD_PCT, EMERGENCY_THRESHOLD_PCT,
    STAKE_UNIT, MAX_STAKE_BONUS,
    BPS, MIN_REPLACE_BUMP_BPS     \* 10_000 basis points; the replacement bump

ASSUME PolicyAssumption ==
    /\ {MAX_STAKE_BONUS, MIN_REPLACE_BUMP_BPS, BUSY_THRESHOLD_PCT,
        CRITICAL_THRESHOLD_PCT, EMERGENCY_THRESHOLD_PCT} \subseteq Nat
    /\ {STAKE_UNIT, BPS} \subseteq Nat \ {0}
    /\ BUSY_THRESHOLD_PCT <= CRITICAL_THRESHOLD_PCT
    /\ CRITICAL_THRESHOLD_PCT <= EMERGENCY_THRESHOLD_PCT
    /\ EMERGENCY_THRESHOLD_PCT <= 100

ValidateNonce(tx, account) ==
    /\ tx.nonce >= account.nonce
    /\ tx.nonce - account.nonce <= MAX_NONCE_GAP

\* The balance covers gas_price * gas_limit + value.
ValidateBalance(tx, account) == account.balance >= tx.gas_price * tx.gas_limit + tx.value

\* wellformed: the size limit, the public key and the signature of the
\* transaction, which are facts about its bytes.
ValidateTransaction(tx, account, ctx) ==
    /\ tx.gas_limit # 0
    /\ tx.chain_id = ctx.chain_id
    /\ tx.wellformed
    /\ ValidateNonce(tx, account)
    /\ ValidateBalance(tx, account)
    /\ tx.gas_price >= ctx.base_fee

FromLoad(pending_count, capacity) ==
    LET load_pct == (pending_count * 100) \div capacity
    IN  CASE capacity = 0 -> "Emergency"
          [] capacity # 0 /\ load_pct < BUSY_THRESHOLD_PCT -> "Normal"
          [] capacity # 0 /\ load_pct >= BUSY_THRESHOLD_PCT
                          /\ load_pct < CRITICAL_THRESHOLD_PCT -> "Busy"
          [] capacity # 0 /\ load_pct >= CRITICAL_THRESHOLD_PCT
                          /\ load_pct < EMERGENCY_THRESHOLD_PCT -> "Critical"
          [] OTHER -> "Emergency"

Admits(tier, tx_type) ==
    \/ tier = "Normal"
    \/ tier = "Busy" /\ tx_type # "ContractDeploy"
    \/ tier = "Critical" /\ tx_type \in {"Transfer", "Stake", "Unstake", "GovernanceVote"}
    \/ tier = "Emergency" /\ tx_type \in {"Stake", "Unstake"}

StakeBonus(stake) ==
    LET raw == stake \div STAKE_UNIT IN IF raw <= MAX_STAKE_BONUS THEN raw ELSE MAX_STAKE_BONUS

PriorityScore(gas_price, stake) == gas_price + StakeBonus(stake)

\* The price a replacement has to offer, rounded down.
RbfMinPrice(old_price) == (old_price * (BPS + MIN_REPLACE_BUMP_BPS)) \div BPS

\* Where the consensus layer may route the transaction; the first reason wins.
Classify(tx_type, hint) ==
    CASE tx_type # "Transfer" -> "IneligibleTxType"
      [] tx_type = "Transfer" /\ hint = None -> "MissingHint"
      [] OTHER ->
           IF ~hint.is_express_eligible THEN "NotCompilerEligible"
           ELSE IF hint.reads_shared_state THEN "SharedStateRead"
           ELSE IF hint.is_private THEN "PrivateTx" ELSE "Eligible"

ExpressEligibility == {"IneligibleTxType", "MissingHint", "NotCompilerEligible",
                       "SharedStateRead", "PrivateTx", "Eligible"}

-----------------------------------------------------------------------------
(***************************************************************************)
(* Per-contract fee market of the mempool (lemma-mempool/src/local_fees.rs)*)
(* A load map is a set of records, at most one per contract.  The load is  *)
(* an exponential moving average in integer arithmetic.                    *)
(***************************************************************************)
CONSTANTS
    DECAY_NUM, DECAY_DEN,      \* weight of the past in one tick
    HIGH_DEMAND_THRESHOLD,     \* load up to which there is no surcharge
    SCALE_FACTOR,              \* excess load that adds one base fee
    MAX_SURCHARGE_MULTIPLIER   \* the surcharge never exceeds this multiple

ASSUME FeeAssumption ==
    /\ {DECAY_NUM, HIGH_DEMAND_THRESHOLD} \subseteq Nat
    /\ {DECAY_DEN, SCALE_FACTOR, MAX_SURCHARGE_MULTIPLIER} \subseteq Nat \ {0}
    /\ DECAY_NUM < DECAY_DEN

LoadType(contracts) == [contract : contracts, ema_load : Nat, current_block_count : Nat]

LoadOf(loads, contract) ==
    LET known == {l \in loads : l.contract = contract}
    IN  IF known = {}
        THEN [contract |-> contract, ema_load |-> 0, current_block_count |-> 0]
        ELSE CHOOSE l \in known : TRUE

Record(loads, contract) ==
    LET l == LoadOf(loads, contract)
    IN  (loads \ {l}) \cup {[l EXCEPT !.current_block_count = @ + 1]}

Tick(loads) ==
    {[l EXCEPT !.ema_load = (@ * DECAY_NUM + l.current_block_count) \div DECAY_DEN,
               !.current_block_count = 0] : l \in loads}

\* Mutant: the load of a contract without calls in this block is forgotten too.
PruneQuiet(loads) == {l \in loads : l.ema_load > 1}

PruneIdle(loads) == {l \in loads : l.ema_load > 0 \/ l.current_block_count > 0}

ContractLoad(loads, contract) == LoadOf(loads, contract).ema_load

LocalBaseFee(loads, contract, global_base) ==
    LET load == ContractLoad(loads, contract)
        excess == IF load > HIGH_DEMAND_THRESHOLD THEN load - HIGH_DEMAND_THRESHOLD ELSE 0
        cap == SCALE_FACTOR * MAX_SURCHARGE_MULTIPLIER
        capped == IF SCALE_FACTOR + excess <= cap THEN SCALE_FACTOR + excess ELSE cap
    IN  (global_base * capped) \div SCALE_FACTOR

-----------------------------------------------------------------------------
(***************************************************************************)
(* Per-account token buckets (lemma-mempool/src/rate_limit.rs).            *)
(* A bucket map is a set of records, at most one per account.  The code's  *)
(* f64 tokens are counted in refill units: one tick of the clock adds      *)
(* REFILL units and an admission costs TOKEN of them, so fractions of a    *)
(* token appear whenever TOKEN does not divide REFILL.                     *)
(***************************************************************************)
CONSTANTS
    BUCKET_CAPACITY,  \* units a full bucket holds
    REFILL,           \* units added per tick
    TOKEN             \* units one admission costs

\* RateLimiter::new clamps the capacity to one token at least.
ASSUME BucketAssumption ==
    /\ TOKEN \in Nat \ {0}
    /\ REFILL \in Nat \ {0}
    /\ BUCKET_CAPACITY \in Nat
    /\ BUCKET_CAPACITY >= TOKEN

BucketType(accounts) == [account : accounts, tokens : 0..BUCKET_CAPACITY, last_refill : Nat]

AtMost(n, cap) == IF n <= cap THEN n ELSE cap

\* Refill by the elapsed time, up to the capacity; a clock that went back adds nothing.
Refilled(b, now) ==
    LET elapsed == IF now > b.last_refill THEN now - b.last_refill ELSE 0
    IN  [b EXCEPT !.tokens = AtMost(@ + elapsed * REFILL, BUCKET_CAPACITY),
                  !.last_refill = now]

\* The account's bucket, created full on first use, refilled to now.
BucketOf(buckets, account, now) ==
    LET known == {b \in buckets : b.account = account}
    IN  IF known = {}
        THEN [account |-> account, tokens |-> BUCKET_CAPACITY, last_refill |-> now]
        ELSE Refilled(CHOOSE b \in known : TRUE, now)

HasToken(buckets, account, now) == BucketOf(buckets, account, now).tokens >= TOKEN

\* try_acquire: the bucket keeps its refill whether or not a token was there.
TryAcquire(buckets, account, now) ==
    LET b == BucketOf(buckets, account, now)
        cost == IF b.tokens >= TOKEN THEN TOKEN ELSE 0
    IN  {o \in buckets : o.account # account} \cup {[b EXCEPT !.tokens = @ - cost]}

\* Mutant: every bucket is forgotten, full or not.
PruneAll(buckets, now) == {}

\* prune_full refills every bucket and forgets the full ones.
PruneFull(buckets, now) ==
    {b \in {Refilled(o, now) : o \in buckets} : b.tokens < BUCKET_CAPACITY}
=============================================================================
