-------------------------------- MODULE Fees --------------------------------
(***************************************************************************)
(* The base fee of a block from its parent's load and the split of a       *)
(* transaction's fee (lemma-consensus fee.rs).  The chain of base fees is  *)
(* the state; each block is as full as its proposer made it.               *)
(***************************************************************************)
EXTENDS Integers

CONSTANTS
    MIN_BASE_FEE_DROP,
    GasLimits,        \* gas limits of blocks, a header may have any
    InitialFees,
    MaxFee            \* bound of the model

\* Fees and gas are unsigned integers.
ASSUME FeeAssumption ==
    MIN_BASE_FEE_DROP \in Nat /\ GasLimits \subseteq Nat /\ InitialFees \subseteq Nat /\ MaxFee \in Nat

GAS_TARGET_DENOMINATOR == 2
BASE_FEE_CHANGE_DENOMINATOR == 8
MIN_BASE_FEE_DELTA_DROP == 1

AtLeast(n, floor) == IF n >= floor THEN n ELSE floor

ComputeFeeDelta(base_fee, gas_diff, target) ==
    ((base_fee * gas_diff) \div target) \div BASE_FEE_CHANGE_DENOMINATOR

\* Mutant: a full block below the rounding step leaves the fee where it is.
IncreasedWithoutMin(base_fee, gas_diff, target) == base_fee + ComputeFeeDelta(base_fee, gas_diff, target)

Increased(base_fee, gas_diff, target) ==
    base_fee + AtLeast(ComputeFeeDelta(base_fee, gas_diff, target), MIN_BASE_FEE_DELTA_DROP)

CalculateBaseFee(base_fee, gas_used, gas_limit) ==
    LET target == gas_limit \div GAS_TARGET_DENOMINATOR
        new == CASE target = 0 \/ gas_used = target -> base_fee
                 [] target # 0 /\ gas_used > target -> Increased(base_fee, gas_used - target, target)
                 [] target # 0 /\ gas_used < target ->
                      base_fee - ComputeFeeDelta(base_fee, target - gas_used, target)
    IN  AtLeast(new, MIN_BASE_FEE_DROP)

\* distribute_fee fails when the price does not cover the base fee.
DistributeFee(gas_used, base_fee, gas_price) ==
    [burned |-> base_fee * gas_used, to_proposer |-> (gas_price - base_fee) * gas_used]

VARIABLES
    base_fee,
    gas          \* [used, limit] of the last block

fvars == <<base_fee, gas>>

FeeTypeOK == base_fee \in Nat /\ gas.limit \in GasLimits /\ gas.used \in 0..gas.limit

FeeInit == base_fee \in InitialFees /\ \E l \in GasLimits : gas = [used |-> 0, limit |-> l]

FeeNext ==
    \E l \in GasLimits : \E u \in 0..l :
      /\ CalculateBaseFee(base_fee, u, l) <= MaxFee
      /\ base_fee' = CalculateBaseFee(base_fee, u, l)
      /\ gas' = [used |-> u, limit |-> l]

-----------------------------------------------------------------------------
(* Properties *)

\* One block moves the base fee towards its load and, with an even gas limit, by
\* an eighth at most: a block above target always raises it, one below never
\* does, and once at the floor it never goes under it.
BaseFeeFollowsLoad ==
    [][LET target == gas'.limit \div 2
       IN  /\ base_fee' >= MIN_BASE_FEE_DROP
           /\ base_fee >= MIN_BASE_FEE_DROP /\ target > 0 =>
                /\ gas'.used > target => base_fee' > base_fee
                /\ gas'.used <= target => base_fee' <= base_fee
                /\ gas'.limit % 2 = 0 => /\ base_fee' - base_fee <= AtLeast(base_fee \div 8, 1)
                                         /\ base_fee - base_fee' <= base_fee \div 8]_fvars

\* What is burned and what the proposer gets add up to what the sender paid, for
\* every price the fee admits.
FeeSplitExact ==
    \A price \in base_fee..base_fee + 2 :
      LET d == DistributeFee(gas.used, base_fee, price)
      IN  d.burned >= 0 /\ d.to_proposer >= 0 /\ d.burned + d.to_proposer = gas.used * price

\* The fee market moves with the load and splits what is paid exactly.
FeesSound == []FeeSplitExact /\ BaseFeeFollowsLoad
=============================================================================
