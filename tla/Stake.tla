------------------------------- MODULE Stake -------------------------------
(***************************************************************************)
(* Stake-weighted thresholds (stake.rs).  A validator set is a function    *)
(* from its members to their voting power.  A StakeAggregator is the set   *)
(* of authors it has counted: adding an author twice changes nothing, a    *)
(* non-member is never added by a caller, and `reached` is a function of   *)
(* the counted authors because the accumulated stake only grows until      *)
(* `clear`.                                                                *)
(***************************************************************************)
EXTENDS Integers, FiniteSetsExt

IsValidatorSet(vset) ==
  IsFiniteSet(DOMAIN vset) /\ \A v \in DOMAIN vset : vset[v] \in Nat

Accumulated(vset, counted) ==
  SumFunctionOnSet(vset, counted \cap DOMAIN vset)

TotalPower(vset) == Accumulated(vset, DOMAIN vset)

\* More than 2/3 of the total power, strictly: "2f+1".
Quorum(vset, counted) == 3 * Accumulated(vset, counted) > 2 * TotalPower(vset)

=============================================================================
