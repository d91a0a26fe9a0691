----------------------------- MODULE Reputation -----------------------------
(***************************************************************************)
(* Leader reputation: scores from the committed blocks of an epoch, the    *)
(* swap table built from them and the leader schedule that applies it      *)
(* (lemma-consensus reputation.rs, pulse/leader.rs and                     *)
(* recompute_leader_schedule of epoch/transition.rs).                      *)
(*                                                                         *)
(* Addresses are naturals in their byte order.  Scores are a function from *)
(* the authors seen to the number of their committed blocks.               *)
(***************************************************************************)
EXTENDS Integers, Sequences, FiniteSets

CONSTANTS
    Committees,     \* possible next committees, sets of addresses
    Authors,        \* authors of committed blocks, perhaps no longer members
    LEADER_OFFSET,
    MaxScore        \* bound of the model

\* An epoch with an empty committee halts the chain instead of scheduling leaders.
ASSUME CommitteeAssumption ==
    /\ LEADER_OFFSET \in Nat
    /\ \A c \in Committees : c \in SUBSET Nat /\ IsFiniteSet(c) /\ c # {}

Score(scores, a) == IF a \in DOMAIN scores THEN scores[a] ELSE 0

\* The members in ascending (score, address) order, as their position 1..n.
Ranked(scores, committee) ==
    LET before(a, b) == Score(scores, a) < Score(scores, b) \/ (Score(scores, a) = Score(scores, b) /\ a < b)
    IN  [i \in 1..Cardinality(committee) |->
           CHOOSE a \in committee : Cardinality({b \in committee : before(b, a)}) = i - 1]

\* Mutant: equal scores are swapped as well.
WorseOrEqual(scores, b, g) == Score(scores, b) <= Score(scores, g)

Worse(scores, b, g) == Score(scores, b) < Score(scores, g)

\* LeaderSwapTable::from_scores: the worst hand their slots to the best, the very
\* worst to the very best, as long as the score is strictly better.
FromScores(scores, committee, swap_count) ==
    LET n == Cardinality(committee)
        actual == IF swap_count < n \div 2 THEN swap_count ELSE n \div 2
        ranked == Ranked(scores, committee)
        pairs == {<<ranked[i], ranked[n + 1 - i]>> : i \in 1..actual}
        better == {p \in pairs : Worse(scores, p[1], p[2])}
    IN  [b \in {p[1] : p \in better} |-> (CHOOSE p \in better : p[1] = b)[2]]

Swap(swaps, candidate) == IF candidate \in DOMAIN swaps THEN swaps[candidate] ELSE candidate

\* The committee in address order; the round picks the candidate, the table swaps it.
CommitteeOrder(committee) ==
    [i \in 1..Cardinality(committee) |-> CHOOSE a \in committee : Cardinality({b \in committee : b < a}) = i - 1]

ElectLeaderOf(committee, swaps, round) ==
    LET order == CommitteeOrder(committee)
    IN  Swap(swaps, order[((round + LEADER_OFFSET) % Len(order)) + 1])

\* recompute_leader_schedule: up to f members are swapped out.
Faulty(committee) == (Cardinality(committee) - 1) \div 3

SwapTable(scores, committee) == FromScores(scores, committee, Faulty(committee))

VARIABLES
    scores,       \* of the epoch in progress
    next_committee

rvars == <<scores, next_committee>>

RepInit == scores = <<>> /\ next_committee \in Committees

\* ReputationScores::from_commits counts one more committed block of an author.
CountBlock(a) ==
    /\ Score(scores, a) < MaxScore
    /\ scores' = [b \in DOMAIN scores \cup {a} |-> IF b = a THEN Score(scores, a) + 1 ELSE scores[b]]
    /\ UNCHANGED next_committee

RepNext == \E a \in Authors : CountBlock(a)

-----------------------------------------------------------------------------
(* Properties *)

\* Over one rotation every leader is a committee member, a member that lost its
\* slot lost it to one with strictly more committed blocks, at most f members
\* lose theirs, and a member that gained one keeps its own.
SwapIsFair ==
    LET t == SwapTable(scores, next_committee)
        n == Cardinality(next_committee)
        leaders == [r \in 1..n |-> ElectLeaderOf(next_committee, t, r)]
    IN  /\ \A r \in 1..n : leaders[r] \in next_committee
        /\ Cardinality(next_committee \ {leaders[r] : r \in 1..n}) <= Faulty(next_committee)
        /\ \A b \in next_committee \ {leaders[r] : r \in 1..n} :
             /\ b \in DOMAIN t /\ Score(scores, b) < Score(scores, t[b])
             /\ \A a \in next_committee \ DOMAIN t : Score(scores, b) <= Score(scores, a)
        /\ \A b \in DOMAIN t : t[b] \notin DOMAIN t
=============================================================================
