------------------------------- MODULE Pulse -------------------------------
(***************************************************************************)
(* The Pulse commit rule (pulse/committer.rs), the leader schedule it is   *)
(* driven with (pulse/leader.rs) and the linearizer, as functions of a Dag *)
(* value.                                                                  *)
(*                                                                         *)
(* A LeaderStatus is [decision |-> "Commit", leader |-> ref],              *)
(* [decision |-> "Skip"] or [decision |-> "Undecided"].                    *)
(* ByzantineInvariantBreach is left out: both scans compare a reference    *)
(* with itself, so the error cannot be returned.                           *)
(***************************************************************************)
EXTENDS Dag, Sequences

WAVE_LENGTH == 3
LEADER_OFFSET == 0

\* Round robin over the members in address order, with the identity swap.
ElectLeader(vset, round) ==
  CHOOSE v \in DOMAIN vset :
    Cardinality({w \in DOMAIN vset : w < v})
      = (round + LEADER_OFFSET) % Cardinality(DOMAIN vset)

LeaderSlot(d, round) == <<round, ElectLeader(VSet(d), round)>>

VotingRound(slot) == slot[1] + 1
DecisionRound(slot) == slot[1] + 2

BlockAtSlot(d, slot) == {r \in d.by_slot : Slot(r) = slot}

\* A voter that links to two blocks of the slot supports neither.
IsVote(voter, slot, leader) == {a \in voter.ancestors : Slot(a) = slot} = {leader}

IsCertificate(d, decision_block, slot, leader) ==
  Quorum(VSet(d),
         AuthorsOf({a \in AncestorsAtRound(decision_block, VotingRound(slot)) :
                      Contains(d, a) /\ IsVote(Block(d, a), slot, leader)}))

IsBlame(voter, slot) == \A a \in voter.ancestors : Slot(a) # slot

BlameReached(d, slot) ==
  Quorum(VSet(d),
         AuthorsOf({v \in BlocksAtRound(d, VotingRound(slot)) : IsBlame(v, slot)}))

TotalStakeReached(d, round) == Quorum(VSet(d), AuthorsOf(BlocksAtRound(d, round)))

-----------------------------------------------------------------------------

Commit(leader) == [decision |-> "Commit", leader |-> leader]
Skip == [decision |-> "Skip"]
Undecided == [decision |-> "Undecided"]

\* The leader's block, if the store has it and one of `candidates`, blocks
\* of the decision round, certifies it.
CertifiedBy(d, slot, candidates) ==
  {leader \in BlockAtSlot(d, slot) :
     \E c \in candidates : IsCertificate(d, c, slot, leader)}

\* Skip is checked before commit.
TryDirectDecide(d, slot) ==
  LET certified == CertifiedBy(d, slot, BlocksAtRound(d, DecisionRound(slot))) IN
  IF BlameReached(d, slot) THEN Skip
  ELSE IF TotalStakeReached(d, DecisionRound(slot)) /\ certified # {}
       THEN Commit(CHOOSE r \in certified : TRUE)
  ELSE Undecided

\* The nearest leader above that is not skipped decides, if it is committed:
\* by a certificate among its direct ancestors, or else against the leader.
TryIndirectDecide(d, slot, above) ==
  LET open    == {q \in DOMAIN above : above[q].decision # "Skip"}
      nearest == above[Min(open)]
      linked  == {Block(d, a) : a \in
                   {a \in AncestorsAtRound(Block(d, nearest.leader), DecisionRound(slot)) :
                      Contains(d, a)}}
      certified == CertifiedBy(d, slot, linked)
  IN  IF \/ open = {}
         \/ nearest.decision = "Undecided"
         \/ nearest.leader.round < slot[1] + WAVE_LENGTH
         \/ ~Contains(d, nearest.leader)
      THEN Undecided
      ELSE IF certified # {} THEN Commit(CHOOSE r \in certified : TRUE)
      ELSE Skip

\* The longest gapless prefix of decided leaders after round last_decided, as
\* a function from leader rounds to decisions.
TryDecide(d, last_decided) ==
  LET rounds == {r \in last_decided + 1 .. SaturatingSub(HighestAcceptedRound(d), 2) :
                   r % WAVE_LENGTH = 0}
      status[r \in rounds] ==
        LET direct == TryDirectDecide(d, LeaderSlot(d, r)) IN
        IF direct.decision # "Undecided" THEN direct
        ELSE TryIndirectDecide(d, LeaderSlot(d, r), [q \in {q \in rounds : q > r} |-> status[q]])
      prefix == {r \in rounds : \A q \in rounds :
                   q <= r => status[q].decision # "Undecided"}
  IN  [r \in prefix |-> status[r]]

-----------------------------------------------------------------------------
(***************************************************************************)
(* From decided leaders to commits (pulse/linearizer.rs).  A linearizer is *)
(* [next_index, committed]; a commit is [index, leader, blocks, gc_round]. *)
(* `blocks` is a set: the code lists it sorted by (round, author), a key   *)
(* that determines the list because no two accepted blocks share a slot.   *)
(* The digest chain is the order of the commits, and `gc_round`, the       *)
(* boundary used for the sub-DAG, is history.  Timestamps are left out.    *)
(***************************************************************************)
NewLinearizer == [next_index |-> 1, committed |-> {}]

\* Mutant: the boundary is off by one.
LinearizeSubDagShort(d, leader, committed) ==
  LET admissible(a) == a.round > GcRound(d) + 1 /\ a \notin committed
      parents(S) == UNION {Block(d, r).ancestors : r \in {r \in S : Contains(d, r)}}
      reached[n \in 0 .. Cardinality(d.blocks)] ==
        IF n = 0 THEN {leader}
        ELSE LET before == reached[n - 1]
             IN  before \cup {a \in parents(before) : admissible(a)}
  IN  reached[Cardinality(d.blocks)]

\* What the depth first search from the leader collects.
LinearizeSubDag(d, leader, committed) ==
  LET admissible(a) == a.round > GcRound(d) /\ a \notin committed
      parents(S) == UNION {Block(d, r).ancestors : r \in {r \in S : Contains(d, r)}}
      reached[n \in 0 .. Cardinality(d.blocks)] ==
        IF n = 0 THEN {leader}
        ELSE LET before == reached[n - 1]
             IN  before \cup {a \in parents(before) : admissible(a)}
  IN  reached[Cardinality(d.blocks)]

CommitOne(d, lin, leader) ==
  LET blocks == LinearizeSubDag(d, leader, lin.committed \cup {leader}) IN
  [lin    |-> [next_index |-> lin.next_index + 1,
               committed  |-> lin.committed \cup blocks],
   commit |-> [index |-> lin.next_index, leader |-> leader, blocks |-> blocks,
               gc_round |-> GcRound(d)]]

(***************************************************************************)
(* commit_leaders: one commit for each committed leader, in ascending      *)
(* rounds, and only then the garbage collector moves to the last of them.  *)
(* A leader that is not in the DAG stops the batch (DecidedLeaderMissing): *)
(* the commits before it stay in the linearizer but are not returned, and  *)
(* the garbage collector does not move.                                    *)
(***************************************************************************)
CommitLeaders(d, lin, decided) ==
  LET rounds  == {r \in DOMAIN decided : decided[r].decision = "Commit"}
      missing == {r \in rounds : ~Contains(d, decided[r].leader)}
      todo    == {r \in rounds : \A m \in missing : r < m}
      after[r \in {0} \cup todo] ==
        IF r = 0 THEN [lin |-> lin, commits |-> <<>>]
        ELSE LET before == after[Max({q \in {0} \cup todo : q < r})]
                 one    == CommitOne(d, before.lin, decided[r].leader)
             IN  [lin |-> one.lin, commits |-> Append(before.commits, one.commit)]
      last == after[Max({0} \cup todo)]
  IN  [lin     |-> last.lin,
       failed  |-> missing # {},
       commits |-> IF missing = {} THEN last.commits ELSE <<>>,
       dag     |-> IF missing = {} /\ todo # {}
                   THEN SetLastCommittedRound(d, Max(todo)) ELSE d]
=============================================================================
