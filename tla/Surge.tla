------------------------------- MODULE Surge -------------------------------
(***************************************************************************)
(* SurgeDriver (dag/surge.rs): the consensus engine of one node.  Every    *)
(* accepted block goes through the threshold clock                         *)
(* (dag/threshold_clock.rs), the commit rule and the linearizer before the *)
(* next one is looked at.                                                  *)
(*                                                                         *)
(* A driver is [dag, clock, last_decided, linearizer]; last_decided is the *)
(* round of the slot, the only part of it that is read.  The committee has *)
(* built some DAG of blocks; gossip delivers them to this node in any      *)
(* order, possibly more than once, or never.                               *)
(***************************************************************************)
EXTENDS Pulse

CONSTANTS Universes,    \* the sets of blocks the committee may have built
          GenesisEpoch,
          LastEpoch,    \* bound: epochs explored
          MayOvertake(_, _)  \* bound: which blocks may arrive before which

ASSUME EpochAssumption ==
  /\ GenesisEpoch \in Nat /\ LastEpoch \in Nat /\ GenesisEpoch <= LastEpoch
  /\ \A e \in GenesisEpoch .. LastEpoch : IsValidatorSet(ValidatorSet[e])

\* Finitely many blocks, which link to blocks of earlier rounds only.
ASSUME UniverseAssumption ==
  \A u \in Universes :
    /\ IsFiniteSet(u) /\ SoundBlocks(u)
    /\ \A b \in u : \A a \in b.ancestors : a.round < b.round

VARIABLES universe,  \* the blocks built by the committee
          received,  \* the blocks gossip has delivered and no full buffer has
                     \* dropped: "the caller must re-submit" those
          driver,
          commits,   \* the commits returned to the node in this epoch
          fatal      \* on_block has returned DecidedLeaderMissing

vars == <<universe, received, driver, commits, fatal>>

NewClock == [round |-> 0, counted |-> {}]

\* ThresholdClock::add_block.  Blocks of other rounds are ignored.
AddBlock(clock, vset, b) ==
  LET counted == clock.counted \cup {b.author} IN
  IF b.round # clock.round \/ b.author \notin DOMAIN vset THEN clock
  ELSE IF Quorum(vset, counted) THEN [round |-> clock.round + 1, counted |-> {}]
  ELSE [clock EXCEPT !.counted = counted]

NewDriver(epoch) ==
  [dag |-> NewDag(epoch), clock |-> NewClock, last_decided |-> 0,
   linearizer |-> NewLinearizer]

\* Mutant: decided leaders are decided again.
AdvanceLastDecidedNever(last_decided, decided) == last_decided

AdvanceLastDecided(last_decided, decided) == Max({last_decided} \cup DOMAIN decided)

\* Steps 3 to 6 of on_block, after block b has been accepted into store d.
RunPipeline(s, d, b) ==
  LET decided == TryDecide(d, s.last_decided)
      batch   == CommitLeaders(d, s.linearizer, decided)
  IN  [driver  |-> [dag |-> batch.dag,
                    clock |-> AddBlock(s.clock, VSet(d), b),
                    last_decided |-> IF batch.failed THEN s.last_decided
                                     ELSE AdvanceLastDecided(s.last_decided, decided),
                    linearizer |-> batch.lin],
       commits |-> batch.commits,
       failed  |-> batch.failed]

\* What SurgeDriver::on_block may do with a block whose signature is good: the
\* driver it leaves behind and the commits it returns.  A block that is already
\* in the DAG counts as accepted.
OnBlockResults(s, b) ==
  LET stores == {DrainEquivocations(d) : d \in Insert(s.dag, b, TRUE)} IN
  IF InsertOutcome(s.dag, b, TRUE) \in {"Known", "Accepted"}
  THEN {RunPipeline(s, d, b) : d \in stores}
  ELSE {[driver |-> [s EXCEPT !.dag = d], commits |-> <<>>, failed |-> FALSE] : d \in stores}

\* Mutant: the clock survives the epoch.
RestartKeepsClock(s, epoch) == [NewDriver(epoch) EXCEPT !.clock = s.clock]

\* SurgeDriver::advance_epoch: nothing survives.
Restart(s, epoch) == NewDriver(epoch)

-----------------------------------------------------------------------------

Init ==
  /\ universe \in Universes
  /\ received = {}
  /\ driver = NewDriver(GenesisEpoch)
  /\ commits = <<>>
  /\ fatal = FALSE

OnBlock(b) ==
  /\ ~fatal
  /\ \E r \in OnBlockResults(driver, b) :
       /\ driver' = r.driver
       /\ commits' = commits \o r.commits
       /\ fatal' = r.failed
  /\ received' = IF InsertOutcome(driver.dag, b, TRUE) = "Dropped" THEN received
                 ELSE received \cup {b}
  /\ UNCHANGED universe

Deliver(b) ==
  /\ b \in universe \ received
  /\ \A c \in (universe \ received) \ {b} : MayOvertake(b, c)
  /\ OnBlock(b)

Redeliver(b) == b \in received /\ OnBlock(b)

\* advance_epoch: the caller re-inserts the drained blocks through on_block.
AdvanceEpoch ==
  /\ driver.dag.epoch < LastEpoch
  /\ driver' = Restart(driver, driver.dag.epoch + 1)
  /\ commits' = <<>>
  /\ received' = received \ DrainNextEpoch(driver.dag, driver.dag.epoch + 1)
  /\ UNCHANGED <<universe, fatal>>

Next ==
  \/ \E b \in universe : Deliver(b) \/ Redeliver(b)
  \/ AdvanceEpoch

Spec == Init /\ [][Next]_vars

-----------------------------------------------------------------------------
(***************************************************************************)
(* The commits form one chain in which no block is committed twice: the    *)
(* indexes are consecutive, the leaders are leaders of ascending rounds,   *)
(* and `committed` keeps a block out of every later sub-DAG, whatever      *)
(* batches the leaders were decided in.  No decided leader is missing,     *)
(* which commit_leaders calls "provably unreachable".                      *)
(***************************************************************************)
CommittedOnce ==
  /\ ~fatal
  /\ \A i \in DOMAIN commits :
      /\ commits[i].index = i
      /\ Slot(commits[i].leader) = LeaderSlot(driver.dag, commits[i].leader.round)
      /\ \A j \in 1 .. i - 1 :
           /\ commits[j].leader.round < commits[i].leader.round
           /\ commits[j].blocks \cap commits[i].blocks = {}

(***************************************************************************)
(* A block is committed no earlier than its ancestors: each ancestor is in *)
(* the same commit or an earlier one, or lay below the garbage collection  *)
(* round when the commit was made.                                         *)
(***************************************************************************)
CommittedCausally ==
  \A i \in DOMAIN commits :
    LET sofar == UNION {commits[j].blocks : j \in 1 .. i} IN
    \A b \in universe : b.intact /\ Reference(b) \in commits[i].blocks =>
      \A a \in b.ancestors : a \in sofar \/ a.round <= commits[i].gc_round

(***************************************************************************)
(* The commits make one causal order of the blocks.                        *)
(***************************************************************************)
CommitsAreCausal == CommittedOnce /\ CommittedCausally

(***************************************************************************)
(* When the clock has reached round r the DAG holds a quorum of round      *)
(* r - 1, unless it is already garbage collected: the block the node is    *)
(* told to propose at r can link to a quorum and will pass rule 5.         *)
(***************************************************************************)
ClockHasParents ==
  LET r == driver.clock.round IN
  \/ r = 0
  \/ r - 1 <= GcRound(driver.dag)
  \/ TotalStakeReached(driver.dag, r - 1)

-----------------------------------------------------------------------------
(***************************************************************************)
(* "Given the same set of blocks in any insertion order, SurgeDriver       *)
(* produces the identical commits output" (surge.rs).  Whatever the order  *)
(* and however the leaders were batched, a node's commits are a prefix of  *)
(* those of a node that decides with the whole DAG in its store.           *)
(***************************************************************************)
WholeDag(u, epoch) ==
  LET blocks == {b \in u : b.epoch = epoch}
  IN  [NewDag(epoch) EXCEPT !.blocks = blocks, !.by_slot = Refs(blocks),
                            !.by_round = Refs(blocks)]

Output(cs) == [i \in DOMAIN cs |-> [leader |-> cs[i].leader, blocks |-> cs[i].blocks]]

WholeDagOutput ==
  [u \in Universes, epoch \in GenesisEpoch .. LastEpoch |->
     LET d == WholeDag(u, epoch)
     IN  Output(CommitLeaders(d, NewLinearizer, TryDecide(d, 0)).commits)]

OrderInsensitive ==
  LET whole == WholeDagOutput[universe, driver.dag.epoch]
  IN  \E n \in 0 .. Len(whole) : Output(commits) = SubSeq(whole, 1, n)

(***************************************************************************)
(* Once gossip has delivered every block, in whatever order, the node has  *)
(* returned every commit the whole DAG gives: no block waits for ever in   *)
(* the suspended buffer and no decidable leader is passed over.            *)
(***************************************************************************)
CommitsWholeDag ==
  received = universe => Output(commits) = WholeDagOutput[universe, driver.dag.epoch]

=============================================================================
