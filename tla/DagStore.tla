------------------------------ MODULE DagStore ------------------------------
(***************************************************************************)
(* The block store of one node under everything a SurgeDriver does to it:  *)
(* blocks arrive in any order, more than once, damaged, badly signed, from *)
(* outsiders, for the wrong epoch, or as one of two blocks of a slot       *)
(* (on_block, steps 1 and 2); a commit advances the garbage collector      *)
(* (set_last_committed_round); the epoch advances (advance_epoch).         *)
(***************************************************************************)
EXTENDS Dag

CONSTANTS DagBlock,     \* the blocks that may arrive, intact or not
          GenesisEpoch,
          LastEpoch     \* bound on the epochs explored

VARIABLES dag,       \* the store
          evidence,  \* equivocations handed to the caller, <<first, second>>
          held       \* history: blocks insert took charge of and the garbage
                     \* collector has not dropped

vars == <<dag, evidence, held>>

ASSUME DagBlockAssumption == SoundBlocks(DagBlock)

ASSUME EpochAssumption == GenesisEpoch \in Nat /\ LastEpoch \in Nat

Init ==
  /\ dag = NewDag(GenesisEpoch)
  /\ evidence = {}
  /\ held = {}

\* Dag::insert, then drain_equivocations, as on_block calls them.
OnBlock(b, sig_ok) ==
  LET outcome == InsertOutcome(dag, b, sig_ok)
      inline  == IF outcome = "Equivocation" THEN Conflicts(dag.by_slot, {b}) ELSE {}
  IN  \E d \in Insert(dag, b, sig_ok) :
        /\ dag' = DrainEquivocations(d)
        /\ evidence' = evidence \cup d.pending_equivocations \cup inline
        /\ held' = held \cup IF outcome \in {"Accepted", "Suspended", "Equivocation"}
                             THEN {b} ELSE {}

\* A commit: its leader is an accepted block.
SetCommitted(round) ==
  /\ \E b \in dag.blocks : b.round = round
  /\ dag' = SetLastCommittedRound(dag, round)
  /\ held' = held \ ((dag.blocks \cup dag.suspended) \ (dag'.blocks \cup dag'.suspended))
  /\ UNCHANGED evidence

\* SurgeDriver::advance_epoch starts from an empty store.  The caller
\* re-inserts the drained blocks through on_block, like any arriving block.
AdvanceEpoch ==
  /\ dag.epoch < LastEpoch
  /\ dag' = NewDag(dag.epoch + 1)
  /\ held' = {}
  /\ UNCHANGED evidence

Next ==
  \/ \E b \in DagBlock, sig_ok \in BOOLEAN : OnBlock(b, sig_ok)
  \/ \E b \in DagBlock : SetCommitted(b.round)
  \/ AdvanceEpoch

Spec == Init /\ [][Next]_vars

-----------------------------------------------------------------------------

TypeOK ==
  /\ DagOf(DagBlock, dag)
  /\ evidence \subseteq AllRefs(DagBlock) \X AllRefs(DagBlock)
  /\ held \subseteq DagBlock

(***************************************************************************)
(* A block that insert took charge of is never lost silently: it is        *)
(* accepted, still suspended, reported as an equivocation, or one that     *)
(* never had a strong-link quorum.                                         *)
(***************************************************************************)
HeldBlocksAccounted ==
  \A x \in held :
    \/ x \in dag.blocks \cup dag.suspended
    \/ \E p \in evidence : p[2] = Reference(x)
    \/ ~StrongLinkQuorum(VSet(dag), x)

(***************************************************************************)
(* Both buffers respect their capacity, even though a cascade moves many   *)
(* blocks at once and re-delivery writes over an entry that is there.      *)
(***************************************************************************)
BuffersBounded ==
  /\ Cardinality(dag.suspended) <= MAX_SUSPENDED
  /\ Cardinality(dag.next_epoch_buffer) <= MAX_NEXT_EPOCH_BUFFER

(***************************************************************************)
(* What Dag's queries and the commit rule rely on, together: the indexes   *)
(* agree and give one block per slot, accepted blocks have their history,  *)
(* suspended blocks are registered under exactly what they lack, and the   *)
(* buffers are within capacity.                                            *)
(***************************************************************************)
StoreConsistent ==
  IndexesAgree(dag) /\ CausallyClosed(dag) /\ WaitingForExact(dag) /\ BuffersBounded

(***************************************************************************)
(* Within an epoch an accepted block leaves the store only below the       *)
(* garbage collection round, and that round never moves back.              *)
(***************************************************************************)
AcceptedUntilCollected ==
  [][dag'.epoch = dag.epoch =>
       /\ GcRound(dag') >= GcRound(dag)
       /\ \A b \in dag.blocks \ dag'.blocks : b.round <= GcRound(dag')]_vars

=============================================================================
