--------------------------- MODULE DagStoreProofs ---------------------------
(***************************************************************************)
(* The safety of the block store under everything a driver does to it, for *)
(* every set of blocks, every committee and every capacity.                *)
(***************************************************************************)
EXTENDS DagStore, DagProofs

\* The effects of insert, with what is handed to the caller and what the store
\* takes charge of.
AcceptStep(b, P, R) ==
  /\ Accepts(DagBlock, dag, dag', b, P, R)
  /\ evidence' = evidence \cup R /\ held' = held \cup {b}

SuspendStep(b) ==
  Suspends(DagBlock, dag, dag', b) /\ evidence' = evidence /\ held' = held \cup {b}

BufferStep(b) ==
  Buffers(DagBlock, dag, dag', b) /\ evidence' = evidence /\ held' = held

\* b is known, turned away, dropped or reported: the store stays as it is.
RefuseStep(b) ==
  /\ dag' = dag
  /\ \/ evidence' = evidence /\ held' = held
     \/ /\ ConflictsWith(dag.by_slot, b) # {}
        /\ evidence' = evidence \cup Conflicts(dag.by_slot, {b})
        /\ held' = held \cup {b}

\* What on_block can do: one of the four effects above.
LEMMA OnBlockEffects ==
  ASSUME TypeOK, NEW b \in DagBlock, NEW sig_ok \in BOOLEAN, OnBlock(b, sig_ok)
  PROVE  \/ \E P, R : AcceptStep(b, P, R)
         \/ SuspendStep(b)
         \/ BufferStep(b)
         \/ RefuseStep(b)
  <1> DEFINE outcome == InsertOutcome(dag, b, sig_ok)
  <1>1. PICK f \in Insert(dag, b, sig_ok) :
          /\ dag' = DrainEquivocations(f)
          /\ evidence' = evidence \cup f.pending_equivocations
               \cup (IF outcome = "Equivocation" THEN Conflicts(dag.by_slot, {b}) ELSE {})
          /\ held' = held \cup IF outcome \in {"Accepted", "Suspended", "Equivocation"}
                               THEN {b} ELSE {}
    BY DEF OnBlock
  <1>2. DagOf(DagBlock, dag)
    BY DEF TypeOK
  <1> HIDE DEF outcome
  <1>3. outcome = InsertOutcome(dag, b, sig_ok)
    BY DEF outcome
  <1>4. \/ /\ outcome = "Accepted"
           /\ \E P, R : /\ Accepts(DagBlock, dag, dag', b, P, R)
                        /\ f.pending_equivocations = R
        \/ /\ outcome = "Suspended" /\ Suspends(DagBlock, dag, dag', b)
           /\ f.pending_equivocations = {}
        \/ /\ outcome = "NextEpochBuffered" /\ Buffers(DagBlock, dag, dag', b)
           /\ f.pending_equivocations = {}
        \/ /\ outcome \in Refused
           /\ dag' = dag /\ f.pending_equivocations = {}
           /\ outcome = "Known" => Contains(dag, Reference(b))
           /\ outcome = "Equivocation" => ConflictsWith(dag.by_slot, b) # {}
    BY <1>1, <1>2, <1>3, InsertEffects
  <1>5. CASE outcome = "Accepted"
    BY <1>1, <1>4, <1>5 DEF AcceptStep, Refused
  <1>6. CASE outcome = "Suspended"
    BY <1>1, <1>4, <1>6 DEF SuspendStep, Refused
  <1>7. CASE outcome = "NextEpochBuffered"
    BY <1>1, <1>4, <1>7 DEF BufferStep, Refused
  <1>8. CASE outcome \in Refused
    BY <1>1, <1>4, <1>8 DEF RefuseStep, Refused
  <1> QED BY <1>4, <1>5, <1>6, <1>7, <1>8

-----------------------------------------------------------------------------
(* The inductive invariant. *)

Inv == TypeOK /\ StoreInv(DagBlock, dag)

\* Every step of the driver on the store keeps the invariant.
LEMMA StoreStep == Inv /\ [Next]_vars => Inv'
  <1> SUFFICES ASSUME Inv, [Next]_vars PROVE Inv'
    OBVIOUS
  <1>0. TypeOK /\ StoreInv(DagBlock, dag) /\ SoundBlocks(DagBlock)
    BY DagBlockAssumption DEF Inv
  <1>1. ASSUME StoreInv(DagBlock, dag'), evidence' \subseteq AllRefs(DagBlock) \X AllRefs(DagBlock),
               held' \subseteq DagBlock
        PROVE  Inv'
    BY <1>1 DEF Inv, TypeOK, StoreInv
  <1>2. ASSUME NEW b \in DagBlock, NEW P, NEW R, AcceptStep(b, P, R)
        PROVE  Inv'
    <2>1. Accepts(DagBlock, dag, dag', b, P, R)
      BY <1>2 DEF AcceptStep
    <2>2. StoreInv(DagBlock, dag')
      BY <1>0, <2>1, AcceptsStore
    <2>3. R \subseteq (dag.by_slot \cup Refs(Promoting(b, P))) \X Refs(Woken(dag, Promoting(b, P)))
      BY <2>1 DEF Accepts, CascadeReports, Conflicts, Promoting, Refs
    <2>4. Woken(dag, Promoting(b, P)) \subseteq DagBlock /\ Promoting(b, P) \subseteq DagBlock
      BY <2>1 DEF Inv, TypeOK, DagOf, Woken, Promoting, Accepts, IsCascade
    <2>5. /\ Refs(Woken(dag, Promoting(b, P))) \subseteq AllRefs(DagBlock)
          /\ Refs(Promoting(b, P)) \subseteq AllRefs(DagBlock)
          /\ dag.by_slot \subseteq AllRefs(DagBlock)
      BY <1>0, <2>4 DEF Refs, AllRefs, TypeOK, DagOf
    <2>6. R \subseteq AllRefs(DagBlock) \X AllRefs(DagBlock)
      BY <2>3, <2>5
    <2> QED BY <1>0, <1>1, <1>2, <2>2, <2>6 DEF AcceptStep, TypeOK
  <1>3. ASSUME NEW b \in DagBlock, SuspendStep(b)
        PROVE  Inv'
    BY <1>0, <1>1, <1>3, SuspendsStore DEF SuspendStep, TypeOK
  <1>4. ASSUME NEW b \in DagBlock, BufferStep(b)
        PROVE  Inv'
    BY <1>0, <1>1, <1>4, BuffersStore DEF BufferStep, TypeOK
  <1>5. ASSUME NEW b \in DagBlock, RefuseStep(b)
        PROVE  Inv'
    <2>1. Conflicts(dag.by_slot, {b}) \subseteq AllRefs(DagBlock) \X AllRefs(DagBlock)
      BY <1>0 DEF Conflicts, Refs, AllRefs, TypeOK, DagOf
    <2> QED BY <1>0, <1>1, <1>5, <2>1 DEF RefuseStep, TypeOK
  <1>6. ASSUME NEW b \in DagBlock, NEW sig_ok \in BOOLEAN, OnBlock(b, sig_ok)
        PROVE  Inv'
    BY <1>0, <1>2, <1>3, <1>4, <1>5, <1>6, OnBlockEffects
  <1>7. ASSUME NEW b \in DagBlock, SetCommitted(b.round)
        PROVE  Inv'
    <2>1. b.round \in Nat
      BY <1>0 DEF SoundBlocks
    <2>2. StoreInv(DagBlock, dag')
      <3>1. CASE b.round <= dag.last_committed_round
        BY <1>0, <1>7, <3>1 DEF SetCommitted, SetLastCommittedRound
      <3> QED BY <1>0, <1>7, <2>1, <3>1, CollectsStore DEF SetCommitted
    <2> QED BY <1>0, <1>1, <1>7, <2>2 DEF SetCommitted, TypeOK
  <1>8. CASE AdvanceEpoch
    <2>1. dag.epoch + 1 \in Nat
      BY <1>0 DEF TypeOK, DagOf
    <2> QED BY <1>0, <1>1, <1>8, <2>1, NewStore DEF AdvanceEpoch, TypeOK
  <1>9. CASE UNCHANGED vars
    BY <1>0, <1>1, <1>9 DEF vars, TypeOK
  <1> QED BY <1>6, <1>7, <1>8, <1>9 DEF Next

(***************************************************************************)
(* For every committee, set of blocks and buffer size: the store is well   *)
(* typed, its indexes list exactly the accepted blocks with one block per  *)
(* slot, accepted blocks have their history down to the garbage collection *)
(* round, and the suspension bookkeeping of Dag is exact.                  *)
(***************************************************************************)
THEOREM StoreInvariant == Spec => []Inv
  <1>1. Init => Inv
    BY EpochAssumption, NewStore DEF Init, Inv, TypeOK, StoreInv
  <1> QED BY <1>1, StoreStep, PTL DEF Spec

\* What the invariant says of the store, and what the blocks are.
LEMMA InvFacts ==
  Inv => /\ TypeOK /\ DagOf(DagBlock, dag) /\ StoreInv(DagBlock, dag)
         /\ SoundBlocks(DagBlock)
  BY DagBlockAssumption DEF Inv, TypeOK

\* The effect of set_last_committed_round on the parts of the store, whether it
\* moves the round or not.
LEMMA CommitFields ==
  ASSUME Inv, NEW b \in DagBlock, SetCommitted(b.round)
  PROVE  /\ dag'.epoch = dag.epoch
         /\ GcRound(dag) \in Nat /\ GcRound(dag') \in Nat /\ GcRound(dag) <= GcRound(dag')
         /\ dag' # dag => dag'.blocks = {x \in dag.blocks : x.round > GcRound(dag')}
         /\ dag'.suspended \subseteq dag.suspended
         /\ dag'.next_epoch_buffer = dag.next_epoch_buffer
  <1>1. /\ DagOf(DagBlock, dag) /\ StoreInv(DagBlock, dag) /\ SoundBlocks(DagBlock)
        /\ GcRound(dag) \in Nat
    BY InvFacts, GcRoundMonotone DEF DagOf
  <1>2. b.round \in Nat
    BY <1>1 DEF SoundBlocks
  <1>3. CASE b.round <= dag.last_committed_round
    <2>1. dag' = dag
      BY <1>3 DEF SetCommitted, SetLastCommittedRound
    <2> QED BY <1>1, <2>1
  <1>4. CASE ~(b.round <= dag.last_committed_round)
    <2>1. dag' = SetLastCommittedRound(dag, b.round)
      BY DEF SetCommitted
    <2> QED BY <1>1, <1>2, <1>4, <2>1, CollectsFields
  <1> QED BY <1>3, <1>4

-----------------------------------------------------------------------------
(* No block the store took charge of is lost silently. *)

\* The effect of an insert that accepts, on the parts of the store.
LEMMA AcceptFields ==
  ASSUME Inv, NEW b, NEW P, NEW R, AcceptStep(b, P, R)
  PROVE  /\ dag'.blocks = dag.blocks \cup Promoting(b, P)
         /\ dag'.suspended = dag.suspended \ Woken(dag, Promoting(b, P))
         /\ dag'.next_epoch_buffer = dag.next_epoch_buffer
         /\ dag'.last_committed_round = dag.last_committed_round
         /\ dag'.epoch = dag.epoch
  <1>1. DagOf(DagBlock, dag) /\ Accepts(DagBlock, dag, dag', b, P, R)
    BY InvFacts DEF AcceptStep
  <1> QED BY <1>1 DEF Accepts, DagOf

\* A cascade leaves every block it wakes accepted or reported.
LEMMA AcceptsHeld ==
  ASSUME Inv, HeldBlocksAccounted, NEW b, NEW P, NEW R, AcceptStep(b, P, R)
  PROVE  HeldBlocksAccounted'
  <1> DEFINE new == Promoting(b, P)
             woken == Woken(dag, new)
  <1>1. /\ dag'.blocks = dag.blocks \cup new
        /\ dag'.suspended = dag.suspended \ woken
        /\ dag'.epoch = dag.epoch
    BY AcceptFields
  <1>2. evidence' = evidence \cup R /\ held' = held \cup {b}
    BY DEF AcceptStep
  <1>3. VSet(dag') = VSet(dag)
    BY <1>1 DEF VSet
  <1>4. ASSUME NEW x \in woken, x \notin P, StrongLinkQuorum(VSet(dag), x)
        PROVE  \E p \in R : p[2] = Reference(x)
    <2>1. PICK r \in dag.by_slot \cup Refs(new) : Slot(r) = Slot(x) /\ r.digest # x.digest
      BY <1>4 DEF AcceptStep, Accepts, IsCascade, Promoting, ConflictsWith
    <2>2. /\ Slot(x) = Slot(Reference(x)) /\ x.digest = Reference(x).digest
          /\ Reference(x) \in Refs({x})
      BY DEF Slot, Reference, Refs
    <2>3. <<r, Reference(x)>> \in R
      <3>1. Conflicts(dag.by_slot \cup {Reference(b)}, woken \ P) \subseteq R
        BY DEF AcceptStep, Accepts, CascadeReports, Promoting
      <3>2. Conflicts(Refs(new), {y \in woken \ P : StrongLinkQuorum(VSet(dag), y)}) \subseteq R
        BY DEF AcceptStep, Accepts, CascadeReports, Promoting
      <3>3. CASE r \in dag.by_slot
        BY <1>4, <2>1, <2>2, <3>1, <3>3 DEF Conflicts, Refs
      <3>4. CASE r \in Refs(new)
        BY <1>4, <2>1, <2>2, <3>2, <3>4 DEF Conflicts, Refs
      <3> QED BY <2>1, <3>3, <3>4
    <2> QED BY <2>3
  <1>5. b \in new /\ P \subseteq new
    BY DEF Promoting
  <1> HIDE DEF new, woken
  <1>6. \A x \in held' :
          \/ x \in dag'.blocks \cup dag'.suspended
          \/ \E p \in evidence' : p[2] = Reference(x)
          \/ ~StrongLinkQuorum(VSet(dag'), x)
    BY <1>1, <1>2, <1>3, <1>4, <1>5 DEF HeldBlocksAccounted
  <1> QED BY <1>6 DEF HeldBlocksAccounted

\* No step of the store loses a block that it had taken charge of.
LEMMA HeldStep == Inv /\ HeldBlocksAccounted /\ [Next]_vars => HeldBlocksAccounted'
  <1> SUFFICES ASSUME Inv, HeldBlocksAccounted, [Next]_vars PROVE HeldBlocksAccounted'
    OBVIOUS
  <1>0. TypeOK
    BY DEF Inv
  <1>1. ASSUME NEW b, SuspendStep(b) PROVE HeldBlocksAccounted'
    <2>1. /\ dag'.blocks = dag.blocks /\ dag'.suspended = dag.suspended \cup {b}
          /\ dag'.epoch = dag.epoch /\ evidence' = evidence /\ held' = held \cup {b}
      BY <1>0, <1>1 DEF SuspendStep, Suspends, Suspend, TypeOK, DagOf
    <2> QED BY <2>1 DEF HeldBlocksAccounted, VSet
  <1>2. ASSUME NEW b, BufferStep(b) PROVE HeldBlocksAccounted'
    <2>1. /\ dag'.blocks = dag.blocks /\ dag'.suspended = dag.suspended
          /\ dag'.epoch = dag.epoch /\ evidence' = evidence /\ held' = held
      BY <1>0, <1>2 DEF BufferStep, Buffers, BufferNextEpoch, TypeOK, DagOf
    <2> QED BY <2>1 DEF HeldBlocksAccounted, VSet
  <1>3. ASSUME NEW b, RefuseStep(b) PROVE HeldBlocksAccounted'
    <2>1. ASSUME ConflictsWith(dag.by_slot, b) # {}
          PROVE  \E p \in Conflicts(dag.by_slot, {b}) : p[2] = Reference(b)
      <3>1. PICK r \in dag.by_slot : Slot(r) = Slot(b) /\ r.digest # b.digest
        BY <2>1 DEF ConflictsWith
      <3>2. Slot(b) = Slot(Reference(b)) /\ b.digest = Reference(b).digest
        BY DEF Slot, Reference
      <3>3. <<r, Reference(b)>> \in Conflicts(dag.by_slot, {b})
        BY <3>1, <3>2 DEF Conflicts, Refs
      <3> QED BY <3>3
    <2> QED BY <1>3, <2>1 DEF HeldBlocksAccounted, RefuseStep, VSet
  <1>4. ASSUME NEW b \in DagBlock, NEW sig_ok \in BOOLEAN, OnBlock(b, sig_ok)
        PROVE  HeldBlocksAccounted'
    BY <1>0, <1>1, <1>2, <1>3, <1>4, OnBlockEffects, AcceptsHeld
  <1>5. ASSUME NEW b \in DagBlock, SetCommitted(b.round)
        PROVE  HeldBlocksAccounted'
    <2>1. dag'.epoch = dag.epoch
      BY <1>5, CommitFields
    <2> QED BY <1>5, <2>1 DEF SetCommitted, HeldBlocksAccounted, VSet
  <1>6. CASE AdvanceEpoch
    BY <1>6 DEF AdvanceEpoch, HeldBlocksAccounted
  <1>7. CASE UNCHANGED vars
    BY <1>7 DEF vars, HeldBlocksAccounted, VSet
  <1> QED BY <1>4, <1>5, <1>6, <1>7 DEF Next

\* Whatever insert accepted, suspended or reported is still in the store,
\* reported to the caller, or was never admissible: Dag loses no block
\* silently, in whatever order ancestors arrive.
THEOREM NothingLost == Spec => []HeldBlocksAccounted
  <1>1. Init => HeldBlocksAccounted
    BY DEF Init, HeldBlocksAccounted
  <1> QED BY <1>1, StoreInvariant, HeldStep, PTL DEF Spec

-----------------------------------------------------------------------------
(* What a step may never do, and the capacities. *)

Collects ==
  dag'.epoch = dag.epoch =>
    /\ GcRound(dag') >= GcRound(dag)
    /\ \A b \in dag.blocks \ dag'.blocks : b.round <= GcRound(dag')

\* Within an epoch only set_committed removes accepted blocks, and only up to
\* the collection round.
LEMMA CollectStep ==
  ASSUME Inv, [Next]_vars
  PROVE  [Collects]_vars
  <1>0. TypeOK
    BY DEF Inv
  <1>1. ASSUME dag.blocks \subseteq dag'.blocks,
               dag'.last_committed_round = dag.last_committed_round
        PROVE  Collects
    <2>1. GcRound(dag') = GcRound(dag)
      BY <1>1 DEF GcRound
    <2>2. GcRound(dag) \in Nat
      BY InvFacts, GcRoundMonotone DEF DagOf
    <2> QED BY <1>1, <2>1, <2>2 DEF Collects
  <1>2. ASSUME NEW b \in DagBlock, NEW sig_ok \in BOOLEAN, OnBlock(b, sig_ok)
        PROVE  Collects
    <2>1. \A P, R : AcceptStep(b, P, R) => Collects
      BY <1>1, AcceptFields
    <2>2. SuspendStep(b) => Collects
      BY <1>0, <1>1 DEF SuspendStep, Suspends, Suspend, TypeOK, DagOf
    <2>3. BufferStep(b) => Collects
      BY <1>0, <1>1 DEF BufferStep, Buffers, BufferNextEpoch, TypeOK, DagOf
    <2>4. RefuseStep(b) => Collects
      BY <1>1 DEF RefuseStep
    <2> QED BY <1>0, <1>2, <2>1, <2>2, <2>3, <2>4, OnBlockEffects
  <1>3. ASSUME NEW b \in DagBlock, SetCommitted(b.round)
        PROVE  Collects
    <2>1. \A x \in dag.blocks : x.round \in Nat
      BY InvFacts DEF DagOf, SoundBlocks
    <2> QED BY <1>3, <2>1, CommitFields DEF Collects
  <1>4. CASE AdvanceEpoch
    <2>1. dag'.epoch # dag.epoch
      BY <1>0, <1>4 DEF AdvanceEpoch, NewDag, TypeOK, DagOf
    <2> QED BY <2>1 DEF Collects
  <1> QED BY <1>2, <1>3, <1>4 DEF Next

\* Dag never forgets an accepted block above the garbage collection round, and
\* that round never moves back within an epoch.
THEOREM OnlyTheCollectorForgets == Spec => AcceptedUntilCollected
  BY StoreInvariant, CollectStep, PTL DEF Spec, AcceptedUntilCollected, Collects

FiniteBuffers == IsFiniteSet(dag.suspended) /\ IsFiniteSet(dag.next_epoch_buffer)

\* No step takes a buffer of Dag above its capacity.
LEMMA BoundedStep ==
  ASSUME Inv, FiniteBuffers, BuffersBounded, [Next]_vars
  PROVE  FiniteBuffers' /\ BuffersBounded'
  <1>0. TypeOK /\ MAX_SUSPENDED \in Nat /\ MAX_NEXT_EPOCH_BUFFER \in Nat
    BY CapacityAssumption DEF Inv
  <1>1. /\ Cardinality(dag.suspended) \in Nat
        /\ Cardinality(dag.next_epoch_buffer) \in Nat
    BY FS_CardinalityType DEF FiniteBuffers
  <1>2. ASSUME dag'.suspended \subseteq dag.suspended,
               dag'.next_epoch_buffer \subseteq dag.next_epoch_buffer
        PROVE  FiniteBuffers' /\ BuffersBounded'
    <2>1. /\ IsFiniteSet(dag'.suspended)
          /\ Cardinality(dag'.suspended) <= Cardinality(dag.suspended)
          /\ IsFiniteSet(dag'.next_epoch_buffer)
          /\ Cardinality(dag'.next_epoch_buffer) <= Cardinality(dag.next_epoch_buffer)
      BY <1>2, FS_Subset DEF FiniteBuffers
    <2>2. Cardinality(dag'.suspended) \in Nat /\ Cardinality(dag'.next_epoch_buffer) \in Nat
      BY <2>1, FS_CardinalityType
    <2> QED BY <1>0, <1>1, <2>1, <2>2 DEF FiniteBuffers, BuffersBounded
  <1>3. ASSUME NEW b, SuspendStep(b) PROVE FiniteBuffers' /\ BuffersBounded'
    <2>1. /\ dag'.suspended = dag.suspended \cup {b}
          /\ dag'.next_epoch_buffer = dag.next_epoch_buffer
          /\ Cardinality(dag.suspended) < MAX_SUSPENDED
      BY <1>0, <1>3 DEF SuspendStep, Suspends, Suspend, TypeOK, DagOf
    <2>2. IsFiniteSet(dag.suspended)
      BY DEF FiniteBuffers
    <2>3. /\ IsFiniteSet(dag.suspended \cup {b})
          /\ Cardinality(dag.suspended \cup {b}) <= Cardinality(dag.suspended) + 1
      <3>1. /\ IsFiniteSet(dag.suspended \cup {b})
            /\ \/ Cardinality(dag.suspended \cup {b}) = Cardinality(dag.suspended)
               \/ Cardinality(dag.suspended \cup {b}) = Cardinality(dag.suspended) + 1
        BY <2>2, FS_AddElement, Zenon
      <3> QED BY <1>1, <2>2, <3>1
    <2>4. Cardinality(dag.suspended \cup {b}) \in Nat
      BY <2>3, FS_CardinalityType
    <2> QED BY <1>0, <1>1, <2>1, <2>3, <2>4 DEF FiniteBuffers, BuffersBounded
  <1>4. ASSUME NEW b, BufferStep(b) PROVE FiniteBuffers' /\ BuffersBounded'
    <2> DEFINE rest == {c \in dag.next_epoch_buffer : Reference(c) # Reference(b)}
    <2>1. /\ dag'.suspended = dag.suspended
          /\ dag'.next_epoch_buffer = rest \cup {b}
          /\ Cardinality(dag.next_epoch_buffer) < MAX_NEXT_EPOCH_BUFFER
      BY <1>0, <1>4 DEF BufferStep, Buffers, BufferNextEpoch, TypeOK, DagOf
    <2>2. rest \subseteq dag.next_epoch_buffer
      OBVIOUS
    <2> HIDE DEF rest
    <2>3. IsFiniteSet(rest) /\ Cardinality(rest) <= Cardinality(dag.next_epoch_buffer)
      BY <2>2, FS_Subset DEF FiniteBuffers
    <2>4. Cardinality(rest) \in Nat
      BY <2>3, FS_CardinalityType
    <2>5. /\ IsFiniteSet(rest \cup {b})
          /\ Cardinality(rest \cup {b}) <= Cardinality(rest) + 1
      <3>1. /\ IsFiniteSet(rest \cup {b})
            /\ \/ Cardinality(rest \cup {b}) = Cardinality(rest)
               \/ Cardinality(rest \cup {b}) = Cardinality(rest) + 1
        BY <2>3, FS_AddElement, Zenon
      <3> QED BY <2>3, <2>4, <3>1
    <2>6. Cardinality(rest \cup {b}) \in Nat
      BY <2>5, FS_CardinalityType
    <2> QED BY <1>0, <1>1, <2>1, <2>3, <2>4, <2>5, <2>6 DEF FiniteBuffers, BuffersBounded
  <1>5. ASSUME NEW b \in DagBlock, NEW sig_ok \in BOOLEAN, OnBlock(b, sig_ok)
        PROVE  FiniteBuffers' /\ BuffersBounded'
    <2>1. \A P, R : AcceptStep(b, P, R) => FiniteBuffers' /\ BuffersBounded'
      BY <1>2, AcceptFields
    <2>2. RefuseStep(b) => FiniteBuffers' /\ BuffersBounded'
      BY <1>2 DEF RefuseStep
    <2> QED BY <1>0, <1>3, <1>4, <1>5, <2>1, <2>2, OnBlockEffects
  <1>6. ASSUME NEW b \in DagBlock, SetCommitted(b.round)
        PROVE  FiniteBuffers' /\ BuffersBounded'
    <2>1. /\ dag'.suspended \subseteq dag.suspended
          /\ dag'.next_epoch_buffer = dag.next_epoch_buffer
      BY <1>6, CommitFields
    <2> QED BY <1>2, <2>1
  <1>7. CASE AdvanceEpoch
    BY <1>2, <1>7 DEF AdvanceEpoch, NewDag
  <1>8. CASE UNCHANGED vars
    BY <1>2, <1>8 DEF vars
  <1> QED BY <1>5, <1>6, <1>7, <1>8 DEF Next

\* The buffers of Dag never exceed MAX_SUSPENDED and MAX_NEXT_EPOCH_BUFFER,
\* whatever peers send.
THEOREM BuffersStayBounded == Spec => []BuffersBounded
  <1>1. Init => FiniteBuffers /\ BuffersBounded
    BY FS_EmptySet, CapacityAssumption DEF Init, NewDag, FiniteBuffers, BuffersBounded
  <1>2. Inv /\ FiniteBuffers /\ BuffersBounded /\ [Next]_vars
          => FiniteBuffers' /\ BuffersBounded'
    BY BoundedStep
  <1> QED BY <1>1, <1>2, StoreInvariant, PTL DEF Spec

\* The store is consistent in every reachable state: agreeing indexes, one block
\* a slot, causal closure, exact registration of waiters, bounded buffers.
THEOREM StoreIsSound == Spec => [](TypeOK /\ StoreConsistent)
  <1>1. Inv /\ BuffersBounded => TypeOK /\ StoreConsistent
    BY DEF Inv, StoreInv, StoreConsistent
  <1> QED BY <1>1, StoreInvariant, BuffersStayBounded, PTL
=============================================================================
