----------------------------- MODULE DagProofs -----------------------------
(***************************************************************************)
(* What the operations of the block DAG do to a store, for every set of    *)
(* blocks, every committee and every capacity.  Dag::insert has one of     *)
(* four effects, which InsertEffects derives from the code's early returns *)
(* once and for all; each effect, and the garbage collector, is then shown *)
(* to keep the invariant of the store.  Thresholds are never opened:       *)
(* nothing here depends on which sets are quorums.                         *)
(***************************************************************************)
EXTENDS Dag, FiniteSetTheorems, TLAPS

(***************************************************************************)
(* The inductive invariant.  Indexes and causal closure need each other    *)
(* only through the garbage collector, which finds the blocks to drop in   *)
(* the round index; waking a block needs its registrations to be exact.    *)
(***************************************************************************)
StoreInv(B, d) ==
  DagOf(B, d) /\ IndexesAgree(d) /\ CausallyClosed(d) /\ WaitingForExact(d)

-----------------------------------------------------------------------------
(* The effects of Dag::insert on a store d, which becomes e. *)

Promoting(b, P) == {b} \cup P

Admissible(B, d, b) ==
  b \in B /\ b.intact /\ b.epoch = d.epoch /\ b.author \in DOMAIN VSet(d)

\* b and the set P of suspended blocks enter the DAG; R is reported.
Accepts(B, d, e, b, P, R) ==
  /\ Admissible(B, d, b)
  /\ MissingAncestors(d, b) = {}
  /\ ConflictsWith(d.by_slot, b) = {}
  /\ IsCascade(d, b, P)
  /\ R \in CascadeReports(d, b, P)
  /\ e = [d EXCEPT
       !.blocks    = @ \cup Promoting(b, P),
       !.by_slot   = {r \in @ : \A x \in Promoting(b, P) : Slot(x) # Slot(r)}
                       \cup Refs(Promoting(b, P)),
       !.by_round  = @ \cup Refs(Promoting(b, P)),
       !.suspended = @ \ Woken(d, Promoting(b, P)),
       !.waiting_for = {p \in @ : /\ p[1] \notin Refs(Promoting(b, P))
                                  /\ p[2] \notin Refs(Woken(d, Promoting(b, P)))}]

\* b waits for its missing ancestors.
Suspends(B, d, e, b) ==
  /\ Admissible(B, d, b)
  /\ MissingAncestors(d, b) # {}
  /\ Cardinality(d.suspended) < MAX_SUSPENDED
  /\ e = Suspend(d, b)

\* b waits for the next epoch.
Buffers(B, d, e, b) ==
  /\ b \in B /\ b.epoch = d.epoch + 1
  /\ Cardinality(d.next_epoch_buffer) < MAX_NEXT_EPOCH_BUFFER
  /\ e = BufferNextEpoch(d, b)

\* Insert leaves the store as it is: b is known, turned away or dropped.
Refused == {"Known", "Dropped", "EpochMismatch", "DigestMismatch", "BadAuthorOrSignature",
            "BelowGcBoundary", "InsufficientStrongLinks", "Equivocation"}

\* What on_block, which drains the reports of insert, can do to the store.
LEMMA InsertEffects ==
  ASSUME NEW B, NEW d, DagOf(B, d), NEW b \in B, NEW sig_ok \in BOOLEAN,
         NEW f \in Insert(d, b, sig_ok), NEW e, e = DrainEquivocations(f),
         NEW outcome, outcome = InsertOutcome(d, b, sig_ok)
  PROVE  \/ /\ outcome = "Accepted"
            /\ \E P, R : Accepts(B, d, e, b, P, R) /\ f.pending_equivocations = R
         \/ outcome = "Suspended" /\ Suspends(B, d, e, b) /\ f.pending_equivocations = {}
         \/ outcome = "NextEpochBuffered" /\ Buffers(B, d, e, b) /\ f.pending_equivocations = {}
         \/ /\ outcome \in Refused
            /\ e = d /\ f.pending_equivocations = {}
            /\ outcome = "Known" => Contains(d, Reference(b))
            /\ outcome = "Equivocation" => ConflictsWith(d.by_slot, b) # {}
  <1>1. d = DrainEquivocations(d) /\ d.pending_equivocations = {}
    BY DEF DagOf, DrainEquivocations
  <1>2. CASE outcome = "Accepted"
    <2>1. PICK P, R : /\ P \in Cascades(d, b) /\ R \in CascadeReports(d, b, P)
                      /\ f = AfterCascade(d, b, P, R)
      BY <1>2 DEF Insert, Accepting
    <2>2. IsCascade(d, b, P)
      BY <2>1 DEF Cascades
    <2>3. /\ Admissible(B, d, b)
          /\ MissingAncestors(d, b) = {}
          /\ ConflictsWith(d.by_slot, b) = {}
      BY <1>2 DEF InsertOutcome, AuthorAndSignatureOk, Admissible
    <2>4. f.pending_equivocations = R
      BY <1>1, <2>1 DEF AfterCascade, DagOf
    <2>5. Accepts(B, d, e, b, P, R)
      BY <1>1, <2>1, <2>2, <2>3 DEF Accepts, AfterCascade, DrainEquivocations, Promoting, DagOf
    <2> QED BY <1>2, <2>4, <2>5
  <1>3. CASE outcome = "Suspended"
    <2>1. f = Suspend(d, b)
      BY <1>3 DEF Insert
    <2>2. f.pending_equivocations = {} /\ DrainEquivocations(f) = f
      BY <1>1, <2>1 DEF Suspend, DrainEquivocations, DagOf
    <2>3. Suspends(B, d, e, b)
      BY <1>3, <2>1, <2>2
         DEF Suspends, InsertOutcome, AuthorAndSignatureOk, Admissible, HasRoom
    <2> QED BY <1>3, <2>2, <2>3
  <1>4. CASE outcome = "NextEpochBuffered"
    <2>1. f = BufferNextEpoch(d, b)
      BY <1>4 DEF Insert
    <2>2. f.pending_equivocations = {} /\ DrainEquivocations(f) = f
      BY <1>1, <2>1 DEF BufferNextEpoch, DrainEquivocations, DagOf
    <2>3. Buffers(B, d, e, b)
      BY <1>4, <2>1, <2>2 DEF Buffers, InsertOutcome, HasRoom
    <2> QED BY <1>4, <2>2, <2>3
  <1>5. CASE outcome \in Refused
    <2>1. f = d
      BY <1>5 DEF Insert, Refused
    <2>2. outcome = "Equivocation" => ConflictsWith(d.by_slot, b) # {}
      BY DEF InsertOutcome
    <2>3. outcome = "Known" => Contains(d, Reference(b))
      BY DEF InsertOutcome
    <2> QED BY <1>1, <1>5, <2>1, <2>2, <2>3
  <1>6. outcome \in Refused \cup {"Accepted", "Suspended", "NextEpochBuffered"}
    BY DEF InsertOutcome, Refused
  <1> QED BY <1>2, <1>3, <1>4, <1>5, <1>6

-----------------------------------------------------------------------------
(* Accepting, suspending and buffering keep the invariant. *)

\* Intact blocks of the store are determined by their references.
LEMMA SameReference ==
  ASSUME NEW B, SoundBlocks(B), NEW x \in B, NEW y \in B, x.intact, y.intact,
         Slot(x) = Slot(y), x.digest = y.digest
  PROVE  x = y
  BY DEF SoundBlocks, Slot, Reference

\* Rule 6 leaves one digest per slot.
LEMMA NoConflict ==
  ASSUME NEW taken, NEW x, NEW y, ConflictsWith(taken, x) = {},
         Reference(y) \in taken, Slot(x) = Slot(y)
  PROVE  x.digest = y.digest
  <1>1. Slot(Reference(y)) = Slot(y) /\ Reference(y).digest = y.digest
    BY DEF Slot, Reference
  <1>2. Slot(Reference(y)) = Slot(x) /\ Reference(y).digest # x.digest
          => Reference(y) \in ConflictsWith(taken, x)
    BY DEF ConflictsWith
  <1> QED BY <1>1, <1>2


\* The garbage collection round, as a number that follows the last commit.
LEMMA GcRoundMonotone ==
  ASSUME NEW c, NEW e, c.last_committed_round \in Nat, e.last_committed_round \in Nat
  PROVE  /\ GcRound(c) \in Nat
         /\ c.last_committed_round <= e.last_committed_round => GcRound(c) <= GcRound(e)
  BY CapacityAssumption DEF GcRound, SaturatingSub


\* The fields after a cascade.
LEMMA AcceptsFields ==
  ASSUME NEW B, SoundBlocks(B), NEW d, NEW e, StoreInv(B, d),
         NEW b, NEW P, NEW R, Accepts(B, d, e, b, P, R)
  PROVE  LET new == Promoting(b, P) woken == Woken(d, new) IN
         /\ e.blocks = d.blocks \cup new
         /\ e.by_slot = {r \in d.by_slot : \A x \in new : Slot(x) # Slot(r)}
                             \cup Refs(new)
         /\ e.by_round = d.by_round \cup Refs(new)
         /\ e.suspended = d.suspended \ woken
         /\ e.waiting_for = {p \in d.waiting_for :
                                  p[1] \notin Refs(new) /\ p[2] \notin Refs(woken)}
         /\ e.next_epoch_buffer = d.next_epoch_buffer
         /\ e.last_committed_round = d.last_committed_round
         /\ e.epoch = d.epoch
         /\ e.pending_equivocations = {}
         /\ P \subseteq woken
         /\ woken \subseteq d.suspended
         /\ new \subseteq B
         /\ \A x \in new : x.intact /\ x.epoch = d.epoch /\ x.author \in DOMAIN VSet(d)
  <1>1. P \subseteq Woken(d, Promoting(b, P))
    BY DEF Accepts, IsCascade, Promoting
  <1>2. Woken(d, Promoting(b, P)) \subseteq d.suspended
    BY DEF Woken
  <1>3. /\ Promoting(b, P) \subseteq B
        /\ \A x \in Promoting(b, P) :
             x.intact /\ x.epoch = d.epoch /\ x.author \in DOMAIN VSet(d)
    BY <1>1, <1>2 DEF Accepts, Admissible, Promoting, StoreInv, DagOf
  <1> QED BY <1>1, <1>2, <1>3 DEF Accepts, StoreInv, DagOf

\* Accepting a block, with the cascade of try_unsuspend that it sets off, keeps
\* the invariant.
LEMMA AcceptsStore ==
  ASSUME NEW B, SoundBlocks(B), NEW d, NEW e, StoreInv(B, d),
         NEW b, NEW P, NEW R, Accepts(B, d, e, b, P, R)
  PROVE  StoreInv(B, e)
  <1> DEFINE new == Promoting(b, P)
             woken == Woken(d, new)
  <1>0. /\ e.blocks = d.blocks \cup new
        /\ e.by_slot = {r \in d.by_slot : \A x \in new : Slot(x) # Slot(r)} \cup Refs(new)
        /\ e.by_round = d.by_round \cup Refs(new)
        /\ e.suspended = d.suspended \ woken
        /\ e.waiting_for = {p \in d.waiting_for :
                                 p[1] \notin Refs(new) /\ p[2] \notin Refs(woken)}
        /\ e.next_epoch_buffer = d.next_epoch_buffer
        /\ e.last_committed_round = d.last_committed_round
        /\ e.epoch = d.epoch
        /\ e.pending_equivocations = {}
        /\ P \subseteq woken
        /\ woken \subseteq d.suspended
        /\ new \subseteq B
        /\ \A x \in new : x.intact /\ x.epoch = d.epoch /\ x.author \in DOMAIN VSet(d)
    BY AcceptsFields
  <1>1. Refs(new) \subseteq AllRefs(B) /\ Refs(d.blocks \cup new) = Refs(d.blocks) \cup Refs(new)
    BY <1>0 DEF AllRefs, Refs
  <1>2. \A x \in new : \A y \in d.blocks \cup new : Slot(x) = Slot(y) => x = y
    <2>0. /\ ConflictsWith(d.by_slot, b) = {}
          /\ \A x \in P : ConflictsWith(d.by_slot \cup Refs(new), x) = {}
      BY <1>0 DEF Accepts, IsCascade, Promoting
    <2>1. \A x \in new : ConflictsWith(d.by_slot, x) = {}
      BY <2>0 DEF Promoting, ConflictsWith
    <2>2. \A x \in new : x = b \/ ConflictsWith(Refs(new), x) = {}
      BY <2>0 DEF Promoting, ConflictsWith
    <2>3. \A x \in new : \A y \in d.blocks : Slot(x) = Slot(y) => x.digest = y.digest
      <3> SUFFICES ASSUME NEW x \in new, NEW y \in d.blocks, Slot(x) = Slot(y)
                   PROVE  x.digest = y.digest
        OBVIOUS
      <3>1. Reference(y) \in d.by_slot
        BY DEF StoreInv, IndexesAgree, Refs
      <3> QED BY <2>1, <3>1, NoConflict
    <2>4. \A x, y \in new : Slot(x) = Slot(y) => x.digest = y.digest
      <3> SUFFICES ASSUME NEW x \in new, NEW y \in new, Slot(x) = Slot(y)
                   PROVE  x.digest = y.digest
        OBVIOUS
      <3>1. Reference(x) \in Refs(new) /\ Reference(y) \in Refs(new)
        BY DEF Refs
      <3> QED BY <2>2, <3>1, NoConflict
    <2>5. \A y \in d.blocks : y \in B /\ y.intact
      BY DEF StoreInv, DagOf
    <2> QED BY <1>0, <2>3, <2>4, <2>5, SameReference
  <1>3. DagOf(B, e)
    <2>1. VSet(e) = VSet(d)
      BY <1>0 DEF VSet
    <2>3. e \in [blocks : SUBSET B, by_slot : SUBSET AllRefs(B),
                    by_round : SUBSET AllRefs(B), suspended : SUBSET B,
                    waiting_for : SUBSET (AllRefs(B) \X AllRefs(B)),
                    next_epoch_buffer : SUBSET B, last_committed_round : Nat,
                    epoch : Nat, pending_equivocations : {{}}]
      BY <1>0, <1>1 DEF Accepts, StoreInv, DagOf
    <2>4. \A x \in e.blocks \cup e.suspended :
            x.intact /\ x.epoch = e.epoch /\ x.author \in DOMAIN VSet(e)
      BY <1>0, <2>1 DEF StoreInv, DagOf
    <2> QED BY <1>0, <2>3, <2>4 DEF StoreInv, DagOf
  <1>4. IndexesAgree(e)
    <2>1. \A r \in d.by_slot : \A x \in new : Slot(x) = Slot(r) => r \in Refs(new)
      <3> SUFFICES ASSUME NEW y \in d.blocks, NEW x \in new, Slot(x) = Slot(Reference(y))
                   PROVE  Reference(y) \in Refs(new)
        BY DEF StoreInv, IndexesAgree, Refs
      <3>1. Slot(Reference(y)) = Slot(y)
        BY DEF Slot, Reference
      <3> QED BY <1>2, <3>1 DEF Refs
    <2>2. e.by_slot = Refs(d.blocks) \cup Refs(new) /\ e.by_round = Refs(d.blocks) \cup Refs(new)
      BY <1>0, <2>1 DEF StoreInv, IndexesAgree
    <2>3. \A x, y \in e.blocks : Slot(x) = Slot(y) => x = y
      BY <1>0, <1>2 DEF StoreInv, IndexesAgree
    <2> QED BY <1>0, <1>1, <2>2, <2>3 DEF IndexesAgree
  <1>5. CausallyClosed(e)
    <2>1. GcRound(e) = GcRound(d)
      BY <1>0 DEF GcRound
    <2>2. Refs(e.blocks) = Refs(d.blocks) \cup Refs(new)
      BY <1>0, <1>1 DEF Refs
    <2>3. \A x \in new : \A a \in x.ancestors : a \in Refs(d.blocks) \cup Refs(new)
      <3>1. \A a \in b.ancestors : a \in Refs(d.blocks)
        BY DEF Accepts, MissingAncestors, Contains
      <3>2. \A x \in P : x.ancestors \subseteq Refs(d.blocks \cup new)
        BY <1>0 DEF Woken
      <3> QED BY <1>1, <3>1, <3>2 DEF Promoting
    <2> QED BY <1>0, <2>1, <2>2, <2>3 DEF StoreInv, CausallyClosed
  <1>6. WaitingForExact(e)
    <2>1. \A x : MissingAncestors(e, x) = MissingAncestors(d, x) \ Refs(new)
      BY <1>0, <1>1 DEF MissingAncestors, Contains
    <2>2. \A x \in d.suspended : x \in woken <=> Reference(x) \in Refs(woken)
      <3> SUFFICES ASSUME NEW x \in d.suspended, NEW y \in woken, Reference(x) = Reference(y)
                   PROVE  x = y
        BY DEF Refs
      <3> QED BY <1>0 DEF SoundBlocks, StoreInv, DagOf
    <2>3. \A x \in d.suspended \ woken : MissingAncestors(d, x) \ Refs(new) # {}
      <3> SUFFICES ASSUME NEW x \in d.suspended,
                          MissingAncestors(d, x) \subseteq Refs(new)
                   PROVE  x \in woken
        BY <2>1
      <3>1. PICK a \in MissingAncestors(d, x) : TRUE
        BY DEF StoreInv, WaitingForExact
      <3>2. PICK y \in new : a = Reference(y)
        BY <3>1 DEF Refs
      <3>3. <<Reference(y), Reference(x)>> \in d.waiting_for
        BY <3>1, <3>2 DEF StoreInv, WaitingForExact
      <3>4. x.ancestors \subseteq Refs(d.blocks \cup new)
        BY <1>1 DEF MissingAncestors, Contains
      <3> QED BY <3>3, <3>4 DEF Woken
    <2>4. \A p \in e.waiting_for : \E x \in e.suspended :
            p[1] \in MissingAncestors(d, x) \ Refs(new) /\ p[2] = Reference(x)
      BY <1>0, <2>2 DEF StoreInv, WaitingForExact
    <2>5. \A x \in e.suspended : MissingAncestors(e, x) # {}
      BY <1>0, <2>1, <2>3
    <2>6. \A x \in e.suspended : \A a \in MissingAncestors(d, x) \ Refs(new) :
            <<a, Reference(x)>> \in e.waiting_for
      BY <1>0, <2>2 DEF StoreInv, WaitingForExact
    <2> QED BY <2>1, <2>4, <2>5, <2>6 DEF WaitingForExact
  <1> QED BY <1>3, <1>4, <1>5, <1>6 DEF StoreInv

\* Dag::suspend keeps the invariant: it registers exactly the missing ancestors.
LEMMA SuspendsStore ==
  ASSUME NEW B, SoundBlocks(B), NEW d, NEW e, StoreInv(B, d),
         NEW b, Suspends(B, d, e, b)
  PROVE  StoreInv(B, e)
  <1> DEFINE waits == MissingAncestors(d, b) \X {Reference(b)}
  <1>1. /\ e = [d EXCEPT !.waiting_for = d.waiting_for \cup waits,
                              !.suspended = d.suspended \cup {b}]
        /\ b \in B /\ b.intact /\ b.epoch = d.epoch /\ b.author \in DOMAIN VSet(d)
        /\ MissingAncestors(d, b) # {}
    BY DEF Suspends, Suspend, Admissible
  <1>2. waits \subseteq AllRefs(B) \X AllRefs(B)
    BY <1>1 DEF AllRefs, Refs, MissingAncestors
  <1>3. DagOf(B, e)
    BY <1>1, <1>2 DEF StoreInv, DagOf, VSet
  <1>4. /\ e.blocks = d.blocks /\ e.by_slot = d.by_slot
        /\ e.by_round = d.by_round
        /\ e.last_committed_round = d.last_committed_round
        /\ e.suspended = d.suspended \cup {b}
        /\ e.waiting_for = d.waiting_for \cup waits
    BY <1>1 DEF StoreInv, DagOf
  <1>5. IndexesAgree(e) /\ CausallyClosed(e)
    BY <1>4 DEF StoreInv, IndexesAgree, CausallyClosed, GcRound
  <1>6. WaitingForExact(e)
    <2>1. \A x : MissingAncestors(e, x) = MissingAncestors(d, x)
      BY <1>4 DEF MissingAncestors, Contains
    <2>2. \A p \in waits : p[2] = Reference(b) /\ p[1] \in MissingAncestors(d, b)
      OBVIOUS
    <2>3. \A p \in e.waiting_for : \E x \in e.suspended :
            p[1] \in MissingAncestors(d, x) /\ p[2] = Reference(x)
      BY <1>4, <2>2 DEF StoreInv, WaitingForExact
    <2>4. \A x \in e.suspended :
            /\ MissingAncestors(d, x) # {}
            /\ \A a \in MissingAncestors(d, x) : <<a, Reference(x)>> \in e.waiting_for
      BY <1>1, <1>4 DEF StoreInv, WaitingForExact
    <2> QED BY <2>1, <2>3, <2>4 DEF WaitingForExact
  <1> QED BY <1>3, <1>5, <1>6 DEF StoreInv


\* What depends on the accepted and the suspended blocks only.
LEMMA SameStore ==
  ASSUME NEW B, SoundBlocks(B), NEW d, NEW e, StoreInv(B, d), DagOf(B, e),
         e.blocks = d.blocks, e.by_slot = d.by_slot, e.by_round = d.by_round,
         e.suspended = d.suspended, e.waiting_for = d.waiting_for,
         e.last_committed_round = d.last_committed_round
  PROVE  StoreInv(B, e)
  <1>1. IndexesAgree(e) /\ CausallyClosed(e)
    BY DEF StoreInv, IndexesAgree, CausallyClosed, GcRound
  <1>2. \A x : MissingAncestors(e, x) = MissingAncestors(d, x)
    BY DEF MissingAncestors, Contains
  <1>3. WaitingForExact(e)
    BY <1>2 DEF StoreInv, WaitingForExact
  <1> QED BY <1>1, <1>3 DEF StoreInv

\* Keeping a block of the next epoch keeps the invariant.
LEMMA BuffersStore ==
  ASSUME NEW B, SoundBlocks(B), NEW d, NEW e, StoreInv(B, d),
         NEW b, Buffers(B, d, e, b)
  PROVE  StoreInv(B, e)
  <1>1. DagOf(B, e)
    BY DEF StoreInv, DagOf, Buffers, BufferNextEpoch, VSet
  <1> QED BY <1>1, SameStore DEF Buffers, BufferNextEpoch, StoreInv, DagOf

-----------------------------------------------------------------------------
(* Garbage collection. *)

Evicted(d, e, gc) ==
  {x \in d.suspended :
     \/ x.round <= gc
     \/ \E a \in x.ancestors : a.round <= gc /\ a \notin Refs(e.blocks)}

\* The fields after a commit.
LEMMA CollectsFields ==
  ASSUME NEW B, SoundBlocks(B), NEW d, NEW e, StoreInv(B, d),
         NEW round \in Nat, e = SetLastCommittedRound(d, round),
         ~(round <= d.last_committed_round)
  PROVE  LET gc == GcRound(e) IN
         /\ gc \in Nat /\ GcRound(d) <= gc
         /\ e.blocks = {x \in d.blocks : x.round > gc}
         /\ e.by_slot = {r \in d.by_slot : r.round > gc}
         /\ e.by_round = {r \in d.by_round : r.round > gc}
         /\ e.suspended = d.suspended \ Evicted(d, e, gc)
         /\ e.waiting_for = {p \in d.waiting_for :
                                  p[1].round > gc /\ p[2] \notin Refs(Evicted(d, e, gc))}
         /\ e.next_epoch_buffer = d.next_epoch_buffer
         /\ e.last_committed_round = round
         /\ round \in Nat /\ round > d.last_committed_round
         /\ e.epoch = d.epoch
         /\ e.pending_equivocations = {}
         /\ e \in [blocks : SUBSET B, by_slot : SUBSET AllRefs(B), by_round : SUBSET AllRefs(B),
                   suspended : SUBSET B, waiting_for : SUBSET (AllRefs(B) \X AllRefs(B)),
                   next_epoch_buffer : SUBSET B, last_committed_round : Nat,
                   epoch : Nat, pending_equivocations : {{}}]
  <1> DEFINE c == [d EXCEPT !.last_committed_round = round]
             gc == GcRound(c)
             gc_refs == {r \in c.by_round : r.round <= gc}
             kept == {x \in c.blocks : Reference(x) \notin gc_refs}
             evicted == {x \in c.suspended :
                           \/ x.round <= gc
                           \/ \E a \in x.ancestors : a.round <= gc /\ a \notin Refs(kept)}
  <1>1. round \in Nat /\ round > d.last_committed_round /\ d.last_committed_round \in Nat
    BY DEF StoreInv, DagOf
  <1>2. e = CollectGarbage(c)
    BY <1>1 DEF SetLastCommittedRound
  <1>3. /\ c.blocks = d.blocks /\ c.by_slot = d.by_slot /\ c.by_round = d.by_round
        /\ c.suspended = d.suspended /\ c.waiting_for = d.waiting_for
        /\ c.last_committed_round = round
    BY DEF StoreInv, DagOf
  <1>4. e = [c EXCEPT !.blocks = kept,
                         !.by_round = c.by_round \ gc_refs,
                         !.by_slot = {r \in c.by_slot : \A g \in gc_refs : Slot(g) # Slot(r)},
                         !.suspended = c.suspended \ evicted,
                         !.waiting_for = {p \in c.waiting_for :
                                            p[1].round > gc /\ p[2] \notin Refs(evicted)}]
    BY <1>2 DEF CollectGarbage
  <1>5. /\ e.blocks = kept
        /\ e.by_round = c.by_round \ gc_refs
        /\ e.by_slot = {r \in c.by_slot : \A g \in gc_refs : Slot(g) # Slot(r)}
        /\ e.suspended = c.suspended \ evicted
        /\ e.waiting_for = {p \in c.waiting_for :
                                 p[1].round > gc /\ p[2] \notin Refs(evicted)}
        /\ e.next_epoch_buffer = d.next_epoch_buffer
        /\ e.last_committed_round = round
        /\ e.epoch = d.epoch
        /\ e.pending_equivocations = {}
    <2> HIDE DEF gc, gc_refs, kept, evicted
    <2> QED BY <1>4 DEF StoreInv, DagOf
  <1>6. GcRound(e) = gc
    BY <1>3, <1>5 DEF GcRound
  <1>7. gc \in Nat /\ GcRound(d) <= gc
    <2> HIDE DEF c
    <2> QED BY <1>1, <1>3, GcRoundMonotone
  <1>8. \A x \in d.blocks : x.round \in Nat /\ Reference(x).round = x.round
    BY DEF SoundBlocks, Reference, StoreInv, DagOf
  <1>9. \A r \in d.by_slot : r.round \in Nat /\ r \in d.by_round
    BY DEF SoundBlocks, StoreInv, IndexesAgree, DagOf
  <1>10. kept = {x \in d.blocks : x.round > gc}
    <2>1. \A x \in d.blocks : Reference(x) \in d.by_round
      BY DEF StoreInv, IndexesAgree, Refs
    <2> HIDE DEF gc
    <2> QED BY <1>3, <1>7, <1>8, <2>1
  <1>11. {r \in d.by_slot : \A g \in gc_refs : Slot(g) # Slot(r)}
           = {r \in d.by_slot : r.round > gc}
    <2> HIDE DEF gc
    <2> QED BY <1>3, <1>7, <1>9 DEF Slot
  <1>12. c.by_round \ gc_refs = {r \in d.by_round : r.round > gc}
    <2>1. \A r \in d.by_round : r.round \in Nat
      BY DEF SoundBlocks, StoreInv, DagOf
    <2> HIDE DEF gc
    <2> QED BY <1>3, <1>7, <2>1
  <1>13. evicted = Evicted(d, e, gc)
    BY <1>3, <1>5 DEF Evicted
  <1>14. e \in [blocks : SUBSET B, by_slot : SUBSET AllRefs(B), by_round : SUBSET AllRefs(B),
                  suspended : SUBSET B, waiting_for : SUBSET (AllRefs(B) \X AllRefs(B)),
                  next_epoch_buffer : SUBSET B, last_committed_round : Nat,
                  epoch : Nat, pending_equivocations : {{}}]
    <2> DEFINE by_slot == {r \in c.by_slot : \A g \in gc_refs : Slot(g) # Slot(r)}
               by_round == c.by_round \ gc_refs
               suspended == c.suspended \ evicted
               waiting_for == {p \in c.waiting_for : p[1].round > gc /\ p[2] \notin Refs(evicted)}
    <2>1. c \in [blocks : SUBSET B, by_slot : SUBSET AllRefs(B), by_round : SUBSET AllRefs(B),
                    suspended : SUBSET B, waiting_for : SUBSET (AllRefs(B) \X AllRefs(B)),
                    next_epoch_buffer : SUBSET B, last_committed_round : Nat,
                    epoch : Nat, pending_equivocations : {{}}]
      BY <1>1 DEF StoreInv, DagOf
    <2>2. /\ kept \in SUBSET B /\ by_slot \in SUBSET AllRefs(B) /\ by_round \in SUBSET AllRefs(B)
          /\ suspended \in SUBSET B /\ waiting_for \in SUBSET (AllRefs(B) \X AllRefs(B))
      <3> HIDE DEF c, gc, gc_refs, evicted
      <3> QED BY <2>1
    <2>3. e = [c EXCEPT !.blocks = kept, !.by_round = by_round, !.by_slot = by_slot,
                        !.suspended = suspended, !.waiting_for = waiting_for]
      BY <1>4
    <2> HIDE DEF c, kept, by_slot, by_round, suspended, waiting_for
    <2> QED BY <2>1, <2>2, <2>3
  <1> HIDE DEF gc, gc_refs, kept, evicted
  <1> QED BY <1>1, <1>3, <1>5, <1>6, <1>7, <1>10, <1>11, <1>12, <1>13, <1>14

\* set_committed with a higher round keeps the invariant: the collector evicts
\* the suspended blocks whose ancestors it makes unobtainable.
LEMMA CollectsStore ==
  ASSUME NEW B, SoundBlocks(B), NEW d, NEW e, StoreInv(B, d),
         NEW round \in Nat, e = SetLastCommittedRound(d, round),
         ~(round <= d.last_committed_round)
  PROVE  StoreInv(B, e)
  <1> DEFINE gc == GcRound(e)
             evicted == Evicted(d, e, gc)
  <1>1. /\ gc \in Nat /\ GcRound(d) <= gc
        /\ e.blocks = {x \in d.blocks : x.round > gc}
        /\ e.by_slot = {r \in d.by_slot : r.round > gc}
        /\ e.by_round = {r \in d.by_round : r.round > gc}
        /\ e.suspended = d.suspended \ evicted
        /\ e.waiting_for = {p \in d.waiting_for :
                                 p[1].round > gc /\ p[2] \notin Refs(evicted)}
        /\ e.next_epoch_buffer = d.next_epoch_buffer
        /\ e.last_committed_round = round
        /\ round \in Nat
        /\ e.epoch = d.epoch
        /\ e.pending_equivocations = {}
    BY CollectsFields
  <1>2. e \in [blocks : SUBSET B, by_slot : SUBSET AllRefs(B), by_round : SUBSET AllRefs(B),
                  suspended : SUBSET B, waiting_for : SUBSET (AllRefs(B) \X AllRefs(B)),
                  next_epoch_buffer : SUBSET B, last_committed_round : Nat,
                  epoch : Nat, pending_equivocations : {{}}]
    BY CollectsFields
  <1>3. DagOf(B, e)
    <2> HIDE DEF gc, evicted
    <2>2. VSet(e) = VSet(d)
      BY <1>1 DEF VSet
    <2>3. \A x \in e.blocks \cup e.suspended :
            x.intact /\ x.epoch = e.epoch /\ x.author \in DOMAIN VSet(e)
      BY <1>1, <2>2 DEF StoreInv, DagOf
    <2> QED BY <1>1, <1>2, <2>3 DEF StoreInv, DagOf
  <1>4. \A r \in AllRefs(B) : r \in Refs(e.blocks) <=> r \in Refs(d.blocks) /\ r.round > gc
    <2>1. \A x : Reference(x).round = x.round
      BY DEF Reference
    <2> HIDE DEF gc
    <2> QED BY <1>1, <2>1 DEF Refs
  <1>5. Refs(e.blocks) \subseteq AllRefs(B) /\ Refs(d.blocks) \subseteq AllRefs(B)
    BY <1>2 DEF Refs, AllRefs, StoreInv, DagOf
  <1>6. IndexesAgree(e)
    <2> HIDE DEF gc
    <2>1. e.by_slot = Refs(e.blocks) /\ e.by_round = Refs(e.blocks)
      BY <1>1, <1>4, <1>5 DEF StoreInv, IndexesAgree
    <2>2. \A x, y \in e.blocks : Slot(x) = Slot(y) => x = y
      BY <1>1 DEF StoreInv, IndexesAgree
    <2> QED BY <2>1, <2>2 DEF IndexesAgree
  <1>7. CausallyClosed(e)
    <2> SUFFICES ASSUME NEW x \in e.blocks, NEW a \in x.ancestors
                 PROVE  a \in Refs(e.blocks) \/ a.round <= gc
      BY DEF CausallyClosed
    <2>1. a \in AllRefs(B) /\ a.round \in Nat /\ GcRound(d) \in Nat
      BY <1>2, GcRoundMonotone DEF SoundBlocks, AllRefs, StoreInv, DagOf
    <2>2. a \in Refs(d.blocks) \/ a.round <= GcRound(d)
      BY <1>1 DEF StoreInv, CausallyClosed
    <2> HIDE DEF gc
    <2> QED BY <1>1, <1>4, <2>1, <2>2
  <1>8. WaitingForExact(e)
    <2>1. \A x \in e.suspended : \A a \in x.ancestors : a \in AllRefs(B) /\ a.round > gc
      <3> SUFFICES ASSUME NEW x \in e.suspended, NEW a \in x.ancestors
                   PROVE  a \in AllRefs(B) /\ a.round > gc
        OBVIOUS
      <3>1. a \in AllRefs(B) /\ a.round \in Nat
        BY <1>2 DEF SoundBlocks, AllRefs
      <3>2. a.round <= gc => a \in Refs(e.blocks)
        BY <1>1 DEF Evicted
      <3> HIDE DEF gc
      <3> QED BY <1>1, <1>4, <3>1, <3>2
    <2>2. \A x \in e.suspended : MissingAncestors(e, x) = MissingAncestors(d, x)
      <3> HIDE DEF gc
      <3> QED BY <1>4, <2>1 DEF MissingAncestors, Contains
    <2>3. \A x \in d.suspended : x \in evicted <=> Reference(x) \in Refs(evicted)
      <3> SUFFICES ASSUME NEW x \in d.suspended, NEW y \in evicted, Reference(x) = Reference(y)
                   PROVE  x = y
        BY DEF Refs
      <3>1. y \in d.suspended
        BY DEF Evicted
      <3> QED BY <3>1 DEF SoundBlocks, StoreInv, DagOf
    <2>4. ASSUME NEW p \in e.waiting_for
          PROVE  \E x \in e.suspended : p[1] \in MissingAncestors(d, x) /\ p[2] = Reference(x)
      <3> HIDE DEF gc, evicted
      <3>1. PICK x \in d.suspended : Reference(x) = p[2] /\ p[1] \in MissingAncestors(d, x)
        BY <1>1 DEF StoreInv, WaitingForExact
      <3>2. x \in e.suspended
        BY <1>1, <2>3, <3>1
      <3> QED BY <3>1, <3>2
    <2>5. ASSUME NEW x \in e.suspended, NEW a \in MissingAncestors(d, x)
          PROVE  <<a, Reference(x)>> \in e.waiting_for
      <3>1. a.round > gc
        BY <2>1 DEF MissingAncestors
      <3> HIDE DEF gc, evicted
      <3>2. x \in d.suspended /\ Reference(x) \notin Refs(evicted)
        BY <1>1, <2>3
      <3>3. <<a, Reference(x)>> \in d.waiting_for
        BY <3>2 DEF StoreInv, WaitingForExact
      <3> QED BY <1>1, <3>1, <3>2, <3>3
    <2>6. \A x \in e.suspended : MissingAncestors(e, x) # {}
      BY <1>1, <2>2 DEF StoreInv, WaitingForExact
    <2> QED BY <2>2, <2>4, <2>5, <2>6 DEF WaitingForExact
  <1> QED BY <1>3, <1>6, <1>7, <1>8 DEF StoreInv


\* The empty store of SurgeDriver::new, and of every new epoch.
LEMMA NewStore ==
  ASSUME NEW B, NEW epoch \in Nat
  PROVE  StoreInv(B, NewDag(epoch))
  BY DEF NewDag, StoreInv, DagOf, IndexesAgree, CausallyClosed, WaitingForExact, Refs,
         MissingAncestors
=============================================================================
