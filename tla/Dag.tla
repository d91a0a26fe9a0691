-------------------------------- MODULE Dag --------------------------------
(***************************************************************************)
(* The local block DAG of one node (dag/graph.rs, dag/graph/maintenance.rs *)
(* and the rules of dag/validity.rs), as operations on a value.            *)
(*                                                                         *)
(* A DagBlock is a record [round, author, digest, epoch, ancestors,        *)
(* intact].  `ancestors` is a set of references and `intact` says whether  *)
(* the claimed digest is the digest of the body (verify_digest).           *)
(* References stand for content: two intact blocks with one reference are  *)
(* the same block.                                                         *)
(*                                                                         *)
(* A Dag is a record.  The two indexes are the sets of references they     *)
(* hold, since the key of an entry (slot or round) is a function of the    *)
(* reference stored under it; `waiting_for` is the set of pairs            *)
(* <<missing, waiter>>; an equivocation is the pair <<first, second>>.     *)
(***************************************************************************)
EXTENDS Stake

CONSTANTS GC_DEPTH,              \* rounds kept behind the last commit
          MAX_SUSPENDED,         \* capacity of the suspension buffer
          MAX_NEXT_EPOCH_BUFFER, \* capacity of the next-epoch buffer
          ValidatorSet           \* epoch -> (member -> voting power)

ASSUME CapacityAssumption ==
  GC_DEPTH \in Nat /\ MAX_SUSPENDED \in Nat /\ MAX_NEXT_EPOCH_BUFFER \in Nat

Reference(b) == [round |-> b.round, author |-> b.author, digest |-> b.digest]

\* Of a block or of a reference.
Slot(r) == <<r.round, r.author>>

Refs(S) == {Reference(b) : b \in S}

NewDag(epoch) ==
  [blocks |-> {}, by_slot |-> {}, by_round |-> {},
   suspended |-> {}, waiting_for |-> {}, next_epoch_buffer |-> {},
   last_committed_round |-> 0, epoch |-> epoch, pending_equivocations |-> {}]

SaturatingSub(x, y) == IF x > y THEN x - y ELSE 0

GcRound(d) == SaturatingSub(d.last_committed_round, GC_DEPTH)

HighestAcceptedRound(d) == Max({0} \cup {r.round : r \in d.by_round})

Contains(d, r) == r \in Refs(d.blocks)

Block(d, r) == CHOOSE b \in d.blocks : Reference(b) = r

BlocksAtRound(d, round) ==
  {b \in d.blocks : Reference(b) \in d.by_round /\ b.round = round}

VSet(d) == ValidatorSet[d.epoch]

-----------------------------------------------------------------------------
(* Validity rules that look at one block. *)

AncestorsAtRound(b, round) == {a \in b.ancestors : a.round = round}

AuthorsOf(S) == {x.author : x \in S}

\* Rule 2, given the verdict of the network layer on the signature.
AuthorAndSignatureOk(d, b, sig_ok) == b.author \in DOMAIN VSet(d) /\ sig_ok

\* Rule 3.  Round 0 is always admissible.
GcBoundaryOk(d, b) == b.round = 0 \/ b.round > GcRound(d)

\* Rule 4.
MissingAncestors(d, b) == {a \in b.ancestors : ~Contains(d, a)}

\* Rule 5.  Round 0 has no previous round to link to.
StrongLinkQuorum(vset, b) ==
  b.round = 0 \/ Quorum(vset, AuthorsOf(AncestorsAtRound(b, b.round - 1)))

\* Rule 6: the references among `taken` that conflict with block b.
ConflictsWith(taken, b) ==
  {r \in taken : Slot(r) = Slot(b) /\ r.digest # b.digest}

-----------------------------------------------------------------------------
(* Dag::insert.  InsertOutcome names where the early returns of the code   *)
(* leave; the hard rejections carry the name of the error.                 *)

HasRoom(buffer, capacity) == Cardinality(buffer) < capacity

InsertOutcome(d, b, sig_ok) ==
  IF Contains(d, Reference(b)) THEN "Known"
  ELSE IF b.epoch = d.epoch + 1
       THEN IF HasRoom(d.next_epoch_buffer, MAX_NEXT_EPOCH_BUFFER)
            THEN "NextEpochBuffered" ELSE "Dropped"
  ELSE IF b.epoch # d.epoch THEN "EpochMismatch"
  ELSE IF ~b.intact THEN "DigestMismatch"
  ELSE IF ~AuthorAndSignatureOk(d, b, sig_ok) THEN "BadAuthorOrSignature"
  ELSE IF ~GcBoundaryOk(d, b) THEN "BelowGcBoundary"
  ELSE IF MissingAncestors(d, b) # {}
       THEN IF HasRoom(d.suspended, MAX_SUSPENDED)
            THEN "Suspended" ELSE "Dropped"
  ELSE IF ~StrongLinkQuorum(VSet(d), b) THEN "InsufficientStrongLinks"
  ELSE IF ConflictsWith(d.by_slot, b) # {} THEN "Equivocation"
  ELSE "Accepted"

\* The buffer is keyed by reference: a later copy replaces an earlier one.
BufferNextEpoch(d, b) ==
  [d EXCEPT !.next_epoch_buffer =
     {c \in @ : Reference(c) # Reference(b)} \cup {b}]

Suspend(d, b) ==
  [d EXCEPT !.waiting_for = @ \cup (MissingAncestors(d, b) \X {Reference(b)}),
            !.suspended   = @ \cup {b}]

(***************************************************************************)
(* accept_block followed by try_unsuspend.  try_unsuspend walks            *)
(* `waiting_for` depth first: accepting a block examines its waiters, and  *)
(* a waiter whose last missing ancestor has just been accepted leaves the  *)
(* suspension buffer for good, either into the DAG (and then its own       *)
(* waiters are examined) or, failing rule 5 or 6, out of the store.  The   *)
(* result depends on the order of the walk only when two blocks of one     *)
(* slot become complete in the same cascade (the first one examined wins), *)
(* so a cascade is described by the set `promoted` of blocks it accepts    *)
(* and every winner is allowed.                                            *)
(***************************************************************************)

\* Mutant: one ancestor is enough.
WokenByAny(d, new) ==
  {x \in d.suspended : \E y \in new : <<Reference(y), Reference(x)>> \in d.waiting_for}

\* The suspended blocks examined with all their ancestors present.
Woken(d, new) ==
  LET present == Refs(d.blocks \cup new)
  IN  {x \in d.suspended :
         /\ x.ancestors \subseteq present
         /\ \E y \in new : <<Reference(y), Reference(x)>> \in d.waiting_for}

IsCascade(d, b, promoted) ==
  LET new   == {b} \cup promoted
      taken == d.by_slot \cup Refs(new)
  IN  /\ promoted \subseteq Woken(d, new)
      /\ \A x \in Woken(d, new) :
           x \in promoted <=> /\ StrongLinkQuorum(VSet(d), x)
                              /\ ConflictsWith(taken, x) = {}

\* The waiters that complete, wave by wave, if those in `eligible` are let in.
Completable(d, b, eligible) ==
  LET after[n \in 0 .. Cardinality(d.suspended)] ==
        IF n = 0 THEN {b}
        ELSE LET before == after[n - 1]
             IN  before \cup (Woken(d, before) \cap eligible)
  IN  after[Cardinality(d.suspended)] \ {b}

\* Mutant: the waiters of a promoted block are not examined.
CascadesOneWave(d, b) ==
  {{x \in Woken(d, {b}) : /\ StrongLinkQuorum(VSet(d), x)
                          /\ ConflictsWith(d.by_slot \cup {Reference(b)}, x) = {}}}

\* Every order of examining the waiters: only blocks that compete for a slot
\* can be promoted in one order and turned away in another.
Cascades(d, b) ==
  LET strong    == {x \in d.suspended : StrongLinkQuorum(VSet(d), x)}
      rivals    == d.by_slot \cup {Reference(b)} \cup Refs(strong)
      contested == {x \in strong : ConflictsWith(rivals, x) # {}}
  IN  {P \in {Completable(d, b, (strong \ contested) \cup C) : C \in SUBSET contested} :
         IsCascade(d, b, P)}

Conflicts(taken, S) ==
  {p \in taken \X Refs(S) : Slot(p[1]) = Slot(p[2]) /\ p[1].digest # p[2].digest}

\* Mutant: a cascade reports nothing.
CascadeReportsNothing(d, b, promoted) == {{}}

(***************************************************************************)
(* What a cascade may queue in pending_equivocations: the woken blocks     *)
(* that rule 6 turned away.  A block that fails rule 5 too is reported if  *)
(* its rival was there before the cascade; if the rival is promoted by the *)
(* cascade it is reported when it is examined after the rival.             *)
(***************************************************************************)
CascadeReports(d, b, promoted) ==
  LET new    == {b} \cup promoted
      losers == Woken(d, new) \ promoted
      strong == {x \in losers : StrongLinkQuorum(VSet(d), x)}
      must   == Conflicts(d.by_slot \cup {Reference(b)}, losers)
                  \cup Conflicts(Refs(new), strong)
      may    == Conflicts(d.by_slot \cup Refs(new), losers)
  IN  {R \in SUBSET may : must \subseteq R}

AfterCascade(d, b, promoted, reports) ==
  LET new   == {b} \cup promoted
      woken == Woken(d, new)
  IN  [d EXCEPT
         !.blocks    = @ \cup new,
         !.by_slot   = {r \in @ : \A x \in new : Slot(x) # Slot(r)} \cup Refs(new),
         !.by_round  = @ \cup Refs(new),
         !.suspended = @ \ woken,
         !.waiting_for = {p \in @ : p[1] \notin Refs(new) /\ p[2] \notin Refs(woken)},
         !.pending_equivocations = @ \cup reports]

Accepting(d, b) ==
  UNION {{AfterCascade(d, b, P, R) : R \in CascadeReports(d, b, P)} : P \in Cascades(d, b)}

\* The states Dag::insert may leave behind.
Insert(d, b, sig_ok) ==
  LET outcome == InsertOutcome(d, b, sig_ok) IN
  CASE outcome = "NextEpochBuffered" -> {BufferNextEpoch(d, b)}
    [] outcome = "Suspended"         -> {Suspend(d, b)}
    [] outcome = "Accepted"          -> Accepting(d, b)
    [] OTHER                         -> {d}

DrainEquivocations(d) == [d EXCEPT !.pending_equivocations = {}]

-----------------------------------------------------------------------------
(* Garbage collection. *)

CollectGarbage(d) ==
  LET gc      == GcRound(d)
      gc_refs == {r \in d.by_round : r.round <= gc}
      kept    == {b \in d.blocks : Reference(b) \notin gc_refs}
      evicted == {b \in d.suspended :
                    \/ b.round <= gc
                    \/ \E a \in b.ancestors : a.round <= gc /\ a \notin Refs(kept)}
  IN  [d EXCEPT
         !.blocks    = kept,
         !.by_round  = @ \ gc_refs,
         !.by_slot   = {r \in @ : \A g \in gc_refs : Slot(g) # Slot(r)},
         !.suspended = @ \ evicted,
         !.waiting_for = {p \in @ : p[1].round > gc /\ p[2] \notin Refs(evicted)}]

\* Mutant: an older round moves the boundary back.
SetLastCommittedRoundBack(d, round) ==
  CollectGarbage([d EXCEPT !.last_committed_round = round])

\* Monotonic: an older round changes nothing.
SetLastCommittedRound(d, round) ==
  IF round <= d.last_committed_round THEN d
  ELSE CollectGarbage([d EXCEPT !.last_committed_round = round])

\* What Dag::advance_epoch hands back for re-insertion.
DrainNextEpoch(d, new_epoch) ==
  IF new_epoch = d.epoch + 1 THEN d.next_epoch_buffer ELSE {}

-----------------------------------------------------------------------------
(***************************************************************************)
(* What a store d fed with blocks of the set B promises.                   *)
(***************************************************************************)
AllRefs(B) == Refs(B) \cup UNION {b.ancestors : b \in B}

\* Digests are collision free.
SoundBlocks(B) ==
  /\ \A b \in B : b.round \in Nat /\ b.epoch \in Nat /\ b.intact \in BOOLEAN
  /\ \A r \in AllRefs(B) : r.round \in Nat
  /\ \A b, c \in B : b.intact /\ c.intact /\ Reference(b) = Reference(c) => b = c

\* Only intact blocks of members of the current committee get past the rules,
\* only blocks of the next epoch wait in its buffer, and on_block leaves no
\* equivocation undrained.
DagOf(B, d) ==
  /\ d \in [blocks : SUBSET B, by_slot : SUBSET AllRefs(B), by_round : SUBSET AllRefs(B),
            suspended : SUBSET B, waiting_for : SUBSET (AllRefs(B) \X AllRefs(B)),
            next_epoch_buffer : SUBSET B, last_committed_round : Nat,
            epoch : Nat, pending_equivocations : {{}}]
  /\ \A b \in d.blocks \cup d.suspended :
       b.intact /\ b.epoch = d.epoch /\ b.author \in DOMAIN VSet(d)
  /\ \A b \in d.next_epoch_buffer : b.epoch = d.epoch + 1

(***************************************************************************)
(* The slot index and the round index list exactly the accepted blocks,    *)
(* and no slot ever holds two: whatever arrives, cascades or is garbage    *)
(* collected, `block_at_slot`, `blocks_at_round` and `block` agree, which  *)
(* the commit rule takes for granted.                                      *)
(***************************************************************************)
IndexesAgree(d) ==
  /\ d.by_slot = Refs(d.blocks)
  /\ d.by_round = Refs(d.blocks)
  /\ \A b, c \in d.blocks : Slot(b) = Slot(c) => b = c

(***************************************************************************)
(* The causal history of an accepted block is accepted, down to the        *)
(* garbage collection round: the linearizer and the certificate check walk *)
(* ancestors without waiting for any.                                      *)
(***************************************************************************)
CausallyClosed(d) ==
  \A b \in d.blocks : \A a \in b.ancestors :
    a \in Refs(d.blocks) \/ a.round <= GcRound(d)

(***************************************************************************)
(* Every suspended block still lacks an ancestor and is registered under   *)
(* exactly the ancestors it lacks: the arrival of the last of them wakes   *)
(* it, and no registration outlives its block.                             *)
(***************************************************************************)
WaitingForExact(d) ==
  /\ \A p \in d.waiting_for : \E x \in d.suspended :
       p[1] \in MissingAncestors(d, x) /\ p[2] = Reference(x)
  /\ \A x \in d.suspended :
       /\ MissingAncestors(d, x) # {}
       /\ \A a \in MissingAncestors(d, x) : <<a, Reference(x)>> \in d.waiting_for

=============================================================================
