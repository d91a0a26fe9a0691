------------------------------- MODULE Scratch -------------------------------
(***************************************************************************)
(* The write overlays of one transaction (lemma-vm/src/executor/scratch.rs)*)
(* over a committed world state: ScratchState buffers the transaction,     *)
(* ScratchSnapshot is what one running contract reads and writes.          *)
(*                                                                         *)
(* A slot is a pair of contract and key.  ScratchState keeps a deletion as *)
(* None in its write map, ScratchSnapshot in a set of its own.  Code is    *)
(* content addressed and a code is its own hash.  No host function sets a  *)
(* nonce, so the nonce maps are left out; the agent policy, which lives in *)
(* the storage of the Warden's address, has a field of its own.            *)
(***************************************************************************)
EXTENDS Functions, TLC

CONSTANT NoValue      \* Option::None of a stored value

Lookup(f, k, default) == IF k \in DOMAIN f THEN f[k] ELSE default
Without(f, keys) == Restrict(f, DOMAIN f \ keys)

NewScratch(policy) == [storage |-> <<>>, balance |-> <<>>, code |-> <<>>, policy |-> policy]

\* has_code_hash: some account, or this transaction, has stored the content.
HasCodeHash(world, s, code) == code \in world.code_store \cup Range(s.code)

\* commit_with_nonce
CommitWithNonce(world, s, sender) ==
    LET deleted == {k \in DOMAIN s.storage : s.storage[k] = NoValue}
    IN  [world EXCEPT
          !.storage = Without(s.storage, deleted) @@ Without(@, deleted),
          !.balance = s.balance @@ @,
          !.code = s.code @@ @,
          !.code_store = @ \cup Range(s.code),
          !.policy = s.policy,
          !.nonce[sender] = @ + 1]

-----------------------------------------------------------------------------
(* Snapshots *)

Snapshot(s) ==
    LET deleted == {k \in DOMAIN s.storage : s.storage[k] = NoValue}
    IN  [storage |-> Without(s.storage, deleted), deletes |-> deleted,
         balance |-> s.balance, code |-> s.code]

SnapRead(world, snap, slot) ==
    IF slot \in snap.deletes /\ slot \notin DOMAIN snap.storage THEN NoValue
    ELSE Lookup(snap.storage, slot, Lookup(world.storage, slot, NoValue))
SnapExists(world, snap, slot) == SnapRead(world, snap, slot) # NoValue
SnapBalance(world, snap, a) == Lookup(snap.balance, a, world.balance[a])
SnapCode(world, snap, a) == Lookup(snap.code, a, world.code[a])

SnapWrite(snap, slot, value) ==
    [snap EXCEPT !.storage = (slot :> value) @@ @, !.deletes = @ \ {slot}]
SnapDelete(snap, slot) ==
    [snap EXCEPT !.storage = Without(@, {slot}), !.deletes = @ \cup {slot}]

\* Mutant: the tombstones of a callee are lost.
MergeWithoutDeletes(snap, target) ==
    [target EXCEPT !.storage = snap.storage @@ @,
                   !.deletes = @ \ DOMAIN snap.storage,
                   !.balance = snap.balance @@ @, !.code = snap.code @@ @]

\* merge_into: a callee's snapshot onto its caller's, writes before deletes.
MergeInto(snap, target) ==
    [target EXCEPT !.storage = Without(snap.storage @@ @, snap.deletes),
                   !.deletes = (@ \ DOMAIN snap.storage) \cup snap.deletes,
                   !.balance = snap.balance @@ @, !.code = snap.code @@ @]

\* merge_snapshot: the entry contract's snapshot onto the transaction's scratch.
MergeSnapshot(s, snap) ==
    [s EXCEPT !.storage = [k \in snap.deletes |-> NoValue] @@ snap.storage @@ @,
              !.balance = snap.balance @@ @, !.code = snap.code @@ @]
=============================================================================
