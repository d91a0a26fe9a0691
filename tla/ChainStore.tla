----------------------------- MODULE ChainStore -----------------------------
(***************************************************************************)
(* The block store of a node (lemma-storage/src/chain.rs): blocks by       *)
(* height, and the tip metadata.  A chain is [blocks, tip]; a block is     *)
(* [origin, height, parent_hash], where origin stands for everything its   *)
(* content depends on besides the chain.                                   *)
(***************************************************************************)
EXTENDS Integers, Sequences, FiniteSetsExt

\* Blocks are content-addressed: two blocks have the same hash only when they
\* are the same block.
Hash(block) == <<block.origin, block.height, block.parent_hash>>

Genesis(origin) == [origin |-> origin, height |-> 0, parent_hash |-> << >>]

\* The store that genesis boot leaves behind.
NewChain(origin) ==
  [blocks |-> [h \in {0} |-> Genesis(origin)],
   tip |-> [height |-> 0, hash |-> Hash(Genesis(origin))]]

\* Mutant: the tip follows every write.
AdvancesAlways(chain, block) == TRUE

\* put_block moves the tip for a block at or above it.
Advances(chain, block) == block.height >= chain.tip.height

\* ChainStore::put_block: one write batch.
PutBlock(chain, block) ==
  [blocks |-> [h \in DOMAIN chain.blocks \cup {block.height} |->
                 IF h = block.height THEN block ELSE chain.blocks[h]],
   tip |-> IF Advances(chain, block)
           THEN [height |-> block.height, hash |-> Hash(block)]
           ELSE chain.tip]

\* ChainStore::get_range: the stored blocks from `from` up to the first missing
\* height, and at most up to `to`.
GetRange(chain, from, to) ==
  LET missing == {h \in from .. to : h \notin DOMAIN chain.blocks}
      last == IF missing = {} THEN to ELSE Min(missing) - 1
  IN  [i \in 1 .. (last - from + 1) |-> chain.blocks[from + i - 1]]
=============================================================================
