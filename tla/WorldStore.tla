----------------------------- MODULE WorldStore -----------------------------
(***************************************************************************)
(* Where the node keeps the world state (lemma-storage/src/state.rs) and   *)
(* how a committed block changes it (lemma-node/src/block_exec.rs,         *)
(* build_block_from_commit in dag_driver.rs): every write goes to the      *)
(* database by itself, the block that caused them last.                    *)
(*                                                                         *)
(* A state root stands for the accounts below it, and the storage root of  *)
(* an account for its slots, as the trie is a function of its contents     *)
(* (RootIsCanonical).  Tries are kept for ever and are read by root; the   *)
(* column families of storage and code have one version.  A deleted slot   *)
(* is absent from the first and an empty leaf in the trie.                 *)
(*                                                                         *)
(* A block is built outside the write lock, so a synced block may become   *)
(* the tip before it is stored, and its height is the index of its commit, *)
(* which starts again after a restart (see NodeChain).                     *)
(***************************************************************************)
EXTENDS Options, Integers, Sequences, Functions, TLC

CONSTANTS
    Empty,              \* Empty: the empty value, a tombstone in a storage trie
    GenesisAccounts,    \* accounts of the genesis block
    BlockWrites,        \* sequences of writes, in key order, that executing a block may give
    ForeignRoots,       \* state roots of blocks that peers executed
    MaxBlocks, MaxAborts   \* bounds of the model

VARIABLES
    tries,      \* state roots whose nodes are in the database
    storage,    \* CF_STORAGE: <<contract, slot>> -> value
    code,       \* CF_CODE
    ledger,     \* ChainStore, blocks [state_root, writes, parent_root, own]
    index,      \* index of the next commit
    building,   \* the block under execution, or None
    torn,       \* ghost: slots last written by a block that is not below the tip
    aborts

wvars == <<tries, storage, code, ledger, index, building, torn, aborts>>

Chain == INSTANCE ChainStore

NewAccount == [nonce |-> 0, balance |-> 0, code_hash |-> None, storage_root |-> <<>>]
Entry(f, k, default) == IF k \in DOMAIN f THEN f[k] ELSE default
GetAccount(root, a) == Entry(root, a, NewAccount)

Tip == ledger.blocks[ledger.tip.height].origin
Content(root, writes, parent, own) ==
    [state_root |-> root, writes |-> writes, parent_root |-> parent, own |-> own]

\* init_chain
WorldInit ==
    /\ tries = {GenesisAccounts}
    /\ storage = <<>> /\ code = {}
    /\ ledger = Chain!NewChain(Content(GenesisAccounts, <<>>, GenesisAccounts, TRUE))
    /\ index = 1 /\ building = None /\ torn = {} /\ aborts = 0

-----------------------------------------------------------------------------

\* execute_committed_block reads the tip and runs the transactions.
ExecuteBlock(writes) ==
    /\ building = None /\ index <= MaxBlocks
    /\ building' = [parent_root |-> Tip.state_root, parent_hash |-> ledger.tip.hash,
                    writes |-> writes, next |-> 1, root |-> Tip.state_root, changed |-> {}]
    /\ UNCHANGED <<tries, storage, code, ledger, index, torn, aborts>>

Applying == building # None /\ building.next <= Len(building.writes)
Write == building.writes[building.next]

\* Mutant: a deleted slot stays in CF_STORAGE.
StoredKept(w) == IF w.value = None THEN storage ELSE (<<w.addr, w.slot>> :> w.value) @@ storage

StorageAfter(w) ==
    IF w.value = None THEN Restrict(storage, DOMAIN storage \ {<<w.addr, w.slot>>})
    ELSE (<<w.addr, w.slot>> :> w.value) @@ storage

\* Phase 1, a storage slot.
ApplyStorage ==
    /\ Applying /\ Write.kind = "Storage"
    /\ storage' = StorageAfter(Write)
    /\ torn' = torn \cup {<<Write.addr, Write.slot>>}
    /\ building' = [building EXCEPT !.next = @ + 1, !.changed = @ \cup {Write.addr}]
    /\ UNCHANGED <<tries, code, ledger, index, aborts>>

\* put_account fails when the trie below the root is not in the database.
PutAccount(a, account) ==
    LET root == (a :> account) @@ building.root
    IN  /\ building.root \in tries
        /\ tries' = tries \cup {root}
        /\ building' = [building EXCEPT !.next = @ + 1, !.root = root]

CodeStored(c) == c = None \/ c \in code

\* put_code comes before put_account.
PutCode ==
    /\ Applying /\ Write.kind = "Code" /\ ~CodeStored(Write.value)
    /\ code' = code \cup {Write.value}
    /\ UNCHANGED <<tries, storage, ledger, index, building, torn, aborts>>

\* Phase 1, one field of an account.
ApplyAccount ==
    LET account == GetAccount(building.root, Write.addr)
    IN  /\ Applying
        /\ \/ Write.kind = "Balance" /\ PutAccount(Write.addr, [account EXCEPT !.balance = Write.value])
           \/ Write.kind = "Nonce" /\ PutAccount(Write.addr, [account EXCEPT !.nonce = Write.value])
           \/ /\ Write.kind = "Code" /\ CodeStored(Write.value)
              /\ PutAccount(Write.addr, [account EXCEPT !.code_hash = Write.value])
        /\ UNCHANGED <<storage, code, ledger, index, torn, aborts>>

\* The slots the block wrote to a contract, a deletion as an empty leaf.
SlotChanges(a) ==
    LET written == {i \in DOMAIN building.writes : building.writes[i].kind = "Storage"
                                                     /\ building.writes[i].addr = a}
        Of(slot) == CHOOSE i \in written : building.writes[i].slot = slot
    IN  [slot \in {building.writes[i].slot : i \in written} |->
           IF building.writes[Of(slot)].value = None THEN Empty ELSE building.writes[Of(slot)].value]

AccountNow(a) == GetAccount(building.root, a)

\* Phase 2, the storage trie of one contract.
UpdateStorageRoot(a) ==
    LET updated == SlotChanges(a) @@ AccountNow(a).storage_root
        root == (a :> [AccountNow(a) EXCEPT !.storage_root = updated]) @@ building.root
    IN  /\ building # None /\ ~Applying /\ a \in building.changed
        /\ building.root \in tries
        /\ IF updated = AccountNow(a).storage_root
           THEN building' = [building EXCEPT !.changed = @ \ {a}] /\ UNCHANGED tries
           ELSE /\ building' = [building EXCEPT !.changed = @ \ {a}, !.root = root]
                /\ tries' = tries \cup {root}
        /\ UNCHANGED <<storage, code, ledger, index, torn, aborts>>

\* The block is complete: commit_block, under the write lock.
CommitBuilt ==
    /\ building # None /\ ~Applying /\ building.changed = {}
    /\ ledger' = Chain!PutBlock(ledger,
                   [origin |-> Content(building.root, building.writes, building.parent_root, TRUE),
                    height |-> index, parent_hash |-> building.parent_hash])
    /\ index' = index + 1
    /\ torn' = IF index < ledger.tip.height THEN torn ELSE torn \ {<<building.writes[i].addr, building.writes[i].slot>> :
                         i \in {i \in DOMAIN building.writes : building.writes[i].kind = "Storage"}}
    /\ building' = None
    /\ UNCHANGED <<tries, storage, code, aborts>>

\* A database error or a root that is not in the database, and the commit is
\* skipped, or a crash: what was written stays, the block is lost.
GiveUp ==
    /\ building # None /\ aborts < MaxAborts
    /\ aborts' = aborts + 1
    /\ index' \in {index + 1, 1}
    /\ building' = None
    /\ UNCHANGED <<tries, storage, code, ledger, torn>>

\* A synced block is stored without being executed, at any time.
SyncBlock(root) ==
    /\ ledger.tip.height < MaxBlocks
    /\ ledger' = Chain!PutBlock(ledger,
                   [origin |-> Content(root, <<>>, Tip.state_root, FALSE),
                    height |-> ledger.tip.height + 1, parent_hash |-> ledger.tip.hash])
    /\ UNCHANGED <<tries, storage, code, index, building, torn, aborts>>

WorldNext ==
    \/ \E w \in BlockWrites : ExecuteBlock(w)
    \/ ApplyStorage \/ PutCode \/ ApplyAccount \/ CommitBuilt \/ GiveUp
    \/ building # None /\ \E a \in building.changed : UpdateStorageRoot(a)
    \/ \E root \in ForeignRoots : SyncBlock(root)

-----------------------------------------------------------------------------

\* What the accounts should be after the writes, whatever order they are applied in.
After(root, writes) ==
    LET Last(a, kind, old) ==
            LET of == {i \in DOMAIN writes : writes[i].addr = a /\ writes[i].kind = kind}
            IN  IF of = {} THEN old ELSE writes[CHOOSE i \in of : \A j \in of : j <= i].value
        Slots(a) == [s \in {writes[i].slot : i \in {i \in DOMAIN writes :
                              writes[i].addr = a /\ writes[i].kind = "Storage"}} |->
                       LET v == writes[CHOOSE i \in DOMAIN writes : writes[i].addr = a
                                         /\ writes[i].kind = "Storage" /\ writes[i].slot = s].value
                       IN  IF v = None THEN Empty ELSE v]
    IN  [a \in DOMAIN root \cup {writes[i].addr : i \in DOMAIN writes} |->
           LET old == GetAccount(root, a)
           IN  [nonce |-> Last(a, "Nonce", old.nonce), balance |-> Last(a, "Balance", old.balance),
                code_hash |-> Last(a, "Code", old.code_hash), storage_root |-> Slots(a) @@ old.storage_root]]

\* The state root of a block this node executed commits to exactly its writes on
\* top of the parent's state, whatever was given up in between.
RootMatchesWrites ==
    \A h \in DOMAIN ledger.blocks : LET block == ledger.blocks[h].origin IN
        block.own => block.state_root = After(block.parent_root, block.writes)

\* Between blocks, storage that contracts read is what the tip's tries commit to,
\* but for the slots of blocks that never got below the tip.
StorageFollowsChain ==
    building = None /\ Tip.state_root \in tries =>
      \A a \in DOMAIN Tip.state_root : LET slots == Tip.state_root[a].storage_root IN
        \A s \in DOMAIN slots :
          <<a, s>> \in torn \/ Entry(storage, <<a, s>>, Empty) = slots[s]

\* Every account of every state that can be opened finds its code.
CodeAvailable ==
    \A root \in tries : \A a \in DOMAIN root : root[a].code_hash # None => root[a].code_hash \in code

\* Slots are those of known contracts and the block under execution is within
\* its writes.
WorldTypeOK ==
    /\ \A h \in DOMAIN ledger.blocks : ledger.blocks[h].height = h
    /\ ledger.tip.height \in DOMAIN ledger.blocks
    /\ \A k \in DOMAIN storage : storage[k] \notin {None, Empty}
    /\ building # None => building.next \in 1..Len(building.writes) + 1

\* What the node serves from its column families agrees with the blocks it keeps.
StateFollowsChain == RootMatchesWrites /\ StorageFollowsChain /\ CodeAvailable
=============================================================================
