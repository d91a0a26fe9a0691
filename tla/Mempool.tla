------------------------------ MODULE Mempool ------------------------------
(***************************************************************************)
(* The transaction pool of one node (lemma-mempool/src/pool.rs) and the    *)
(* tasks that share it: the gossip and RPC handlers that admit (lemma-node *)
(* network_runner.rs, lemma-rpc handlers/tx.rs) and the DAG driver that    *)
(* proposes from it and clears it after a commit.                          *)
(*                                                                         *)
(* The three BTreeMaps of the pool are sets of records and tuples.  The    *)
(* handlers read the state root of the tip first and take the pool's write *)
(* lock later, so an admission may validate against an older world state.  *)
(* A rejection by validation or by the circuit breaker changes nothing and *)
(* is a stuttering step.                                                   *)
(***************************************************************************)
EXTENDS Sequences, FiniteSets, Admission

CONSTANTS
    Txs,            \* the transactions clients may submit
    Senders,
    Contracts,
    Balance,        \* [Senders -> Nat], what validation finds in every root
    Context,        \* [chain_id, base_fee] the handlers pass to admit
    Capacity,       \* capacity of the pool
    Handlers,       \* concurrent admission tasks
    MaxTxsPerBlock, \* transactions the driver takes into one batch
    MaxSeq, MaxTime, MaxBlocks, MaxPending   \* bounds of the model

ASSUME PoolAssumption ==
    /\ Capacity \in Nat
    /\ \A t, u \in Txs : t.hash = u.hash => t = u
    /\ \A t \in Txs :
         /\ t.sender \in Senders
         /\ t.nonce \in Nat /\ t.gas_price \in Nat /\ t.stake \in Nat
         /\ t.to # None => t.to \in Contracts

Hashes == {t.hash : t \in Txs}

VARIABLES
    entries,         \* hash -> PoolEntry: records [tx, priority, seq, express]
    priority_index,  \* (priority, seq) -> hash: triples
    by_sender,       \* sender -> nonce -> hash: triples
    next_seq,
    buckets,         \* the rate limiter
    loads,           \* the local fee market
    now,             \* monotonic clock of the node
    nonces,          \* account nonces of the world state at the tip
    reading,         \* per handler: the transaction and the nonce its root gave
    proposed,        \* batches in DAG blocks not committed yet, in DAG order
    clearing,        \* committed transactions still to be removed from the pool
    blocks,          \* number of commits
    executed,        \* ghost: transactions executed so far
    granted,         \* ghost: admissions the rate limiter let through, by sender
    unpruned         \* ghost: the fee market had prune_idle never run

pool == <<entries, priority_index, by_sender, next_seq>>
market == <<loads, unpruned>>
limiter == <<buckets, granted>>
chain == <<nonces, proposed, clearing, blocks, executed>>
vars == <<pool, market, limiter, chain, now, reading>>

PoolEntry == [tx : Txs, priority : Nat, seq : Nat, express : ExpressEligibility]

TypeOK ==
    /\ entries \subseteq PoolEntry
    /\ \A i \in priority_index : i[1] \in Nat /\ i[2] \in Nat /\ i[3] \in Hashes
    /\ by_sender \subseteq Senders \X Nat \X Hashes
    /\ next_seq \in Nat
    /\ buckets \subseteq BucketType(Senders)
    /\ loads \subseteq LoadType(Contracts)
    /\ now \in Nat
    /\ nonces \in [Senders -> Nat]
    /\ \A h \in Handlers : reading[h] = None \/ reading[h] \in [tx : Txs, nonce : Nat]
    /\ proposed \in Seq(SUBSET Txs) /\ clearing \subseteq Txs /\ executed \subseteq Txs

Init ==
    /\ entries = {} /\ priority_index = {} /\ by_sender = {} /\ next_seq = 0
    /\ buckets = {} /\ loads = {} /\ now = 0
    /\ nonces = [s \in Senders |-> 0]
    /\ reading = [h \in Handlers |-> None]
    /\ proposed = <<>> /\ clearing = {} /\ blocks = 0
    /\ executed = {} /\ granted = [s \in Senders |-> 0] /\ unpruned = {}

-----------------------------------------------------------------------------
(* The indexes *)

\* The entry behind by_sender for the transaction's (sender, nonce).
Existing(tx) ==
    {e \in entries : <<tx.sender, tx.nonce, e.tx.hash>> \in by_sender}

WithoutSlot(index, sender, nonce) == {i \in index : ~(i[1] = sender /\ i[2] = nonce)}

\* Mutant: a removed transaction keeps its place in the priority order.
RankedKept(gone) == priority_index

\* remove_internal takes the entries of gone out of the two secondary indexes.
RankedWithout(gone) ==
    {i \in priority_index : \A e \in gone : ~(i[1] = e.priority /\ i[2] = e.seq)}
SlotsWithout(gone) ==
    {i \in by_sender : \A e \in gone : ~(i[1] = e.tx.sender /\ i[2] = e.tx.nonce)}

\* Mutant: the newest of the most valuable entries makes room.
HighestRanked == {e \in entries : \A o \in entries : o.priority <= e.priority}

\* The entry behind the first key of the ascending priority index.
LowestRanked ==
    {e \in entries : \E i \in priority_index :
        /\ i[3] = e.tx.hash
        /\ \A o \in priority_index : i[1] < o[1] \/ (i[1] = o[1] /\ i[2] <= o[2])}

\* pending_by_priority: the first limit keys of the index in descending order.
PendingByPriority(limit) ==
    {e.tx : e \in {o \in entries : \E i \in priority_index :
        /\ i[3] = o.tx.hash
        /\ Cardinality({k \in priority_index : k[1] > i[1] \/ (k[1] = i[1] /\ k[2] > i[2])}) < limit}}

\* Steps 6 to 8 of admit, with the entries of gone removed before: record the
\* contract load, classify, insert in every index.
InsertEntry(tx, gone) ==
    LET e == [tx |-> tx, priority |-> PriorityScore(tx.gas_price, tx.stake), seq |-> next_seq,
              express |-> Classify(tx.tx_type, tx.hint)]
        called == tx.tx_type \in {"ContractCall", "ContractDeploy"} /\ tx.to # None
    IN  /\ entries' = {o \in entries \ gone : o.tx.hash # tx.hash} \cup {e}
        /\ priority_index' = RankedWithout(gone) \cup {<<e.priority, e.seq, tx.hash>>}
        /\ by_sender' = WithoutSlot(SlotsWithout(gone), tx.sender, tx.nonce)
                           \cup {<<tx.sender, tx.nonce, tx.hash>>}
        /\ next_seq' = next_seq + 1
        /\ loads' = IF called THEN Record(loads, tx.to) ELSE loads
        /\ unpruned' = IF called THEN Record(unpruned, tx.to) ELSE unpruned

-----------------------------------------------------------------------------
(* Admission.  A handler resolves the world state of the tip, then waits for *)
(* the write lock, then runs the whole of admit under it.                    *)

Receive(h, tx) ==
    /\ reading[h] = None
    /\ next_seq + Cardinality({g \in Handlers : reading[g] # None}) < MaxSeq
    /\ reading' = [reading EXCEPT ![h] = [tx |-> tx, nonce |-> nonces[tx.sender]]]
    /\ UNCHANGED <<pool, market, limiter, chain, now>>

\* Steps 1 and 2: validation against the state that was read, circuit breaker.
PassesIngress(h) ==
    LET tx == reading[h].tx
    IN  /\ ValidateTransaction(tx, [nonce |-> reading[h].nonce, balance |-> Balance[tx.sender]], Context)
        /\ Admits(FromLoad(Cardinality(entries), Capacity), tx.tx_type)

Done(h) == reading' = [reading EXCEPT ![h] = None]

Reject(h) ==
    /\ reading[h] # None
    /\ ~PassesIngress(h)
    /\ Done(h)
    /\ UNCHANGED <<pool, market, limiter, chain, now>>

\* Step 3, shared by every outcome below.
RateLimited(h) ==
    /\ reading[h] # None
    /\ PassesIngress(h)
    /\ ~HasToken(buckets, reading[h].tx.sender, now)
    /\ buckets' = TryAcquire(buckets, reading[h].tx.sender, now)
    /\ Done(h)
    /\ UNCHANGED <<pool, market, granted, chain, now>>

TokenTaken(h) ==
    /\ reading[h] # None
    /\ PassesIngress(h)
    /\ HasToken(buckets, reading[h].tx.sender, now)
    /\ buckets' = TryAcquire(buckets, reading[h].tx.sender, now)
    /\ granted' = [granted EXCEPT ![reading[h].tx.sender] = @ + 1]
    /\ Done(h)
    /\ UNCHANGED <<chain, now>>

Full == Cardinality(entries) >= Capacity

Underpriced(h) ==
    /\ TokenTaken(h)
    /\ \E e \in Existing(reading[h].tx) : reading[h].tx.gas_price < RbfMinPrice(e.tx.gas_price)
    /\ UNCHANGED <<pool, market>>

Replace(h) ==
    /\ TokenTaken(h)
    /\ \E e \in Existing(reading[h].tx) :
         /\ reading[h].tx.gas_price >= RbfMinPrice(e.tx.gas_price)
         /\ InsertEntry(reading[h].tx, {e})

Beats(tx, e) == PriorityScore(tx.gas_price, tx.stake) > e.priority

\* The pool is full and the transaction does not beat the lowest entry.  A
\* by_sender key without an entry is cleared on the way.
PoolFull(h) ==
    /\ TokenTaken(h)
    /\ Existing(reading[h].tx) = {}
    /\ Full
    /\ \A e \in LowestRanked : ~Beats(reading[h].tx, e)
    /\ by_sender' = WithoutSlot(by_sender, reading[h].tx.sender, reading[h].tx.nonce)
    /\ UNCHANGED <<entries, priority_index, next_seq, market>>

Evict(h) ==
    /\ TokenTaken(h)
    /\ Existing(reading[h].tx) = {}
    /\ Full
    /\ \E e \in LowestRanked : Beats(reading[h].tx, e) /\ InsertEntry(reading[h].tx, {e})

Insert(h) ==
    /\ TokenTaken(h)
    /\ Existing(reading[h].tx) = {}
    /\ ~Full
    /\ InsertEntry(reading[h].tx, {})

-----------------------------------------------------------------------------
(* The DAG driver, one task: each DAG block it proposes carries a batch of    *)
(* the pool's best transactions, which stay in the pool until a commit has    *)
(* executed them; a commit takes a prefix of the proposed blocks and executes *)
(* a transaction once however many of them carry it.                          *)

BuildBatch ==
    /\ clearing = {}
    /\ entries # {}
    /\ Len(proposed) < MaxPending
    /\ proposed' = Append(proposed, PendingByPriority(MaxTxsPerBlock))
    /\ UNCHANGED <<pool, market, limiter, nonces, clearing, blocks, executed, now, reading>>

\* Execution increments the sender's nonce, whatever the transaction's own is.
CommitBlock(n) ==
    LET txs == UNION {proposed[i] : i \in 1..n}
    IN  /\ blocks < MaxBlocks
        /\ clearing = {}
        /\ blocks' = blocks + 1
        /\ clearing' = txs
        /\ proposed' = SubSeq(proposed, n + 1, Len(proposed))
        /\ nonces' = [s \in Senders |-> nonces[s] + Cardinality({t \in txs : t.sender = s})]
        /\ executed' = executed \cup txs
        /\ UNCHANGED <<pool, market, limiter, now, reading>>

\* mempool_post_commit: remove every committed hash, then on_new_block.
PostCommit ==
    LET gone == {e \in entries : e.tx \in clearing}
    IN  /\ clearing # {}
        /\ entries' = entries \ gone
        /\ priority_index' = RankedWithout(gone)
        /\ by_sender' = SlotsWithout(gone)
        /\ buckets' = PruneFull(buckets, now)
        /\ loads' = PruneIdle(Tick(loads))
        /\ unpruned' = Tick(unpruned)
        /\ clearing' = {}
        /\ UNCHANGED <<next_seq, granted, nonces, proposed, blocks, executed, now, reading>>

PassTime ==
    /\ now < MaxTime
    /\ now' = now + 1
    /\ UNCHANGED <<pool, market, limiter, chain, reading>>

Next ==
    \/ \E h \in Handlers :
         \/ \E tx \in Txs : Receive(h, tx)
         \/ Reject(h) \/ RateLimited(h)
         \/ Underpriced(h) \/ Replace(h)
         \/ PoolFull(h) \/ Evict(h) \/ Insert(h)
    \/ BuildBatch
    \/ \E n \in DOMAIN proposed : CommitBlock(n)
    \/ PostCommit
    \/ PassTime

Spec == Init /\ [][Next]_vars

-----------------------------------------------------------------------------
(* Properties *)

\* The three maps of the pool describe the same transactions: every entry has
\* its priority key and its (sender, nonce) key, no key is left behind by an
\* eviction, a replacement or a commit, no two entries share a key.
IndexesAgree ==
    /\ priority_index = {<<e.priority, e.seq, e.tx.hash>> : e \in entries}
    /\ by_sender = {<<e.tx.sender, e.tx.nonce, e.tx.hash>> : e \in entries}
    /\ \A e, f \in entries : e.seq = f.seq \/ e.tx.hash = f.tx.hash => e = f
    /\ \A e, f \in entries : e.tx.sender = f.tx.sender /\ e.tx.nonce = f.tx.nonce => e = f
    /\ \A e \in entries : e.seq < next_seq

\* No sequence of admissions, replacements and evictions grows the pool past
\* its capacity.
WithinCapacity == Cardinality(entries) <= Capacity

\* The pool is consistent and bounded between any two calls.
PoolConsistent == TypeOK /\ IndexesAgree /\ WithinCapacity

\* Forgetting full buckets after each block hands out no extra admissions: a
\* sender never gets more than a full bucket plus the refill of the time gone by.
RateBounded == \A s \in Senders : granted[s] * TOKEN <= BUCKET_CAPACITY + REFILL * now

\* Forgetting idle contracts changes no fee, now or after later calls and ticks:
\* the pruned market quotes what a market that never forgets would.
PruningKeepsFees ==
    \A c \in Contracts : /\ LoadOf(loads, c) = LoadOf(unpruned, c)
                         /\ LocalBaseFee(loads, c, 1) = LocalBaseFee(unpruned, c, 1)

\* While a (sender, nonce) stays occupied, its gas price never falls, whichever
\* handlers race for it.
ReplacementsClimb ==
    [][\A e \in entries, f \in entries' :
         e.tx.sender = f.tx.sender /\ e.tx.nonce = f.tx.nonce => f.tx.gas_price >= e.tx.gas_price]_vars

\* An admission pushes another slot's transaction out only when that one is the
\* lowest in the pool, pays strictly less, and the newcomer is a staking
\* transaction: the circuit breaker sheds every other type before a full pool
\* gets to compare priorities.
EvictionIsEarned ==
    [][clearing' = clearing =>
         \A e \in entries : (\A f \in entries' : f.tx.sender # e.tx.sender \/ f.tx.nonce # e.tx.nonce)
           => \E n \in entries' \ entries :
                /\ n.priority > e.priority
                /\ n.tx.tx_type \in {"Stake", "Unstake"}
                /\ \A o \in entries : e.priority <= o.priority]_vars

\* Only a better offer displaces a transaction before its commit.
OnlyOutbidLeave == ReplacementsClimb /\ EvictionIsEarned

\* "The nonce is incremented after every executed transaction ... to prevent
\* replay attacks": no commit executes a transaction that an earlier one did.
NoReplay == [][\A t \in clearing' \ clearing : t \notin executed]_vars
=============================================================================
