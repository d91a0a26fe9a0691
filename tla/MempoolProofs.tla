--------------------------- MODULE MempoolProofs ---------------------------
(***************************************************************************)
(* The pool, for any transactions, senders, capacity and parameters: its   *)
(* three maps agree, it stays within its capacity, the rate limiter and    *)
(* the fee market forget nothing that matters, and only a better offer     *)
(* displaces a transaction.                                                *)
(***************************************************************************)
EXTENDS Mempool, FiniteSetTheorems, SequenceTheorems, TLAPS

\* At most one bucket per account and one load per contract.
OneBucketEach == \A b, c \in buckets : b.account = c.account => b = c
OneLoadEach(market_loads) == \A l, m \in market_loads : l.contract = m.contract => l = m

\* What a sender got and still holds is a full bucket and the refill up to its
\* last one; a sender without a bucket has lived on the refill alone.
RateInv ==
    /\ buckets \subseteq BucketType(Senders) /\ OneBucketEach
    /\ granted \in [Senders -> Nat]
    /\ \A b \in buckets :
         /\ b.last_refill <= now
         /\ granted[b.account] * TOKEN + b.tokens <= BUCKET_CAPACITY + REFILL * b.last_refill
    /\ \A s \in Senders : (\A b \in buckets : b.account # s) => granted[s] * TOKEN <= REFILL * now

\* A load that was forgotten is zero in the market that never forgets.
FeeInv ==
    /\ loads \subseteq unpruned
    /\ unpruned \subseteq LoadType(Contracts)
    /\ OneLoadEach(unpruned)
    /\ \A l \in unpruned \ loads : l.ema_load = 0 /\ l.current_block_count = 0

PoolInv ==
    /\ IndexesAgree
    /\ entries \subseteq PoolEntry
    /\ IsFiniteSet(entries)
    /\ WithinCapacity
    /\ next_seq \in Nat

ChainInv ==
    /\ now \in Nat
    /\ nonces \in [Senders -> Nat]
    /\ reading \in [Handlers -> {None} \cup [tx : Txs, nonce : Nat]]
    /\ proposed \in Seq(SUBSET Txs)
    /\ \A i \in 1..Len(proposed) : IsFiniteSet(proposed[i])
    /\ clearing \subseteq Txs /\ executed \subseteq Txs

MempoolInv == PoolInv /\ RateInv /\ FeeInv /\ ChainInv

-----------------------------------------------------------------------------
(* The rate limiter *)

LEMMA RefilledExact ==
  ASSUME NEW S, NEW b \in BucketType(S), NEW t \in Nat, b.last_refill <= t
  PROVE  /\ Refilled(b, t) \in BucketType(S)
         /\ Refilled(b, t).account = b.account
         /\ Refilled(b, t).last_refill = t
         /\ Refilled(b, t).tokens + REFILL * b.last_refill <= b.tokens + REFILL * t
<1> DEFINE elapsed == IF t > b.last_refill THEN t - b.last_refill ELSE 0
           filled == AtMost(b.tokens + elapsed * REFILL, BUCKET_CAPACITY)
<1>1. b.last_refill \in Nat /\ b.tokens \in 0..BUCKET_CAPACITY /\ b.account \in S
  BY DEF BucketType
<1>2. elapsed \in Nat /\ elapsed = t - b.last_refill /\ REFILL \in Nat /\ BUCKET_CAPACITY \in Nat
  BY <1>1, BucketAssumption
<1>3. elapsed * REFILL \in Nat /\ elapsed * REFILL + REFILL * b.last_refill = REFILL * t
  BY <1>1, <1>2
<1>4. filled \in 0..BUCKET_CAPACITY /\ filled <= b.tokens + elapsed * REFILL
  BY <1>1, <1>2, <1>3 DEF AtMost
<1>5. Refilled(b, t) = [b EXCEPT !.tokens = filled, !.last_refill = t]
  BY DEF Refilled
<1>6. filled + REFILL * b.last_refill <= b.tokens + REFILL * t
  <2> DEFINE gain == elapsed * REFILL
             old == REFILL * b.last_refill
  <2>1. gain \in Nat /\ old \in Nat /\ gain + old = REFILL * t /\ filled <= b.tokens + gain
    BY <1>1, <1>2, <1>3, <1>4
  <2> HIDE DEF gain, filled
  <2> QED BY <1>1, <1>4, <2>1
<1> HIDE DEF filled
<1>7. /\ [b EXCEPT !.tokens = filled, !.last_refill = t] \in BucketType(S)
      /\ [b EXCEPT !.tokens = filled, !.last_refill = t].account = b.account
      /\ [b EXCEPT !.tokens = filled, !.last_refill = t].last_refill = t
      /\ [b EXCEPT !.tokens = filled, !.last_refill = t].tokens = filled
  BY <1>1, <1>4 DEF BucketType
<1> QED BY <1>5, <1>6, <1>7

LEMMA BucketExact ==
  ASSUME RateInv, now \in Nat, NEW s \in Senders
  PROVE  LET b == BucketOf(buckets, s, now)
         IN  /\ b \in BucketType(Senders) /\ b.account = s /\ b.last_refill = now
             /\ granted[s] * TOKEN + b.tokens <= BUCKET_CAPACITY + REFILL * now
<1> DEFINE known == {b \in buckets : b.account = s}
<1>0. granted[s] \in Nat /\ TOKEN \in Nat /\ REFILL \in Nat /\ BUCKET_CAPACITY \in Nat
  BY BucketAssumption DEF RateInv
<1>1. CASE known = {}
  <2>1. BucketOf(buckets, s, now) = [account |-> s, tokens |-> BUCKET_CAPACITY, last_refill |-> now]
    BY <1>1 DEF BucketOf
  <2>2. granted[s] * TOKEN <= REFILL * now
    BY <1>1 DEF RateInv
  <2>3. granted[s] * TOKEN \in Nat /\ REFILL * now \in Nat
    BY <1>0
  <2> QED BY <1>0, <2>1, <2>2, <2>3 DEF BucketType
<1>2. CASE known # {}
  <2>1. PICK b \in known : BucketOf(buckets, s, now) = Refilled(b, now)
    BY <1>2 DEF BucketOf
  <2>2. /\ b \in BucketType(Senders) /\ b.account = s /\ b.last_refill <= now
        /\ granted[s] * TOKEN + b.tokens <= BUCKET_CAPACITY + REFILL * b.last_refill
    BY DEF RateInv
  <2>3. /\ Refilled(b, now) \in BucketType(Senders)
        /\ Refilled(b, now).account = s /\ Refilled(b, now).last_refill = now
        /\ Refilled(b, now).tokens + REFILL * b.last_refill <= b.tokens + REFILL * now
    BY <2>2, RefilledExact
  <2> DEFINE f == Refilled(b, now).tokens
             g == granted[s] * TOKEN
             x == REFILL * b.last_refill
             y == REFILL * now
  <2>4. f \in Nat /\ b.tokens \in Nat /\ b.last_refill \in Nat
    BY <2>2, <2>3, <1>0 DEF BucketType
  <2>5. g \in Nat /\ x \in Nat /\ y \in Nat
    BY <1>0, <2>4
  <2>6. g + b.tokens <= BUCKET_CAPACITY + x /\ f + x <= b.tokens + y
    BY <2>2, <2>3
  <2> HIDE DEF f, g, x, y
  <2>7. g + f <= BUCKET_CAPACITY + y
    BY <1>0, <2>4, <2>5, <2>6
  <2> QED BY <2>1, <2>3, <2>7 DEF f, g, y
<1> QED BY <1>1, <1>2

\* A call of try_acquire, with or without a token.
LEMMA AcquireInv ==
  ASSUME RateInv, now \in Nat, NEW s \in Senders,
         buckets' = TryAcquire(buckets, s, now), now' = now,
         IF HasToken(buckets, s, now) THEN granted' = [granted EXCEPT ![s] = @ + 1]
                                      ELSE granted' = granted
  PROVE  RateInv'
<1> DEFINE b == BucketOf(buckets, s, now)
           cost == IF b.tokens >= TOKEN THEN TOKEN ELSE 0
           left == b.tokens - cost
           new == [b EXCEPT !.tokens = left]
<1>1. /\ b \in BucketType(Senders) /\ b.account = s /\ b.last_refill = now
      /\ granted[s] * TOKEN + b.tokens <= BUCKET_CAPACITY + REFILL * now
  BY BucketExact
<1>2. granted[s] \in Nat /\ TOKEN \in Nat /\ REFILL \in Nat /\ BUCKET_CAPACITY \in Nat
  BY BucketAssumption DEF RateInv
<1>3. buckets' = {o \in buckets : o.account # s} \cup {new}
  BY DEF TryAcquire
<1>4. granted' \in [Senders -> Nat] /\ \A r \in Senders : r # s => granted'[r] = granted[r]
  BY <1>2 DEF RateInv
<1>5. granted'[s] * TOKEN + left <= BUCKET_CAPACITY + REFILL * now /\ left \in 0..BUCKET_CAPACITY
  <2>0. b.tokens \in 0..BUCKET_CAPACITY
    BY <1>1 DEF BucketType
  <2>1. CASE b.tokens >= TOKEN
    <3>1. granted'[s] = granted[s] + 1 /\ left = b.tokens - TOKEN
      BY <1>2, <2>1 DEF HasToken, RateInv
    <3>2. (granted[s] + 1) * TOKEN = granted[s] * TOKEN + TOKEN
      BY <1>2
    <3> DEFINE g == granted[s] * TOKEN
               y == REFILL * now
    <3>3. g \in Nat /\ y \in Nat /\ g + b.tokens <= BUCKET_CAPACITY + y
      BY <1>1, <1>2
    <3> HIDE DEF g, y, b, left
    <3>4. (g + TOKEN) + left <= BUCKET_CAPACITY + y /\ left \in 0..BUCKET_CAPACITY
      BY <1>2, <2>0, <2>1, <3>1, <3>3
    <3> QED BY <3>1, <3>2, <3>4 DEF g, y
  <2>2. CASE ~(b.tokens >= TOKEN)
    <3>1. granted'[s] = granted[s] /\ left = b.tokens
      BY <2>0, <2>2 DEF HasToken
    <3> HIDE DEF b, left
    <3> QED BY <1>1, <2>0, <3>1
  <2> QED BY <2>1, <2>2
<1> HIDE DEF left
<1>6. new \in BucketType(Senders) /\ new.account = s /\ new.last_refill = now /\ new.tokens = left
  BY <1>1, <1>5 DEF BucketType
<1> HIDE DEF new
<1>7. buckets' \subseteq BucketType(Senders) /\ OneBucketEach'
  BY <1>3, <1>6 DEF RateInv, OneBucketEach
<1>8. ASSUME NEW c \in buckets'
      PROVE  /\ c.last_refill <= now
             /\ granted'[c.account] * TOKEN + c.tokens <= BUCKET_CAPACITY + REFILL * c.last_refill
  <2>1. CASE c = new
    BY <1>5, <1>6, <2>1
  <2>2. CASE c # new
    <3>1. c \in buckets /\ c.account # s /\ c.account \in Senders
      BY <1>3, <2>2 DEF RateInv, BucketType
    <3> QED BY <1>4, <3>1 DEF RateInv
  <2> QED BY <2>1, <2>2
<1>9. ASSUME NEW r \in Senders, \A c \in buckets' : c.account # r
      PROVE  granted'[r] * TOKEN <= REFILL * now
  <2>1. r # s
    BY <1>3, <1>6, <1>9
  <2>2. \A c \in buckets : c.account # r
    BY <1>3, <1>9, <2>1
  <2> QED BY <1>4, <2>1, <2>2 DEF RateInv
<1> QED BY <1>4, <1>7, <1>8, <1>9 DEF RateInv

\* prune_full forgets only buckets that a later call would find full anyway.
LEMMA PruneInv ==
  ASSUME RateInv, now \in Nat, buckets' = PruneFull(buckets, now), now' = now, granted' = granted
  PROVE  RateInv'
<1>1. \A b \in buckets : /\ b \in BucketType(Senders) /\ b.last_refill <= now
                         /\ Refilled(b, now) \in BucketType(Senders)
                         /\ Refilled(b, now).account = b.account /\ Refilled(b, now).last_refill = now
                         /\ Refilled(b, now).tokens + REFILL * b.last_refill <= b.tokens + REFILL * now
  BY RefilledExact DEF RateInv
<1>2. ASSUME NEW b \in buckets
      PROVE  granted[b.account] * TOKEN + Refilled(b, now).tokens <= BUCKET_CAPACITY + REFILL * now
  <2> DEFINE f == Refilled(b, now).tokens
             g == granted[b.account] * TOKEN
             x == REFILL * b.last_refill
             y == REFILL * now
  <2>1. /\ f \in Nat /\ b.tokens \in Nat /\ b.last_refill \in Nat /\ b.account \in Senders
        /\ BUCKET_CAPACITY \in Nat /\ TOKEN \in Nat /\ REFILL \in Nat
    BY <1>1, BucketAssumption DEF BucketType
  <2>2. g \in Nat /\ x \in Nat /\ y \in Nat
    BY <2>1 DEF RateInv
  <2>3. g + b.tokens <= BUCKET_CAPACITY + x /\ f + x <= b.tokens + y
    BY <1>1 DEF RateInv
  <2> HIDE DEF f, g, x, y
  <2>4. g + f <= BUCKET_CAPACITY + y
    BY <2>1, <2>2, <2>3
  <2> QED BY <2>4 DEF f, g, y
<1>3. \A c \in buckets' : \E b \in buckets : c = Refilled(b, now)
  BY DEF PruneFull
<1>4. buckets' \subseteq BucketType(Senders)
  BY <1>1, <1>3
<1>5. OneBucketEach'
  <2> SUFFICES ASSUME NEW c \in buckets', NEW d \in buckets', c.account = d.account PROVE c = d
    BY DEF OneBucketEach
  <2>1. PICK b \in buckets, e \in buckets : c = Refilled(b, now) /\ d = Refilled(e, now)
    BY <1>3
  <2>2. b = e
    BY <1>1, <2>1 DEF RateInv, OneBucketEach
  <2> QED BY <2>1, <2>2
<1>6. \A c \in buckets' : /\ c.last_refill <= now
                          /\ granted[c.account] * TOKEN + c.tokens <= BUCKET_CAPACITY + REFILL * c.last_refill
  <2> SUFFICES ASSUME NEW c \in buckets'
               PROVE  /\ c.last_refill <= now
                      /\ granted[c.account] * TOKEN + c.tokens <= BUCKET_CAPACITY + REFILL * c.last_refill
    OBVIOUS
  <2>1. PICK b \in buckets : c = Refilled(b, now)
    BY <1>3
  <2>2. c.last_refill = now /\ c.account = b.account
    BY <1>1, <2>1
  <2> QED BY <1>2, <2>1, <2>2
<1>7. ASSUME NEW r \in Senders, \A c \in buckets' : c.account # r
      PROVE  granted[r] * TOKEN <= REFILL * now
  <2>1. CASE \A b \in buckets : b.account # r
    BY <2>1 DEF RateInv
  <2>2. CASE \E b \in buckets : b.account = r
    <3>1. PICK b \in buckets : b.account = r
      BY <2>2
    <3>2. ~(Refilled(b, now).tokens < BUCKET_CAPACITY)
      BY <1>1, <1>7, <3>1 DEF PruneFull
    <3> DEFINE f == Refilled(b, now).tokens
               g == granted[r] * TOKEN
               y == REFILL * now
    <3>3. f \in Nat /\ BUCKET_CAPACITY \in Nat /\ TOKEN \in Nat /\ REFILL \in Nat
      BY <1>1, BucketAssumption DEF BucketType
    <3>4. g \in Nat /\ y \in Nat /\ g + f <= BUCKET_CAPACITY + y /\ ~(f < BUCKET_CAPACITY)
      BY <1>2, <3>1, <3>2, <3>3 DEF RateInv
    <3> HIDE DEF f, g, y
    <3>5. g <= y
      BY <3>3, <3>4
    <3> QED BY <3>5 DEF g, y
  <2> QED BY <2>1, <2>2
<1> QED BY <1>4, <1>5, <1>6, <1>7 DEF RateInv

-----------------------------------------------------------------------------
(* The fee market *)

NoLoad(c) == [contract |-> c, ema_load |-> 0, current_block_count |-> 0]

LEMMA LoadExact ==
  ASSUME NEW L \in SUBSET LoadType(Contracts), OneLoadEach(L), NEW c \in Contracts
  PROVE  /\ LoadOf(L, c) \in LoadType(Contracts) /\ LoadOf(L, c).contract = c
         /\ \A l \in L : l.contract = c => LoadOf(L, c) = l
         /\ (\A l \in L : l.contract # c) => LoadOf(L, c) = NoLoad(c)
<1> DEFINE known == {l \in L : l.contract = c}
<1>1. CASE known = {}
  <2>1. LoadOf(L, c) = NoLoad(c)
    BY <1>1 DEF LoadOf, NoLoad
  <2>2. NoLoad(c) \in LoadType(Contracts) /\ NoLoad(c).contract = c
    BY DEF NoLoad, LoadType
  <2> QED BY <1>1, <2>1, <2>2
<1>2. CASE known # {}
  <2>1. PICK k \in known : LoadOf(L, c) = k
    BY <1>2 DEF LoadOf
  <2>2. \A l \in L : l.contract = c => l = k
    BY DEF OneLoadEach
  <2> QED BY <2>1, <2>2
<1> QED BY <1>1, <1>2

\* The two markets agree on every contract.
LEMMA LoadsAgree ==
  ASSUME FeeInv, NEW c \in Contracts
  PROVE  LoadOf(loads, c) = LoadOf(unpruned, c)
<1>1. /\ loads \in SUBSET LoadType(Contracts) /\ unpruned \in SUBSET LoadType(Contracts)
      /\ OneLoadEach(loads) /\ OneLoadEach(unpruned)
  BY DEF FeeInv, OneLoadEach
<1>2. CASE \E l \in loads : l.contract = c
  <2>1. PICK l \in loads : l.contract = c
    BY <1>2
  <2>2. l \in unpruned
    BY DEF FeeInv
  <2> QED BY <1>1, <2>1, <2>2, LoadExact
<1>3. CASE \A l \in loads : l.contract # c
  <2>1. LoadOf(loads, c) = NoLoad(c)
    BY <1>1, <1>3, LoadExact
  <2>2. CASE \E l \in unpruned : l.contract = c
    <3>1. PICK l \in unpruned : l.contract = c
      BY <2>2
    <3>2. LoadOf(unpruned, c) = l
      BY <1>1, <3>1, LoadExact
    <3>3. l \in [contract : Contracts, ema_load : Nat, current_block_count : Nat]
      BY <1>1 DEF LoadType
    <3>4. l.ema_load = 0 /\ l.current_block_count = 0
      BY <1>3, <3>1 DEF FeeInv
    <3>5. l = NoLoad(c)
      BY <3>1, <3>3, <3>4 DEF NoLoad
    <3> QED BY <2>1, <3>2, <3>5
  <2>3. CASE \A l \in unpruned : l.contract # c
    BY <1>1, <2>1, <2>3, LoadExact
  <2> QED BY <2>2, <2>3
<1> QED BY <1>2, <1>3

LEMMA RecordInv ==
  ASSUME FeeInv, NEW c \in Contracts, loads' = Record(loads, c), unpruned' = Record(unpruned, c)
  PROVE  FeeInv'
<1> DEFINE l == LoadOf(unpruned, c)
           n == l.current_block_count + 1
           new == [l EXCEPT !.current_block_count = n]
<1>1. /\ loads \in SUBSET LoadType(Contracts) /\ unpruned \in SUBSET LoadType(Contracts)
      /\ OneLoadEach(loads) /\ OneLoadEach(unpruned)
  BY DEF FeeInv, OneLoadEach
<1>2. loads' = (loads \ {l}) \cup {new} /\ unpruned' = (unpruned \ {l}) \cup {new}
  BY LoadsAgree DEF Record
<1>3. /\ l \in LoadType(Contracts) /\ l.contract = c
      /\ \A o \in unpruned : o.contract = c => o = l
  BY <1>1, LoadExact
<1> HIDE DEF l
<1>4. n \in Nat
  BY <1>3 DEF LoadType
<1> HIDE DEF n
<1>5. new \in LoadType(Contracts) /\ new.contract = c
  BY <1>3, <1>4 DEF LoadType
<1> HIDE DEF new
<1>6. OneLoadEach(unpruned')
  BY <1>1, <1>2, <1>3, <1>5 DEF OneLoadEach
<1> QED BY <1>2, <1>5, <1>6 DEF FeeInv

Decayed(l) == [l EXCEPT !.ema_load = (l.ema_load * DECAY_NUM + l.current_block_count) \div DECAY_DEN,
                        !.current_block_count = 0]

LEMMA DecayExact ==
  ASSUME NEW l \in LoadType(Contracts)
  PROVE  /\ Decayed(l) \in LoadType(Contracts) /\ Decayed(l).contract = l.contract
         /\ Decayed(l).current_block_count = 0
         /\ l.ema_load = 0 /\ l.current_block_count = 0 => Decayed(l).ema_load = 0
<1> DEFINE ema == (l.ema_load * DECAY_NUM + l.current_block_count) \div DECAY_DEN
<1>1. l.ema_load \in Nat /\ l.current_block_count \in Nat
  BY DEF LoadType
<1>2. DECAY_NUM \in Nat /\ DECAY_DEN \in Nat /\ DECAY_DEN > 0
  BY FeeAssumption
<1>3. l.ema_load * DECAY_NUM + l.current_block_count \in Nat
  BY <1>1, <1>2
<1>4. ema \in Nat
  BY <1>2, <1>3
<1>5. l.ema_load = 0 /\ l.current_block_count = 0 => ema = 0
  BY <1>2
<1>6. Decayed(l) = [l EXCEPT !.ema_load = ema, !.current_block_count = 0]
  BY DEF Decayed
<1> HIDE DEF ema
<1>7. /\ [l EXCEPT !.ema_load = ema, !.current_block_count = 0] \in LoadType(Contracts)
      /\ [l EXCEPT !.ema_load = ema, !.current_block_count = 0].contract = l.contract
      /\ [l EXCEPT !.ema_load = ema, !.current_block_count = 0].current_block_count = 0
      /\ [l EXCEPT !.ema_load = ema, !.current_block_count = 0].ema_load = ema
  BY <1>4 DEF LoadType
<1> QED BY <1>5, <1>6, <1>7

LEMMA TickInv ==
  ASSUME FeeInv, loads' = PruneIdle(Tick(loads)), unpruned' = Tick(unpruned)
  PROVE  FeeInv'
<1>1. \A l \in unpruned : /\ l \in LoadType(Contracts)
                          /\ Decayed(l) \in LoadType(Contracts) /\ Decayed(l).contract = l.contract
                          /\ Decayed(l).current_block_count = 0
                          /\ l.ema_load = 0 /\ l.current_block_count = 0 => Decayed(l).ema_load = 0
  BY DecayExact DEF FeeInv
<1>2. unpruned' = {Decayed(l) : l \in unpruned}
  BY DEF Tick, Decayed
<1>3. loads' = {d \in {Decayed(l) : l \in loads} : d.ema_load > 0 \/ d.current_block_count > 0}
  BY DEF Tick, Decayed, PruneIdle
<1>4. loads \subseteq unpruned
  BY DEF FeeInv
<1>5. loads' \subseteq unpruned' /\ unpruned' \subseteq LoadType(Contracts)
  BY <1>1, <1>2, <1>3, <1>4
<1>6. OneLoadEach(unpruned')
  BY <1>1, <1>2 DEF FeeInv, OneLoadEach
<1>7. ASSUME NEW d \in unpruned', d \notin loads'
      PROVE  d.ema_load = 0 /\ d.current_block_count = 0
  <2>1. PICK l \in unpruned : d = Decayed(l)
    BY <1>2
  <2>2. d.current_block_count = 0 /\ d.ema_load \in Nat
    BY <1>1, <2>1 DEF LoadType
  <2>3. CASE l \in loads
    BY <1>3, <1>7, <2>1, <2>2, <2>3
  <2>4. CASE l \notin loads
    BY <1>1, <2>1, <2>2, <2>4 DEF FeeInv
  <2> QED BY <2>3, <2>4
<1> QED BY <1>5, <1>6, <1>7 DEF FeeInv

-----------------------------------------------------------------------------
(* The indexes *)

SameSlot(t, u) == t.sender = u.sender /\ t.nonce = u.nonce

\* Taking entries out of the secondary indexes leaves the keys of the others.
LEMMA RemovedExact ==
  ASSUME PoolInv, NEW gone \in SUBSET entries
  PROVE  /\ RankedWithout(gone) = {<<e.priority, e.seq, e.tx.hash>> : e \in entries \ gone}
         /\ SlotsWithout(gone) = {<<e.tx.sender, e.tx.nonce, e.tx.hash>> : e \in entries \ gone}
<1>1. \A e \in entries : e \notin gone <=> \A g \in gone : ~(e.priority = g.priority /\ e.seq = g.seq)
  BY DEF PoolInv, IndexesAgree
<1>2. \A e \in entries : e \notin gone <=> \A g \in gone : ~(e.tx.sender = g.tx.sender /\ e.tx.nonce = g.tx.nonce)
  BY DEF PoolInv, IndexesAgree
<1>3. RankedWithout(gone) = {<<e.priority, e.seq, e.tx.hash>> : e \in entries \ gone}
  <2>1. ASSUME NEW e \in entries \ gone
        PROVE  <<e.priority, e.seq, e.tx.hash>> \in RankedWithout(gone)
    <3>1. <<e.priority, e.seq, e.tx.hash>> \in priority_index
      BY DEF PoolInv, IndexesAgree
    <3> QED BY <1>1, <3>1 DEF RankedWithout
  <2>2. ASSUME NEW i \in RankedWithout(gone)
        PROVE  i \in {<<e.priority, e.seq, e.tx.hash>> : e \in entries \ gone}
    <3>1. PICK e \in entries : i = <<e.priority, e.seq, e.tx.hash>>
      BY DEF PoolInv, IndexesAgree, RankedWithout
    <3>2. e \notin gone
      BY <1>1, <3>1 DEF RankedWithout
    <3> QED BY <3>1, <3>2
  <2> QED BY <2>1, <2>2
<1>4. SlotsWithout(gone) = {<<e.tx.sender, e.tx.nonce, e.tx.hash>> : e \in entries \ gone}
  <2>1. ASSUME NEW e \in entries \ gone
        PROVE  <<e.tx.sender, e.tx.nonce, e.tx.hash>> \in SlotsWithout(gone)
    <3>1. <<e.tx.sender, e.tx.nonce, e.tx.hash>> \in by_sender
      BY DEF PoolInv, IndexesAgree
    <3> QED BY <1>2, <3>1 DEF SlotsWithout
  <2>2. ASSUME NEW i \in SlotsWithout(gone)
        PROVE  i \in {<<e.tx.sender, e.tx.nonce, e.tx.hash>> : e \in entries \ gone}
    <3>1. PICK e \in entries : i = <<e.tx.sender, e.tx.nonce, e.tx.hash>>
      BY DEF PoolInv, IndexesAgree, SlotsWithout
    <3>2. e \notin gone
      BY <1>2, <3>1 DEF SlotsWithout
    <3> QED BY <3>1, <3>2
  <2> QED BY <2>1, <2>2
<1> QED BY <1>3, <1>4

\* The transaction that occupies a slot is found through by_sender.
LEMMA ExistingExact ==
  ASSUME PoolInv, NEW tx \in Txs
  PROVE  Existing(tx) = {e \in entries : SameSlot(e.tx, tx)}
<1>1. ASSUME NEW e \in entries, <<tx.sender, tx.nonce, e.tx.hash>> \in by_sender
      PROVE  SameSlot(e.tx, tx)
  <2>1. PICK f \in entries : <<tx.sender, tx.nonce, e.tx.hash>> = <<f.tx.sender, f.tx.nonce, f.tx.hash>>
    BY <1>1 DEF PoolInv, IndexesAgree
  <2>2. e = f
    BY <2>1 DEF PoolInv, IndexesAgree
  <2> QED BY <2>1, <2>2 DEF SameSlot
<1>2. ASSUME NEW e \in entries, SameSlot(e.tx, tx)
      PROVE  <<tx.sender, tx.nonce, e.tx.hash>> \in by_sender
  BY <1>2 DEF PoolInv, IndexesAgree, SameSlot
<1> QED BY <1>1, <1>2 DEF Existing

LEMMA TxTyped ==
  ASSUME NEW tx \in Txs
  PROVE  /\ tx.sender \in Senders /\ tx.nonce \in Nat /\ tx.gas_price \in Nat /\ tx.stake \in Nat
         /\ tx.to # None => tx.to \in Contracts
BY PoolAssumption

\* The score of a transaction is a number.
LEMMA ScoreNat ==
  ASSUME NEW tx \in Txs
  PROVE  PriorityScore(tx.gas_price, tx.stake) \in Nat
<1>1. tx.gas_price \in Nat /\ tx.stake \in Nat /\ STAKE_UNIT \in Nat /\ STAKE_UNIT > 0 /\ MAX_STAKE_BONUS \in Nat
  <2>1. STAKE_UNIT \in Nat /\ STAKE_UNIT # 0 /\ MAX_STAKE_BONUS \in Nat
    BY PolicyAssumption
  <2> QED BY <2>1, TxTyped
<1>2. tx.stake \div STAKE_UNIT \in Nat
  BY <1>1
<1> QED BY <1>1, <1>2 DEF PriorityScore, StakeBonus

NewEntry(tx) ==
    [tx |-> tx, priority |-> PriorityScore(tx.gas_price, tx.stake), seq |-> next_seq,
     express |-> Classify(tx.tx_type, tx.hint)]

LEMMA InsertInv ==
  ASSUME PoolInv, FeeInv, NEW tx \in Txs, NEW gone \in SUBSET entries, InsertEntry(tx, gone),
         \A e \in entries : SameSlot(e.tx, tx) => e \in gone,
         (gone = {} /\ Cardinality(entries) < Capacity) \/ \E g \in entries : gone = {g}
  PROVE  /\ PoolInv' /\ FeeInv'
         /\ entries' = (entries \ gone) \cup {NewEntry(tx)}
<1> DEFINE n == NewEntry(tx)
           kept == entries \ gone
<1>1. \A e \in entries : e.tx.hash = tx.hash => e \in gone
  BY PoolAssumption DEF PoolInv, PoolEntry, SameSlot
<1>2. entries' = kept \cup {n}
  BY <1>1 DEF InsertEntry, NewEntry
<1>3. n \in PoolEntry /\ n.tx = tx /\ n.seq = next_seq /\ n.priority = PriorityScore(tx.gas_price, tx.stake)
  <2>1. Classify(tx.tx_type, tx.hint) \in ExpressEligibility
    BY DEF Classify, ExpressEligibility
  <2> QED BY <2>1, ScoreNat DEF NewEntry, PoolEntry, PoolInv
<1>4. priority_index' = {<<e.priority, e.seq, e.tx.hash>> : e \in kept} \cup {<<n.priority, n.seq, n.tx.hash>>}
  <2>1. priority_index' = RankedWithout(gone) \cup {<<n.priority, n.seq, tx.hash>>}
    BY DEF InsertEntry, NewEntry
  <2> HIDE DEF n
  <2> QED BY <1>3, <2>1, RemovedExact
<1>5. by_sender' = {<<e.tx.sender, e.tx.nonce, e.tx.hash>> : e \in kept}
                     \cup {<<n.tx.sender, n.tx.nonce, n.tx.hash>>}
  <2>1. by_sender' = WithoutSlot(SlotsWithout(gone), tx.sender, tx.nonce)
                       \cup {<<tx.sender, tx.nonce, tx.hash>>}
    BY DEF InsertEntry
  <2>2. SlotsWithout(gone) = {<<e.tx.sender, e.tx.nonce, e.tx.hash>> : e \in kept}
    BY RemovedExact
  <2>3. \A i \in SlotsWithout(gone) : ~(i[1] = tx.sender /\ i[2] = tx.nonce)
    BY <2>2 DEF SameSlot
  <2>4. WithoutSlot(SlotsWithout(gone), tx.sender, tx.nonce) = SlotsWithout(gone)
    BY <2>3 DEF WithoutSlot
  <2> HIDE DEF n
  <2> QED BY <1>3, <2>1, <2>2, <2>4
<1>6. next_seq' = next_seq + 1 /\ next_seq \in Nat
  BY DEF InsertEntry, PoolInv
<1>7. FeeInv'
  <2>1. CASE tx.tx_type \in {"ContractCall", "ContractDeploy"} /\ tx.to # None
    <3>1. tx.to \in Contracts /\ loads' = Record(loads, tx.to) /\ unpruned' = Record(unpruned, tx.to)
      BY <2>1, TxTyped DEF InsertEntry
    <3> QED BY <3>1, RecordInv
  <2>2. CASE ~(tx.tx_type \in {"ContractCall", "ContractDeploy"} /\ tx.to # None)
    <3>1. loads' = loads /\ unpruned' = unpruned
      BY <2>2 DEF InsertEntry
    <3> QED BY <3>1 DEF FeeInv, OneLoadEach
  <2> QED BY <2>1, <2>2
<1> HIDE DEF n
<1>8. \A e \in kept : /\ e \in PoolEntry /\ e.seq \in Nat /\ e.seq < next_seq
                      /\ e.tx.hash # tx.hash /\ ~SameSlot(e.tx, tx)
  BY <1>1 DEF PoolInv, IndexesAgree, PoolEntry
<1>9. IndexesAgree'
  <2>1. priority_index' = {<<e.priority, e.seq, e.tx.hash>> : e \in entries'}
    BY <1>2, <1>4
  <2>2. by_sender' = {<<e.tx.sender, e.tx.nonce, e.tx.hash>> : e \in entries'}
    BY <1>2, <1>5
  <2>3. \A e, f \in entries' : e.seq = f.seq \/ e.tx.hash = f.tx.hash => e = f
    BY <1>2, <1>3, <1>6, <1>8 DEF PoolInv, IndexesAgree
  <2>4. \A e, f \in entries' : e.tx.sender = f.tx.sender /\ e.tx.nonce = f.tx.nonce => e = f
    BY <1>2, <1>3, <1>8 DEF PoolInv, IndexesAgree, SameSlot
  <2>5. \A e \in entries' : e.seq < next_seq'
    BY <1>2, <1>3, <1>6, <1>8
  <2> QED BY <2>1, <2>2, <2>3, <2>4, <2>5 DEF IndexesAgree
<1>10. IsFiniteSet(entries') /\ Cardinality(entries') <= Capacity
  <2>1. IsFiniteSet(entries) /\ Cardinality(entries) \in Nat /\ Cardinality(entries) <= Capacity /\ Capacity \in Nat
    BY FS_CardinalityType, PoolAssumption DEF PoolInv, WithinCapacity
  <2>2. IsFiniteSet(kept) /\ Cardinality(kept) \in Nat /\ Cardinality(kept) + 1 <= Capacity
    <3>1. CASE gone = {} /\ Cardinality(entries) < Capacity
      <4>1. kept = entries
        BY <3>1
      <4> QED BY <2>1, <3>1, <4>1
    <3>2. CASE \E g \in entries : gone = {g}
      <4>1. PICK g \in entries : gone = {g}
        BY <3>2
      <4>2. IsFiniteSet(entries \ {g}) /\ Cardinality(entries \ {g}) = Cardinality(entries) - 1
        BY <2>1, FS_RemoveElement
      <4>3. Cardinality(entries \ {g}) \in Nat
        BY <4>2, FS_CardinalityType
      <4> QED BY <2>1, <4>1, <4>2, <4>3
    <3> QED BY <3>1, <3>2
  <2> HIDE DEF kept
  <2>3. /\ IsFiniteSet(kept \cup {n})
        /\ Cardinality(kept \cup {n}) = IF n \in kept THEN Cardinality(kept) ELSE Cardinality(kept) + 1
    BY <2>2, FS_AddElement
  <2> QED BY <1>2, <2>1, <2>2, <2>3
<1> QED BY <1>2, <1>3, <1>6, <1>7, <1>8, <1>9, <1>10 DEF PoolInv, WithinCapacity, n

-----------------------------------------------------------------------------
(* The steps *)

\* A displaced transaction was outbid.
Outbid ==
    /\ \A e \in entries, f \in entries' :
         e.tx.sender = f.tx.sender /\ e.tx.nonce = f.tx.nonce => f.tx.gas_price >= e.tx.gas_price
    /\ clearing' = clearing =>
         \A e \in entries : (\A f \in entries' : f.tx.sender # e.tx.sender \/ f.tx.nonce # e.tx.nonce)
           => \E n \in entries' \ entries :
                /\ n.priority > e.priority
                /\ n.tx.tx_type \in {"Stake", "Unstake"}
                /\ \A o \in entries : e.priority <= o.priority

\* Nobody leaves and nobody comes.
LEMMA SameEntries ==
  ASSUME PoolInv, entries' \subseteq entries, entries' = entries \/ clearing' # clearing
  PROVE  Outbid
<1>1. ASSUME NEW e \in entries, NEW f \in entries', e.tx.sender = f.tx.sender, e.tx.nonce = f.tx.nonce
      PROVE  f.tx.gas_price >= e.tx.gas_price
  <2>1. e = f
    BY <1>1 DEF PoolInv, IndexesAgree
  <2>2. e.tx.gas_price \in Nat
    BY TxTyped DEF PoolInv, PoolEntry
  <2> QED BY <2>1, <2>2
<1>2. CASE clearing' # clearing
  BY <1>1, <1>2 DEF Outbid
<1>3. CASE entries' = entries
  BY <1>1, <1>3 DEF Outbid
<1> QED BY <1>2, <1>3

\* A full pool admits staking transactions only.
LEMMA FullSheds ==
  ASSUME PoolInv, Full, NEW h, PassesIngress(h)
  PROVE  reading[h].tx.tx_type \in {"Stake", "Unstake"}
<1> DEFINE c == Cardinality(entries)
           load == (c * 100) \div Capacity
<1>1. c \in Nat /\ Capacity \in Nat /\ c >= Capacity
  BY FS_CardinalityType, PoolAssumption DEF PoolInv, Full
<1>2. /\ {BUSY_THRESHOLD_PCT, CRITICAL_THRESHOLD_PCT, EMERGENCY_THRESHOLD_PCT} \subseteq Nat
      /\ BUSY_THRESHOLD_PCT <= CRITICAL_THRESHOLD_PCT
      /\ CRITICAL_THRESHOLD_PCT <= EMERGENCY_THRESHOLD_PCT /\ EMERGENCY_THRESHOLD_PCT <= 100
  BY PolicyAssumption
<1> HIDE DEF c
<1>3. FromLoad(c, Capacity) = "Emergency"
  <2>1. CASE Capacity = 0
    BY <2>1 DEF FromLoad
  <2>2. CASE Capacity # 0
    <3>1. load \in Nat /\ c * 100 < Capacity * load + Capacity
      BY <1>1, <2>2
    <3>2. Capacity * 100 <= c * 100
      BY <1>1
    <3>3. Capacity * 100 < Capacity * (load + 1)
      BY <1>1, <3>1, <3>2
    <3>4. load >= 100
      BY <1>1, <2>2, <3>1, <3>3
    <3> HIDE DEF load
    <3>5. /\ ~(load < BUSY_THRESHOLD_PCT) /\ ~(load < CRITICAL_THRESHOLD_PCT)
          /\ ~(load < EMERGENCY_THRESHOLD_PCT)
      BY <1>2, <3>1, <3>4
    <3> QED BY <2>2, <3>5 DEF FromLoad, load
  <2> QED BY <2>1, <2>2
<1>4. Admits("Emergency", reading[h].tx.tx_type)
  BY <1>3 DEF PassesIngress, c
<1> QED BY <1>4 DEF Admits

\* Replace-by-fee never lowers the price.
LEMMA FloorClimbs ==
  ASSUME NEW price \in Nat
  PROVE  RbfMinPrice(price) \in Nat /\ RbfMinPrice(price) >= price
<1> DEFINE raised == price * (BPS + MIN_REPLACE_BUMP_BPS)
           q == raised \div BPS
<1>1. BPS \in Nat /\ BPS > 0 /\ MIN_REPLACE_BUMP_BPS \in Nat
  <2>1. BPS \in Nat /\ BPS # 0 /\ MIN_REPLACE_BUMP_BPS \in Nat
    BY PolicyAssumption
  <2> QED BY <2>1
<1>2. price * MIN_REPLACE_BUMP_BPS \in Nat /\ raised = price * BPS + price * MIN_REPLACE_BUMP_BPS
  BY <1>1
<1>3. raised \in Nat /\ price * BPS <= raised
  BY <1>1, <1>2
<1> HIDE DEF raised
<1>4. q \in Nat /\ raised < BPS * q + BPS
  BY <1>1, <1>3
<1> HIDE DEF q
<1>5. BPS * price < BPS * (q + 1)
  BY <1>1, <1>3, <1>4
<1>6. price < q + 1
  BY <1>1, <1>4, <1>5
<1> QED BY <1>4, <1>6 DEF RbfMinPrice, raised, q

\* The rate limiter and the chain in every step that takes a token.
LEMMA TokenInv ==
  ASSUME MempoolInv, NEW h \in Handlers, TokenTaken(h)
  PROVE  RateInv' /\ ChainInv' /\ reading[h] \in [tx : Txs, nonce : Nat] /\ clearing' = clearing
<1>1. reading[h] \in [tx : Txs, nonce : Nat]
  BY DEF TokenTaken, MempoolInv, ChainInv
<1>2. reading[h].tx \in Txs /\ reading[h].tx.sender \in Senders
  BY <1>1, TxTyped
<1>3. RateInv'
  BY <1>2, AcquireInv DEF TokenTaken, MempoolInv, ChainInv
<1>4. ChainInv' /\ clearing' = clearing
  BY DEF TokenTaken, Done, chain, MempoolInv, ChainInv
<1> QED BY <1>1, <1>3, <1>4

LEMMA ReplaceInv ==
  ASSUME MempoolInv, NEW h \in Handlers, Replace(h)
  PROVE  MempoolInv' /\ Outbid
<1> DEFINE tx == reading[h].tx
<1>1. RateInv' /\ ChainInv' /\ reading[h] \in [tx : Txs, nonce : Nat] /\ clearing' = clearing
  BY TokenInv DEF Replace
<1>2. tx \in Txs
  BY <1>1
<1>3. PICK e \in Existing(tx) : tx.gas_price >= RbfMinPrice(e.tx.gas_price) /\ InsertEntry(tx, {e})
  BY DEF Replace
<1> HIDE DEF tx
<1>4. e \in entries /\ SameSlot(e.tx, tx) /\ \A f \in entries : SameSlot(f.tx, tx) => f = e
  <2>1. e \in entries /\ SameSlot(e.tx, tx)
    BY <1>2, <1>3, ExistingExact DEF MempoolInv
  <2> QED BY <2>1 DEF MempoolInv, PoolInv, IndexesAgree, SameSlot
<1>5. PoolInv' /\ FeeInv' /\ entries' = (entries \ {e}) \cup {NewEntry(tx)}
  <2>1. \A f \in entries : SameSlot(f.tx, tx) => f \in {e}
    BY <1>4
  <2>2. {e} \in SUBSET entries /\ \E g \in entries : {e} = {g}
    BY <1>4
  <2> QED BY <1>2, <1>3, <2>1, <2>2, InsertInv DEF MempoolInv
<1>6. NewEntry(tx).tx = tx
  BY DEF NewEntry
<1>7. \A f \in entries : f.tx.gas_price \in Nat
  BY TxTyped DEF MempoolInv, PoolInv, PoolEntry
<1>8. tx.gas_price >= e.tx.gas_price
  BY <1>2, <1>3, <1>4, <1>7, FloorClimbs, TxTyped
<1>9. ASSUME NEW f \in entries, NEW g \in entries', f.tx.sender = g.tx.sender, f.tx.nonce = g.tx.nonce
      PROVE  g.tx.gas_price >= f.tx.gas_price
  <2>1. CASE g = NewEntry(tx)
    <3>1. f = e
      BY <1>4, <1>6, <1>9, <2>1 DEF SameSlot
    <3> QED BY <1>6, <1>8, <2>1, <3>1
  <2>2. CASE g \in entries
    <3>1. f = g
      BY <1>9, <2>2 DEF MempoolInv, PoolInv, IndexesAgree
    <3> QED BY <1>7, <3>1
  <2> QED BY <1>5, <2>1, <2>2
<1>10. \A f \in entries : \E g \in entries' : g.tx.sender = f.tx.sender /\ g.tx.nonce = f.tx.nonce
  <2> SUFFICES ASSUME NEW f \in entries
               PROVE  \E g \in entries' : g.tx.sender = f.tx.sender /\ g.tx.nonce = f.tx.nonce
    OBVIOUS
  <2>1. CASE f = e
    BY <1>4, <1>5, <1>6, <2>1 DEF SameSlot
  <2>2. CASE f # e
    BY <1>5, <2>2
  <2> QED BY <2>1, <2>2
<1>11. Outbid
  BY <1>9, <1>10, Zenon DEF Outbid
<1> QED BY <1>1, <1>5, <1>11 DEF MempoolInv

\* An admission to a free slot, with or without an eviction.
LEMMA EvictInv ==
  ASSUME MempoolInv, NEW h \in Handlers, Evict(h) \/ Insert(h)
  PROVE  MempoolInv' /\ Outbid
<1> DEFINE tx == reading[h].tx
<1>0. TokenTaken(h) /\ Existing(tx) = {}
  BY DEF Evict, Insert
<1>1. RateInv' /\ ChainInv' /\ reading[h] \in [tx : Txs, nonce : Nat] /\ clearing' = clearing
  BY <1>0, TokenInv
<1>2. tx \in Txs
  BY <1>1
<1>3. PICK gone \in SUBSET entries :
        /\ InsertEntry(tx, gone)
        /\ (gone = {} /\ Cardinality(entries) < Capacity) \/ \E g \in entries : gone = {g}
        /\ \A e \in gone : Full /\ Beats(tx, e) /\ e \in LowestRanked
  <2>1. CASE Evict(h)
    <3>1. PICK e \in LowestRanked : Full /\ Beats(tx, e) /\ InsertEntry(tx, {e})
      BY <2>1 DEF Evict
    <3>2. e \in entries
      BY DEF LowestRanked
    <3> WITNESS {e} \in SUBSET entries
    <3> QED BY <3>1, <3>2
  <2>2. CASE Insert(h)
    <3>1. InsertEntry(tx, {}) /\ Cardinality(entries) < Capacity
      <4>1. ~(Cardinality(entries) >= Capacity) /\ InsertEntry(tx, {})
        BY <2>2 DEF Insert, Full
      <4> QED BY <4>1, FS_CardinalityType, PoolAssumption DEF MempoolInv, PoolInv
    <3> QED BY <3>1
  <2> QED BY <2>1, <2>2
<1>3a. \A e \in gone : Full => tx.tx_type \in {"Stake", "Unstake"}
  BY <1>0, FullSheds DEF MempoolInv, TokenTaken
<1> HIDE DEF tx
<1>4. \A e \in entries : ~SameSlot(e.tx, tx)
  BY <1>0, <1>2, ExistingExact DEF MempoolInv
<1>5. PoolInv' /\ FeeInv' /\ entries' = (entries \ gone) \cup {NewEntry(tx)}
  BY <1>2, <1>3, <1>4, InsertInv DEF MempoolInv
<1>6. NewEntry(tx).tx = tx /\ NewEntry(tx).priority = PriorityScore(tx.gas_price, tx.stake)
  BY DEF NewEntry
<1>7. \A f \in entries : f.tx.gas_price \in Nat /\ f.priority \in Nat /\ f.seq \in Nat
  BY TxTyped DEF MempoolInv, PoolInv, PoolEntry
<1>8. ASSUME NEW f \in entries, NEW g \in entries', f.tx.sender = g.tx.sender, f.tx.nonce = g.tx.nonce
      PROVE  g.tx.gas_price >= f.tx.gas_price
  <2>1. g \in entries
    BY <1>4, <1>5, <1>6, <1>8 DEF SameSlot
  <2>2. f = g
    BY <1>8, <2>1 DEF MempoolInv, PoolInv, IndexesAgree
  <2> QED BY <1>7, <2>2
<1>9. NewEntry(tx) \notin entries /\ NewEntry(tx) \in entries'
  BY <1>4, <1>5, <1>6 DEF SameSlot
<1>10. ASSUME NEW e \in entries, \A f \in entries' : f.tx.sender # e.tx.sender \/ f.tx.nonce # e.tx.nonce
       PROVE  \E n \in entries' \ entries : /\ n.priority > e.priority
                                            /\ n.tx.tx_type \in {"Stake", "Unstake"}
                                            /\ \A o \in entries : e.priority <= o.priority
  <2>1. e \in gone
    BY <1>5, <1>10
  <2>2. NewEntry(tx).priority > e.priority /\ NewEntry(tx).tx.tx_type \in {"Stake", "Unstake"}
    BY <1>3, <1>3a, <1>6, <2>1 DEF Beats
  <2>3. \A o \in entries : e.priority <= o.priority
    <3>1. PICK i \in priority_index : i[3] = e.tx.hash /\
            \A o \in priority_index : i[1] < o[1] \/ (i[1] = o[1] /\ i[2] <= o[2])
      BY <1>3, <2>1 DEF LowestRanked
    <3>2. i = <<e.priority, e.seq, e.tx.hash>>
      <4>1. PICK d \in entries : i = <<d.priority, d.seq, d.tx.hash>>
        BY DEF MempoolInv, PoolInv, IndexesAgree
      <4>2. d = e
        BY <3>1, <4>1 DEF MempoolInv, PoolInv, IndexesAgree
      <4> QED BY <4>1, <4>2
    <3>3. \A o \in entries : <<o.priority, o.seq, o.tx.hash>> \in priority_index
      BY DEF MempoolInv, PoolInv, IndexesAgree
    <3>4. \A o \in entries : e.priority < o.priority \/ (e.priority = o.priority /\ e.seq <= o.seq)
      BY <3>1, <3>2, <3>3
    <3> QED BY <1>7, <3>4
  <2> QED BY <1>9, <2>2, <2>3
<1>11. Outbid
  BY <1>8, <1>10, Zenon DEF Outbid
<1> QED BY <1>1, <1>5, <1>11 DEF MempoolInv

\* A committed batch is finite and of the pool's transactions.
LEMMA BatchFinite ==
  ASSUME PoolInv, NEW limit
  PROVE  IsFiniteSet(PendingByPriority(limit)) /\ PendingByPriority(limit) \subseteq Txs
<1> DEFINE all == {e.tx : e \in entries}
           f == [e \in entries |-> e.tx]
<1>1. IsFiniteSet(entries) /\ f \in Surjection(entries, all)
  BY DEF PoolInv, Surjection
<1>3. PendingByPriority(limit) \in SUBSET all
  BY DEF PendingByPriority
<1>4. all \subseteq Txs
  BY DEF PoolInv, PoolEntry
<1> HIDE DEF all, f
<1>5. IsFiniteSet(all)
  BY <1>1, FS_Surjection
<1> QED BY <1>3, <1>4, <1>5, FS_Subset

LEMMA PostCommitInv ==
  ASSUME MempoolInv, PostCommit
  PROVE  MempoolInv' /\ Outbid
<1> DEFINE gone == {e \in entries : e.tx \in clearing}
<1>1. /\ entries' = entries \ gone /\ priority_index' = RankedWithout(gone) /\ by_sender' = SlotsWithout(gone)
      /\ buckets' = PruneFull(buckets, now) /\ loads' = PruneIdle(Tick(loads)) /\ unpruned' = Tick(unpruned)
      /\ clearing # {} /\ clearing' = {}
      /\ UNCHANGED <<next_seq, granted, nonces, proposed, executed, now, reading>>
  BY DEF PostCommit
<1>2. RateInv' /\ FeeInv'
  BY <1>1, PruneInv, TickInv DEF MempoolInv, ChainInv
<1>3. ChainInv'
  BY <1>1 DEF MempoolInv, ChainInv
<1>4. gone \in SUBSET entries
  OBVIOUS
<1> HIDE DEF gone
<1>5. IndexesAgree'
  <2>1. /\ priority_index' = {<<e.priority, e.seq, e.tx.hash>> : e \in entries'}
        /\ by_sender' = {<<e.tx.sender, e.tx.nonce, e.tx.hash>> : e \in entries'}
    BY <1>1, <1>4, RemovedExact DEF MempoolInv
  <2>2. /\ \A e, f \in entries' : e.seq = f.seq \/ e.tx.hash = f.tx.hash => e = f
        /\ \A e, f \in entries' : e.tx.sender = f.tx.sender /\ e.tx.nonce = f.tx.nonce => e = f
        /\ \A e \in entries' : e.seq < next_seq'
    BY <1>1 DEF MempoolInv, PoolInv, IndexesAgree
  <2> QED BY <2>1, <2>2 DEF IndexesAgree
<1>6. IsFiniteSet(entries') /\ WithinCapacity'
  <2>1. /\ IsFiniteSet(entries) /\ entries' \in SUBSET entries
        /\ Cardinality(entries) \in Nat /\ Cardinality(entries) <= Capacity /\ Capacity \in Nat
    BY <1>1, FS_CardinalityType, PoolAssumption DEF MempoolInv, PoolInv, WithinCapacity
  <2>2. IsFiniteSet(entries') /\ Cardinality(entries') <= Cardinality(entries)
    BY <2>1, FS_Subset
  <2>3. Cardinality(entries') \in Nat
    BY <2>2, FS_CardinalityType
  <2> QED BY <2>1, <2>2, <2>3 DEF WithinCapacity
<1>7. PoolInv'
  BY <1>1, <1>5, <1>6 DEF MempoolInv, PoolInv
<1>8. Outbid
  BY <1>1, SameEntries DEF MempoolInv
<1> QED BY <1>2, <1>3, <1>7, <1>8 DEF MempoolInv

LEMMA CommitInv ==
  ASSUME MempoolInv, NEW n \in DOMAIN proposed, CommitBlock(n)
  PROVE  ChainInv'
<1> DEFINE batches == {proposed[i] : i \in 1..n}
           txs == UNION batches
<1>1. proposed \in Seq(SUBSET Txs) /\ Len(proposed) \in Nat /\ n \in 1..Len(proposed)
  BY DEF MempoolInv, ChainInv
<1>2. \A i \in 1..n : i \in 1..Len(proposed) /\ IsFiniteSet(proposed[i]) /\ proposed[i] \subseteq Txs
  BY <1>1 DEF MempoolInv, ChainInv
<1>3. IsFiniteSet(txs) /\ txs \subseteq Txs
  <2> DEFINE f == [i \in 1..n |-> proposed[i]]
  <2>1. IsFiniteSet(1..n)
    BY <1>1, FS_Interval
  <2>2. f \in Surjection(1..n, batches)
    BY DEF Surjection
  <2>3. (\A b \in batches : IsFiniteSet(b)) /\ txs \subseteq Txs
    BY <1>2
  <2> HIDE DEF f, batches
  <2>4. IsFiniteSet(batches)
    BY <2>1, <2>2, FS_Surjection
  <2> QED BY <2>3, <2>4, FS_UNION
<1>4. /\ clearing' = txs /\ proposed' = SubSeq(proposed, n + 1, Len(proposed))
      /\ nonces' = [s \in Senders |-> nonces[s] + Cardinality({t \in txs : t.sender = s})]
      /\ executed' = executed \cup txs /\ now' = now /\ reading' = reading
  BY DEF CommitBlock
<1> HIDE DEF txs
<1>5. nonces' \in [Senders -> Nat]
  <2>1. ASSUME NEW s \in Senders PROVE nonces[s] + Cardinality({t \in txs : t.sender = s}) \in Nat
    <3> DEFINE mine == {t \in txs : t.sender = s}
    <3>1. mine \in SUBSET txs
      OBVIOUS
    <3> HIDE DEF mine
    <3>2. Cardinality(mine) \in Nat
      BY <1>3, <3>1, FS_Subset, FS_CardinalityType
    <3>3. nonces[s] \in Nat
      BY DEF MempoolInv, ChainInv
    <3>4. nonces[s] + Cardinality(mine) \in Nat
      BY <3>2, <3>3
    <3> QED BY <3>4 DEF mine
  <2> QED BY <1>4, <2>1
<1>6. proposed' \in Seq(SUBSET Txs) /\ \A i \in 1..Len(proposed') : IsFiniteSet(proposed'[i])
  <2>1. /\ proposed' \in Seq(SUBSET Txs) /\ Len(proposed') = Len(proposed) - n
        /\ \A i \in 1..Len(proposed') : proposed'[i] = proposed[n + i]
    <3>1. /\ n + 1 \in Int /\ Len(proposed) \in Int
          /\ \A i \in (n + 1)..Len(proposed) : proposed[i] \in SUBSET Txs
      BY <1>1
    <3>2. /\ proposed' \in Seq(SUBSET Txs)
          /\ Len(proposed') = IF n + 1 <= Len(proposed) THEN Len(proposed) - (n + 1) + 1 ELSE 0
          /\ \A i \in 1 .. Len(proposed) - (n + 1) + 1 : proposed'[i] = proposed[(n + 1) + i - 1]
      BY <1>4, <3>1, SubSeqProperties
    <3>3. Len(proposed') = Len(proposed) - n
      BY <1>1, <3>2
    <3>4. \A i \in 1..Len(proposed') : i \in 1 .. Len(proposed) - (n + 1) + 1 /\ (n + 1) + i - 1 = n + i
      BY <1>1, <3>3
    <3> QED BY <3>2, <3>3, <3>4
  <2>2. ASSUME NEW i \in 1..Len(proposed') PROVE IsFiniteSet(proposed'[i])
    <3>1. n + i \in 1..Len(proposed) /\ proposed'[i] = proposed[n + i]
      BY <1>1, <2>1
    <3> QED BY <3>1 DEF MempoolInv, ChainInv
  <2> QED BY <2>1, <2>2
<1> QED BY <1>3, <1>4, <1>5, <1>6 DEF MempoolInv, ChainInv

LEMMA BuildInv ==
  ASSUME MempoolInv, BuildBatch
  PROVE  ChainInv'
<1> DEFINE batch == PendingByPriority(MaxTxsPerBlock)
<1>1. IsFiniteSet(batch) /\ batch \in SUBSET Txs
  BY BatchFinite DEF MempoolInv
<1>2. proposed' = Append(proposed, batch) /\ UNCHANGED <<nonces, clearing, executed, now, reading>>
  BY DEF BuildBatch
<1> HIDE DEF batch
<1>3. proposed \in Seq(SUBSET Txs)
  BY DEF MempoolInv, ChainInv
<1>4. /\ proposed' \in Seq(SUBSET Txs) /\ Len(proposed') = Len(proposed) + 1
      /\ \A i \in 1..Len(proposed) : proposed'[i] = proposed[i]
      /\ proposed'[Len(proposed) + 1] = batch
  BY <1>1, <1>2, <1>3
<1>5. ASSUME NEW i \in 1..Len(proposed') PROVE IsFiniteSet(proposed'[i])
  <2>1. CASE i = Len(proposed) + 1
    BY <1>1, <1>4, <2>1
  <2>2. CASE i # Len(proposed) + 1
    <3>1. i \in 1..Len(proposed)
      BY <1>3, <1>4, <2>2
    <3> QED BY <1>4, <3>1 DEF MempoolInv, ChainInv
  <2> QED BY <2>1, <2>2
<1> QED BY <1>2, <1>4, <1>5 DEF MempoolInv, ChainInv

LEMMA MempoolInvInit == Init => MempoolInv
<1> SUFFICES ASSUME Init PROVE MempoolInv
  OBVIOUS
<1>1. PoolInv
  BY FS_EmptySet, PoolAssumption DEF Init, PoolInv, IndexesAgree, WithinCapacity
<1>2. RateInv
  <2>1. \A s \in Senders : granted[s] * TOKEN <= REFILL * now
    BY BucketAssumption DEF Init
  <2> QED BY <2>1 DEF Init, RateInv, OneBucketEach
<1>3. FeeInv
  BY DEF Init, FeeInv, OneLoadEach
<1>4. ChainInv
  BY DEF Init, ChainInv
<1> QED BY <1>1, <1>2, <1>3, <1>4 DEF MempoolInv

LEMMA MempoolInvNext == MempoolInv /\ [Next]_vars => MempoolInv' /\ [Outbid]_vars
<1> SUFFICES ASSUME MempoolInv, [Next]_vars PROVE MempoolInv' /\ [Outbid]_vars
  OBVIOUS
<1>0. PoolInv /\ RateInv /\ FeeInv /\ ChainInv
  BY DEF MempoolInv
<1>a. ASSUME UNCHANGED pool PROVE PoolInv' /\ Outbid
  BY <1>0, <1>a, SameEntries DEF PoolInv, IndexesAgree, WithinCapacity, pool
<1>b. ASSUME UNCHANGED <<limiter, now>> PROVE RateInv'
  BY <1>0, <1>b DEF RateInv, OneBucketEach, limiter
<1>c. ASSUME UNCHANGED market PROVE FeeInv'
  BY <1>0, <1>c DEF FeeInv, OneLoadEach, market
<1>1. CASE UNCHANGED vars
  <2>1. UNCHANGED <<pool, market, limiter, now>>
    BY <1>1 DEF vars
  <2>2. ChainInv'
    BY <1>0, <1>1 DEF vars, chain, ChainInv
  <2> QED BY <1>1, <1>a, <1>b, <1>c, <2>1, <2>2 DEF MempoolInv
<1>2. ASSUME NEW h \in Handlers, NEW tx \in Txs, Receive(h, tx) PROVE MempoolInv' /\ Outbid
  <2>1. UNCHANGED <<pool, market, limiter, chain, now>>
    BY <1>2 DEF Receive
  <2>2. reading' = [reading EXCEPT ![h] = [tx |-> tx, nonce |-> nonces[tx.sender]]]
    BY <1>2 DEF Receive
  <2>3. ChainInv'
    BY <1>0, <2>1, <2>2, TxTyped DEF chain, ChainInv
  <2> QED BY <1>a, <1>b, <1>c, <2>1, <2>3 DEF MempoolInv
<1>3. ASSUME NEW h \in Handlers, Reject(h) PROVE MempoolInv' /\ Outbid
  <2>1. UNCHANGED <<pool, market, limiter, chain, now>> /\ reading' = [reading EXCEPT ![h] = None]
    BY <1>3 DEF Reject, Done
  <2>2. ChainInv'
    BY <1>0, <2>1 DEF chain, ChainInv
  <2> QED BY <1>a, <1>b, <1>c, <2>1, <2>2 DEF MempoolInv
<1>4. ASSUME NEW h \in Handlers, RateLimited(h) PROVE MempoolInv' /\ Outbid
  <2>1. /\ UNCHANGED <<pool, market, granted, chain, now>> /\ reading' = [reading EXCEPT ![h] = None]
        /\ buckets' = TryAcquire(buckets, reading[h].tx.sender, now)
        /\ ~HasToken(buckets, reading[h].tx.sender, now) /\ reading[h] # None
    BY <1>4 DEF RateLimited, Done
  <2>2. ChainInv'
    BY <1>0, <2>1 DEF chain, ChainInv
  <2>3. reading[h].tx.sender \in Senders
    BY <1>0, <2>1, TxTyped DEF ChainInv
  <2>4. RateInv'
    BY <1>0, <2>1, <2>3, AcquireInv DEF ChainInv
  <2> QED BY <1>a, <1>c, <2>1, <2>2, <2>4 DEF MempoolInv
<1>5. ASSUME NEW h \in Handlers, Underpriced(h) PROVE MempoolInv' /\ Outbid
  BY <1>5, <1>a, <1>c, TokenInv DEF Underpriced, MempoolInv
<1>6. ASSUME NEW h \in Handlers, PoolFull(h) PROVE MempoolInv' /\ Outbid
  <2> DEFINE tx == reading[h].tx
  <2>1. RateInv' /\ ChainInv' /\ tx \in Txs
    <3>1. RateInv' /\ ChainInv' /\ reading[h] \in [tx : Txs, nonce : Nat]
      BY <1>6, TokenInv DEF PoolFull
    <3> QED BY <3>1
  <2>2. /\ by_sender' = WithoutSlot(by_sender, tx.sender, tx.nonce) /\ Existing(tx) = {}
        /\ UNCHANGED <<entries, priority_index, next_seq, market>>
    BY <1>6 DEF PoolFull
  <2> HIDE DEF tx
  <2>3. \A e \in entries : ~SameSlot(e.tx, tx)
    BY <1>0, <2>1, <2>2, ExistingExact
  <2>4. \A i \in by_sender : ~(i[1] = tx.sender /\ i[2] = tx.nonce)
    BY <1>0, <2>3 DEF PoolInv, IndexesAgree, SameSlot
  <2>5. UNCHANGED pool
    BY <2>2, <2>4 DEF pool, WithoutSlot
  <2> QED BY <1>a, <1>c, <2>1, <2>2, <2>5 DEF MempoolInv
<1>7. ASSUME BuildBatch PROVE MempoolInv' /\ Outbid
  BY <1>7, <1>a, <1>b, <1>c, BuildInv DEF BuildBatch, MempoolInv
<1>8. ASSUME NEW n \in DOMAIN proposed, CommitBlock(n) PROVE MempoolInv' /\ Outbid
  BY <1>8, <1>a, <1>b, <1>c, CommitInv DEF CommitBlock, MempoolInv
<1>9. ASSUME PassTime PROVE MempoolInv' /\ Outbid
  <2>1. now' = now + 1 /\ now \in Nat /\ UNCHANGED <<pool, market, limiter, chain, reading>>
    BY <1>0, <1>9 DEF PassTime, ChainInv
  <2>2. REFILL \in Nat /\ REFILL * now <= REFILL * now' /\ REFILL * now \in Nat /\ REFILL * now' \in Nat
    BY <2>1, BucketAssumption
  <2>3. RateInv'
    <3>1. \A s \in Senders : granted[s] * TOKEN \in Nat
      BY <1>0, BucketAssumption DEF RateInv
    <3>2. \A s \in Senders : (\A b \in buckets : b.account # s) => granted[s] * TOKEN <= REFILL * now'
      BY <1>0, <2>2, <3>1 DEF RateInv
    <3>3. \A b \in buckets : b.last_refill \in Nat /\ b.last_refill <= now'
      BY <1>0, <2>1 DEF RateInv, BucketType
    <3>4. buckets' = buckets /\ granted' = granted
      BY <2>1 DEF limiter
    <3> QED BY <1>0, <3>2, <3>3, <3>4 DEF RateInv, OneBucketEach
  <2>4. ChainInv'
    BY <1>0, <2>1 DEF chain, ChainInv
  <2> QED BY <1>a, <1>c, <2>1, <2>3, <2>4 DEF MempoolInv
<1>10. CASE Next
  BY <1>2, <1>3, <1>4, <1>5, <1>6, <1>7, <1>8, <1>9, <1>10, ReplaceInv, EvictInv, PostCommitInv DEF Next
<1> QED BY <1>1, <1>10

-----------------------------------------------------------------------------
(* The theorems *)

\* The three maps of the pool always describe the same transactions and the
\* pool never grows past its capacity, whatever the handlers, the driver and the
\* commits do, for any capacity and any transactions.
THEOREM PoolStaysConsistent == Spec => []PoolConsistent
<1>1. MempoolInv => PoolConsistent
  <2> SUFFICES ASSUME MempoolInv PROVE PoolConsistent
    OBVIOUS
  <2>1. \A e \in entries : /\ e.tx \in Txs /\ e.tx.hash \in Hashes /\ e.priority \in Nat /\ e.seq \in Nat
                           /\ e.tx.sender \in Senders /\ e.tx.nonce \in Nat
    BY TxTyped DEF MempoolInv, PoolInv, PoolEntry, Hashes
  <2>2. \A i \in priority_index : i[1] \in Nat /\ i[2] \in Nat /\ i[3] \in Hashes
    BY <2>1 DEF MempoolInv, PoolInv, IndexesAgree
  <2>3. by_sender \subseteq Senders \X Nat \X Hashes
    BY <2>1 DEF MempoolInv, PoolInv, IndexesAgree
  <2>4. TypeOK
    BY <2>2, <2>3 DEF MempoolInv, PoolInv, RateInv, FeeInv, ChainInv, TypeOK
  <2> QED BY <2>4 DEF PoolConsistent, MempoolInv, PoolInv
<1>2. MempoolInv /\ [Next]_vars => MempoolInv'
  BY MempoolInvNext
<1> QED BY <1>1, <1>2, MempoolInvInit, PTL DEF Spec

\* A sender is never admitted more often than a full bucket and the refill since
\* the start allow, although full buckets are forgotten after every block.
THEOREM RateStaysBounded == Spec => []RateBounded
<1>1. MempoolInv => RateBounded
  <2> SUFFICES ASSUME MempoolInv, NEW s \in Senders
               PROVE  granted[s] * TOKEN <= BUCKET_CAPACITY + REFILL * now
    BY DEF RateBounded
  <2> DEFINE g == granted[s] * TOKEN
             y == REFILL * now
             b == BucketOf(buckets, s, now)
  <2>1. b \in BucketType(Senders) /\ g + b.tokens <= BUCKET_CAPACITY + y
    BY BucketExact DEF MempoolInv, ChainInv
  <2>2. g \in Nat /\ y \in Nat /\ BUCKET_CAPACITY \in Nat /\ b.tokens \in Nat
    BY <2>1, BucketAssumption DEF MempoolInv, RateInv, ChainInv, BucketType
  <2> HIDE DEF g, y, b
  <2>3. g <= BUCKET_CAPACITY + y
    BY <2>1, <2>2
  <2> QED BY <2>3 DEF g, y
<1>2. MempoolInv /\ [Next]_vars => MempoolInv'
  BY MempoolInvNext
<1> QED BY <1>1, <1>2, MempoolInvInit, PTL DEF Spec

\* The market that forgets idle contracts quotes the fees of one that does not.
THEOREM PruningIsInvisible == Spec => []PruningKeepsFees
<1>1. MempoolInv => PruningKeepsFees
  BY LoadsAgree DEF MempoolInv, PruningKeepsFees, LocalBaseFee, ContractLoad
<1>2. MempoolInv /\ [Next]_vars => MempoolInv'
  BY MempoolInvNext
<1> QED BY <1>1, <1>2, MempoolInvInit, PTL DEF Spec

\* Before its commit a transaction gives way only to a better offer: a higher
\* price in its own slot, or, from a full pool, a staking transaction of higher
\* priority than the lowest.
THEOREM OnlyOutbidOnesLeave == Spec => OnlyOutbidLeave
<1>1. MempoolInv /\ [Next]_vars => MempoolInv'
  BY MempoolInvNext
<1>2. MempoolInv /\ [Next]_vars =>
        [\A e \in entries, f \in entries' :
           e.tx.sender = f.tx.sender /\ e.tx.nonce = f.tx.nonce => f.tx.gas_price >= e.tx.gas_price]_vars
  BY MempoolInvNext DEF Outbid
<1>3. MempoolInv /\ [Next]_vars =>
        [clearing' = clearing =>
           \A e \in entries : (\A f \in entries' : f.tx.sender # e.tx.sender \/ f.tx.nonce # e.tx.nonce)
             => \E n \in entries' \ entries :
                  /\ n.priority > e.priority
                  /\ n.tx.tx_type \in {"Stake", "Unstake"}
                  /\ \A o \in entries : e.priority <= o.priority]_vars
  BY MempoolInvNext DEF Outbid
<1>4. Spec => ReplacementsClimb
  BY <1>1, <1>2, MempoolInvInit, PTL DEF Spec, ReplacementsClimb
<1>5. Spec => EvictionIsEarned
  BY <1>1, <1>3, MempoolInvInit, PTL DEF Spec, EvictionIsEarned
<1> QED BY <1>4, <1>5 DEF OnlyOutbidLeave
=============================================================================
