---------------------------- MODULE SurgeProofs ----------------------------
(***************************************************************************)
(* The safety of the consensus driver of one node, for every DAG the       *)
(* committee may build, every committee and every order of delivery.       *)
(***************************************************************************)
EXTENDS Surge, DagProofs, StakeProofs, SequenceTheorems

-----------------------------------------------------------------------------
(* Functions defined by recursion on a rank *)

Partial(S, D) == UNION {[T -> D] : T \in SUBSET S}

\* g on the arguments of lower rank than r.
LowerThan(S, rank, r) == {q \in S : rank[q] < rank[r]}

\* What a step of the recursion gives at r, from the values of g below r.
Unrolled(S, rank, step, g, r) == step[<<r, [q \in LowerThan(S, rank, r) |-> g[q]]>>]

Solvable(S, D, rank, step) ==
  \E g \in [S -> D] : \A r \in S : g[r] = Unrolled(S, rank, step, g, r)

\* A recursion in which every step looks only at arguments of lower rank has a
\* solution.
LEMMA RecursionExists ==
  ASSUME NEW S, NEW D, NEW rank \in [S -> Nat], NEW N \in Nat, \A r \in S : rank[r] < N,
         NEW step \in [S \X Partial(S, D) -> D]
  PROVE  Solvable(S, D, rank, step)
  <1> DEFINE Low(n) == {r \in S : rank[r] < n}
             Solves(n, g) == /\ g \in [Low(n) -> D]
                             /\ \A r \in Low(n) : g[r] = Unrolled(S, rank, step, g, r)
             Bad == {n \in Nat : ~\E g : Solves(n, g)}
  <1>1. Bad = {}
    <2> SUFFICES ASSUME Bad # {} PROVE FALSE
      OBVIOUS
    <2>1. Bad \in SUBSET Nat
      OBVIOUS
    <2>2. PICK n \in Bad : \A m \in Bad : n <= m
      <3> HIDE DEF Bad
      <3> QED BY <2>1, LeastNatural
    <2>3. n \in Nat /\ ~\E g : Solves(n, g)
      OBVIOUS
    <2>4. CASE n = 0
      <3>1. Low(0) = {}
        OBVIOUS
      <3>2. PICK none : none \in [{} -> D]
        <4>1. [r \in {} |-> r] \in [{} -> D]
          OBVIOUS
        <4> QED BY <4>1
      <3>3. Solves(0, none)
        <4> HIDE DEF Low
        <4> QED BY <3>1, <3>2
      <3> QED BY <2>3, <2>4, <3>3
    <2>5. CASE n # 0
      <3>1. n - 1 \in Nat /\ n - 1 \notin Bad
        <4>1. n - 1 \in Nat /\ ~(n <= n - 1)
          BY <2>3, <2>5
        <4> HIDE DEF Bad
        <4> QED BY <2>2, <4>1
      <3>2. PICK g : Solves(n - 1, g)
        BY <3>1
      <3> DEFINE h == [r \in Low(n) |-> IF r \in Low(n - 1) THEN g[r]
                                       ELSE Unrolled(S, rank, step, g, r)]
      <3>3. ASSUME NEW r \in Low(n)
            PROVE  /\ LowerThan(S, rank, r) \subseteq Low(n - 1)
                   /\ [q \in LowerThan(S, rank, r) |-> g[q]] = [q \in LowerThan(S, rank, r) |-> h[q]]
                   /\ [q \in LowerThan(S, rank, r) |-> g[q]] \in Partial(S, D)
        <4>1. rank[r] \in Nat /\ rank[r] < n
          BY <3>3
        <4>2. LowerThan(S, rank, r) \subseteq Low(n - 1)
          BY <3>1, <4>1 DEF LowerThan
        <4>3. \A q \in LowerThan(S, rank, r) : q \in Low(n) /\ h[q] = g[q] /\ g[q] \in D
          <5>1. Low(n - 1) \subseteq Low(n)
            BY <2>3, <3>1
          <5> QED BY <3>2, <4>2, <5>1
        <4>4. [q \in LowerThan(S, rank, r) |-> g[q]] \in [LowerThan(S, rank, r) -> D]
          BY <4>3
        <4>5. LowerThan(S, rank, r) \in SUBSET S
          BY DEF LowerThan
        <4> QED BY <4>2, <4>3, <4>4, <4>5 DEF Partial
      <3>4. ASSUME NEW r \in Low(n)
            PROVE  /\ Unrolled(S, rank, step, g, r) \in D
                   /\ Unrolled(S, rank, step, g, r) = Unrolled(S, rank, step, h, r)
        <4> HIDE DEF h
        <4> QED BY <3>3 DEF Unrolled
      <3>5. \A r \in Low(n) : h[r] \in D /\ h[r] = Unrolled(S, rank, step, g, r)
        BY <3>2, <3>4
      <3>6. h \in [Low(n) -> D]
        BY <3>5
      <3>7. Solves(n, h)
        <4> HIDE DEF h
        <4> QED BY <3>4, <3>5, <3>6
      <3> QED BY <2>3, <3>7
    <2> QED BY <2>4, <2>5
  <1>2. Low(N) = S
    OBVIOUS
  <1>3. \E g : Solves(N, g)
    BY <1>1
  <1> QED BY <1>2, <1>3 DEF Solvable

\* The largest of a finite set of naturals.
LEMMA MaxOf ==
  ASSUME NEW S, \A x \in S : x \in Nat, IsFiniteSet(S), S # {}
  PROVE  Max(S) \in S /\ \A x \in S : x <= Max(S)
  <1>1. PICK h \in S : \A g \in S : g <= h
    BY LargestExists
  <1>2. \A g \in S : h >= g
    BY <1>1
  <1>3. Max(S) \in S /\ \A x \in S : Max(S) >= x
    BY <1>1, <1>2 DEF Max
  <1> QED BY <1>3

-----------------------------------------------------------------------------
(* What try_decide returns *)

LeaderRounds(d, last_decided) ==
  {r \in last_decided + 1 .. SaturatingSub(HighestAcceptedRound(d), 2) :
     r % WAVE_LENGTH = 0}

DecideOne(d, r, above) ==
  LET direct == TryDirectDecide(d, LeaderSlot(d, r)) IN
  IF direct.decision # "Undecided" THEN direct
  ELSE TryIndirectDecide(d, LeaderSlot(d, r), above)

IsStatus(d, rounds, g) ==
  g = [r \in rounds |-> DecideOne(d, r, [q \in {q \in rounds : q > r} |-> g[q]])]

\* The decisions of a leader round: nothing but the block of the leader is
\* ever committed.
Decisions(d, r) ==
  {Skip, Undecided} \cup {Commit(leader) : leader \in BlockAtSlot(d, LeaderSlot(d, r))}

LEMMA TryDecideUnfolds ==
  ASSUME NEW d, NEW last_decided
  PROVE  LET rounds == LeaderRounds(d, last_decided)
             status == CHOOSE g : IsStatus(d, rounds, g)
         IN  TryDecide(d, last_decided) =
               [r \in {r \in rounds : \A q \in rounds :
                         q <= r => status[q].decision # "Undecided"} |-> status[r]]
  BY DEF TryDecide, IsStatus, LeaderRounds, DecideOne

LEMMA DecideOneType ==
  ASSUME NEW d, NEW r, NEW above
  PROVE  DecideOne(d, r, above) \in Decisions(d, r)
  <1> DEFINE slot == LeaderSlot(d, r)
  <1>1. \A C : CertifiedBy(d, slot, C) # {} =>
          (CHOOSE x \in CertifiedBy(d, slot, C) : TRUE) \in BlockAtSlot(d, slot)
    BY DEF CertifiedBy
  <1> HIDE DEF slot
  <1>2. TryDirectDecide(d, slot) \in {Skip, Undecided} \cup {Commit(l) : l \in BlockAtSlot(d, slot)}
    BY <1>1 DEF TryDirectDecide
  <1>3. TryIndirectDecide(d, slot, above)
          \in {Skip, Undecided} \cup {Commit(l) : l \in BlockAtSlot(d, slot)}
    BY <1>1 DEF TryIndirectDecide
  <1> QED BY <1>2, <1>3 DEF DecideOne, Decisions, slot

\* The recursion of try_decide, from the highest leader round down, has a
\* solution.
LEMMA StatusExists ==
  ASSUME NEW d, NEW top \in Nat, NEW rounds, \A r \in rounds : r \in Nat /\ r <= top
  PROVE  \E g : IsStatus(d, rounds, g)
  <1> DEFINE D == UNION {Decisions(d, r) : r \in rounds}
             rank == [r \in rounds |-> top - r]
             step == [p \in rounds \X Partial(rounds, D) |-> DecideOne(d, p[1], p[2])]
  <1>1. rank \in [rounds -> Nat] /\ \A r \in rounds : rank[r] < top + 1
    OBVIOUS
  <1>2. step \in [rounds \X Partial(rounds, D) -> D]
    <2>1. \A r \in rounds : \A f : DecideOne(d, r, f) \in D
      BY DecideOneType
    <2> HIDE DEF D
    <2> QED BY <2>1
  <1>3. \A r \in rounds : LowerThan(rounds, rank, r) = {q \in rounds : q > r}
    BY DEF LowerThan
  <1>4. \A r \in rounds, f \in Partial(rounds, D) : step[<<r, f>>] = DecideOne(d, r, f)
    OBVIOUS
  <1> HIDE DEF D, rank, step
  <1>5. PICK g \in [rounds -> D] : \A r \in rounds : g[r] = Unrolled(rounds, rank, step, g, r)
    <2> DEFINE N == top + 1
    <2>1. N \in Nat /\ \A r \in rounds : rank[r] < N
      BY <1>1
    <2> HIDE DEF N
    <2>2. Solvable(rounds, D, rank, step)
      BY <1>1, <1>2, <2>1, RecursionExists
    <2> QED BY <2>2 DEF Solvable
  <1>6. ASSUME NEW r \in rounds
        PROVE  g[r] = DecideOne(d, r, [q \in {q \in rounds : q > r} |-> g[q]])
    <2>1. [q \in {q \in rounds : q > r} |-> g[q]] \in [{q \in rounds : q > r} -> D]
      OBVIOUS
    <2>2. [q \in {q \in rounds : q > r} |-> g[q]] \in Partial(rounds, D)
      BY <2>1 DEF Partial
    <2>3. g[r] = step[<<r, [q \in {q \in rounds : q > r} |-> g[q]]>>]
      BY <1>3, <1>5 DEF Unrolled
    <2> QED BY <1>4, <2>2, <2>3
  <1>7. g = [r \in rounds |-> g[r]]
    OBVIOUS
  <1> QED BY <1>6, <1>7 DEF IsStatus

\* A finite set of blocks has no more references than blocks.
LEMMA RefsFinite ==
  ASSUME NEW S, IsFiniteSet(S)
  PROVE  IsFiniteSet(Refs(S)) /\ Cardinality(Refs(S)) <= Cardinality(S)
  <1> DEFINE f == [b \in S |-> Reference(b)]
             T == Refs(S)
  <1>1. f \in Surjection(S, T)
    BY DEF Surjection, Refs
  <1> HIDE DEF f, T
  <1>2. IsFiniteSet(T) /\ Cardinality(T) <= Cardinality(S)
    BY <1>1, FS_Surjection
  <1> QED BY <1>2 DEF T

\* Accepted blocks and their rounds are finitely many.
LEMMA AcceptedFinite ==
  ASSUME NEW B, IsFiniteSet(B), SoundBlocks(B), NEW d, StoreInv(B, d)
  PROVE  /\ IsFiniteSet(d.blocks) /\ d.blocks \subseteq B
         /\ d.by_slot = Refs(d.blocks) /\ d.by_round = Refs(d.blocks)
         /\ HighestAcceptedRound(d) \in Nat
  <1>1. d.blocks \in SUBSET B /\ d.by_slot = Refs(d.blocks) /\ d.by_round = Refs(d.blocks)
    BY DEF StoreInv, DagOf, IndexesAgree
  <1>2. IsFiniteSet(d.blocks)
    BY <1>1, FS_Subset
  <1> DEFINE f == [b \in d.blocks |-> b.round]
             T == {r.round : r \in d.by_round}
  <1>3. f \in Surjection(d.blocks, T)
    <2>1. \A b \in d.blocks : Reference(b) \in d.by_round /\ Reference(b).round = b.round
      BY <1>1 DEF Refs, Reference
    <2>2. \A r \in d.by_round : \E b \in d.blocks : r = Reference(b)
      BY <1>1 DEF Refs
    <2>3. \A b \in d.blocks : b.round \in T
      BY <2>1
    <2>4. \A t \in T : \E b \in d.blocks : t = b.round
      BY <2>1, <2>2
    <2> HIDE DEF T
    <2> QED BY <2>3, <2>4 DEF Surjection
  <1>4. \A x \in T : x \in Nat
    BY <1>1 DEF SoundBlocks, Refs, Reference
  <1> HIDE DEF f, T
  <1>5. IsFiniteSet(T)
    BY <1>2, <1>3, FS_Surjection
  <1>6. IsFiniteSet({0} \cup T) /\ {0} \cup T # {} /\ \A x \in {0} \cup T : x \in Nat
    <2>1. IsFiniteSet({0})
      BY FS_Singleton
    <2>2. IsFiniteSet({0} \cup T)
      BY <1>5, <2>1, FS_Union
    <2> QED BY <1>4, <2>2
  <1>7. Max({0} \cup T) \in Nat
    BY <1>6, MaxOf
  <1> QED BY <1>1, <1>2, <1>7 DEF HighestAcceptedRound, T

\* What try_decide returns: decisions about finitely many leader rounds above
\* the last decided one, of which it commits the leader's own accepted block.
LEMMA TryDecideSound ==
  ASSUME NEW B, IsFiniteSet(B), SoundBlocks(B), NEW d, StoreInv(B, d), NEW last_decided \in Nat
  PROVE  LET decided == TryDecide(d, last_decided) IN
         /\ IsFiniteSet(DOMAIN decided)
         /\ \A r \in DOMAIN decided :
              r \in Nat /\ r > last_decided /\ decided[r] \in Decisions(d, r)
  <1> DEFINE rounds == LeaderRounds(d, last_decided)
             status == CHOOSE g : IsStatus(d, rounds, g)
             top == SaturatingSub(HighestAcceptedRound(d), 2)
             prefix == {r \in rounds : \A q \in rounds :
                          q <= r => status[q].decision # "Undecided"}
  <1>1. top \in Nat
    BY AcceptedFinite DEF SaturatingSub
  <1> HIDE DEF top
  <1>2. rounds \subseteq last_decided + 1 .. top
    BY DEF LeaderRounds, top
  <1>3. \A r \in rounds : r \in Nat /\ r > last_decided /\ r <= top
    BY <1>1, <1>2
  <1>4. TryDecide(d, last_decided) = [r \in prefix |-> status[r]] /\ prefix \subseteq rounds
    BY TryDecideUnfolds
  <1> HIDE DEF rounds, prefix
  <1>5. IsFiniteSet(prefix)
    <2>1. last_decided + 1 \in Int /\ top \in Int /\ prefix \subseteq last_decided + 1 .. top
      BY <1>1, <1>2, <1>4
    <2> QED BY <2>1, FS_Interval, FS_Subset
  <1>6. IsStatus(d, rounds, status)
    <2>1. \E g : IsStatus(d, rounds, g)
      BY <1>1, <1>3, StatusExists
    <2> QED BY <2>1
  <1> HIDE DEF status
  <1>7. \A r \in rounds : status[r] \in Decisions(d, r)
    BY <1>6, DecideOneType DEF IsStatus
  <1> QED BY <1>3, <1>4, <1>5, <1>7

-----------------------------------------------------------------------------
(* What the search of the linearizer collects *)

\* What one more step from the references S finds.
Found(d, committed, S) ==
  {a \in UNION {Block(d, r).ancestors : r \in {r \in S : Contains(d, r)}} :
     a.round > GcRound(d) /\ a \notin committed}

IsSearch(d, leader, committed, g) ==
  g = [n \in 0 .. Cardinality(d.blocks) |->
         IF n = 0 THEN {leader}
         ELSE LET before == g[n - 1] IN before \cup Found(d, committed, before)]

LEMMA LinearizeUnfolds ==
  ASSUME NEW d, NEW leader, NEW committed
  PROVE  LinearizeSubDag(d, leader, committed)
           = (CHOOSE g : IsSearch(d, leader, committed, g))[Cardinality(d.blocks)]
  BY DEF LinearizeSubDag, IsSearch, Found

\* A block is found under its reference.
LEMMA BlockFound ==
  ASSUME NEW d, NEW r, Contains(d, r)
  PROVE  Block(d, r) \in d.blocks /\ Reference(Block(d, r)) = r
  BY DEF Contains, Block, Refs

LEMMA SearchExists ==
  ASSUME NEW B, NEW d, d.blocks \subseteq B, Cardinality(d.blocks) \in Nat,
         NEW leader \in AllRefs(B), NEW committed
  PROVE  \E g : IsSearch(d, leader, committed, g)
  <1> DEFINE N == Cardinality(d.blocks)
             S == 0 .. N
             D == SUBSET AllRefs(B)
             Then(F) == F \cup Found(d, committed, F)
             rank == [n \in S |-> n]
             step == [p \in S \X Partial(S, D) |->
                        IF p[1] # 0 /\ p[1] - 1 \in DOMAIN p[2]
                        THEN Then(p[2][p[1] - 1]) ELSE {leader}]
  <1>1. N \in Nat /\ rank \in [S -> Nat] /\ \A n \in S : rank[n] < N + 1
    OBVIOUS
  <1>2. \A F \in D : Then(F) \in D
    <2>1. \A F : Found(d, committed, F) \subseteq AllRefs(B)
      BY BlockFound DEF Found, AllRefs
    <2> QED BY <2>1
  <1>3. {leader} \in D
    OBVIOUS
  <1> HIDE DEF Then, D
  <1>4. step \in [S \X Partial(S, D) -> D]
    <2>1. \A f \in Partial(S, D) : \A n \in DOMAIN f : f[n] \in D
      BY DEF Partial
    <2> QED BY <1>2, <1>3, <2>1
  <1>5. \A n \in S, f \in Partial(S, D) :
          step[<<n, f>>] = IF n # 0 /\ n - 1 \in DOMAIN f THEN Then(f[n - 1]) ELSE {leader}
    OBVIOUS
  <1>6. \A n \in S : LowerThan(S, rank, n) = {m \in S : m < n}
    BY DEF LowerThan
  <1> HIDE DEF rank, step
  <1>7. PICK g \in [S -> D] : \A n \in S : g[n] = Unrolled(S, rank, step, g, n)
    <2> DEFINE top == N + 1
    <2>1. top \in Nat /\ \A n \in S : rank[n] < top
      BY <1>1
    <2> HIDE DEF top, S, N
    <2>2. Solvable(S, D, rank, step)
      BY <1>1, <1>4, <2>1, RecursionExists
    <2> QED BY <2>2 DEF Solvable
  <1>8. ASSUME NEW n \in S
        PROVE  g[n] = IF n = 0 THEN {leader} ELSE Then(g[n - 1])
    <2> DEFINE f == [m \in {m \in S : m < n} |-> g[m]]
    <2>1. f \in [{m \in S : m < n} -> D]
      OBVIOUS
    <2>2. f \in Partial(S, D)
      BY <2>1 DEF Partial
    <2>3. g[n] = step[<<n, f>>]
      BY <1>6, <1>7 DEF Unrolled
    <2>4. n # 0 => n - 1 \in DOMAIN f /\ f[n - 1] = g[n - 1]
      BY <1>1
    <2> HIDE DEF f, S
    <2> QED BY <1>5, <2>2, <2>3, <2>4
  <1>9. g = [n \in S |-> g[n]]
    OBVIOUS
  <1> QED BY <1>8, <1>9 DEF IsSearch, Then

\* Blocks link to blocks of earlier rounds only.
LinksBack(B) == \A b \in B : \A a \in b.ancestors : a.round < b.round

\* A set of accepted references that may be committed with the leader.
Committable(d, leader, committed, S) ==
  /\ leader \in S /\ S \subseteq Refs(d.blocks)
  /\ \A x \in S : (x = leader \/ x \notin committed) /\ x.round <= leader.round

\* One more step of the search finds nothing new.
Complete(d, committed, S) == Found(d, committed, S) \subseteq S

\* Every step of the search collects committable references, one more than the
\* step before until there is nothing left to find.
LEMMA SearchProgress ==
  ASSUME NEW B, IsFiniteSet(B), SoundBlocks(B), LinksBack(B), NEW d, StoreInv(B, d),
         NEW leader \in Refs(d.blocks), NEW committed,
         NEW g, IsSearch(d, leader, committed, g)
  PROVE  \A n \in 0 .. Cardinality(d.blocks) :
           /\ Committable(d, leader, committed, g[n])
           /\ Complete(d, committed, g[n]) \/ Cardinality(g[n]) >= n + 1
  <1> DEFINE N == Cardinality(d.blocks)
             Good(n) == /\ Committable(d, leader, committed, g[n])
                        /\ Complete(d, committed, g[n]) \/ Cardinality(g[n]) >= n + 1
             Bad == {n \in 0 .. N : ~Good(n)}
  <1>1. IsFiniteSet(d.blocks) /\ d.blocks \subseteq B /\ N \in Nat /\ IsFiniteSet(Refs(d.blocks))
    BY AcceptedFinite, RefsFinite, FS_CardinalityType
  <1>2. \A x \in Refs(d.blocks) : x.round \in Nat
    BY <1>1 DEF SoundBlocks, AllRefs, Refs
  <1>3. g[0] = {leader}
    BY <1>1 DEF IsSearch
  <1>4. \A n \in 0 .. N : n # 0 => g[n] = g[n - 1] \cup Found(d, committed, g[n - 1])
    BY <1>1 DEF IsSearch
  <1> HIDE DEF N
  <1>5. SUFFICES ASSUME Bad # {} PROVE FALSE
    BY DEF N
  <1>6. PICK n \in Bad : \A m \in Bad : n <= m
    <2>1. Bad \in SUBSET Nat
      BY <1>1
    <2> HIDE DEF Bad
    <2> QED BY <1>5, <2>1, LeastNatural
  <1>7. n \in 0 .. N /\ n \in Nat /\ ~Good(n)
    BY <1>1
  <1>8. n # 0
    <2>1. Committable(d, leader, committed, {leader})
      BY <1>2 DEF Committable
    <2>2. Cardinality({leader}) >= 0 + 1
      BY FS_Singleton
    <2> QED BY <1>3, <1>7, <2>1, <2>2
  <1> DEFINE F == g[n - 1]
             G == g[n]
  <1>9. n - 1 \in Nat /\ Good(n - 1)
    <2>1. n - 1 \in Nat /\ n - 1 \in 0 .. N /\ ~(n <= n - 1)
      BY <1>1, <1>7, <1>8
    <2>2. n - 1 \notin Bad
      <3> HIDE DEF Bad
      <3> QED BY <1>6, <2>1
    <2> QED BY <2>1, <2>2
  <1>10. G = F \cup Found(d, committed, F)
    BY <1>4, <1>7, <1>8
  <1>11. Committable(d, leader, committed, F)
         /\ (Complete(d, committed, F) \/ Cardinality(F) >= n)
    BY <1>7, <1>9
  <1>12. ~(Committable(d, leader, committed, G)
           /\ (Complete(d, committed, G) \/ Cardinality(G) >= n + 1))
    BY <1>7
  <1> HIDE DEF F, G, Good, Bad
  <1>13. ASSUME NEW a \in Found(d, committed, F)
         PROVE  a \in Refs(d.blocks) /\ a \notin committed /\ a.round <= leader.round
    <2>1. PICK r \in F : Contains(d, r) /\ a \in Block(d, r).ancestors
      BY <1>13 DEF Found
    <2>2. a.round > GcRound(d) /\ a \notin committed
      BY <1>13 DEF Found
    <2>3. Block(d, r) \in d.blocks /\ Reference(Block(d, r)) = r
      BY <2>1, BlockFound
    <2>4. a.round < r.round
      <3>1. a.round < Block(d, r).round
        BY <1>1, <2>1, <2>3 DEF LinksBack
      <3> QED BY <2>3, <3>1 DEF Reference
    <2>5. r.round <= leader.round
      BY <1>11 DEF Committable
    <2>6. a \in AllRefs(B)
      BY <1>1, <2>1, <2>3 DEF AllRefs
    <2>7. a.round \in Nat /\ r.round \in Nat /\ leader.round \in Nat
      BY <1>2, <1>11, <2>1, <2>6 DEF SoundBlocks, Contains
    <2>8. GcRound(d) \in Nat
      BY GcRoundMonotone DEF StoreInv, DagOf
    <2>9. a \in Refs(d.blocks)
      BY <2>1, <2>2, <2>3, <2>7, <2>8 DEF StoreInv, CausallyClosed
    <2> QED BY <2>2, <2>4, <2>5, <2>7, <2>9
  <1>14. Committable(d, leader, committed, G)
    BY <1>10, <1>11, <1>13 DEF Committable
  <1>15. CASE Complete(d, committed, F)
    <2>1. G = F
      BY <1>10, <1>15 DEF Complete
    <2> QED BY <1>12, <1>14, <1>15, <2>1
  <1>16. CASE ~Complete(d, committed, F)
    <2>1. F \subseteq G /\ F # G
      BY <1>10, <1>16 DEF Complete
    <2>2. IsFiniteSet(G)
      BY <1>1, <1>14, FS_Subset DEF Committable
    <2>3. Cardinality(F) < Cardinality(G) /\ Cardinality(F) \in Nat /\ Cardinality(G) \in Nat
      <3>1. IsFiniteSet(F)
        BY <2>1, <2>2, FS_Subset
      <3> QED BY <2>1, <2>2, <3>1, FS_Subset, FS_CardinalityType
    <2>4. Cardinality(F) >= n
      BY <1>11, <1>16
    <2>5. Cardinality(G) >= n + 1
      BY <1>7, <2>3, <2>4
    <2> QED BY <1>12, <1>14, <2>5
  <1> QED BY <1>15, <1>16

\* linearize_sub_dag collects accepted blocks that are not committed yet, none
\* of a later round than the leader, and all that these link to above the
\* garbage collection round.
LEMMA SubDagSound ==
  ASSUME NEW B, IsFiniteSet(B), SoundBlocks(B), LinksBack(B), NEW d, StoreInv(B, d),
         NEW leader \in Refs(d.blocks), NEW committed
  PROVE  /\ Committable(d, leader, committed, LinearizeSubDag(d, leader, committed))
         /\ Complete(d, committed, LinearizeSubDag(d, leader, committed))
  <1> DEFINE g == CHOOSE h : IsSearch(d, leader, committed, h)
             N == Cardinality(d.blocks)
             T == Refs(d.blocks)
  <1>1. /\ IsFiniteSet(d.blocks) /\ d.blocks \subseteq B /\ N \in Nat
        /\ IsFiniteSet(T) /\ Cardinality(T) <= N
    BY AcceptedFinite, RefsFinite, FS_CardinalityType
  <1>2. leader \in AllRefs(B)
    BY <1>1 DEF AllRefs, Refs
  <1>3. IsSearch(d, leader, committed, g)
    <2>1. \E h : IsSearch(d, leader, committed, h)
      BY <1>1, <1>2, SearchExists
    <2> QED BY <2>1
  <1>4. LinearizeSubDag(d, leader, committed) = g[N]
    BY LinearizeUnfolds
  <1> HIDE DEF g
  <1>5. /\ Committable(d, leader, committed, g[N])
        /\ Complete(d, committed, g[N]) \/ Cardinality(g[N]) >= N + 1
    <2>1. N \in 0 .. Cardinality(d.blocks)
      BY <1>1
    <2>2. \A n \in 0 .. Cardinality(d.blocks) :
            /\ Committable(d, leader, committed, g[n])
            /\ Complete(d, committed, g[n]) \/ Cardinality(g[n]) >= n + 1
      BY <1>3, SearchProgress
    <2> HIDE DEF N
    <2> QED BY <2>1, <2>2
  <1>6. ~(Cardinality(g[N]) >= N + 1)
    <2>1. g[N] \subseteq T
      BY <1>5 DEF Committable
    <2> HIDE DEF N, T
    <2>2. Cardinality(g[N]) <= Cardinality(T) /\ Cardinality(g[N]) \in Nat /\ Cardinality(T) \in Nat
      BY <1>1, <2>1, FS_Subset, FS_CardinalityType
    <2> QED BY <1>1, <2>2
  <1> QED BY <1>4, <1>5, <1>6

-----------------------------------------------------------------------------
(* The chain of commits *)

CommitOf(B) == [index : Nat, leader : AllRefs(B), blocks : SUBSET AllRefs(B), gc_round : Nat]

\* What the commits cs, made by the linearizer lin from leaders up to `round`,
\* have in common with each other.
Chain(B, d, cs, lin, round) ==
  /\ cs \in Seq(CommitOf(B))
  /\ lin \in [next_index : Nat, committed : SUBSET AllRefs(B)]
  /\ lin.next_index = Len(cs) + 1
  /\ lin.committed = UNION {cs[j].blocks : j \in 1 .. Len(cs)}
  /\ \A i \in 1 .. Len(cs) :
       /\ cs[i].index = i
       /\ Slot(cs[i].leader) = LeaderSlot(d, cs[i].leader.round)
       /\ cs[i].leader.round <= round
       /\ \A x \in cs[i].blocks : x.round <= round
       /\ \A j \in 1 .. i - 1 :
            /\ cs[j].leader.round < cs[i].leader.round
            /\ cs[j].blocks \cap cs[i].blocks = {}
       /\ \A b \in B : b.intact /\ Reference(b) \in cs[i].blocks =>
            \A a \in b.ancestors :
              \/ \E j \in 1 .. i : a \in cs[j].blocks
              \/ a.round <= cs[i].gc_round

\* Linearizer::commit_one extends the chain, when the leader is an accepted
\* block of the leader slot of a later round.
LEMMA CommitOneChain ==
  ASSUME NEW B, IsFiniteSet(B), SoundBlocks(B), LinksBack(B), NEW d, StoreInv(B, d),
         NEW cs, NEW lin, NEW last \in Nat, Chain(B, d, cs, lin, last),
         NEW r \in Nat, r > last, NEW leader \in BlockAtSlot(d, LeaderSlot(d, r))
  PROVE  LET one == CommitOne(d, lin, leader)
         IN  /\ Chain(B, d, Append(cs, one.commit), one.lin, r)
             /\ one.commit \in CommitOf(B)
  <1> DEFINE committed == lin.committed \cup {leader}
             S == LinearizeSubDag(d, leader, committed)
             c == [index |-> lin.next_index, leader |-> leader, blocks |-> S,
                   gc_round |-> GcRound(d)]
             l == [next_index |-> lin.next_index + 1, committed |-> lin.committed \cup S]
             n == Len(cs)
             ds == Append(cs, c)
  <1>1. CommitOne(d, lin, leader).lin = l /\ CommitOne(d, lin, leader).commit = c
    BY DEF CommitOne
  <1>2. /\ leader \in Refs(d.blocks) /\ Slot(leader) = LeaderSlot(d, r) /\ leader.round = r
        /\ d.blocks \subseteq B
    BY AcceptedFinite DEF BlockAtSlot, LeaderSlot, Slot
  <1>3. Committable(d, leader, committed, S) /\ Complete(d, committed, S)
    BY <1>2, SubDagSound
  <1> HIDE DEF S
  <1>4. GcRound(d) \in Nat
    BY GcRoundMonotone DEF StoreInv, DagOf
  <1>5. S \subseteq AllRefs(B) /\ leader \in S /\ leader \in AllRefs(B)
    BY <1>2, <1>3 DEF Committable, AllRefs, Refs
  <1>6. cs \in Seq(CommitOf(B)) /\ n \in Nat /\ lin.next_index = n + 1 /\ lin.next_index \in Nat
        /\ lin.committed \subseteq AllRefs(B)
    BY DEF Chain
  <1>7. c \in CommitOf(B)
    BY <1>4, <1>5, <1>6 DEF CommitOf
  <1>8. /\ ds \in Seq(CommitOf(B)) /\ Len(ds) = n + 1
        /\ \A i \in 1 .. n : ds[i] = cs[i]
        /\ ds[n + 1] = c
    BY <1>6, <1>7
  <1>9. l \in [next_index : Nat, committed : SUBSET AllRefs(B)]
        /\ l.next_index = Len(ds) + 1
    BY <1>5, <1>6, <1>8
  <1>10. /\ c.index = n + 1 /\ c.leader = leader /\ c.blocks = S /\ c.gc_round = GcRound(d)
         /\ l.committed = lin.committed \cup S
    BY <1>6
  <1> HIDE DEF c, l, n, ds
  <1>11. l.committed = UNION {ds[j].blocks : j \in 1 .. Len(ds)}
    <2>1. lin.committed = UNION {cs[j].blocks : j \in 1 .. n}
      BY DEF Chain, n
    <2>2. 1 .. Len(ds) = (1 .. n) \cup {n + 1}
      BY <1>6, <1>8
    <2> QED BY <1>8, <1>10, <2>1, <2>2
  <1>12. \A x \in lin.committed : x.round <= last
    <2>1. lin.committed = UNION {cs[j].blocks : j \in 1 .. Len(cs)}
      BY DEF Chain
    <2>2. \A j \in 1 .. Len(cs) : \A x \in cs[j].blocks : x.round <= last
      BY DEF Chain
    <2> QED BY <2>1, <2>2
  <1>13. leader \notin lin.committed /\ S \cap lin.committed = {}
    <2>1. leader \notin lin.committed
      BY <1>2, <1>12
    <2> QED BY <1>3, <2>1 DEF Committable
  <1>14. \A i \in 1 .. n : /\ cs[i].leader.round <= last /\ cs[i].leader.round \in Nat
                           /\ \A x \in cs[i].blocks : x.round <= last /\ x.round \in Nat
                           /\ cs[i].blocks \subseteq lin.committed
    <2>1. \A i \in 1 .. n : cs[i] \in CommitOf(B)
      BY <1>6 DEF n
    <2>2. \A x \in AllRefs(B) : x.round \in Nat
      BY DEF SoundBlocks
    <2>3. \A i \in 1 .. n : cs[i].leader \in AllRefs(B) /\ cs[i].blocks \subseteq AllRefs(B)
      BY <2>1 DEF CommitOf
    <2>4. \A i \in 1 .. n : cs[i].blocks \subseteq lin.committed
      BY DEF Chain, n
    <2>5. \A i \in 1 .. n : cs[i].leader.round <= last
                           /\ \A x \in cs[i].blocks : x.round <= last
      BY DEF Chain, n
    <2> QED BY <2>2, <2>3, <2>4, <2>5
  <1> DEFINE Linked(es, i) ==
               /\ es[i].index = i
               /\ Slot(es[i].leader) = LeaderSlot(d, es[i].leader.round)
               /\ es[i].leader.round <= r
               /\ \A x \in es[i].blocks : x.round <= r
               /\ \A j \in 1 .. i - 1 :
                    /\ es[j].leader.round < es[i].leader.round
                    /\ es[j].blocks \cap es[i].blocks = {}
               /\ \A b \in B : b.intact /\ Reference(b) \in es[i].blocks =>
                    \A a \in b.ancestors :
                      \/ \E j \in 1 .. i : a \in es[j].blocks
                      \/ a.round <= es[i].gc_round
  <1>15. ASSUME NEW i \in 1 .. n PROVE Linked(ds, i)
    <2>1. /\ cs[i].index = i
          /\ Slot(cs[i].leader) = LeaderSlot(d, cs[i].leader.round)
          /\ \A j \in 1 .. i - 1 :
               /\ cs[j].leader.round < cs[i].leader.round
               /\ cs[j].blocks \cap cs[i].blocks = {}
          /\ \A b \in B : b.intact /\ Reference(b) \in cs[i].blocks =>
               \A a \in b.ancestors :
                 \/ \E j \in 1 .. i : a \in cs[j].blocks
                 \/ a.round <= cs[i].gc_round
      BY DEF Chain, n
    <2>2. ds[i] = cs[i] /\ \A j \in 1 .. i : ds[j] = cs[j]
      BY <1>6, <1>8
    <2>3. \A j \in 1 .. i - 1 : ds[j] = cs[j]
      BY <1>6, <1>8
    <2>4. cs[i].leader.round <= r /\ \A x \in cs[i].blocks : x.round <= r
      BY <1>14
    <2> QED BY <2>1, <2>2, <2>3, <2>4
  <1>16. Linked(ds, n + 1)
    <2>1. \A j \in 1 .. (n + 1) - 1 : ds[j] = cs[j] /\ j \in 1 .. n
      BY <1>6, <1>8
    <2>2. \A j \in 1 .. (n + 1) - 1 : /\ ds[j].leader.round < leader.round
                                     /\ ds[j].blocks \cap S = {}
      BY <1>2, <1>13, <1>14, <2>1
    <2>3. \A x \in S : x.round <= r
      BY <1>2, <1>3 DEF Committable
    <2>4. ASSUME NEW b \in B, b.intact, Reference(b) \in S, NEW a \in b.ancestors
          PROVE  \/ \E j \in 1 .. n + 1 : a \in ds[j].blocks
                 \/ a.round <= GcRound(d)
      <3>1. Contains(d, Reference(b))
        BY <1>3, <2>4 DEF Committable, Contains
      <3>2. Block(d, Reference(b)) = b
        <4>1. /\ Block(d, Reference(b)) \in d.blocks
              /\ Reference(Block(d, Reference(b))) = Reference(b)
          BY <3>1, BlockFound
        <4>2. Block(d, Reference(b)) \in B /\ Block(d, Reference(b)).intact
          BY <1>2, <4>1 DEF StoreInv, DagOf
        <4> QED BY <2>4, <4>1, <4>2 DEF SoundBlocks
      <3>3. a.round \in Nat
        BY DEF SoundBlocks, AllRefs
      <3>4. a.round > GcRound(d) /\ a \notin committed => a \in S
        BY <1>3, <2>4, <3>1, <3>2 DEF Complete, Found
      <3>5. a \in lin.committed => \E j \in 1 .. n : a \in cs[j].blocks
        BY DEF Chain, n
      <3>6. a \in lin.committed => \E j \in 1 .. n + 1 : a \in ds[j].blocks
        BY <1>6, <1>8, <3>5
      <3>7. a \in S => \E j \in 1 .. n + 1 : a \in ds[j].blocks
        BY <1>6, <1>8, <1>10
      <3> QED BY <1>4, <1>5, <3>3, <3>4, <3>6, <3>7
    <2> QED BY <1>2, <1>8, <1>10, <2>2, <2>3, <2>4
  <1>17. \A i \in 1 .. Len(ds) : Linked(ds, i)
    <2>1. \A i \in 1 .. Len(ds) : i \in 1 .. n \/ i = n + 1
      BY <1>6, <1>8
    <2> HIDE DEF Linked
    <2> QED BY <1>15, <1>16, <2>1
  <1>18. Chain(B, d, ds, l, r)
    BY <1>8, <1>9, <1>11, <1>17 DEF Chain
  <1> QED BY <1>1, <1>7, <1>18 DEF ds

\* The round before r of a batch, 0 for the first one.
Previous(todo, r) == Max({q \in {0} \cup todo : q < r})

CommitNext(d, before, leader) ==
  LET one == CommitOne(d, before.lin, leader)
  IN  [lin |-> one.lin, commits |-> Append(before.commits, one.commit)]

IsBatch(d, lin, decided, todo, g) ==
  g = [r \in {0} \cup todo |->
         IF r = 0 THEN [lin |-> lin, commits |-> <<>>]
         ELSE CommitNext(d, g[Previous(todo, r)], decided[r].leader)]

LEMMA CommitLeadersUnfolds ==
  ASSUME NEW d, NEW lin, NEW decided
  PROVE  LET rounds  == {r \in DOMAIN decided : decided[r].decision = "Commit"}
             missing == {r \in rounds : ~Contains(d, decided[r].leader)}
             todo    == {r \in rounds : \A m \in missing : r < m}
             last    == (CHOOSE g : IsBatch(d, lin, decided, todo, g))[Max({0} \cup todo)]
         IN  CommitLeaders(d, lin, decided) =
               [lin     |-> last.lin,
                failed  |-> missing # {},
                commits |-> IF missing = {} THEN last.commits ELSE <<>>,
                dag     |-> IF missing = {} /\ todo # {}
                            THEN SetLastCommittedRound(d, Max(todo)) ELSE d]
  BY DEF CommitLeaders, IsBatch, CommitNext, Previous

\* The rounds of a batch in order.
LEMMA PreviousRound ==
  ASSUME NEW todo, IsFiniteSet(todo), \A r \in todo : r \in Nat /\ r > 0, NEW r \in todo
  PROVE  /\ Previous(todo, r) \in {0} \cup todo /\ Previous(todo, r) < r
         /\ Previous(todo, r) \in Nat
  <1> DEFINE T == {q \in {0} \cup todo : q < r}
  <1>1. IsFiniteSet(T)
    <2>1. IsFiniteSet({0})
      BY FS_Singleton
    <2>2. IsFiniteSet({0} \cup todo)
      BY <2>1, FS_Union
    <2> QED BY <2>2, FS_Subset
  <1>2. 0 \in T /\ \A x \in T : x \in Nat
    OBVIOUS
  <1>3. Previous(todo, r) = Max(T)
    BY DEF Previous
  <1>4. \A x \in T : x \in {0} \cup todo /\ x < r /\ x \in Nat
    OBVIOUS
  <1> HIDE DEF T
  <1>5. Max(T) \in T
    BY <1>1, <1>2, MaxOf
  <1> QED BY <1>3, <1>4, <1>5

Batches(B) ==
  [lin : [next_index : Nat, committed : SUBSET AllRefs(B)], commits : Seq(CommitOf(B))]

LEMMA CommitNextType ==
  ASSUME NEW B, IsFiniteSet(B), SoundBlocks(B), LinksBack(B), NEW d, StoreInv(B, d),
         NEW before \in Batches(B), NEW leader \in Refs(d.blocks)
  PROVE  CommitNext(d, before, leader) \in Batches(B)
  <1> DEFINE lin == before.lin
             S == LinearizeSubDag(d, leader, lin.committed \cup {leader})
             c == [index |-> lin.next_index, leader |-> leader, blocks |-> S,
                   gc_round |-> GcRound(d)]
             l == [next_index |-> lin.next_index + 1, committed |-> lin.committed \cup S]
  <1>1. CommitNext(d, before, leader) = [lin |-> l, commits |-> Append(before.commits, c)]
    BY DEF CommitNext, CommitOne
  <1>2. S \subseteq Refs(d.blocks)
    BY SubDagSound DEF Committable
  <1>3. Refs(d.blocks) \subseteq AllRefs(B)
    BY AcceptedFinite DEF AllRefs, Refs
  <1>4. GcRound(d) \in Nat
    BY GcRoundMonotone DEF StoreInv, DagOf
  <1>5. /\ lin.next_index \in Nat /\ lin.committed \subseteq AllRefs(B)
        /\ before.commits \in Seq(CommitOf(B))
    BY DEF Batches
  <1> HIDE DEF S, lin
  <1>6. c \in CommitOf(B) /\ l \in [next_index : Nat, committed : SUBSET AllRefs(B)]
    BY <1>2, <1>3, <1>4, <1>5 DEF CommitOf
  <1> HIDE DEF c, l
  <1>7. Append(before.commits, c) \in Seq(CommitOf(B))
    BY <1>5, <1>6
  <1> QED BY <1>1, <1>6, <1>7 DEF Batches

LEMMA BatchExists ==
  ASSUME NEW B, IsFiniteSet(B), SoundBlocks(B), LinksBack(B), NEW d, StoreInv(B, d),
         NEW lin \in [next_index : Nat, committed : SUBSET AllRefs(B)],
         NEW todo, IsFiniteSet(todo), \A r \in todo : r \in Nat /\ r > 0,
         NEW decided, \A r \in todo : decided[r].leader \in Refs(d.blocks)
  PROVE  \E g : IsBatch(d, lin, decided, todo, g)
  <1> DEFINE S == {0} \cup todo
             D == Batches(B)
             first == [lin |-> lin, commits |-> <<>>]
             prev(r) == Previous(todo, r)
             Then(before, r) == CommitNext(d, before, decided[r].leader)
             rank == [r \in S |-> r]
             step == [p \in S \X Partial(S, D) |->
                        IF p[1] # 0 /\ prev(p[1]) \in DOMAIN p[2]
                        THEN Then(p[2][prev(p[1])], p[1]) ELSE first]
  <1>1. PICK top \in Nat : \A r \in S : r < top
    <2>1. IsFiniteSet(S)
      <3>1. IsFiniteSet({0})
        BY FS_Singleton
      <3> QED BY <3>1, FS_Union
    <2>2. S # {} /\ \A x \in S : x \in Nat
      OBVIOUS
    <2> HIDE DEF S
    <2>3. PICK h \in S : \A x \in S : x <= h
      BY <2>1, <2>2, LargestExists
    <2>4. h + 1 \in Nat /\ \A x \in S : x < h + 1
      BY <2>2, <2>3
    <2> QED BY <2>4
  <1>2. rank \in [S -> Nat] /\ \A r \in S : rank[r] < top
    BY <1>1
  <1>3. first \in D
    BY DEF Batches
  <1>4. \A r \in S : r # 0 => \A before \in D : Then(before, r) \in D
    BY CommitNextType
  <1>5. \A r \in S : r # 0 => prev(r) \in S /\ prev(r) < r
    BY PreviousRound
  <1>6. \A r \in S : LowerThan(S, rank, r) = {q \in S : q < r}
    BY DEF LowerThan
  <1> HIDE DEF D, first, Then, prev, S
  <1>7. step \in [S \X Partial(S, D) -> D]
    <2>1. \A f \in Partial(S, D) : \A n \in DOMAIN f : f[n] \in D
      BY DEF Partial
    <2> QED BY <1>3, <1>4, <2>1
  <1>8. \A r \in S, f \in Partial(S, D) :
          step[<<r, f>>] = IF r # 0 /\ prev(r) \in DOMAIN f THEN Then(f[prev(r)], r) ELSE first
    OBVIOUS
  <1> HIDE DEF rank, step
  <1>9. PICK g \in [S -> D] : \A r \in S : g[r] = Unrolled(S, rank, step, g, r)
    <2>1. Solvable(S, D, rank, step)
      BY <1>2, <1>7, RecursionExists
    <2> QED BY <2>1 DEF Solvable
  <1>10. ASSUME NEW r \in S
         PROVE  g[r] = IF r = 0 THEN first ELSE Then(g[prev(r)], r)
    <2> DEFINE f == [q \in {q \in S : q < r} |-> g[q]]
    <2>1. f \in [{q \in S : q < r} -> D]
      OBVIOUS
    <2>2. f \in Partial(S, D)
      BY <2>1 DEF Partial
    <2>3. g[r] = step[<<r, f>>]
      BY <1>6, <1>9 DEF Unrolled
    <2>4. r # 0 => prev(r) \in DOMAIN f /\ f[prev(r)] = g[prev(r)]
      BY <1>5
    <2> HIDE DEF f
    <2> QED BY <1>8, <2>2, <2>3, <2>4
  <1>11. g = [r \in S |-> g[r]]
    OBVIOUS
  <1> QED BY <1>10, <1>11 DEF IsBatch, Then, S, first, prev

\* Appending to the second of two sequences that are put together.
LEMMA ConcatAppend ==
  ASSUME NEW S, NEW p \in Seq(S), NEW q \in Seq(S), NEW x \in S
  PROVE  p \o Append(q, x) = Append(p \o q, x)
  <1> DEFINE a == p \o Append(q, x)
             b == Append(p \o q, x)
  <1>1. a \in Seq(S) /\ b \in Seq(S) /\ Len(a) = Len(b)
    OBVIOUS
  <1>2. \A i \in 1 .. Len(a) : a[i] = b[i]
    OBVIOUS
  <1> HIDE DEF a, b
  <1>3. a = b
    BY <1>1, <1>2
  <1> QED BY <1>3 DEF a, b

\* After every leader of a batch the commits made so far form a chain.
LEMMA BatchChain ==
  ASSUME NEW B, IsFiniteSet(B), SoundBlocks(B), LinksBack(B), NEW d, StoreInv(B, d),
         NEW cs, NEW lin, NEW last \in Nat, Chain(B, d, cs, lin, last),
         NEW todo, IsFiniteSet(todo), NEW decided,
         \A r \in todo : /\ r \in Nat /\ r > last
                         /\ decided[r].leader \in BlockAtSlot(d, LeaderSlot(d, r)),
         NEW g, IsBatch(d, lin, decided, todo, g)
  PROVE  \A r \in {0} \cup todo :
           /\ g[r].commits \in Seq(CommitOf(B))
           /\ Chain(B, d, cs \o g[r].commits, g[r].lin, IF r = 0 THEN last ELSE r)
  <1> DEFINE S == {0} \cup todo
             upto(r) == IF r = 0 THEN last ELSE r
             Good(r) == /\ g[r].commits \in Seq(CommitOf(B))
                        /\ Chain(B, d, cs \o g[r].commits, g[r].lin, upto(r))
             Bad == {r \in S : ~Good(r)}
  <1>1. \A r \in todo : r \in Nat /\ r > 0
    OBVIOUS
  <1>2. SUFFICES ASSUME Bad # {} PROVE FALSE
    OBVIOUS
  <1>3. PICK r \in Bad : \A m \in Bad : r <= m
    <2>1. Bad \in SUBSET Nat
      BY <1>1
    <2> HIDE DEF Bad
    <2> QED BY <1>2, <2>1, LeastNatural
  <1>4. r \in S /\ ~Good(r) /\ r \in Nat
    BY <1>1
  <1>5. cs \in Seq(CommitOf(B))
    BY DEF Chain
  <1>6. r # 0
    <2>1. g[0] = [lin |-> lin, commits |-> <<>>]
      BY DEF IsBatch
    <2>2. cs \o <<>> = cs
      BY <1>5
    <2>3. Good(0)
      BY <2>1, <2>2
    <2> HIDE DEF Good
    <2> QED BY <1>4, <2>3
  <1> DEFINE q == Previous(todo, r)
             leader == decided[r].leader
             one == CommitOne(d, g[q].lin, leader)
  <1>7. r \in todo /\ q \in S /\ q < r /\ q \in Nat
    BY <1>1, <1>4, <1>6, PreviousRound
  <1>8. g[r].lin = one.lin /\ g[r].commits = Append(g[q].commits, one.commit)
    <2>1. g[r] = CommitNext(d, g[q], leader)
      BY <1>4, <1>6 DEF IsBatch
    <2> HIDE DEF q, leader
    <2> QED BY <2>1 DEF CommitNext
  <1> HIDE DEF q, one
  <1>9. Good(q)
    <2>1. q \notin Bad
      <3> HIDE DEF Bad
      <3> QED BY <1>3, <1>4, <1>7
    <2> HIDE DEF Good
    <2> QED BY <1>7, <2>1
  <1>10. upto(q) \in Nat /\ r > upto(q) /\ leader \in BlockAtSlot(d, LeaderSlot(d, r))
    BY <1>7
  <1>11. upto(r) = r
    BY <1>6
  <1> HIDE DEF upto, leader
  <1>12. /\ Chain(B, d, Append(cs \o g[q].commits, one.commit), one.lin, r)
         /\ one.commit \in CommitOf(B)
    <2>1. Chain(B, d, cs \o g[q].commits, g[q].lin, upto(q))
      BY <1>9
    <2> HIDE DEF Good
    <2> QED BY <1>4, <1>10, <2>1, CommitOneChain DEF one
  <1>13. cs \o g[r].commits = Append(cs \o g[q].commits, one.commit)
    <2>1. g[q].commits \in Seq(CommitOf(B))
      BY <1>9
    <2>2. cs \o Append(g[q].commits, one.commit) = Append(cs \o g[q].commits, one.commit)
      BY <1>5, <1>12, <2>1, ConcatAppend
    <2> QED BY <1>8, <2>2
  <1>14. g[r].commits \in Seq(CommitOf(B))
    BY <1>8, <1>9, <1>12
  <1> QED BY <1>4, <1>8, <1>11, <1>12, <1>13, <1>14

\* A chain stays one when later rounds are decided, and in every store of the
\* same epoch.
LEMMA ChainLater ==
  ASSUME NEW B, SoundBlocks(B), NEW d, NEW e, e.epoch = d.epoch,
         NEW cs, NEW lin, NEW last \in Nat, Chain(B, d, cs, lin, last),
         NEW round \in Nat, last <= round
  PROVE  Chain(B, e, cs, lin, round)
  <1>1. \A r : LeaderSlot(e, r) = LeaderSlot(d, r)
    BY DEF LeaderSlot, VSet
  <1>2. \A x \in AllRefs(B) : x.round \in Nat
    BY DEF SoundBlocks
  <1>3. cs \in Seq(CommitOf(B))
    BY DEF Chain
  <1>4. \A i \in 1 .. Len(cs) : cs[i].leader \in AllRefs(B) /\ cs[i].blocks \subseteq AllRefs(B)
    <2>1. \A i \in 1 .. Len(cs) : cs[i] \in CommitOf(B)
      BY <1>3
    <2> QED BY <2>1 DEF CommitOf
  <1>5. \A i \in 1 .. Len(cs) : /\ cs[i].leader.round <= round
                                /\ \A x \in cs[i].blocks : x.round <= round
    <2>1. \A i \in 1 .. Len(cs) : /\ cs[i].leader.round <= last
                                  /\ \A x \in cs[i].blocks : x.round <= last
      BY DEF Chain
    <2> QED BY <1>2, <1>4, <2>1
  <1> QED BY <1>1, <1>5 DEF Chain

\* e is a later store than d in the same epoch: it has lost no block above its
\* garbage collection round.
Evolves(B, d, e) ==
  /\ StoreInv(B, e) /\ e.epoch = d.epoch
  /\ GcRound(d) \in Nat /\ GcRound(e) \in Nat /\ GcRound(d) <= GcRound(e)
  /\ \A x \in d.blocks : x \in e.blocks \/ x.round <= GcRound(e)

LEMMA CollectEvolves ==
  ASSUME NEW B, SoundBlocks(B), NEW d, StoreInv(B, d), NEW round \in Nat
  PROVE  Evolves(B, d, d) /\ Evolves(B, d, SetLastCommittedRound(d, round))
  <1>1. GcRound(d) \in Nat
    BY GcRoundMonotone DEF StoreInv, DagOf
  <1>2. Evolves(B, d, d)
    BY <1>1 DEF Evolves
  <1>3. CASE round <= d.last_committed_round
    BY <1>2, <1>3 DEF SetLastCommittedRound
  <1>4. CASE ~(round <= d.last_committed_round)
    <2> DEFINE e == SetLastCommittedRound(d, round)
    <2>1. e = SetLastCommittedRound(d, round)
      OBVIOUS
    <2> HIDE DEF e
    <2>2. /\ GcRound(e) \in Nat /\ GcRound(d) <= GcRound(e)
          /\ e.blocks = {x \in d.blocks : x.round > GcRound(e)}
          /\ e.epoch = d.epoch
      BY <1>4, <2>1, CollectsFields
    <2>3. StoreInv(B, e)
      BY <1>4, <2>1, CollectsStore
    <2>4. \A x \in d.blocks : x.round \in Nat
      BY DEF StoreInv, DagOf, SoundBlocks
    <2>5. Evolves(B, d, e)
      BY <1>1, <2>2, <2>3, <2>4 DEF Evolves
    <2> QED BY <1>2, <2>1, <2>5
  <1> QED BY <1>3, <1>4

\* commit_leaders with what try_decide returned: no leader is missing, the
\* chain goes on, and only what lies below the new collection round is dropped.
LEMMA CommitLeadersSound ==
  ASSUME NEW B, IsFiniteSet(B), SoundBlocks(B), LinksBack(B), NEW d, StoreInv(B, d),
         NEW cs, NEW lin, NEW last \in Nat, Chain(B, d, cs, lin, last),
         NEW decided, IsFiniteSet(DOMAIN decided),
         \A r \in DOMAIN decided : r \in Nat /\ r > last /\ decided[r] \in Decisions(d, r)
  PROVE  LET batch == CommitLeaders(d, lin, decided)
             now   == AdvanceLastDecided(last, decided)
         IN  /\ batch.failed = FALSE /\ now \in Nat
             /\ Chain(B, d, cs \o batch.commits, batch.lin, now)
             /\ Evolves(B, d, batch.dag)
  <1> DEFINE rounds  == {r \in DOMAIN decided : decided[r].decision = "Commit"}
             missing == {r \in rounds : ~Contains(d, decided[r].leader)}
             todo    == {r \in rounds : \A m \in missing : r < m}
             g       == CHOOSE h : IsBatch(d, lin, decided, todo, h)
             end     == Max({0} \cup todo)
             now     == AdvanceLastDecided(last, decided)
             batch   == CommitLeaders(d, lin, decided)
  <1>1. \A r \in rounds : decided[r].leader \in BlockAtSlot(d, LeaderSlot(d, r))
    BY DEF Decisions, Commit, Skip, Undecided
  <1>2. d.by_slot = Refs(d.blocks)
    BY AcceptedFinite
  <1>3. \A r \in rounds : decided[r].leader \in Refs(d.blocks)
    BY <1>1, <1>2 DEF BlockAtSlot
  <1>4. missing = {} /\ todo = rounds
    BY <1>3 DEF Contains
  <1>5. batch = [lin     |-> g[end].lin,
                 failed  |-> missing # {},
                 commits |-> IF missing = {} THEN g[end].commits ELSE <<>>,
                 dag     |-> IF missing = {} /\ todo # {}
                             THEN SetLastCommittedRound(d, Max(todo)) ELSE d]
    BY CommitLeadersUnfolds
  <1>6. todo \subseteq DOMAIN decided
    OBVIOUS
  <1>7. \A r \in todo : /\ r \in Nat /\ r > last /\ r > 0 /\ r \in DOMAIN decided
                        /\ decided[r].leader \in BlockAtSlot(d, LeaderSlot(d, r))
                        /\ decided[r].leader \in Refs(d.blocks)
    <2>1. \A r \in todo : r \in rounds /\ r \in DOMAIN decided
      OBVIOUS
    <2> HIDE DEF rounds, missing, todo
    <2>2. \A r \in todo : r \in Nat /\ r > last /\ r > 0
      BY <2>1
    <2> QED BY <1>1, <1>3, <2>1, <2>2
  <1> HIDE DEF rounds, missing, todo
  <1>8. IsFiniteSet(todo) /\ IsFiniteSet({0} \cup todo) /\ IsFiniteSet({last} \cup DOMAIN decided)
    <2>1. IsFiniteSet(todo) /\ IsFiniteSet({0}) /\ IsFiniteSet({last})
      BY <1>6, FS_Subset, FS_Singleton
    <2> QED BY <2>1, FS_Union
  <1>9. end \in {0} \cup todo /\ end \in Nat
    <2>1. \A x \in {0} \cup todo : x \in Nat
      BY <1>7
    <2> QED BY <1>8, <2>1, MaxOf
  <1>10. now \in Nat /\ last <= now /\ \A r \in todo : r <= now
    <2> DEFINE T == {last} \cup DOMAIN decided
    <2>1. \A x \in T : x \in Nat
      OBVIOUS
    <2>2. last \in T /\ now = Max(T) /\ todo \subseteq T
      BY <1>6 DEF AdvanceLastDecided
    <2>3. IsFiniteSet(T)
      BY <1>8
    <2> HIDE DEF T, now
    <2> QED BY <2>1, <2>2, <2>3, MaxOf
  <1>11. IsBatch(d, lin, decided, todo, g)
    <2>1. lin \in [next_index : Nat, committed : SUBSET AllRefs(B)]
      BY DEF Chain
    <2>2. \E h : IsBatch(d, lin, decided, todo, h)
      BY <1>7, <1>8, <2>1, BatchExists
    <2> QED BY <2>2
  <1> HIDE DEF g, end, now, batch
  <1> DEFINE upto == IF end = 0 THEN last ELSE end
  <1>12. Chain(B, d, cs \o g[end].commits, g[end].lin, upto)
    BY <1>7, <1>8, <1>9, <1>11, BatchChain
  <1>13. upto \in Nat /\ upto <= now
    BY <1>9, <1>10
  <1> HIDE DEF upto
  <1>14. Chain(B, d, cs \o g[end].commits, g[end].lin, now)
    BY <1>10, <1>12, <1>13, ChainLater
  <1>15. /\ batch.failed = FALSE /\ batch.commits = g[end].commits /\ batch.lin = g[end].lin
         /\ batch.dag = IF todo # {} THEN SetLastCommittedRound(d, Max(todo)) ELSE d
    BY <1>4, <1>5
  <1>16. Evolves(B, d, batch.dag)
    <2>1. CASE todo = {}
      BY <1>15, <2>1, CollectEvolves
    <2>2. CASE todo # {}
      <3>1. \A x \in todo : x \in Nat
        BY <1>7
      <3>2. Max(todo) \in Nat
        BY <1>8, <2>2, <3>1, MaxOf
      <3> QED BY <1>15, <2>2, <3>2, CollectEvolves
    <2> QED BY <2>1, <2>2
  <1> QED BY <1>10, <1>14, <1>15, <1>16 DEF batch, now

-----------------------------------------------------------------------------
(* The threshold clock *)

\* The clock counts authors of accepted blocks of its round, and the round
\* before has a quorum, unless they have been garbage collected.
ClockInv(B, d, clock) ==
  /\ clock \in [round : Nat, counted : SUBSET AuthorsOf(B)]
  /\ \/ clock.round <= GcRound(d)
     \/ clock.counted \subseteq AuthorsOf(BlocksAtRound(d, clock.round))
  /\ \/ clock.round = 0
     \/ clock.round - 1 <= GcRound(d)
     \/ TotalStakeReached(d, clock.round - 1)

LEMMA AuthorsKept ==
  ASSUME NEW B, NEW d, NEW e, StoreInv(B, d), Evolves(B, d, e), NEW round \in Nat
  PROVE  \/ round <= GcRound(e)
         \/ AuthorsOf(BlocksAtRound(d, round)) \subseteq AuthorsOf(BlocksAtRound(e, round))
  <1>1. e.by_round = Refs(e.blocks)
    BY DEF Evolves, StoreInv, IndexesAgree
  <1>2. \A x \in BlocksAtRound(d, round) : x \in d.blocks /\ x.round = round
    BY DEF BlocksAtRound
  <1>3. ~(round <= GcRound(e)) => BlocksAtRound(d, round) \subseteq BlocksAtRound(e, round)
    BY <1>1, <1>2 DEF Evolves, BlocksAtRound, Refs
  <1> QED BY <1>3 DEF AuthorsOf

\* What the clock relies on survives in every later store of the epoch.
LEMMA ClockEvolves ==
  ASSUME NEW B, NEW d, NEW e, StoreInv(B, d), Evolves(B, d, e), IsValidatorSet(VSet(d)),
         NEW clock, ClockInv(B, d, clock)
  PROVE  ClockInv(B, e, clock)
  <1>1. /\ clock.round \in Nat /\ GcRound(d) \in Nat /\ GcRound(e) \in Nat
        /\ GcRound(d) <= GcRound(e) /\ VSet(e) = VSet(d)
    BY DEF ClockInv, Evolves, VSet
  <1>2. \/ clock.round <= GcRound(e)
        \/ clock.counted \subseteq AuthorsOf(BlocksAtRound(e, clock.round))
    BY <1>1, AuthorsKept DEF ClockInv
  <1>3. CASE clock.round = 0
    BY <1>2, <1>3 DEF ClockInv
  <1>4. CASE clock.round - 1 <= GcRound(d)
    <2>1. clock.round - 1 <= GcRound(e)
      BY <1>1, <1>4
    <2> QED BY <1>2, <2>1 DEF ClockInv
  <1>5. CASE clock.round # 0 /\ TotalStakeReached(d, clock.round - 1)
    <2> DEFINE r == clock.round - 1
    <2>1. r \in Nat
      BY <1>1, <1>5
    <2> HIDE DEF r
    <2>2. CASE r <= GcRound(e)
      BY <1>2, <2>2 DEF ClockInv, r
    <2>3. CASE AuthorsOf(BlocksAtRound(d, r)) \subseteq AuthorsOf(BlocksAtRound(e, r))
      <3>1. Quorum(VSet(d), AuthorsOf(BlocksAtRound(d, r)))
        BY <1>5 DEF TotalStakeReached, r
      <3>2. Quorum(VSet(d), AuthorsOf(BlocksAtRound(e, r)))
        BY <2>3, <3>1, QuorumGrows
      <3> QED BY <1>1, <1>2, <3>2 DEF ClockInv, TotalStakeReached, r
    <2> QED BY <2>1, <2>2, <2>3, AuthorsKept
  <1> QED BY <1>3, <1>4, <1>5 DEF ClockInv

\* ThresholdClock::add_block with an accepted block.
LEMMA ClockAdds ==
  ASSUME NEW B, NEW d, StoreInv(B, d), IsValidatorSet(VSet(d)),
         NEW clock, ClockInv(B, d, clock), NEW b \in B, Reference(b) \in Refs(d.blocks)
  PROVE  ClockInv(B, d, AddBlock(clock, VSet(d), b))
  <1> DEFINE counted == clock.counted \cup {b.author}
             r == clock.round
  <1>1. CASE b.round # r \/ b.author \notin DOMAIN VSet(d)
    BY <1>1 DEF AddBlock
  <1>2. CASE ~(b.round # r \/ b.author \notin DOMAIN VSet(d))
    <2>1. r \in Nat /\ GcRound(d) \in Nat /\ counted \subseteq AuthorsOf(B)
      BY GcRoundMonotone DEF ClockInv, StoreInv, DagOf, AuthorsOf
    <2>2. b.author \in AuthorsOf(BlocksAtRound(d, r))
      <3>1. PICK c \in d.blocks : Reference(c) = Reference(b)
        BY DEF Refs
      <3>2. c.author = b.author /\ c.round = b.round
        BY <3>1 DEF Reference
      <3>3. c \in BlocksAtRound(d, r)
        BY <1>2, <3>1, <3>2 DEF BlocksAtRound, StoreInv, IndexesAgree, Refs
      <3> QED BY <3>2, <3>3 DEF AuthorsOf
    <2>3. r <= GcRound(d) \/ counted \subseteq AuthorsOf(BlocksAtRound(d, r))
      BY <2>2 DEF ClockInv
    <2>4. CASE Quorum(VSet(d), counted)
      <3>1. AddBlock(clock, VSet(d), b) = [round |-> r + 1, counted |-> {}]
        BY <1>2, <2>4 DEF AddBlock
      <3>2. r <= GcRound(d) \/ TotalStakeReached(d, r)
        <4> HIDE DEF counted
        <4> QED BY <2>3, <2>4, QuorumGrows DEF TotalStakeReached
      <3>3. r + 1 \in Nat /\ (r + 1) - 1 = r
        BY <2>1
      <3> HIDE DEF r
      <3> QED BY <3>1, <3>2, <3>3 DEF ClockInv
    <2>5. CASE ~Quorum(VSet(d), counted)
      <3>1. AddBlock(clock, VSet(d), b) = [clock EXCEPT !.counted = counted]
        BY <1>2, <2>5 DEF AddBlock
      <3>2. [clock EXCEPT !.counted = counted] \in [round : Nat, counted : SUBSET AuthorsOf(B)]
            /\ [clock EXCEPT !.counted = counted].round = clock.round
            /\ [clock EXCEPT !.counted = counted].counted = counted
        BY <2>1 DEF ClockInv
      <3> HIDE DEF counted
      <3> QED BY <2>3, <3>1, <3>2 DEF ClockInv
    <2> QED BY <2>4, <2>5
  <1> QED BY <1>1, <1>2

-----------------------------------------------------------------------------
(* The driver *)

\* insert only adds to the accepted blocks, and after "Known" and "Accepted"
\* the block is one of them.
LEMMA InsertEvolves ==
  ASSUME NEW B, SoundBlocks(B), NEW d, StoreInv(B, d), NEW b \in B,
         NEW f \in Insert(d, b, TRUE), NEW e, e = DrainEquivocations(f)
  PROVE  /\ Evolves(B, d, e)
         /\ InsertOutcome(d, b, TRUE) \in {"Known", "Accepted"} => Reference(b) \in Refs(e.blocks)
  <1> DEFINE outcome == InsertOutcome(d, b, TRUE)
  <1>1. DagOf(B, d) /\ GcRound(d) \in Nat
    BY GcRoundMonotone DEF StoreInv, DagOf
  <1>2. ASSUME StoreInv(B, e), e.epoch = d.epoch, d.blocks \subseteq e.blocks,
               e.last_committed_round = d.last_committed_round
        PROVE  Evolves(B, d, e)
    <2>1. GcRound(e) = GcRound(d)
      BY <1>2 DEF GcRound
    <2> QED BY <1>1, <1>2, <2>1 DEF Evolves
  <1> HIDE DEF outcome
  <1>3. \/ outcome = "Accepted" /\ \E P, R : Accepts(B, d, e, b, P, R)
        \/ outcome = "Suspended" /\ Suspends(B, d, e, b)
        \/ outcome = "NextEpochBuffered" /\ Buffers(B, d, e, b)
        \/ /\ outcome \in Refused /\ e = d
           /\ outcome = "Known" => Contains(d, Reference(b))
    <2>1. outcome = InsertOutcome(d, b, TRUE)
      BY DEF outcome
    <2>2. \/ /\ outcome = "Accepted"
             /\ \E P, R : Accepts(B, d, e, b, P, R) /\ f.pending_equivocations = R
          \/ outcome = "Suspended" /\ Suspends(B, d, e, b) /\ f.pending_equivocations = {}
          \/ outcome = "NextEpochBuffered" /\ Buffers(B, d, e, b) /\ f.pending_equivocations = {}
          \/ /\ outcome \in Refused
             /\ e = d /\ f.pending_equivocations = {}
             /\ outcome = "Known" => Contains(d, Reference(b))
             /\ outcome = "Equivocation" => ConflictsWith(d.by_slot, b) # {}
      <3> DEFINE sig_ok == TRUE
      <3>1. sig_ok \in BOOLEAN /\ f \in Insert(d, b, sig_ok) /\ outcome = InsertOutcome(d, b, sig_ok)
        BY <2>1
      <3> HIDE DEF sig_ok
      <3> QED BY <1>1, <3>1, InsertEffects
    <2> QED BY <2>2, Zenon
  <1>4. CASE outcome = "Accepted" /\ \E P, R : Accepts(B, d, e, b, P, R)
    <2>1. PICK P, R : Accepts(B, d, e, b, P, R)
      BY <1>4
    <2>2. StoreInv(B, e)
      BY <2>1, AcceptsStore
    <2>3. /\ e.blocks = d.blocks \cup Promoting(b, P) /\ e.epoch = d.epoch
          /\ e.last_committed_round = d.last_committed_round
      BY <1>1, <2>1 DEF Accepts, DagOf
    <2>4. Reference(b) \in Refs(e.blocks)
      BY <2>3 DEF Promoting, Refs
    <2> QED BY <1>2, <2>2, <2>3, <2>4
  <1>5. CASE outcome = "Suspended" /\ Suspends(B, d, e, b)
    <2>1. StoreInv(B, e)
      BY <1>5, SuspendsStore
    <2>2. /\ e.blocks = d.blocks /\ e.epoch = d.epoch
          /\ e.last_committed_round = d.last_committed_round
      BY <1>1, <1>5 DEF Suspends, Suspend, DagOf
    <2> QED BY <1>2, <1>5, <2>1, <2>2 DEF outcome
  <1>6. CASE outcome = "NextEpochBuffered" /\ Buffers(B, d, e, b)
    <2>1. StoreInv(B, e)
      BY <1>6, BuffersStore
    <2>2. /\ e.blocks = d.blocks /\ e.epoch = d.epoch
          /\ e.last_committed_round = d.last_committed_round
      BY <1>1, <1>6 DEF Buffers, BufferNextEpoch, DagOf
    <2> QED BY <1>2, <1>6, <2>1, <2>2 DEF outcome
  <1>7. CASE /\ outcome \in Refused /\ e = d
             /\ outcome = "Known" => Contains(d, Reference(b))
    <2>1. outcome # "Accepted"
      BY <1>7 DEF Refused
    <2> QED BY <1>2, <1>7, <2>1 DEF Contains, outcome
  <1> QED BY <1>3, <1>4, <1>5, <1>6, <1>7, ZenonT(30)

\* What holds of a driver s and of the commits cs that it has returned.
DriverInv(B, s, cs) ==
  /\ s \in [dag : {s.dag}, clock : {s.clock}, last_decided : Nat, linearizer : {s.linearizer}]
  /\ StoreInv(B, s.dag)
  /\ s.dag.epoch \in GenesisEpoch .. LastEpoch
  /\ ClockInv(B, s.dag, s.clock)
  /\ Chain(B, s.dag, cs, s.linearizer, s.last_decided)

SurgeInv ==
  universe \in Universes /\ DriverInv(universe, driver, commits) /\ fatal = FALSE

\* Whatever on_block does with a block keeps what holds of the driver, and it
\* never finds a decided leader missing.
LEMMA OnBlockDriver ==
  ASSUME NEW B \in Universes, NEW s, NEW cs, DriverInv(B, s, cs), NEW b \in B,
         NEW r \in OnBlockResults(s, b)
  PROVE  DriverInv(B, r.driver, cs \o r.commits) /\ r.failed = FALSE
  <1>1. IsFiniteSet(B) /\ SoundBlocks(B) /\ LinksBack(B)
    BY UniverseAssumption DEF LinksBack
  <1>2. /\ StoreInv(B, s.dag) /\ s.dag.epoch \in GenesisEpoch .. LastEpoch
        /\ ClockInv(B, s.dag, s.clock) /\ s.last_decided \in Nat
        /\ Chain(B, s.dag, cs, s.linearizer, s.last_decided)
    BY DEF DriverInv
  <1>3. IsValidatorSet(VSet(s.dag))
    BY <1>2, EpochAssumption DEF VSet
  <1>4. ASSUME NEW d, Evolves(B, s.dag, d)
        PROVE  /\ StoreInv(B, d) /\ d.epoch = s.dag.epoch /\ VSet(d) = VSet(s.dag)
               /\ ClockInv(B, d, s.clock)
               /\ Chain(B, d, cs, s.linearizer, s.last_decided)
    <2>1. StoreInv(B, d) /\ d.epoch = s.dag.epoch /\ VSet(d) = VSet(s.dag)
      BY <1>4 DEF Evolves, VSet
    <2>2. ClockInv(B, d, s.clock)
      BY <1>2, <1>3, <1>4, ClockEvolves
    <2>3. s.last_decided <= s.last_decided
      BY <1>2
    <2> QED BY <1>1, <1>2, <2>1, <2>2, <2>3, ChainLater
  <1>5. CASE InsertOutcome(s.dag, b, TRUE) \in {"Known", "Accepted"}
    <2>1. PICK f \in Insert(s.dag, b, TRUE) : r = RunPipeline(s, DrainEquivocations(f), b)
      BY <1>5 DEF OnBlockResults
    <2> DEFINE d == DrainEquivocations(f)
               decided == TryDecide(d, s.last_decided)
               batch == CommitLeaders(d, s.linearizer, decided)
               now == AdvanceLastDecided(s.last_decided, decided)
               clock == AddBlock(s.clock, VSet(d), b)
    <2>2. Evolves(B, s.dag, d) /\ Reference(b) \in Refs(d.blocks)
      BY <1>1, <1>2, <1>5, InsertEvolves
    <2>3. /\ r.driver = [dag |-> batch.dag, clock |-> clock,
                         last_decided |-> IF batch.failed THEN s.last_decided ELSE now,
                         linearizer |-> batch.lin]
          /\ r.commits = batch.commits /\ r.failed = batch.failed
      BY <2>1 DEF RunPipeline
    <2> HIDE DEF d
    <2>4. /\ StoreInv(B, d) /\ d.epoch = s.dag.epoch /\ VSet(d) = VSet(s.dag)
          /\ ClockInv(B, d, s.clock) /\ Chain(B, d, cs, s.linearizer, s.last_decided)
      BY <1>4, <2>2
    <2>5. ClockInv(B, d, clock)
      BY <1>3, <2>2, <2>4, ClockAdds
    <2>6. /\ IsFiniteSet(DOMAIN decided)
          /\ \A q \in DOMAIN decided :
               q \in Nat /\ q > s.last_decided /\ decided[q] \in Decisions(d, q)
      BY <1>1, <1>2, <2>4, TryDecideSound
    <2> HIDE DEF decided
    <2>7. /\ batch.failed = FALSE /\ now \in Nat
          /\ Chain(B, d, cs \o batch.commits, batch.lin, now)
          /\ Evolves(B, d, batch.dag)
      BY <1>1, <1>2, <2>4, <2>6, CommitLeadersSound
    <2> HIDE DEF batch, now, clock
    <2>8. StoreInv(B, batch.dag) /\ batch.dag.epoch = d.epoch
      BY <2>7 DEF Evolves
    <2>9. ClockInv(B, batch.dag, clock)
      BY <1>3, <2>4, <2>5, <2>7, ClockEvolves
    <2>10. Chain(B, batch.dag, cs \o batch.commits, batch.lin, now)
      <3>1. now <= now
        BY <2>7
      <3> QED BY <1>1, <2>7, <2>8, <3>1, ChainLater
    <2>11. r.driver = [dag |-> batch.dag, clock |-> clock, last_decided |-> now,
                      linearizer |-> batch.lin]
      BY <2>3, <2>7
    <2> QED BY <1>2, <2>3, <2>4, <2>7, <2>8, <2>9, <2>10, <2>11 DEF DriverInv
  <1>6. CASE InsertOutcome(s.dag, b, TRUE) \notin {"Known", "Accepted"}
    <2>1. PICK f \in Insert(s.dag, b, TRUE) :
            r = [driver |-> [s EXCEPT !.dag = DrainEquivocations(f)], commits |-> <<>>,
                 failed |-> FALSE]
      BY <1>6 DEF OnBlockResults
    <2> DEFINE d == DrainEquivocations(f)
    <2>2. Evolves(B, s.dag, d)
      BY <1>1, <1>2, InsertEvolves, ZenonT(30)
    <2> HIDE DEF d
    <2>3. /\ StoreInv(B, d) /\ d.epoch = s.dag.epoch
          /\ ClockInv(B, d, s.clock) /\ Chain(B, d, cs, s.linearizer, s.last_decided)
      BY <1>4, <2>2
    <2>4. cs \o <<>> = cs
      <3>1. cs \in Seq(CommitOf(B))
        BY <1>2 DEF Chain
      <3> QED BY <3>1
    <2>5. r.commits = <<>> /\ r.failed = FALSE
          /\ r.driver = [s EXCEPT !.dag = d]
      BY <2>1 DEF d
    <2>6. /\ r.driver.dag = d /\ r.driver.clock = s.clock
          /\ r.driver.last_decided = s.last_decided /\ r.driver.linearizer = s.linearizer
          /\ r.driver \in [dag : {d}, clock : {s.clock}, last_decided : Nat,
                           linearizer : {s.linearizer}]
      BY <2>5 DEF DriverInv
    <2> QED BY <1>2, <2>3, <2>4, <2>5, <2>6 DEF DriverInv
  <1> QED BY <1>5, <1>6, ZenonT(30)

\* A new driver starts an epoch.
LEMMA NewDriverInv ==
  ASSUME NEW B, NEW epoch \in GenesisEpoch .. LastEpoch
  PROVE  DriverInv(B, NewDriver(epoch), <<>>)
  <1> DEFINE s == NewDriver(epoch)
  <1>1. /\ s.dag = NewDag(epoch) /\ s.clock = NewClock /\ s.last_decided = 0
        /\ s.linearizer = NewLinearizer
        /\ s \in [dag : {s.dag}, clock : {s.clock}, last_decided : Nat,
                 linearizer : {s.linearizer}]
    BY DEF NewDriver
  <1>2. epoch \in Nat /\ s.dag.epoch = epoch
    BY <1>1, EpochAssumption DEF NewDag
  <1> HIDE DEF s
  <1>3. StoreInv(B, s.dag)
    BY <1>1, <1>2, NewStore
  <1>4. ClockInv(B, s.dag, s.clock)
    <2>1. s.clock.round = 0 /\ s.clock.counted = {}
      BY <1>1 DEF NewClock
    <2>2. s.clock \in [round : Nat, counted : SUBSET AuthorsOf(B)]
      BY <1>1 DEF NewClock
    <2> QED BY <2>1, <2>2 DEF ClockInv
  <1>5. Chain(B, s.dag, <<>>, s.linearizer, s.last_decided)
    <2>1. s.linearizer.next_index = 1 /\ s.linearizer.committed = {}
      BY <1>1 DEF NewLinearizer
    <2>2. s.linearizer \in [next_index : Nat, committed : SUBSET AllRefs(B)]
      BY <1>1 DEF NewLinearizer
    <2>3. <<>> \in Seq(CommitOf(B)) /\ Len(<<>>) = 0 /\ 1 .. 0 = {}
      OBVIOUS
    <2> QED BY <2>1, <2>2, <2>3 DEF Chain
  <1>6. DriverInv(B, s, <<>>)
    BY <1>1, <1>2, <1>3, <1>4, <1>5 DEF DriverInv
  <1> QED BY <1>6 DEF s

LEMMA SurgeStep ==
  SurgeInv /\ [Next]_vars => SurgeInv'
  <1> SUFFICES ASSUME SurgeInv, [Next]_vars PROVE SurgeInv'
    OBVIOUS
  <1>1. universe \in Universes /\ DriverInv(universe, driver, commits) /\ fatal = FALSE
    BY DEF SurgeInv
  <1>2. ASSUME NEW b \in universe, OnBlock(b)
        PROVE  SurgeInv'
    <2>1. PICK r \in OnBlockResults(driver, b) :
            driver' = r.driver /\ commits' = commits \o r.commits /\ fatal' = r.failed
      BY <1>2 DEF OnBlock
    <2>2. universe' = universe
      BY <1>2 DEF OnBlock
    <2>3. DriverInv(universe, r.driver, commits \o r.commits) /\ r.failed = FALSE
      BY <1>1, OnBlockDriver
    <2> QED BY <1>1, <2>1, <2>2, <2>3 DEF SurgeInv
  <1>3. CASE AdvanceEpoch
    <2>1. driver.dag.epoch + 1 \in GenesisEpoch .. LastEpoch
      BY <1>1, <1>3, EpochAssumption DEF AdvanceEpoch, DriverInv
    <2>2. /\ driver' = NewDriver(driver.dag.epoch + 1) /\ commits' = <<>>
          /\ universe' = universe /\ fatal' = fatal
      BY <1>3 DEF AdvanceEpoch, Restart
    <2>3. DriverInv(universe, NewDriver(driver.dag.epoch + 1), <<>>)
      BY <2>1, NewDriverInv
    <2> QED BY <1>1, <2>2, <2>3 DEF SurgeInv
  <1>4. CASE UNCHANGED vars
    BY <1>1, <1>4 DEF SurgeInv, vars
  <1> QED BY <1>2, <1>3, <1>4 DEF Next, Deliver, Redeliver

\* Whatever order the blocks of an epoch arrive in, the store, the clock and the
\* commits of the driver stay consistent with each other, and on_block never
\* returns DecidedLeaderMissing.
THEOREM DriverStaysSound == Spec => []SurgeInv
  <1>1. Init => SurgeInv
    <2> SUFFICES ASSUME Init PROVE SurgeInv
      OBVIOUS
    <2>1. GenesisEpoch \in GenesisEpoch .. LastEpoch
      BY EpochAssumption
    <2>2. DriverInv(universe, NewDriver(GenesisEpoch), <<>>)
      BY <2>1, NewDriverInv
    <2> QED BY <2>2 DEF Init, SurgeInv
  <1> QED BY <1>1, SurgeStep, PTL DEF Spec

\* When the threshold clock has reached round r, the store holds a quorum of
\* round r - 1, or has collected it.
THEOREM ClockNeverOutrunsTheDag == Spec => []ClockHasParents
  <1>1. SurgeInv => ClockHasParents
    BY DEF SurgeInv, DriverInv, ClockInv, ClockHasParents
  <1> QED BY <1>1, DriverStaysSound, PTL

\* The commits of an epoch form one chain of disjoint sub-DAGs, in which every
\* ancestor of a committed block is committed no later than it, or lies below
\* the garbage-collection round of that commit.
THEOREM CommitsFollowCausality == Spec => []CommitsAreCausal
  <1>1. SurgeInv => CommitsAreCausal
    <2> SUFFICES ASSUME SurgeInv PROVE CommitsAreCausal
      OBVIOUS
    <2>1. Chain(universe, driver.dag, commits, driver.linearizer, driver.last_decided)
      BY DEF SurgeInv, DriverInv
    <2>2. DOMAIN commits = 1 .. Len(commits)
      BY <2>1 DEF Chain
    <2>3. CommittedOnce
      BY <2>1, <2>2 DEF Chain, CommittedOnce, SurgeInv
    <2>4. CommittedCausally
      <3> SUFFICES ASSUME NEW i \in DOMAIN commits, NEW b \in universe,
                          b.intact, Reference(b) \in commits[i].blocks,
                          NEW a \in b.ancestors
                   PROVE  \/ a \in UNION {commits[j].blocks : j \in 1 .. i}
                          \/ a.round <= commits[i].gc_round
        BY DEF CommittedCausally
      <3>1. \/ \E j \in 1 .. i : a \in commits[j].blocks
            \/ a.round <= commits[i].gc_round
        BY <2>1, <2>2 DEF Chain
      <3> QED BY <3>1
    <2> QED BY <2>3, <2>4 DEF CommitsAreCausal
  <1> QED BY <1>1, DriverStaysSound, PTL
=============================================================================
