-------------------------- MODULE NodeChainProofs --------------------------
(***************************************************************************)
(* The chain of a node for every number of peers, whatever they send, and  *)
(* for every bound: the two tasks that write it leave a tip that names a   *)
(* stored block and never goes back, what the dispatch task alone writes   *)
(* is linked, and every range it requests is one the responder accepts.    *)
(* At the end, the snapshots a node is to keep through any crashes.        *)
(***************************************************************************)
EXTENDS NodeChain, Snapshots, StakeProofs, SequenceTheorems, WellFoundedInduction

(***************************************************************************)
(* The inductive invariant.  The dispatch task verified its block against  *)
(* a tip; if the tip still has that height and the driver has not written, *)
(* it is that tip.                                                         *)
(***************************************************************************)
StoreInv ==
  /\ chain = [blocks |-> chain.blocks, tip |-> chain.tip]
  /\ chain.tip.height \in Nat
  /\ DOMAIN chain.blocks \subseteq 0 .. chain.tip.height
  /\ TipIsStored

LinkInv == SyncedChainLinked

TaskInv ==
  /\ driver.index \in Nat
  /\ driver.pc = "next_commit" => driver = [pc |-> "next_commit", index |-> driver.index]
  /\ driver.pc = "commit" => driver.block.origin = "dag" /\ driver.block.height \in Nat
  /\ dispatch.pc = "write" =>
       /\ dispatch.prev_height \in Nat /\ dispatch.block.height = dispatch.prev_height + 1
       /\ dispatch.prev_height <= chain.tip.height
       /\ ~DriverWrote /\ chain.tip.height = dispatch.prev_height =>
            dispatch.block.parent_hash = chain.tip.hash

ChainInv == StoreInv /\ LinkInv /\ TaskInv

\* A fresh node has the genesis block only.
LEMMA InitChain == Init => ChainInv
  <1> SUFFICES ASSUME Init PROVE ChainInv
    OBVIOUS
  <1>1. chain = NewChain("chain") /\ dispatch.pc = "recv" /\ driver.pc = "next_commit" /\ driver.index = 1
    BY DEF Init, Waiting, NewDriver
  <1>2. /\ DOMAIN chain.blocks = {0} /\ chain.tip.height = 0
        /\ Hash(chain.blocks[0]) = chain.tip.hash
        /\ chain = [blocks |-> chain.blocks, tip |-> chain.tip]
    BY <1>1 DEF NewChain
  <1>3. StoreInv
    BY <1>2 DEF StoreInv, TipIsStored
  <1>4. LinkInv
    BY <1>2 DEF LinkInv, SyncedChainLinked, ChainLinked
  <1>5. TaskInv
    BY <1>1 DEF TaskInv, Init, NewDriver
  <1> QED BY <1>3, <1>4, <1>5 DEF ChainInv

\* A block written: it is stored under its height, the others stay, and the tip
\* moves to it unless it is above.
LEMMA PutBlockEffect ==
  ASSUME StoreInv, NEW b, b.height \in Nat, chain' = PutBlock(chain, b)
  PROVE  /\ StoreInv'
         /\ chain'.tip.height >= chain.tip.height
         /\ DOMAIN chain'.blocks = DOMAIN chain.blocks \cup {b.height}
         /\ chain'.blocks[b.height] = b
         /\ \A h \in DOMAIN chain.blocks : h # b.height => chain'.blocks[h] = chain.blocks[h]
         /\ b.height >= chain.tip.height => chain'.tip.height = b.height
  <1>1. /\ DOMAIN chain'.blocks = DOMAIN chain.blocks \cup {b.height}
        /\ chain'.blocks[b.height] = b
        /\ \A h \in DOMAIN chain.blocks : h # b.height => chain'.blocks[h] = chain.blocks[h]
        /\ chain' = [blocks |-> chain'.blocks, tip |-> chain'.tip]
    BY DEF PutBlock
  <1>2. CASE b.height >= chain.tip.height
    <2>1. chain'.tip.height = b.height /\ chain'.tip.hash = Hash(b)
      BY <1>2 DEF PutBlock, Advances
    <2>2. DOMAIN chain'.blocks \subseteq 0 .. chain'.tip.height
      BY <1>1, <1>2, <2>1 DEF StoreInv
    <2>3. TipIsStored'
      BY <1>1, <2>1 DEF TipIsStored
    <2> QED BY <1>1, <1>2, <2>1, <2>2, <2>3 DEF StoreInv
  <1>3. CASE ~(b.height >= chain.tip.height)
    <2>1. chain'.tip = chain.tip
      BY <1>3 DEF PutBlock, Advances
    <2>2. DOMAIN chain'.blocks \subseteq 0 .. chain'.tip.height
      BY <1>1, <1>3, <2>1 DEF StoreInv
    <2>3. b.height # chain.tip.height
      BY <1>3 DEF StoreInv
    <2>4. TipIsStored'
      BY <1>1, <2>1, <2>3 DEF TipIsStored, StoreInv
    <2> QED BY <1>1, <1>3, <2>1, <2>2, <2>4 DEF StoreInv
  <1> QED BY <1>1, <1>2, <1>3

\* The dispatch task writes on top of the tip.
LEMMA WriteStep ==
  ASSUME ChainInv, WriteSyncedBlock
  PROVE  ChainInv' /\ chain'.tip.height >= chain.tip.height
  <1> DEFINE b == dispatch.block
             n == chain.tip.height
  <1>0. dispatch.pc = "write" /\ dispatch'.pc = "recv" /\ driver' = driver
    BY DEF WriteSyncedBlock, Waiting
  <1>t. TaskInv'
    BY <1>0 DEF ChainInv, TaskInv
  <1>n. n \in Nat
    BY DEF ChainInv, StoreInv
  <1>1. CASE n # dispatch.prev_height
    <2>1. chain' = chain
      BY <1>1 DEF WriteSyncedBlock
    <2> QED BY <2>1, <1>t, <1>n DEF ChainInv, StoreInv, LinkInv, TipIsStored, SyncedChainLinked,
                                    DriverWrote, ChainLinked
  <1>2. CASE n = dispatch.prev_height
    <2>1. chain' = PutBlock(chain, b) /\ b.height = n + 1 /\ b.height \in Nat
      BY <1>0, <1>2, <1>n DEF WriteSyncedBlock, ChainInv, TaskInv
    <2>2. /\ StoreInv' /\ DOMAIN chain'.blocks = DOMAIN chain.blocks \cup {n + 1}
          /\ chain'.blocks[n + 1] = b /\ chain'.tip.height = n + 1
          /\ \A h \in DOMAIN chain.blocks : h # n + 1 => chain'.blocks[h] = chain.blocks[h]
      BY <2>1, <1>n, PutBlockEffect DEF ChainInv
    <2>3. \A h \in DOMAIN chain.blocks : h # n + 1 /\ chain'.blocks[h] = chain.blocks[h]
      BY <2>2, <1>n DEF ChainInv, StoreInv
    <2>4. DriverWrote => DriverWrote'
      BY <2>2, <2>3 DEF DriverWrote
    <2>5. ASSUME ~DriverWrote PROVE ChainLinked'
      <3>1. ChainLinked /\ b.parent_hash = chain.tip.hash
        BY <1>0, <1>2, <2>5 DEF ChainInv, LinkInv, SyncedChainLinked, TaskInv
      <3>2. n \in DOMAIN chain.blocks /\ Hash(chain.blocks[n]) = chain.tip.hash
        BY DEF ChainInv, StoreInv, TipIsStored
      <3>3. ASSUME NEW h \in 1 .. (n + 1)
            PROVE  /\ {h, h - 1} \subseteq DOMAIN chain'.blocks
                   /\ chain'.blocks[h].parent_hash = Hash(chain'.blocks[h - 1])
        <4>1. CASE h = n + 1
          <5>1. h - 1 = n
            BY <4>1, <1>n
          <5> QED BY <4>1, <5>1, <2>2, <2>3, <3>1, <3>2
        <4>2. CASE h # n + 1
          <5>1. h \in 1 .. n
            BY <4>2, <1>n
          <5>2. {h, h - 1} \subseteq DOMAIN chain.blocks /\ chain.blocks[h].parent_hash = Hash(chain.blocks[h - 1])
            BY <5>1, <3>1 DEF ChainLinked
          <5> QED BY <5>2, <2>2, <2>3
        <4> QED BY <4>1, <4>2
      <3> QED BY <3>3, <2>2 DEF ChainLinked
    <2> QED BY <1>t, <1>n, <2>2, <2>4, <2>5 DEF ChainInv, LinkInv, SyncedChainLinked
  <1> QED BY <1>1, <1>2

\* The driver writes a block of its own.
LEMMA CommitStep ==
  ASSUME ChainInv, CommitBlock
  PROVE  ChainInv' /\ chain'.tip.height >= chain.tip.height
  <1> DEFINE b == driver.block
  <1>1. /\ chain' = PutBlock(chain, b) /\ b.height \in Nat /\ b.origin = "dag"
        /\ dispatch' = dispatch /\ driver' = [pc |-> "next_commit", index |-> driver.index + 1]
    BY DEF CommitBlock, ChainInv, TaskInv, sync
  <1>2. /\ StoreInv' /\ chain'.tip.height >= chain.tip.height
        /\ b.height \in DOMAIN chain'.blocks /\ chain'.blocks[b.height] = b
    BY <1>1, PutBlockEffect DEF ChainInv
  <1>3. DriverWrote'
    BY <1>1, <1>2 DEF DriverWrote
  <1>4. LinkInv'
    BY <1>3 DEF LinkInv, SyncedChainLinked
  <1>5. chain.tip.height \in Nat /\ chain'.tip.height \in Nat
    BY <1>2 DEF ChainInv, StoreInv
  <1>6. TaskInv'
    BY <1>1, <1>2, <1>3, <1>5 DEF ChainInv, TaskInv
  <1> QED BY <1>2, <1>4, <1>6 DEF ChainInv

\* Every other step leaves the store alone.
LEMMA OtherStep ==
  ASSUME ChainInv, [Next]_vars, ~WriteSyncedBlock, ~CommitBlock
  PROVE  ChainInv' /\ chain'.tip.height >= chain.tip.height
  <1>1. chain' = chain
    BY DEF Next, vars, ReceiveBlock, VerifyBlock, SyncTick, BuildBlock, BuildFails, PeerProduces,
           ServeRange, Lose, Restart
  <1>2. StoreInv' /\ LinkInv' /\ (DriverWrote' <=> DriverWrote) /\ chain.tip.height \in Nat
    BY <1>1 DEF ChainInv, StoreInv, LinkInv, TipIsStored, SyncedChainLinked, DriverWrote, ChainLinked
  <1>3. TaskInv'
    <2>1. CASE VerifyBlock
      <3>1. driver' = driver /\ dispatch.pc = "apply"
        BY <2>1 DEF VerifyBlock
      <3>2. CASE Verifies(dispatch.block, chain.tip)
        <4>1. /\ dispatch'.pc = "write" /\ dispatch'.block = dispatch.block
              /\ dispatch'.prev_height = chain.tip.height
          BY <2>1, <3>2 DEF VerifyBlock
        <4>2. /\ dispatch.block.height = chain.tip.height + 1
              /\ dispatch.block.parent_hash = chain.tip.hash
          BY <3>2 DEF Verifies
        <4> QED BY <1>1, <1>2, <3>1, <4>1, <4>2 DEF ChainInv, TaskInv
      <3>3. CASE ~Verifies(dispatch.block, chain.tip)
        <4>1. dispatch'.pc = "recv"
          BY <2>1, <3>3 DEF VerifyBlock, Waiting
        <4> QED BY <3>1, <4>1 DEF ChainInv, TaskInv
      <3> QED BY <3>2, <3>3
    <2>2. CASE BuildBlock
      <3>1. /\ dispatch' = dispatch /\ driver'.index = driver.index
            /\ driver'.pc = "commit" /\ driver'.block.origin = "dag" /\ driver'.block.height = driver.index
        BY <2>2 DEF BuildBlock, sync
      <3> QED BY <3>1, <1>1, <1>2 DEF ChainInv, TaskInv
    <2>3. CASE BuildFails \/ Restart
      <3>1. \E i \in Nat : driver' = [pc |-> "next_commit", index |-> i]
        <4>1. CASE BuildFails
          <5>1. driver = [pc |-> "next_commit", index |-> driver.index] /\ driver.index + 1 \in Nat
            BY <4>1 DEF BuildFails, ChainInv, TaskInv
          <5>2. driver' = [pc |-> "next_commit", index |-> driver.index + 1]
            BY <4>1, <5>1 DEF BuildFails
          <5> QED BY <5>1, <5>2
        <4>2. CASE Restart
          BY <4>2 DEF Restart, NewDriver
        <4> QED BY <2>3, <4>1, <4>2
      <3>2. dispatch' = dispatch \/ dispatch'.pc = "recv"
        BY <2>3 DEF BuildFails, Restart, Waiting, sync
      <3> QED BY <3>1, <3>2, <1>1, <1>2 DEF ChainInv, TaskInv
    <2>4. CASE driver' = driver /\ (dispatch' = dispatch \/ dispatch'.pc = "apply")
      BY <2>4, <1>1, <1>2 DEF ChainInv, TaskInv
    <2>5. CASE ReceiveBlock
      BY <2>4, <2>5 DEF ReceiveBlock
    <2>6. CASE SyncTick \/ (\E p \in Peers : PeerProduces(p)) \/ ServeRange \/ Lose \/ UNCHANGED vars
      BY <2>4, <2>6 DEF SyncTick, PeerProduces, ServeRange, Lose, vars
    <2> QED BY <2>1, <2>2, <2>3, <2>5, <2>6 DEF Next
  <1> QED BY <1>1, <1>2, <1>3 DEF ChainInv

\* The invariant of the chain is inductive, and no step lowers the tip.
LEMMA ChainNext == ChainInv /\ [Next]_vars => ChainInv' /\ chain'.tip.height >= chain.tip.height
  BY WriteStep, CommitStep, OtherStep

\* The tip never goes back, whichever of the two tasks writes.
THEOREM TipMonotone == Spec => TipNeverRegresses
  <1>1. ChainInv /\ [Next]_vars => [chain'.tip.height >= chain.tip.height]_vars
    BY ChainNext
  <1> QED BY InitChain, ChainNext, <1>1, PTL DEF Spec, TipNeverRegresses

\* Every non-empty set of naturals has a least element.
LEMMA LeastExists ==
  ASSUME NEW T \in SUBSET Nat, T # {}
  PROVE  \E x \in T : \A y \in T : x <= y
  <1> DEFINE R == {ss \in Nat \X Nat : ss[1] < ss[2]}
  <1>1. IsWellFoundedOn(R, Nat)
    BY NatLessThanWellFounded DEF OpToRel
  <1> HIDE DEF R
  <1>2. PICK x \in T : \A y \in T : ~(<<y, x>> \in R)
    BY <1>1, WFMin, Zenon
  <1>3. ASSUME NEW y \in T PROVE x <= y
    <2>1. <<y, x>> \notin R
      BY <1>2
    <2>2. <<y, x>> \in Nat \X Nat
      OBVIOUS
    <2>3. ~(y < x)
      BY <2>1, <2>2 DEF R
    <2> QED BY <2>3
  <1> QED BY <1>3

\* Min and Max on naturals.
LEMMA MinOf ==
  ASSUME NEW T \in SUBSET Nat, T # {}
  PROVE  Min(T) \in T /\ \A y \in T : Min(T) <= y
  BY LeastExists DEF Min

LEMMA MinMaxOfTwo ==
  ASSUME NEW a \in Nat, NEW b \in Nat
  PROVE  /\ Max({a, b}) \in {a, b} /\ a <= Max({a, b}) /\ b <= Max({a, b})
         /\ Min({a, b}) \in {a, b} /\ Min({a, b}) <= a /\ Min({a, b}) <= b
  <1>1. \E x \in {a, b} : \A y \in {a, b} : x >= y
    OBVIOUS
  <1>2. \E x \in {a, b} : \A y \in {a, b} : x <= y
    OBVIOUS
  <1> QED BY <1>1, <1>2 DEF Min, Max

\* A chain of blocks 0 to n, each stored under its height.
Grown(c, n) ==
  /\ c = [blocks |-> c.blocks, tip |-> c.tip]
  /\ c.tip.height = n /\ DOMAIN c.blocks = 0 .. n
  /\ \A h \in 0 .. n : c.blocks[h].height = h

\* A peer that adds a block has grown by one.
LEMMA ExtendedGrown ==
  ASSUME NEW c, NEW n \in Nat, Grown(c, n)
  PROVE  Grown(Extended(c), n + 1)
  <1> DEFINE b == [origin |-> c.blocks[0].origin, height |-> c.tip.height + 1, parent_hash |-> c.tip.hash]
  <1>1. b.height = n + 1 /\ Extended(c) = PutBlock(c, b) /\ c.tip.height = n
    BY DEF Extended, Grown
  <1> HIDE DEF b
  <1>2. Advances(c, b)
    BY <1>1 DEF Advances
  <1>3. /\ PutBlock(c, b).tip.height = n + 1
        /\ PutBlock(c, b).blocks = [h \in DOMAIN c.blocks \cup {n + 1} |-> IF h = n + 1 THEN b ELSE c.blocks[h]]
        /\ PutBlock(c, b) = [blocks |-> PutBlock(c, b).blocks, tip |-> PutBlock(c, b).tip]
    BY <1>1, <1>2 DEF PutBlock
  <1>4. DOMAIN c.blocks \cup {n + 1} = 0 .. (n + 1) /\ \A h \in 0 .. n : h # n + 1 /\ c.blocks[h].height = h
    BY DEF Grown
  <1> QED BY <1>1, <1>3, <1>4 DEF Grown

\* The recursive definition of a peer's chain has a value, and it has grown to
\* the height it is asked for.
LEMMA PeerChainGrown ==
  ASSUME NEW origin, NEW height \in Nat
  PROVE  Grown(PeerChain(origin, height), height)
  <1> DEFINE Is(c, m) == c = [n \in 0 .. m |-> IF n = 0 THEN NewChain(origin) ELSE Extended(c[n - 1])]
             T == {m \in Nat : ~\E c : Is(c, m)}
  <1>1. T = {}
    <2> SUFFICES ASSUME T # {} PROVE FALSE
      OBVIOUS
    <2>1. PICK m \in T : \A k \in T : m <= k
      BY LeastExists
    <2>2. CASE m = 0
      <3> DEFINE d == [n \in 0 .. 0 |-> NewChain(origin)]
      <3>0. \A n \in 0 .. 0 : n = 0 /\ d[n] = NewChain(origin)
        OBVIOUS
      <3>1. Is(d, m)
        BY <2>2, <3>0
      <3> QED BY <3>1, <2>1
    <2>3. CASE m # 0
      <3>0. m \in Nat
        BY <2>1
      <3>1. m - 1 \in Nat /\ m - 1 \notin T
        <4> HIDE DEF T
        <4> QED BY <2>1, <2>3, <3>0
      <3>2. PICK c : Is(c, m - 1)
        BY <3>1
      <3> DEFINE d == [n \in 0 .. m |-> IF n = m THEN Extended(c[m - 1]) ELSE c[n]]
      <3>3. ASSUME NEW n \in 0 .. m
            PROVE  d[n] = IF n = 0 THEN NewChain(origin) ELSE Extended(d[n - 1])
        <4>1. CASE n = m
          BY <4>1, <2>3, <3>1
        <4>2. CASE n # m
          <5>1. n \in 0 .. (m - 1) /\ d[n] = c[n] /\ (n # 0 => d[n - 1] = c[n - 1])
            BY <4>2, <3>1
          <5> HIDE DEF d
          <5> QED BY <5>1, <3>2
        <4> QED BY <4>1, <4>2
      <3>4. d = [n \in 0 .. m |-> d[n]]
        OBVIOUS
      <3> HIDE DEF d
      <3>5. Is(d, m)
        BY <3>3, <3>4
      <3> QED BY <3>5, <2>1
    <2> QED BY <2>2, <2>3
  <1>2. PeerChain(origin, height) = (CHOOSE c : Is(c, height))[height]
    BY DEF PeerChain
  <1>3. PICK c : Is(c, height) /\ c = CHOOSE d : Is(d, height)
    BY <1>1
  <1> DEFINE U == {n \in 0 .. height : ~Grown(c[n], n)}
  <1>4. U = {}
    <2> SUFFICES ASSUME U # {} PROVE FALSE
      OBVIOUS
    <2>0. U \in SUBSET Nat
      OBVIOUS
    <2>1. PICK n \in U : \A k \in U : n <= k
      <3> HIDE DEF U
      <3> QED BY <2>0, LeastExists
    <2>2. CASE n = 0
      <3>1. c[n] = NewChain(origin)
        BY <1>3, <2>2
      <3>2. Grown(NewChain(origin), 0)
        BY DEF Grown, NewChain, Genesis
      <3> QED BY <2>1, <2>2, <3>1, <3>2
    <2>3. CASE n # 0
      <3>1. n - 1 \in 0 .. height /\ n - 1 \notin U /\ n - 1 \in Nat
        BY <2>1, <2>3
      <3>2. c[n] = Extended(c[n - 1])
        BY <1>3, <2>3
      <3>3. Grown(Extended(c[n - 1]), (n - 1) + 1)
        BY <3>1, ExtendedGrown
      <3> QED BY <2>1, <3>2, <3>3
    <2> QED BY <2>2, <2>3
  <1>5. height \in 0 .. height
    OBVIOUS
  <1>6. Grown(c[height], height)
    BY <1>4, <1>5
  <1> HIDE DEF Is, U
  <1> QED BY <1>2, <1>3, <1>6

(***************************************************************************)
(* The requests and the types.  Every block on its way, in an event or in  *)
(* the hands of the dispatch task, has a height that a peer's chain has.   *)
(***************************************************************************)
EventOK(e) == e.from \in Peers /\ e.block.height \in 0 .. MaxPeerHeight

RequestOK(r) ==
  /\ r.peer \in Peers /\ r.from_height \in Nat /\ r.to_height \in Nat
  /\ r.from_height <= r.to_height
  /\ r.to_height - r.from_height < DEFAULT_MAX_RANGE

TrackerOK(t) ==
  t \in [highest_seen : 0 .. MaxPeerHeight, requested_up_to : 0 .. Max({MaxPeerHeight, MaxCommits}),
         last_peer : SUBSET Peers]

PeersInv ==
  /\ peer \in [Peers -> {peer[p] : p \in Peers}]
  /\ \A p \in Peers : \E n \in 0 .. MaxPeerHeight : Grown(peer[p], n)

TrafficInv ==
  /\ \E S : events \in Seq(S) /\ \A e \in S : EventOK(e)
  /\ \E S : requests \in Seq(S) /\ \A r \in S : RequestOK(r)

HandInv ==
  /\ dispatch.pc \in {"recv", "apply", "write"}
  /\ dispatch.pc # "recv" =>
       EventOK(dispatch) /\ dispatch.tip_height \in Nat
  /\ driver.pc \in {"next_commit", "commit"}
  /\ driver.index \in 1 .. (MaxCommits + 1)
  /\ driver.pc = "commit" => driver.index <= MaxCommits

HeightsInv == \A h \in DOMAIN chain.blocks : h \in Nat /\ chain.blocks[h].height = h

SyncInv == PeersInv /\ TrafficInv /\ TrackerOK(tracker) /\ HandInv /\ HeightsInv

\* maybe_request_range sends a valid request or none.
LEMMA RequestStep ==
  ASSUME TrafficInv, NEW t, TrackerOK(t), NEW tip \in Nat, NEW p \in Peers, MaybeRequestRange(t, tip, p)
  PROVE  TrackerOK(tracker') /\ \E S : requests' \in Seq(S) /\ \A r \in S : RequestOK(r)
  <1> DEFINE to == RequestUpTo(t, tip)
             new == [peer |-> p, from_height |-> tip + 1, to_height |-> to]
  <1>1. PICK S : requests \in Seq(S) /\ \A r \in S : RequestOK(r)
    BY DEF TrafficInv
  <1>2. CASE ~MustRequest(t, tip)
    BY <1>1, <1>2 DEF MaybeRequestRange
  <1>3. CASE MustRequest(t, tip)
    <2>1. /\ t.highest_seen \in Nat /\ t.highest_seen > tip + 1 /\ DEFAULT_MAX_RANGE \in Nat \ {0}
          /\ t.highest_seen <= MaxPeerHeight /\ MaxPeerHeight \in Nat /\ MaxCommits \in Nat
      BY <1>3, BoundsAssumption DEF MustRequest, TrackerOK
    <2>2. /\ to \in {t.highest_seen, tip + DEFAULT_MAX_RANGE}
          /\ to <= t.highest_seen /\ to <= tip + DEFAULT_MAX_RANGE
      BY <2>1, MinMaxOfTwo, tip + DEFAULT_MAX_RANGE \in Nat DEF RequestUpTo
    <2>3. to \in Nat /\ to <= MaxPeerHeight /\ tip + 1 <= to /\ to - (tip + 1) < DEFAULT_MAX_RANGE
      BY <2>1, <2>2
    <2> HIDE DEF to
    <2>4. RequestOK(new)
      BY <2>3 DEF RequestOK
    <2>5. requests' \in Seq(S \cup {new})
      <3>1. requests' = Append(requests, new)
        BY <1>3 DEF MaybeRequestRange, to
      <3>2. requests \in Seq(S \cup {new})
        BY <1>1
      <3> HIDE DEF new
      <3> QED BY <3>1, <3>2, AppendProperties
    <2>6. to \in 0 .. Max({MaxPeerHeight, MaxCommits})
      <3>1. MaxPeerHeight <= Max({MaxPeerHeight, MaxCommits}) /\ Max({MaxPeerHeight, MaxCommits}) \in Nat
        BY <2>1, MinMaxOfTwo
      <3> QED BY <3>1, <2>1, <2>3
    <2>7. TrackerOK(tracker')
      <3>1. tracker' = [t EXCEPT !.requested_up_to = to]
        BY <1>3 DEF MaybeRequestRange, to
      <3> QED BY <3>1, <2>6 DEF TrackerOK
    <2> QED BY <1>1, <2>4, <2>5, <2>7
  <1> QED BY <1>2, <1>3

\* The tracker after a block was seen, and after one was written.
LEMMA TrackerMoves ==
  ASSUME NEW t, TrackerOK(t), NEW h \in 0 .. MaxPeerHeight, NEW p \in Peers
  PROVE  TrackerOK(Observe(t, h, p)) /\ TrackerOK(OnTipAdvanced(t, h))
  <1>1. /\ MaxPeerHeight \in Nat /\ MaxCommits \in Nat /\ t.highest_seen \in 0 .. MaxPeerHeight
        /\ MaxPeerHeight <= Max({MaxPeerHeight, MaxCommits}) /\ Max({MaxPeerHeight, MaxCommits}) \in Nat
    BY BoundsAssumption, MinMaxOfTwo DEF TrackerOK
  <1>2. Max({t.highest_seen, h}) \in 0 .. MaxPeerHeight
    BY <1>1, MinMaxOfTwo
  <1>3. TrackerOK(Observe(t, h, p))
    <2> DEFINE a == Max({t.highest_seen, h})
               q == IF h > t.highest_seen \/ t.last_peer = {} THEN {p} ELSE t.last_peer
    <2>1. q \subseteq Peers
      BY DEF TrackerOK
    <2>2. Observe(t, h, p) = [t EXCEPT !.highest_seen = a, !.last_peer = q]
      BY DEF Observe
    <2> HIDE DEF a, q
    <2>3. a \in 0 .. MaxPeerHeight
      BY <1>2 DEF a
    <2>4. TrackerOK([t EXCEPT !.highest_seen = a, !.last_peer = q])
      BY <2>1, <2>3 DEF TrackerOK
    <2> QED BY <2>2, <2>4
  <1>4. h \in 0 .. Max({MaxPeerHeight, MaxCommits})
    BY <1>1
  <1>5. TrackerOK(OnTipAdvanced(t, h))
    <2>1. \A x \in 0 .. Max({MaxPeerHeight, MaxCommits}) : TrackerOK([t EXCEPT !.requested_up_to = x])
      BY DEF TrackerOK
    <2>2. t.requested_up_to \in 0 .. Max({MaxPeerHeight, MaxCommits})
      BY DEF TrackerOK
    <2> QED BY <1>4, <2>1, <2>2 DEF OnTipAdvanced
  <1> QED BY <1>3, <1>5

\* A fresh node knows nothing and has asked for nothing.
LEMMA InitSync == Init => SyncInv
  <1> SUFFICES ASSUME Init PROVE SyncInv
    OBVIOUS
  <1>0. MaxPeerHeight \in Nat /\ MaxCommits \in Nat
    BY BoundsAssumption
  <1>1. PeersInv
    <2>1. /\ DOMAIN peer = Peers
          /\ \A p \in Peers : \E origin \in {"chain", "other"}, n \in 0 .. MaxPeerHeight : peer[p] = PeerChain(origin, n)
      BY DEF Init
    <2>2. ASSUME NEW p \in Peers PROVE \E n \in 0 .. MaxPeerHeight : Grown(peer[p], n)
      <3>1. PICK origin \in {"chain", "other"}, n \in 0 .. MaxPeerHeight : peer[p] = PeerChain(origin, n)
        BY <2>1
      <3> QED BY <3>1, PeerChainGrown
    <2>3. peer \in [Peers -> {peer[p] : p \in Peers}]
      BY DEF Init
    <2> QED BY <2>2, <2>3 DEF PeersInv
  <1>2. TrafficInv
    <2>1. events \in Seq({}) /\ requests \in Seq({})
      BY DEF Init
    <2>2. \E S : events \in Seq(S) /\ \A e \in S : EventOK(e)
      BY <2>1
    <2>3. \E S : requests \in Seq(S) /\ \A r \in S : RequestOK(r)
      BY <2>1
    <2> QED BY <2>2, <2>3, Zenon DEF TrafficInv
  <1>3. TrackerOK(tracker)
    <2>1. Max({MaxPeerHeight, MaxCommits}) \in Nat
      BY <1>0, MinMaxOfTwo
    <2> QED BY <1>0, <2>1 DEF Init, TrackerOK, NewTracker
  <1>4. HandInv
    BY <1>0 DEF Init, HandInv, Waiting, NewDriver
  <1>5. HeightsInv
    BY DEF Init, HeightsInv, NewChain, Genesis
  <1> QED BY <1>1, <1>2, <1>3, <1>4, <1>5 DEF SyncInv

\* What the store holds stays under its height.
LEMMA HeightsStep ==
  ASSUME ChainInv, SyncInv, [Next]_vars
  PROVE  HeightsInv'
  <1>1. ASSUME NEW b, b.height \in Nat, chain' = PutBlock(chain, b) PROVE HeightsInv'
    <2>1. /\ DOMAIN chain'.blocks = DOMAIN chain.blocks \cup {b.height} /\ chain'.blocks[b.height] = b
          /\ \A h \in DOMAIN chain.blocks : h # b.height => chain'.blocks[h] = chain.blocks[h]
      BY <1>1, PutBlockEffect DEF ChainInv
    <2> QED BY <1>1, <2>1 DEF SyncInv, HeightsInv
  <1>2. CASE chain' = chain
    BY <1>2 DEF SyncInv, HeightsInv
  <1>3. CASE WriteSyncedBlock
    <2>1. dispatch.block.height \in Nat
      BY <1>3 DEF WriteSyncedBlock, SyncInv, HandInv, EventOK
    <2> QED BY <1>1, <1>2, <1>3, <2>1 DEF WriteSyncedBlock
  <1>4. CASE CommitBlock
    <2>1. driver.block.height \in Nat
      BY <1>4 DEF CommitBlock, ChainInv, TaskInv
    <2> QED BY <1>1, <1>4, <2>1 DEF CommitBlock
  <1>5. CASE ~WriteSyncedBlock /\ ~CommitBlock
    <2>1. chain' = chain
      BY <1>5 DEF Next, vars, ReceiveBlock, VerifyBlock, SyncTick, BuildBlock, BuildFails, PeerProduces,
             ServeRange, Lose, Restart
    <2> QED BY <2>1, <1>2
  <1> QED BY <1>3, <1>4, <1>5

\* A peer's chain only grows, and what it announces is a block of it.
LEMMA ProduceStep ==
  ASSUME SyncInv, NEW p \in Peers, PeerProduces(p)
  PROVE  PeersInv' /\ \E S : events' \in Seq(S) /\ \A e \in S : EventOK(e)
  <1> DEFINE c == Extended(peer[p])
             new == [from |-> p, block |-> c.blocks[c.tip.height]]
  <1>1. PICK n \in 0 .. MaxPeerHeight : Grown(peer[p], n)
    BY DEF SyncInv, PeersInv
  <1>2. peer[p].tip.height = n /\ n < MaxPeerHeight /\ MaxPeerHeight \in Nat
    BY <1>1, BoundsAssumption DEF PeerProduces, Grown
  <1>3. n + 1 \in 0 .. MaxPeerHeight /\ n \in Nat
    BY <1>2
  <1>4. Grown(c, n + 1)
    BY <1>1, <1>3, ExtendedGrown
  <1>5. peer' = [peer EXCEPT ![p] = c] /\ events' = Append(events, new)
    BY DEF PeerProduces
  <1>6. EventOK(new)
    <2>1. c.tip.height = n + 1 /\ c.blocks[n + 1].height = n + 1
      BY <1>3, <1>4 DEF Grown
    <2> HIDE DEF c
    <2> QED BY <1>3, <2>1 DEF EventOK
  <1>7. PeersInv'
    <2> HIDE DEF c
    <2>1. \A q \in Peers : peer'[q] = IF q = p THEN c ELSE peer[q]
      BY <1>5 DEF SyncInv, PeersInv
    <2>2. peer' \in [Peers -> {peer'[q] : q \in Peers}]
      BY <1>5 DEF SyncInv, PeersInv
    <2>3. \A q \in Peers : \E m \in 0 .. MaxPeerHeight : Grown(peer'[q], m)
      BY <2>1, <1>3, <1>4 DEF SyncInv, PeersInv
    <2> QED BY <2>2, <2>3 DEF PeersInv
  <1>8. PICK S : events \in Seq(S) /\ \A e \in S : EventOK(e)
    BY DEF SyncInv, TrafficInv
  <1>9. events' \in Seq(S \cup {new})
    <2>1. events \in Seq(S \cup {new})
      BY <1>8
    <2> HIDE DEF new
    <2> QED BY <1>5, <2>1, AppendProperties
  <1> HIDE DEF new
  <1> QED BY <1>6, <1>7, <1>8, <1>9

\* What a peer serves is a run of its chain.
LEMMA RangeServed ==
  ASSUME NEW c, NEW n \in 0 .. MaxPeerHeight, Grown(c, n), NEW from \in Nat, NEW to \in Nat, from <= to
  PROVE  /\ \E m \in Nat : DOMAIN GetRange(c, from, to) = 1 .. m
         /\ \A i \in DOMAIN GetRange(c, from, to) : GetRange(c, from, to)[i].height \in 0 .. MaxPeerHeight
  <1> DEFINE missing == {h \in from .. to : h \notin DOMAIN c.blocks}
             last == IF missing = {} THEN to ELSE Min(missing) - 1
  <1>0. n \in Nat /\ MaxPeerHeight \in Nat /\ n <= MaxPeerHeight
    BY BoundsAssumption
  <1>1. /\ last \in Int /\ last - from + 1 \in Nat
        /\ \A h \in from .. last : h \in DOMAIN c.blocks
    <2>1. CASE missing = {}
      BY <2>1
    <2>2. CASE missing # {}
      <3>1. missing \in SUBSET Nat
        OBVIOUS
      <3>2. Min(missing) \in missing /\ \A y \in missing : Min(missing) <= y
        <4> HIDE DEF missing
        <4> QED BY <2>2, <3>1, MinOf
      <3>3. Min(missing) \in from .. to /\ Min(missing) \in Nat
        BY <3>2
      <3>4. last = Min(missing) - 1
        BY <2>2
      <3>5. ASSUME NEW h \in from .. last PROVE h \in DOMAIN c.blocks
        <4>1. h \in from .. to /\ ~(Min(missing) <= h)
          <5> HIDE DEF missing, last
          <5> QED BY <3>3, <3>4
        <4>2. h \notin missing
          BY <3>2, <4>1
        <4> QED BY <4>1, <4>2
      <3> HIDE DEF missing, last
      <3> QED BY <3>3, <3>4, <3>5
    <2> QED BY <2>1, <2>2
  <1>2. GetRange(c, from, to) = [i \in 1 .. (last - from + 1) |-> c.blocks[from + i - 1]]
    BY DEF GetRange
  <1> HIDE DEF last, missing
  <1>3. ASSUME NEW i \in 1 .. (last - from + 1) PROVE c.blocks[from + i - 1].height \in 0 .. MaxPeerHeight
    <2>1. from + i - 1 \in from .. last
      BY <1>1
    <2>2. from + i - 1 \in 0 .. n
      BY <1>1, <2>1 DEF Grown
    <2>3. c.blocks[from + i - 1].height = from + i - 1
      BY <2>2 DEF Grown
    <2> QED BY <1>0, <2>2, <2>3
  <1> QED BY <1>1, <1>2, <1>3

\* The response is fanned out as events.
LEMMA ServeStep ==
  ASSUME SyncInv, ServeRange
  PROVE  TrafficInv'
  <1> DEFINE r == Head(requests)
             blocks == GetRange(peer[r.peer], r.from_height, r.to_height)
             new == [i \in DOMAIN blocks |-> [from |-> r.peer, block |-> blocks[i]]]
  <1>1. PICK R : requests \in Seq(R) /\ \A x \in R : RequestOK(x)
    BY DEF SyncInv, TrafficInv
  <1>2. PICK S : events \in Seq(S) /\ \A e \in S : EventOK(e)
    BY DEF SyncInv, TrafficInv
  <1>3. requests # << >> /\ requests' = Tail(requests) /\ events' = events \o new
    BY DEF ServeRange
  <1>4. r \in R /\ requests' \in Seq(R)
    BY <1>1, <1>3, HeadTailProperties
  <1>5. /\ r.peer \in Peers /\ r.from_height \in Nat /\ r.to_height \in Nat
        /\ r.from_height <= r.to_height
    BY <1>1, <1>4 DEF RequestOK
  <1> HIDE DEF r
  <1>6. PICK n \in 0 .. MaxPeerHeight : Grown(peer[r.peer], n)
    BY <1>5 DEF SyncInv, PeersInv
  <1>7. /\ \E m \in Nat : DOMAIN blocks = 1 .. m
        /\ \A i \in DOMAIN blocks : blocks[i].height \in 0 .. MaxPeerHeight
    BY <1>5, <1>6, RangeServed
  <1> HIDE DEF blocks
  <1> DEFINE N == {new[i] : i \in DOMAIN blocks}
  <1>8. \A e \in N : EventOK(e)
    BY <1>5, <1>7 DEF EventOK
  <1>9. new \in Seq(N)
    BY <1>7
  <1> HIDE DEF new
  <1>10. events' \in Seq(S \cup N)
    <2> HIDE DEF N
    <2>1. events \in Seq(S \cup N) /\ new \in Seq(S \cup N)
      BY <1>2, <1>9
    <2> QED BY <2>1, <1>3, ConcatProperties
  <1>11. \A e \in S \cup N : EventOK(e)
    BY <1>2, <1>8
  <1> QED BY <1>1, <1>4, <1>10, <1>11, Zenon DEF TrafficInv

\* A block received is observed; it goes to apply_synced_block, or leads to a
\* request, or is dropped.
LEMMA ReceiveStep ==
  ASSUME ChainInv, SyncInv, ReceiveBlock
  PROVE  TrafficInv' /\ TrackerOK(tracker') /\ HandInv'
  <1> DEFINE block == Head(events).block
             from == Head(events).from
             observed == Observe(tracker, block.height, from)
             tip_height == chain.tip.height
  <1>1. PICK S : events \in Seq(S) /\ \A e \in S : EventOK(e)
    BY DEF SyncInv, TrafficInv
  <1>2. events # << >> /\ events' = Tail(events) /\ driver' = driver
    BY DEF ReceiveBlock
  <1>3. Head(events) \in S /\ events' \in Seq(S)
    BY <1>1, <1>2, HeadTailProperties
  <1>4. from \in Peers /\ block.height \in 0 .. MaxPeerHeight
    BY <1>1, <1>3 DEF EventOK
  <1>5. TrackerOK(observed)
    BY <1>4, TrackerMoves DEF SyncInv
  <1>6. tip_height \in Nat
    BY DEF ChainInv, StoreInv
  <1>7. /\ TrackerOK(tracker') /\ \E R : requests' \in Seq(R) /\ \A r \in R : RequestOK(r)
    <2>1. CASE tracker' = observed /\ requests' = requests
      BY <2>1, <1>5 DEF SyncInv, TrafficInv
    <2>2. CASE MaybeRequestRange(observed, tip_height, from)
      <3> HIDE DEF observed, tip_height, from
      <3> QED BY <2>2, <1>4, <1>5, <1>6, RequestStep DEF SyncInv
    <2> QED BY <2>1, <2>2 DEF ReceiveBlock
  <1>8. TrafficInv'
    BY <1>1, <1>3, <1>7, Zenon DEF TrafficInv
  <1>9. HandInv'
    <2>1. CASE dispatch' = [pc |-> "apply", block |-> block, from |-> from, tip_height |-> tip_height]
      <3> HIDE DEF block, from, tip_height
      <3>1. /\ dispatch'.pc = "apply" /\ dispatch'.block = block /\ dispatch'.from = from
            /\ dispatch'.tip_height = tip_height
        BY <2>1
      <3> QED BY <3>1, <1>2, <1>4, <1>6 DEF SyncInv, HandInv, EventOK
    <2>2. CASE dispatch' = dispatch
      BY <2>2, <1>2 DEF SyncInv, HandInv, EventOK
    <2> QED BY <2>1, <2>2 DEF ReceiveBlock
  <1> QED BY <1>7, <1>8, <1>9

\* A block written advances the tracker and may lead to the next request.
LEMMA WriteSync ==
  ASSUME ChainInv, SyncInv, WriteSyncedBlock
  PROVE  TrafficInv' /\ TrackerOK(tracker') /\ HandInv'
  <1> DEFINE moved == OnTipAdvanced(tracker, dispatch.block.height)
  <1>1. /\ dispatch.from \in Peers /\ dispatch.block.height \in 0 .. MaxPeerHeight
        /\ dispatch.tip_height + 1 \in Nat
    BY DEF WriteSyncedBlock, SyncInv, HandInv, EventOK
  <1>2. TrackerOK(moved)
    BY <1>1, TrackerMoves DEF SyncInv
  <1>3. /\ TrackerOK(tracker') /\ \E R : requests' \in Seq(R) /\ \A r \in R : RequestOK(r)
    <2>1. CASE tracker' = tracker /\ requests' = requests
      BY <2>1 DEF SyncInv, TrafficInv
    <2>2. CASE MaybeRequestRange(moved, dispatch.tip_height + 1, dispatch.from)
      <3> HIDE DEF moved
      <3> QED BY <2>2, <1>1, <1>2, RequestStep DEF SyncInv
    <2> QED BY <2>1, <2>2 DEF WriteSyncedBlock
  <1>4. events' = events /\ driver' = driver /\ dispatch'.pc = "recv"
    BY DEF WriteSyncedBlock, Waiting
  <1>5. TrafficInv'
    BY <1>3, <1>4, Zenon DEF SyncInv, TrafficInv
  <1> QED BY <1>3, <1>4, <1>5 DEF SyncInv, HandInv

\* The sync tick asks the last peer again.
LEMMA TickStep ==
  ASSUME ChainInv, SyncInv, SyncTick
  PROVE  TrafficInv' /\ TrackerOK(tracker') /\ HandInv'
  <1>1. PICK p \in tracker.last_peer : MaybeRequestRange(tracker, chain.tip.height, p)
    BY DEF SyncTick
  <1>2. p \in Peers /\ chain.tip.height \in Nat
    BY DEF SyncInv, TrackerOK, ChainInv, StoreInv
  <1>3. /\ TrackerOK(tracker') /\ \E R : requests' \in Seq(R) /\ \A r \in R : RequestOK(r)
    BY <1>1, <1>2, RequestStep DEF SyncInv
  <1>4. events' = events /\ dispatch' = dispatch /\ driver' = driver
    BY DEF SyncTick
  <1>5. TrafficInv'
    BY <1>3, <1>4, Zenon DEF SyncInv, TrafficInv
  <1> QED BY <1>3, <1>4, <1>5 DEF SyncInv, HandInv, EventOK

\* A loss shortens a queue.
LEMMA LoseStep ==
  ASSUME SyncInv, Lose
  PROVE  TrafficInv'
  <1>1. PICK S : events \in Seq(S) /\ \A e \in S : EventOK(e)
    BY DEF SyncInv, TrafficInv
  <1>2. PICK R : requests \in Seq(R) /\ \A r \in R : RequestOK(r)
    BY DEF SyncInv, TrafficInv
  <1>3. events' \in Seq(S) /\ requests' \in Seq(R)
    BY <1>1, <1>2, HeadTailProperties DEF Lose
  <1> QED BY <1>1, <1>2, <1>3, Zenon DEF TrafficInv

\* The tasks keep what they hold in its type.
LEMMA HandStep ==
  ASSUME ChainInv, SyncInv, VerifyBlock \/ BuildBlock \/ BuildFails \/ CommitBlock
  PROVE  HandInv'
  <1>0. MaxCommits \in Nat
    BY BoundsAssumption
  <1>1. CASE VerifyBlock
    <2>1. driver' = driver /\ dispatch.pc = "apply"
      BY <1>1 DEF VerifyBlock
    <2>2. CASE Verifies(dispatch.block, chain.tip)
      <3>1. /\ dispatch'.pc = "write" /\ dispatch'.block = dispatch.block /\ dispatch'.from = dispatch.from
            /\ dispatch'.tip_height = dispatch.tip_height
        BY <1>1, <2>2 DEF VerifyBlock
      <3> QED BY <2>1, <3>1 DEF SyncInv, HandInv, EventOK
    <2>3. CASE ~Verifies(dispatch.block, chain.tip)
      <3>1. dispatch'.pc = "recv"
        BY <1>1, <2>3 DEF VerifyBlock, Waiting
      <3> QED BY <2>1, <3>1 DEF SyncInv, HandInv
    <2> QED BY <2>2, <2>3
  <1>2. CASE BuildBlock
    <2>1. /\ dispatch' = dispatch /\ driver'.pc = "commit" /\ driver'.index = driver.index
          /\ driver.index <= MaxCommits
      BY <1>2 DEF BuildBlock, sync
    <2> QED BY <2>1 DEF SyncInv, HandInv, EventOK
  <1>3. CASE BuildFails
    <2>1. driver = [pc |-> "next_commit", index |-> driver.index] /\ driver.index <= MaxCommits
      BY <1>3 DEF BuildFails, ChainInv, TaskInv
    <2>2. driver' = [pc |-> "next_commit", index |-> driver.index + 1] /\ dispatch' = dispatch
      BY <1>3, <2>1 DEF BuildFails, sync
    <2> QED BY <1>0, <2>1, <2>2 DEF SyncInv, HandInv, EventOK
  <1>4. CASE CommitBlock
    <2>1. /\ driver' = [pc |-> "next_commit", index |-> driver.index + 1] /\ dispatch' = dispatch
          /\ driver.pc = "commit"
      BY <1>4 DEF CommitBlock, sync
    <2> QED BY <1>0, <2>1 DEF SyncInv, HandInv, EventOK
  <1> QED BY <1>1, <1>2, <1>3, <1>4

\* A restarted node knows nothing and has asked for nothing.
LEMMA RestartStep ==
  ASSUME SyncInv, Restart
  PROVE  TrafficInv' /\ TrackerOK(tracker') /\ HandInv'
  <1>0. MaxPeerHeight \in Nat /\ MaxCommits \in Nat
    BY BoundsAssumption
  <1>1. /\ events' = << >> /\ requests' = << >> /\ tracker' = NewTracker
        /\ dispatch' = Waiting /\ driver' = NewDriver
    BY DEF Restart
  <1>2. events' \in Seq({}) /\ requests' \in Seq({})
    BY <1>1
  <1>3. TrafficInv'
    <2>1. \E S : events' \in Seq(S) /\ \A e \in S : EventOK(e)
      BY <1>2
    <2>2. \E S : requests' \in Seq(S) /\ \A r \in S : RequestOK(r)
      BY <1>2
    <2> QED BY <2>1, <2>2, Zenon DEF TrafficInv
  <1>4. TrackerOK(tracker')
    <2>1. Max({MaxPeerHeight, MaxCommits}) \in Nat
      BY <1>0, MinMaxOfTwo
    <2> QED BY <1>0, <1>1, <2>1 DEF TrackerOK, NewTracker
  <1>5. HandInv'
    BY <1>0, <1>1 DEF HandInv, Waiting, NewDriver
  <1> QED BY <1>3, <1>4, <1>5

\* The second half of the invariant is inductive relative to the first.
LEMMA SyncNext ==
  ASSUME ChainInv, SyncInv, [Next]_vars
  PROVE  SyncInv'
  <1>1. HeightsInv'
    BY HeightsStep
  <1>2. CASE ~\E p \in Peers : PeerProduces(p)
    <2>0. peer' = peer
      BY <1>2 DEF Next, vars, ReceiveBlock, VerifyBlock, WriteSyncedBlock, SyncTick, BuildBlock, BuildFails,
             CommitBlock, ServeRange, Lose, Restart, sync
    <2>1. PeersInv'
      BY <2>0 DEF SyncInv, PeersInv
    <2>2. CASE ReceiveBlock
      BY <1>1, <2>1, <2>2, ReceiveStep DEF SyncInv
    <2>3. CASE WriteSyncedBlock
      BY <1>1, <2>1, <2>3, WriteSync DEF SyncInv
    <2>4. CASE SyncTick
      BY <1>1, <2>1, <2>4, TickStep DEF SyncInv
    <2>5. CASE Restart
      BY <1>1, <2>1, <2>5, RestartStep DEF SyncInv
    <2>6. CASE VerifyBlock \/ BuildBlock \/ BuildFails \/ CommitBlock
      <3>1. events' = events /\ requests' = requests /\ tracker' = tracker
        BY <2>6 DEF VerifyBlock, BuildBlock, BuildFails, CommitBlock, sync
      <3>2. TrafficInv' /\ TrackerOK(tracker')
        BY <3>1, Zenon DEF SyncInv, TrafficInv
      <3> QED BY <1>1, <2>1, <2>6, <3>2, HandStep DEF SyncInv
    <2>7. CASE ServeRange \/ Lose
      <3>1. tracker' = tracker /\ dispatch' = dispatch /\ driver' = driver
        BY <2>7 DEF ServeRange, Lose
      <3>2. TrackerOK(tracker') /\ HandInv'
        BY <3>1 DEF SyncInv, HandInv, EventOK
      <3> QED BY <1>1, <2>1, <2>7, <3>2, ServeStep, LoseStep DEF SyncInv
    <2>8. CASE UNCHANGED vars
      <3>1. /\ events' = events /\ requests' = requests /\ tracker' = tracker
            /\ dispatch' = dispatch /\ driver' = driver
        BY <2>8 DEF vars
      <3>2. TrafficInv' /\ TrackerOK(tracker')
        BY <3>1, Zenon DEF SyncInv, TrafficInv
      <3>3. HandInv'
        BY <3>1 DEF SyncInv, HandInv, EventOK
      <3> QED BY <1>1, <2>1, <3>2, <3>3 DEF SyncInv
    <2> QED BY <1>2, <2>2, <2>3, <2>4, <2>5, <2>6, <2>7, <2>8 DEF Next
  <1>3. CASE \E p \in Peers : PeerProduces(p)
    <2>1. PICK p \in Peers : PeerProduces(p)
      BY <1>3
    <2>2. /\ requests' = requests /\ tracker' = tracker /\ dispatch' = dispatch /\ driver' = driver
      BY <2>1 DEF PeerProduces
    <2>3. TrackerOK(tracker') /\ HandInv'
      BY <2>2 DEF SyncInv, HandInv, EventOK
    <2>4. PeersInv' /\ \E S : events' \in Seq(S) /\ \A e \in S : EventOK(e)
      BY <2>1, ProduceStep
    <2>5. TrafficInv'
      BY <2>2, <2>4, Zenon DEF SyncInv, TrafficInv
    <2> QED BY <1>1, <2>3, <2>4, <2>5 DEF SyncInv
  <1> QED BY <1>2, <1>3

\* What the node keeps is a chain, whoever wrote last: blocks are stored under
\* their heights, the tip names one of them, and the part that range sync and
\* gossip wrote is linked.  It holds for every number of peers, whatever chain
\* they hold, and for every loss, restart and interleaving of the two tasks.
THEOREM NodeChainSound == Spec => []ChainSound
  <1>1. ASSUME ChainInv, SyncInv PROVE ChainSound
    <2>1. TypeOK
      <3>1. ASSUME NEW p \in Peers, NEW h \in DOMAIN peer[p].blocks
            PROVE  h \in Nat /\ peer[p].blocks[h].height = h
        <4>1. PICK n \in 0 .. MaxPeerHeight : Grown(peer[p], n)
          BY <1>1 DEF SyncInv, PeersInv
        <4> QED BY <4>1 DEF Grown
      <3>2. \A h \in DOMAIN chain.blocks : h \in Nat /\ chain.blocks[h].height = h
        BY <1>1 DEF SyncInv, HeightsInv
      <3>3. /\ tracker.highest_seen \in 0 .. MaxPeerHeight /\ tracker.last_peer \subseteq Peers
            /\ tracker.requested_up_to \in 0 .. Max({MaxPeerHeight, MaxCommits})
        BY <1>1 DEF SyncInv, TrackerOK
      <3>4. \A c \in {chain} \cup {peer[p] : p \in Peers} :
              \A h \in DOMAIN c.blocks : h \in Nat /\ c.blocks[h].height = h
        BY <3>1, <3>2
      <3> QED BY <1>1, <3>3, <3>4 DEF SyncInv, HandInv, TypeOK
    <2>2. TipIsStored /\ SyncedChainLinked
      BY <1>1 DEF ChainInv, StoreInv, LinkInv
    <2> QED BY <2>1, <2>2 DEF ChainSound
  <1> QED BY InitChain, InitSync, ChainNext, SyncNext, <1>1, PTL DEF Spec

\* Every request maybe_request_range sends passes RangeRequest::validate, for
\* every width of the range and every tip the node may be at: the branch that
\* reports a "BUG" is dead.
THEOREM RequestsAlwaysValid == Spec => []RequestsValid
  <1>1. ASSUME SyncInv PROVE RequestsValid
    <2>1. PICK R : requests \in Seq(R) /\ \A r \in R : RequestOK(r)
      BY <1>1 DEF SyncInv, TrafficInv
    <2>2. \A i \in DOMAIN requests : RequestOK(requests[i])
      BY <2>1
    <2> QED BY <2>2 DEF RequestsValid, RequestOK
  <1> QED BY InitChain, InitSync, ChainNext, SyncNext, <1>1, PTL DEF Spec
-----------------------------------------------------------------------------
(* Snapshots *)

SnapshotSpec == SnapshotInit /\ [][SnapshotNext]_svars

Dir == [checkpoint : {"none", "partial", "whole"}, metadata : {"none", "corrupt", "valid"}]
Steps == {"idle", "clean", "checkpoint", "metadata", "replace", "rename", "prune"}

\* What the step reached says of the staging directory, and that no directory to
\* be pruned is one to be kept.
SnapshotInv ==
    /\ final \in [Heights -> Dir] /\ staging \in [Heights -> Dir]
    /\ kept \in SUBSET Heights
    /\ job \in [height : Nat, step : Steps, doomed : SUBSET Heights]
    /\ job.step # "idle" => job.height \in Heights
    /\ job.step = "metadata" => staging[job.height] = [checkpoint |-> "whole", metadata |-> "none"]
    /\ job.step \in {"replace", "rename"} =>
         staging[job.height] = [checkpoint |-> "whole", metadata |-> "valid"]
    /\ \A h \in kept : Restorable(h) /\ h \notin job.doomed

LEMMA RenameInv ==
  ASSUME SnapshotInv, Rename
  PROVE  SnapshotInv'
<1> DEFINE h == job.height
           doomed == Doomed(Exists(final) \cup {h})
<1>1. /\ job.step = "rename" /\ h \in Heights
      /\ staging[h] = [checkpoint |-> "whole", metadata |-> "valid"] /\ staging[h] \in Dir
  BY DEF Rename, At, SnapshotInv
<1>2. /\ final' = [final EXCEPT ![h] = staging[h]]
      /\ staging' = [staging EXCEPT ![h] = Absent]
      /\ kept' = {k \in kept \cup {h} :
                    max_snapshots = 0 \/ Cardinality({g \in Exists(final') : g > k}) < max_snapshots}
      /\ job' = [job EXCEPT !.step = "prune", !.doomed = doomed]
  BY DEF Rename
<1>3. final' \in [Heights -> Dir] /\ staging' \in [Heights -> Dir] /\ kept' \in SUBSET Heights
  BY <1>1, <1>2 DEF SnapshotInv, Absent, Dir
<1>4. Exists(final') = Exists(final) \cup {h}
  BY <1>1, <1>2 DEF Exists, Absent, SnapshotInv
<1>5. doomed \in SUBSET Heights
  BY <1>1 DEF Doomed, Exists
<1>6. \A k \in kept' : k \notin doomed
  <2> SUFFICES ASSUME NEW k \in kept', k \in doomed PROVE FALSE
    OBVIOUS
  <2> DEFINE above == {g \in Exists(final') : g > k}
  <2>1. above \in SUBSET Heights
    BY DEF Exists
  <2>2. max_snapshots # 0 /\ Cardinality(above) >= max_snapshots
    BY <1>4 DEF Doomed
  <2>3. Cardinality(above) < max_snapshots
    BY <1>2, <2>2
  <2> HIDE DEF above
  <2>4. Cardinality(above) \in Nat /\ max_snapshots \in Nat
    BY <2>1, SnapshotAssumption, FS_Subset, FS_CardinalityType
  <2> QED BY <2>2, <2>3, <2>4
<1> HIDE DEF doomed
<1>7. /\ job' \in [height : Nat, step : Steps, doomed : SUBSET Heights]
      /\ job'.step = "prune" /\ job'.height = h /\ job'.doomed = doomed
  BY <1>2, <1>5 DEF SnapshotInv, Steps
<1>8. \A k \in kept' : Restorable(k)'
  <2> SUFFICES ASSUME NEW k \in kept' PROVE Restorable(k)'
    OBVIOUS
  <2>1. CASE k = h
    BY <1>1, <1>2, <2>1 DEF Restorable, SnapshotInv
  <2>2. CASE k # h
    BY <1>1, <1>2, <2>2 DEF Restorable, SnapshotInv
  <2> QED BY <2>1, <2>2
<1> QED BY <1>1, <1>3, <1>6, <1>7, <1>8 DEF SnapshotInv

LEMMA PruneOneInv ==
  ASSUME SnapshotInv, PruneOne
  PROVE  SnapshotInv'
<1> DEFINE h == CHOOSE h \in job.doomed : \A g \in job.doomed : g <= h
<1>1. /\ job.step = "prune" /\ job.doomed # {} /\ final' = [final EXCEPT ![h] = Absent]
      /\ job' = [job EXCEPT !.doomed = job.doomed \ {h}] /\ UNCHANGED <<staging, crashes, kept>>
  BY DEF PruneOne, At
<1>2. job.doomed \in SUBSET Heights
  BY DEF SnapshotInv
<1>3. h \in job.doomed
  <2>1. (\A x \in job.doomed : x \in Nat) /\ IsFiniteSet(job.doomed)
    BY <1>2, SnapshotAssumption, FS_Subset
  <2> QED BY <1>1, <2>1, LargestExists
<1> HIDE DEF h
<1>4. /\ job' \in [height : Nat, step : Steps, doomed : SUBSET Heights]
      /\ job'.step = "prune" /\ job'.height = job.height /\ job'.doomed = job.doomed \ {h}
  BY <1>1, <1>2 DEF SnapshotInv
<1>5. final' \in [Heights -> Dir]
  BY <1>1, <1>2, <1>3 DEF SnapshotInv, Absent, Dir
<1>6. \A k \in kept : k # h /\ Restorable(k)'
  BY <1>1, <1>2, <1>3 DEF SnapshotInv, Restorable
<1> QED BY <1>1, <1>4, <1>5, <1>6 DEF SnapshotInv

LEMMA CrashInv ==
  ASSUME SnapshotInv, Crash
  PROVE  SnapshotInv'
<1> DEFINE h == job.height
<1>1. h \in Heights /\ job' = Idle /\ job.step # "idle"
  BY DEF Crash, At, SnapshotInv
<1>2. /\ job' \in [height : Nat, step : Steps, doomed : SUBSET Heights]
      /\ job'.step = "idle" /\ job'.doomed = {}
  BY <1>1 DEF Idle, Steps
<1>3. ASSUME NEW k \in Heights, NEW d \in Remains(final[k]) \cup Remains(staging[k]) PROVE d \in Dir
  BY DEF SnapshotInv, Remains, Dir
<1> SUFFICES /\ final' \in [Heights -> Dir] /\ staging' \in [Heights -> Dir] /\ kept' \in SUBSET Heights
             /\ \A k \in kept' : Restorable(k)'
  BY <1>2 DEF SnapshotInv
<1>4. CASE UNCHANGED <<final, staging, kept>>
  BY <1>4 DEF SnapshotInv, Restorable
<1>5. CASE /\ \E d \in Remains(staging[h]) : staging' = [staging EXCEPT ![h] = d]
           /\ UNCHANGED <<final, kept>>
  BY <1>1, <1>3, <1>5 DEF SnapshotInv, Restorable
<1>6. CASE staging' = [staging EXCEPT ![h].checkpoint = "partial"] /\ UNCHANGED <<final, kept>>
  BY <1>1, <1>6 DEF SnapshotInv, Restorable, Dir
<1>7. CASE staging' = [staging EXCEPT ![h].metadata = "corrupt"] /\ UNCHANGED <<final, kept>>
  BY <1>1, <1>7 DEF SnapshotInv, Restorable, Dir
<1>8. CASE /\ \E d \in Remains(final[h]) : final' = [final EXCEPT ![h] = d]
           /\ kept' = kept \ {h} /\ UNCHANGED staging
  BY <1>1, <1>3, <1>8 DEF SnapshotInv, Restorable
<1>9. CASE /\ \E k \in job.doomed : \E d \in Remains(final[k]) : final' = [final EXCEPT ![k] = d]
           /\ UNCHANGED <<staging, kept>>
  <2>1. PICK k \in job.doomed : \E d \in Remains(final[k]) : final' = [final EXCEPT ![k] = d]
    BY <1>9
  <2>2. k \in Heights /\ k \notin kept
    BY DEF SnapshotInv
  <2>3. PICK d \in Dir : final' = [final EXCEPT ![k] = d]
    BY <1>3, <2>1, <2>2
  <2>4. final' \in [Heights -> Dir] /\ \A j \in kept : final'[j] = final[j]
    BY <2>2, <2>3 DEF SnapshotInv
  <2> QED BY <1>9, <2>4 DEF SnapshotInv, Restorable
<1> QED BY <1>4, <1>5, <1>6, <1>7, <1>8, <1>9 DEF Crash

LEMMA SnapshotInvNext == SnapshotInv /\ [SnapshotNext]_svars => SnapshotInv'
<1> SUFFICES ASSUME SnapshotInv, [SnapshotNext]_svars PROVE SnapshotInv'
  OBVIOUS
<1> DEFINE h == job.height
<1>0. ASSUME job.step # "idle" PROVE h \in Heights
  BY <1>0 DEF SnapshotInv
<1>g. ASSUME NEW step \in Steps, Go(step)
      PROVE  /\ job' \in [height : Nat, step : Steps, doomed : SUBSET Heights]
             /\ job'.step = step /\ job'.height = h /\ job'.doomed = job.doomed
  BY <1>g DEF Go, SnapshotInv
<1>1. CASE UNCHANGED svars
  BY <1>1 DEF svars, SnapshotInv, Restorable
<1>2. ASSUME NEW k \in Heights, CreateSnapshot(k) PROVE SnapshotInv'
  <2>1. job' = [height |-> k, step |-> "clean", doomed |-> {}] /\ UNCHANGED <<final, staging, kept>>
    BY <1>2 DEF CreateSnapshot
  <2>2. /\ job' \in [height : Nat, step : Steps, doomed : SUBSET Heights]
        /\ job'.step = "clean" /\ job'.height = k /\ job'.doomed = {}
    BY <2>1, SnapshotAssumption DEF Steps
  <2> QED BY <2>1, <2>2 DEF SnapshotInv, Restorable
<1>3. ASSUME CleanStaging PROVE SnapshotInv'
  <2>1. /\ job.step = "clean" /\ Go("checkpoint") /\ staging' = [staging EXCEPT ![h] = Absent]
        /\ UNCHANGED <<final, kept>> /\ "checkpoint" \in Steps
    BY <1>3 DEF CleanStaging, At, Steps
  <2>2. staging' \in [Heights -> Dir]
    BY <1>0, <2>1 DEF SnapshotInv, Absent, Dir
  <2> QED BY <1>0, <1>g, <2>1, <2>2 DEF SnapshotInv, Restorable
<1>4. ASSUME Checkpoint PROVE SnapshotInv'
  <2>1. /\ job.step = "checkpoint" /\ Go("metadata") /\ UNCHANGED <<final, kept>> /\ "metadata" \in Steps
        /\ staging' = [staging EXCEPT ![h] = [checkpoint |-> "whole", metadata |-> "none"]]
    BY <1>4 DEF Checkpoint, At, Steps
  <2>2. staging' \in [Heights -> Dir] /\ staging'[h] = [checkpoint |-> "whole", metadata |-> "none"]
    BY <1>0, <2>1 DEF SnapshotInv, Dir
  <2> QED BY <1>0, <1>g, <2>1, <2>2 DEF SnapshotInv, Restorable
<1>5. ASSUME WriteMetadata PROVE SnapshotInv'
  <2>1. /\ job.step = "metadata" /\ Go("replace") /\ UNCHANGED <<final, kept>> /\ "replace" \in Steps
        /\ staging' = [staging EXCEPT ![h].metadata = "valid"]
    BY <1>5 DEF WriteMetadata, At, Steps
  <2>2. staging[h] = [checkpoint |-> "whole", metadata |-> "none"] /\ h \in Heights
    BY <1>0, <2>1 DEF SnapshotInv
  <2>3. staging' \in [Heights -> Dir] /\ staging'[h] = [checkpoint |-> "whole", metadata |-> "valid"]
    BY <2>1, <2>2 DEF SnapshotInv, Dir
  <2> QED BY <1>0, <1>g, <2>1, <2>3 DEF SnapshotInv, Restorable
<1>6. ASSUME RemoveExisting PROVE SnapshotInv'
  <2>1. /\ job.step = "replace" /\ Go("rename") /\ UNCHANGED staging /\ "rename" \in Steps
        /\ final' = [final EXCEPT ![h] = Absent] /\ kept' = kept \ {h}
    BY <1>6 DEF RemoveExisting, At, Steps
  <2>2. final' \in [Heights -> Dir] /\ \A k \in kept' : final'[k] = final[k]
    BY <1>0, <2>1 DEF SnapshotInv, Absent, Dir
  <2> QED BY <1>0, <1>g, <2>1, <2>2 DEF SnapshotInv, Restorable
<1>7. ASSUME Finished PROVE SnapshotInv'
  <2>1. job' = Idle /\ UNCHANGED <<final, staging, kept>>
    BY <1>7 DEF Finished
  <2>2. /\ job' \in [height : Nat, step : Steps, doomed : SUBSET Heights]
        /\ job'.step = "idle" /\ job'.doomed = {}
    BY <2>1 DEF Idle, Steps
  <2> QED BY <2>1, <2>2 DEF SnapshotInv, Restorable
<1>8. CASE SnapshotNext
  BY <1>2, <1>3, <1>4, <1>5, <1>6, <1>7, <1>8, RenameInv, PruneOneInv, CrashInv DEF SnapshotNext
<1> QED BY <1>1, <1>8

\* Wherever a snapshot, its replacement or the pruning was interrupted, and
\* however often, the newest completed snapshots can be restored.
THEOREM SnapshotsRestorable == SnapshotSpec => []KeptSnapshotsRestorable
<1>1. SnapshotInit => SnapshotInv
  BY DEF SnapshotInit, SnapshotInv, Absent, Dir, Idle, Steps
<1>2. SnapshotInv => KeptSnapshotsRestorable
  BY DEF SnapshotInv, KeptSnapshotsRestorable
<1> QED BY <1>1, <1>2, SnapshotInvNext, PTL DEF SnapshotSpec
=============================================================================
