------------------------------ MODULE NodeChain ------------------------------
(***************************************************************************)
(* The chain of one node and the two tasks that write it                   *)
(* (lemma-node/src): the network dispatch loop, which applies the blocks   *)
(* of peers and requests the ranges it is missing (network_runner.rs,      *)
(* sync.rs), and the DAG driver, which writes one block per commit         *)
(* (dag_driver.rs).  Both take the write lock around put_block only, so    *)
(* what they read of the tip before may be stale when they write.          *)
(*                                                                         *)
(* Every peer holds a chain and announces the blocks it adds.  It is a     *)
(* prefix of one chain over this node's genesis, or has another genesis.   *)
(* Blocks carry no QuorumCert or a valid one.  A restart keeps the store   *)
(* and nothing else.                                                       *)
(***************************************************************************)
EXTENDS ChainStore

CONSTANTS Peers,
          DEFAULT_MAX_RANGE,
          MaxPeerHeight,   \* bound: blocks of a peer
          MaxCommits,      \* bound: commits of the DAG driver between restarts
          MaxFailures,     \* bound: commits whose block cannot be built
          MaxLosses,       \* bound: requests and events lost
          MaxBacklog,      \* bound: events waiting when a peer adds a block
          MaxRestarts      \* bound: restarts of the node

ASSUME BoundsAssumption ==
  /\ DEFAULT_MAX_RANGE \in Nat \ {0}
  /\ {MaxPeerHeight, MaxCommits, MaxFailures, MaxLosses,
      MaxBacklog, MaxRestarts} \subseteq Nat

VARIABLES chain,      \* the node's store
          peer,       \* the store of each peer
          events,     \* NetworkEvent::BlockReceived, in the event channel
          requests,   \* range requests not answered yet
          tracker,    \* SyncTracker
          dispatch,   \* the network dispatch task
          driver,     \* the DAG driver task
          failures, losses, restarts

sync == <<peer, events, requests, tracker, dispatch>>
faults == <<failures, losses, restarts>>
vars == <<chain, peer, events, requests, tracker, dispatch, driver,
          failures, losses, restarts>>

----------------------------------------------------------------------------
(* SyncTracker.                                                            *)

NewTracker == [highest_seen |-> 0, requested_up_to |-> 0, last_peer |-> {}]

\* last_peer is the empty set or holds the peer.
Observe(t, height, from) ==
  [t EXCEPT !.highest_seen = Max({@, height}),
            !.last_peer = IF height > t.highest_seen \/ @ = {} THEN {from} ELSE @]

\* Mutant: the gap is measured one too far.
MustRequestLate(t, local_tip) ==
  t.highest_seen > local_tip + 2 /\ t.highest_seen > t.requested_up_to

\* next_request does not return None.
MustRequest(t, local_tip) ==
  t.highest_seen > local_tip + 1 /\ t.highest_seen > t.requested_up_to

\* Mutant: the clamp is off by one.
RequestUpToInclusive(t, local_tip) ==
  Min({t.highest_seen, local_tip + DEFAULT_MAX_RANGE + 1})

RequestUpTo(t, local_tip) == Min({t.highest_seen, local_tip + DEFAULT_MAX_RANGE})

OnTipAdvanced(t, local_tip) ==
  [t EXCEPT !.requested_up_to = IF local_tip >= @ THEN local_tip ELSE @]

\* maybe_request_range, with the tracker at t.
MaybeRequestRange(t, local_tip, p) ==
  LET to == RequestUpTo(t, local_tip) IN
  IF MustRequest(t, local_tip)
  THEN /\ tracker' = [t EXCEPT !.requested_up_to = to]
       /\ requests' = Append(requests, [peer |-> p, from_height |-> local_tip + 1,
                                        to_height |-> to])
  ELSE tracker' = t /\ UNCHANGED requests

----------------------------------------------------------------------------
(* The network dispatch task: waiting for an event, or inside              *)
(* apply_synced_block with a block.                                        *)

Waiting == [pc |-> "recv"]

\* handle_block_received up to apply_synced_block.  tip_height is the tip that
\* the block was compared with.
ReceiveBlock ==
  /\ dispatch.pc = "recv" /\ events # << >>
  /\ events' = Tail(events)
  /\ LET block == Head(events).block
         from == Head(events).from
         tip_height == chain.tip.height
         observed == Observe(tracker, block.height, from)
     IN  IF block.height = tip_height + 1
         THEN /\ dispatch' = [pc |-> "apply", block |-> block, from |-> from,
                           tip_height |-> tip_height]
              /\ tracker' = observed /\ UNCHANGED requests
         ELSE /\ IF block.height > tip_height + 1
                 THEN MaybeRequestRange(observed, tip_height, from)
                 ELSE tracker' = observed /\ UNCHANGED requests
              /\ UNCHANGED dispatch
  /\ UNCHANGED <<chain, peer, driver, faults>>

\* Mutant: the parent link is not verified.
VerifiesHeight(block, tip) == block.height = tip.height + 1

\* StructuralVerifier: the checks that relate a block to the chain.
Verifies(block, tip) ==
  block.height = tip.height + 1 /\ block.parent_hash = tip.hash

\* apply_synced_block, steps 1 and 2, outside the lock.  A block that fails is
\* discarded.
VerifyBlock ==
  /\ dispatch.pc = "apply"
  /\ dispatch' = IF Verifies(dispatch.block, chain.tip)
                 THEN [pc |-> "write", block |-> dispatch.block,
                       from |-> dispatch.from,
                       tip_height |-> dispatch.tip_height,
                       prev_height |-> chain.tip.height]
                 ELSE Waiting
  /\ UNCHANGED <<chain, peer, events, requests, tracker, driver, faults>>

\* apply_synced_block, steps 3 to 5, under the lock, and what
\* handle_block_received does with the outcome.
WriteSyncedBlock ==
  /\ dispatch.pc = "write"
  /\ IF chain.tip.height = dispatch.prev_height
     THEN /\ chain' = PutBlock(chain, dispatch.block)
          /\ MaybeRequestRange(OnTipAdvanced(tracker, dispatch.block.height),
                               dispatch.tip_height + 1, dispatch.from)
     ELSE UNCHANGED <<chain, tracker, requests>>
  /\ dispatch' = Waiting
  /\ UNCHANGED <<peer, events, driver, faults>>

\* The sync-retry tick of run_network_dispatch.  Bound: five seconds are enough
\* for a request to be answered and its blocks handled.
SyncTick ==
  /\ dispatch.pc = "recv" /\ requests = << >> /\ events = << >>
  /\ \E p \in tracker.last_peer : MaybeRequestRange(tracker, chain.tip.height, p)
  /\ UNCHANGED <<chain, peer, events, dispatch, driver, faults>>

----------------------------------------------------------------------------
(* The DAG driver: process_surge_output for one commit after the other.    *)

NewDriver == [pc |-> "next_commit", index |-> 1]

\* build_block_from_commit: the height is the commit's index, the parent is
\* the tip.
BuildBlock ==
  /\ driver.pc = "next_commit" /\ driver.index <= MaxCommits
  /\ driver' = [pc |-> "commit", index |-> driver.index,
                block |-> [origin |-> "dag", height |-> driver.index,
                           parent_hash |-> chain.tip.hash]]
  /\ UNCHANGED <<chain, sync, faults>>

\* A commit whose block cannot be built is skipped.
BuildFails ==
  /\ driver.pc = "next_commit" /\ driver.index <= MaxCommits
  /\ failures < MaxFailures
  /\ failures' = failures + 1
  /\ driver' = [driver EXCEPT !.index = @ + 1]
  /\ UNCHANGED <<chain, sync, losses, restarts>>

\* commit_block, under the lock.
CommitBlock ==
  /\ driver.pc = "commit"
  /\ chain' = PutBlock(chain, driver.block)
  /\ driver' = [pc |-> "next_commit", index |-> driver.index + 1]
  /\ UNCHANGED <<sync, faults>>

----------------------------------------------------------------------------
(* The peers and the network.                                              *)

Extended(c) ==
  PutBlock(c, [origin |-> c.blocks[0].origin, height |-> c.tip.height + 1,
               parent_hash |-> c.tip.hash])

PeerChain(origin, height) ==
  LET c[n \in 0 .. height] ==
        IF n = 0 THEN NewChain(origin) ELSE Extended(c[n - 1])
  IN  c[height]

\* A peer adds a block to its chain and gossips it.
PeerProduces(p) ==
  /\ peer[p].tip.height < MaxPeerHeight /\ Len(events) < MaxBacklog
  /\ LET c == Extended(peer[p]) IN
     /\ peer' = [peer EXCEPT ![p] = c]
     /\ events' = Append(events, [from |-> p, block |-> c.blocks[c.tip.height]])
  /\ UNCHANGED <<chain, requests, tracker, dispatch, driver, faults>>

\* The peer serves a range; the service fans the response out.  Bound: requests
\* are answered in order.
ServeRange ==
  /\ requests # << >>
  /\ LET r == Head(requests)
         blocks == GetRange(peer[r.peer], r.from_height, r.to_height)
     IN  events' = events \o [i \in DOMAIN blocks |->
                                [from |-> r.peer, block |-> blocks[i]]]
  /\ requests' = Tail(requests)
  /\ UNCHANGED <<chain, peer, tracker, dispatch, driver, faults>>

\* A request is never answered, or an event finds the channel full.
Lose ==
  /\ losses < MaxLosses
  /\ losses' = losses + 1
  /\ \/ requests # << >> /\ requests' = Tail(requests) /\ UNCHANGED events
     \/ events # << >> /\ events' = Tail(events) /\ UNCHANGED requests
  /\ UNCHANGED <<chain, peer, tracker, dispatch, driver, failures, restarts>>

Restart ==
  /\ restarts < MaxRestarts
  /\ restarts' = restarts + 1
  /\ events' = << >> /\ requests' = << >>
  /\ tracker' = NewTracker /\ dispatch' = Waiting /\ driver' = NewDriver
  /\ UNCHANGED <<chain, peer, failures, losses>>

\* The node starts when its peers may already be ahead.
Init ==
  /\ chain = NewChain("chain")
  /\ peer \in [Peers -> {PeerChain(origin, n) : origin \in {"chain", "other"},
                                              n \in 0 .. MaxPeerHeight}]
  /\ events = << >> /\ requests = << >>
  /\ tracker = NewTracker /\ dispatch = Waiting /\ driver = NewDriver
  /\ failures = 0 /\ losses = 0 /\ restarts = 0

Next ==
  \/ ReceiveBlock \/ VerifyBlock \/ WriteSyncedBlock \/ SyncTick
  \/ BuildBlock \/ BuildFails \/ CommitBlock
  \/ (\E p \in Peers : PeerProduces(p)) \/ ServeRange \/ Lose \/ Restart

Spec == Init /\ [][Next]_vars

\* The tasks keep running, the interval keeps ticking, and a peer answers
\* what reaches it.
FairSpec ==
  /\ Spec
  /\ WF_vars(ReceiveBlock) /\ WF_vars(VerifyBlock) /\ WF_vars(WriteSyncedBlock)
  /\ WF_vars(SyncTick) /\ WF_vars(ServeRange)

----------------------------------------------------------------------------
(* Properties.                                                             *)

\* Chains index blocks by their own height (put_block), and the sync tracker
\* never records a height that no chain can reach.
TypeOK ==
  /\ \A c \in {chain} \cup {peer[p] : p \in Peers} :
       \A h \in DOMAIN c.blocks : h \in Nat /\ c.blocks[h].height = h
  /\ tracker.highest_seen \in 0 .. MaxPeerHeight
  /\ tracker.requested_up_to \in 0 .. Max({MaxPeerHeight, MaxCommits})
  /\ tracker.last_peer \subseteq Peers
  /\ dispatch.pc \in {"recv", "apply", "write"}
  /\ driver.pc \in {"next_commit", "commit"}
  /\ driver.index \in 1 .. (MaxCommits + 1)

\* The tip metadata names a stored block, whoever wrote last: "DB may be
\* corrupt" of build_block_from_commit, which looks the tip's block up, is
\* never the case.
TipIsStored ==
  /\ chain.tip.height \in DOMAIN chain.blocks
  /\ Hash(chain.blocks[chain.tip.height]) = chain.tip.hash

\* The tip never goes back, whichever of the two tasks writes, late or after a
\* restart: the comparison put_block makes and the lock around it.
TipNeverRegresses == [][chain'.tip.height >= chain.tip.height]_vars

\* Every block up to the tip is stored and is the child of the one below it:
\* BlockHeader.height is "strictly `parent.height + 1`".
ChainLinked ==
  \A h \in 1 .. chain.tip.height :
    /\ {h, h - 1} \subseteq DOMAIN chain.blocks
    /\ chain.blocks[h].parent_hash = Hash(chain.blocks[h - 1])

DriverWrote ==
  \E h \in DOMAIN chain.blocks : chain.blocks[h].origin = "dag"

\* What range sync and gossip alone write is linked, whatever the peers send:
\* apply_synced_block verifies outside the lock and looks again under it.
SyncedChainLinked == ~DriverWrote => ChainLinked

\* What the node keeps is a chain: typed, its tip stored, its synced part linked.
ChainSound == TypeOK /\ TipIsStored /\ SyncedChainLinked

\* The requests sent pass RangeRequest::validate: they are not empty and no
\* wider than the responder accepts, so that the branch that reports a "BUG" in
\* maybe_request_range is dead.
RequestsValid ==
  \A i \in DOMAIN requests :
    /\ requests[i].from_height <= requests[i].to_height
    /\ requests[i].to_height - requests[i].from_height < DEFAULT_MAX_RANGE

\* A node that has seen a height announced eventually has the chain up to it,
\* unless an event was lost, the node restarted, the DAG driver wrote a block
\* or a peer is on another chain: the sync tick is there to keep catch-up from
\* wedging.
CatchesUp ==
  \A h \in 1 .. MaxPeerHeight :
    tracker.highest_seen >= h
      ~> \/ chain.tip.height >= h
         \/ DriverWrote \/ losses > 0 \/ restarts > 0
         \/ \E p \in Peers : peer[p].blocks[0] # chain.blocks[0]
=============================================================================
