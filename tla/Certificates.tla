---------------------------- MODULE Certificates ----------------------------
(***************************************************************************)
(* Quorum certificates: their verification (cert.rs), their construction   *)
(* from commit acknowledgements (commit_ack.rs, with the driver's use of   *)
(* it in lemma-node dag_driver.rs) and the light-client proof that chains  *)
(* them over epoch boundaries (epoch/proof.rs).                            *)
(*                                                                         *)
(* A validator set is a function from members to power, and stands for its *)
(* own hash, which covers members and powers but not the epoch number.  A  *)
(* certificate is [digest, signers]; sig_ok is the set of signers whose    *)
(* injected verification result is true.                                   *)
(***************************************************************************)
EXTENDS Integers, Sequences, Stake

VerifyQuorumCert(qc, vset, expected_digest, sig_ok) ==
    /\ qc.digest = expected_digest
    /\ qc.signers \subseteq DOMAIN vset
    /\ qc.signers \subseteq sig_ok
    /\ Quorum(vset, qc.signers)

-----------------------------------------------------------------------------
(* The accumulator of one block's acknowledgements *)

NewAccumulator(height, digest) == [height |-> height, digest |-> digest, signers |-> {}]

\* CommitAckAccumulator::add keeps only the first valid ack of a member for the
\* block in progress.
AckAccepted(acc, ack, vset, sig_ok) ==
    /\ ack.height = acc.height
    /\ ack.digest = acc.digest
    /\ ack.signer \in DOMAIN vset
    /\ sig_ok
    /\ ack.signer \notin acc.signers

AddAck(acc, ack, vset, sig_ok) ==
    IF AckAccepted(acc, ack, vset, sig_ok) THEN [acc EXCEPT !.signers = @ \cup {ack.signer}] ELSE acc

HasQuorum(acc, vset) == Quorum(vset, acc.signers)

QcOf(acc) == [height |-> acc.height, digest |-> acc.digest, signers |-> acc.signers]

-----------------------------------------------------------------------------
(* The driver of one node commits blocks in order; each commit replaces the    *)
(* accumulator and feeds it the node's own ack.  Acks of the others arrive in  *)
(* any order, again, forged or for another block, and only go to the           *)
(* accumulator: a stored block keeps the certificate it was committed with.    *)

CONSTANTS
    Vset,          \* the committee and its powers
    Self,          \* this node, a member
    Outsider,      \* a signer that is no member
    MaxCommits     \* bound of the model

ASSUME AckAssumption == Self \in DOMAIN Vset /\ MaxCommits \in Nat

VARIABLES
    acc,           \* the accumulator in progress; height 0 before the first
    stored,        \* certificates of the committed blocks
    signed         \* ghost: the valid acks behind the signers of the accumulator

cvars == <<acc, stored, signed>>

Digests == 0..1
Acks == [height : 1..MaxCommits, digest : Digests, signer : DOMAIN Vset \cup {Outsider}]

CertTypeOK ==
    /\ acc.height \in 0..MaxCommits /\ acc.digest \in Digests /\ acc.signers \subseteq DOMAIN Vset
    /\ stored \subseteq [height : 1..MaxCommits, digest : Digests, signers : SUBSET DOMAIN Vset]
    /\ signed \subseteq Acks

CertInit == acc = NewAccumulator(0, 0) /\ stored = {} /\ signed = {}

\* Mutant: the accumulator of the last block is reused with its signers.
NextAccumulatorReused(height, digest) == [acc EXCEPT !.height = height, !.digest = digest]

NextAccumulator(height, digest) == NewAccumulator(height, digest)

\* process_surge_output: the block gets the multi-signer certificate only when
\* the node's own ack is a quorum already, else its own signature.
CommitAndAck(digest) ==
    LET ack == [height |-> acc.height + 1, digest |-> digest, signer |-> Self]
        mine == AddAck(NextAccumulator(acc.height + 1, digest), ack, Vset, TRUE)
    IN  /\ acc.height < MaxCommits
        /\ acc' = mine
        /\ signed' = {ack}
        /\ stored' = stored \cup
             {IF HasQuorum(mine, Vset) THEN QcOf(mine) ELSE QcOf([mine EXCEPT !.signers = {Self}])}

\* An ack from the network, its signature checked by the runner.
ReceiveAck(ack, sig_ok) ==
    /\ acc.height > 0
    /\ sig_ok \/ ack.signer # Self
    /\ acc' = AddAck(acc, ack, Vset, sig_ok)
    /\ signed' = IF sig_ok /\ acc' # acc THEN signed \cup {ack} ELSE signed
    /\ UNCHANGED stored

CertNext ==
    \/ \E d \in Digests : CommitAndAck(d)
    \/ \E ack \in Acks, sig_ok \in BOOLEAN : ReceiveAck(ack, sig_ok)

-----------------------------------------------------------------------------
(* Epoch-change proofs and the light client that follows them *)

\* verify_epoch_change: each header is certified by the set before it and names
\* the set after it.  A step is [header, qc, next_vset, sig_ok].
VerifyEpochChange(proof, initial_vset) ==
    LET Before(i) == IF i = 1 THEN initial_vset ELSE proof[i - 1].next_vset
    IN  /\ proof # <<>>
        /\ \A i \in DOMAIN proof :
             /\ proof[i].header.validators_hash = Before(i)
             /\ VerifyQuorumCert(proof[i].qc, Before(i), proof[i].header.digest, proof[i].sig_ok)
             /\ proof[i].header.next_validators_hash = proof[i].next_vset

CONSTANTS
    TrueSets,      \* the validator sets of the epochs, pairwise distinct
    Byzantine,     \* members that sign anything
    Proofs         \* proofs that provers show the client

TrueHeader(i) == [digest |-> i, validators_hash |-> TrueSets[i], next_validators_hash |-> TrueSets[i + 1]]
TrueHeaders == {TrueHeader(i) : i \in 1..Len(TrueSets) - 1}

\* Honest members sign the true headers only, and the digest is the header's: over
\* any other header a prover has no valid signature of an honest member.
Provable(step) ==
    step.header \in TrueHeaders
      \/ \A i \in DOMAIN TrueSets : step.sig_ok \cap DOMAIN TrueSets[i] \subseteq Byzantine

ASSUME TrueSetsAssumption ==
    /\ TrueSets # <<>> /\ DOMAIN TrueSets = 1..Len(TrueSets) /\ Len(TrueSets) \in Nat
    /\ \A i \in DOMAIN TrueSets :
         /\ IsFiniteSet(DOMAIN TrueSets[i])
         /\ \A v \in DOMAIN TrueSets[i] : TrueSets[i][v] \in Nat
    /\ \A i, j \in DOMAIN TrueSets : TrueSets[i] = TrueSets[j] => i = j

ASSUME ByzantineAssumption == \A i \in DOMAIN TrueSets : ~Quorum(TrueSets[i], Byzantine)

ASSUME ProofsAssumption ==
    \A p \in Proofs : /\ Len(p) \in Nat /\ DOMAIN p = 1..Len(p)
                      /\ \A i \in DOMAIN p : Provable(p[i])

VARIABLES
    trusted,       \* the set the client believes in
    verified       \* boundaries it has verified

lvars == <<trusted, verified>>

LightInit == trusted = TrueSets[1] /\ verified = 0

AcceptProof(proof) ==
    /\ VerifyEpochChange(proof, trusted)
    /\ trusted' = proof[Len(proof)].next_vset
    /\ verified' = verified + Len(proof)

LightNext == \E p \in Proofs : AcceptProof(p)

-----------------------------------------------------------------------------
(* Properties *)

\* An accumulator that reports a quorum holds a certificate that verifies: every
\* counted signer really signed this block at this height, whatever was
\* duplicated, forged or left over from the block before.
AckQuorumIsReal ==
    /\ \A s \in acc.signers : [height |-> acc.height, digest |-> acc.digest, signer |-> s] \in signed
    /\ HasQuorum(acc, Vset) =>
         VerifyQuorumCert(QcOf(acc), Vset, acc.digest,
           {s \in DOMAIN Vset : [height |-> acc.height, digest |-> acc.digest, signer |-> s] \in signed})

\* A light client that accepts epoch-change proofs from anybody only ever trusts
\* the validator set the chain really had after as many boundaries, as long as
\* the Byzantine members hold no quorum of any set.
ClientFollowsChain == verified < Len(TrueSets) /\ trusted = TrueSets[verified + 1]

\* Both consumers of certificates are safe: the node that gathers them and the
\* light client that follows them.
CertificatesSound == AckQuorumIsReal /\ ClientFollowsChain
=============================================================================
