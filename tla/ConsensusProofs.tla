-------------------------- MODULE ConsensusProofs --------------------------
(***************************************************************************)
(* Proofs about the consensus library: certificates and the light client,  *)
(* the fee market, the validator set across epochs, and leader swaps.      *)
(***************************************************************************)
EXTENDS Epochs, Certificates, Fees, Reputation, StakeProofs

-----------------------------------------------------------------------------
(* Acknowledgements *)

CertSpec == CertInit /\ [][CertNext]_cvars

Acked(s) == [height |-> acc.height, digest |-> acc.digest, signer |-> s]

\* What the accumulator always is: the signers it counts are members whose valid
\* ack for the block in progress is among those behind it.
AckInv ==
    /\ acc \in [height : 0..MaxCommits, digest : Digests, signers : SUBSET DOMAIN Vset]
    /\ signed \subseteq Acks
    /\ stored \subseteq [height : 1..MaxCommits, digest : Digests, signers : SUBSET DOMAIN Vset]
    /\ \A s \in acc.signers : Acked(s) \in signed

LEMMA AckInvInit == CertInit => AckInv
BY AckAssumption DEF CertInit, AckInv, NewAccumulator, Digests

LEMMA CommitAndAckInv ==
  ASSUME AckInv, NEW d \in Digests, CommitAndAck(d)
  PROVE  AckInv'
<1> DEFINE ack == [height |-> acc.height + 1, digest |-> d, signer |-> Self]
           mine == [height |-> acc.height + 1, digest |-> d, signers |-> {Self}]
<1>1. acc.height + 1 \in 1..MaxCommits
  BY AckAssumption DEF CommitAndAck, AckInv
<1>2. acc' = mine /\ signed' = {ack}
  BY AckAssumption DEF CommitAndAck, NextAccumulator, NewAccumulator, AddAck, AckAccepted
<1>3. mine \in [height : 0..MaxCommits, digest : Digests, signers : SUBSET DOMAIN Vset]
  BY <1>1, AckAssumption
<1>4. signed' \subseteq Acks
  BY <1>1, <1>2, AckAssumption DEF Acks
<1>5. stored' \subseteq [height : 1..MaxCommits, digest : Digests, signers : SUBSET DOMAIN Vset]
  <2>1. stored' \subseteq stored \cup {mine}
    BY <1>2 DEF CommitAndAck, QcOf, NextAccumulator, NewAccumulator, AddAck, AckAccepted
  <2> QED BY <2>1, <1>1, AckAssumption DEF AckInv
<1>6. \A s \in acc'.signers : Acked(s)' \in signed'
  BY <1>2 DEF Acked
<1> QED BY <1>2, <1>3, <1>4, <1>5, <1>6 DEF AckInv

LEMMA ReceiveAckInv ==
  ASSUME AckInv, NEW ack \in Acks, NEW sig_ok \in BOOLEAN, ReceiveAck(ack, sig_ok)
  PROVE  AckInv'
<1>1. CASE AckAccepted(acc, ack, Vset, sig_ok)
  <2>1. /\ acc' = [acc EXCEPT !.signers = @ \cup {ack.signer}]
        /\ ack.height = acc.height /\ ack.digest = acc.digest
        /\ ack.signer \in DOMAIN Vset /\ ack.signer \notin acc.signers /\ sig_ok
    BY <1>1 DEF ReceiveAck, AddAck, AckAccepted
  <2>2. acc' # acc
    BY <2>1 DEF AckInv
  <2>3. signed' = signed \cup {ack}
    BY <2>1, <2>2 DEF ReceiveAck
  <2>4. ack = Acked(ack.signer)
    BY <2>1 DEF Acks, Acked
  <2>5. \A s : Acked(s)' = Acked(s)
    BY <2>1 DEF Acked, AckInv
  <2>6. acc'.signers = acc.signers \cup {ack.signer}
    BY <2>1 DEF AckInv
  <2>7. \A s \in acc'.signers : Acked(s)' \in signed'
    BY <2>3, <2>4, <2>5, <2>6 DEF AckInv
  <2> QED BY <2>1, <2>3, <2>7 DEF AckInv, ReceiveAck
<1>2. CASE ~AckAccepted(acc, ack, Vset, sig_ok)
  <2>1. acc' = acc /\ signed' = signed /\ stored' = stored
    BY <1>2 DEF ReceiveAck, AddAck
  <2> QED BY <2>1 DEF AckInv, Acked
<1> QED BY <1>1, <1>2

LEMMA AckInvNext == AckInv /\ [CertNext]_cvars => AckInv'
<1> SUFFICES ASSUME AckInv, [CertNext]_cvars PROVE AckInv'
  OBVIOUS
<1>1. CASE UNCHANGED cvars
  BY <1>1 DEF cvars, AckInv, Acked
<1>2. CASE CertNext
  BY <1>2, CommitAndAckInv, ReceiveAckInv DEF CertNext
<1> QED BY <1>1, <1>2

\* The certificate a node assembles from acks verifies whenever the accumulator
\* reports a quorum: every signer counted is a member and really signed the block
\* in progress, for any committee, powers and order of acks.
THEOREM AcksSound == CertSpec => []AckQuorumIsReal
<1>1. AckInv => AckQuorumIsReal
  <2> SUFFICES ASSUME AckInv PROVE AckQuorumIsReal
    OBVIOUS
  <2>1. \A s \in acc.signers : s \in DOMAIN Vset /\ Acked(s) \in signed
    BY DEF AckInv
  <2> QED BY <2>1 DEF AckQuorumIsReal, VerifyQuorumCert, QcOf, HasQuorum, Acked
<1> QED BY <1>1, AckInvInit, AckInvNext, PTL DEF CertSpec

-----------------------------------------------------------------------------
(* The light client *)

LightSpec == LightInit /\ [][LightNext]_lvars

\* A step that verifies against the set of an epoch is about the boundary that
\* ends this epoch, and names the set after it: a forged one would need a quorum
\* without an honest member.
LEMMA VerifiedStep ==
  ASSUME NEW k \in DOMAIN TrueSets, NEW step, Provable(step),
         step.header.validators_hash = TrueSets[k],
         VerifyQuorumCert(step.qc, TrueSets[k], step.header.digest, step.sig_ok),
         step.header.next_validators_hash = step.next_vset
  PROVE  k + 1 \in DOMAIN TrueSets /\ step.next_vset = TrueSets[k + 1]
<1>1. IsValidatorSet(TrueSets[k])
  BY TrueSetsAssumption DEF IsValidatorSet
<1>2. ~(step.sig_ok \cap DOMAIN TrueSets[k] \subseteq Byzantine)
  <2> SUFFICES ASSUME step.sig_ok \cap DOMAIN TrueSets[k] \subseteq Byzantine PROVE FALSE
    OBVIOUS
  <2>1. step.qc.signers \subseteq Byzantine /\ Quorum(TrueSets[k], step.qc.signers)
    BY DEF VerifyQuorumCert
  <2>2. Quorum(TrueSets[k], Byzantine)
    BY <1>1, <2>1, QuorumGrows
  <2> QED BY <2>2, ByzantineAssumption
<1>3. PICK i \in 1..Len(TrueSets) - 1 : step.header = TrueHeader(i)
  BY <1>2 DEF Provable, TrueHeaders
<1>4. TrueSets[i] = TrueSets[k] /\ step.next_vset = TrueSets[i + 1]
  BY <1>3 DEF TrueHeader
<1>5. i = k
  BY <1>4, TrueSetsAssumption
<1> QED BY <1>4, <1>5, TrueSetsAssumption

\* The sets named along a proof that verifies are those of the chain, in order.
LEMMA VerifiedProof ==
  ASSUME NEW p \in Proofs, NEW k \in DOMAIN TrueSets, VerifyEpochChange(p, TrueSets[k]), Len(p) > 0
  PROVE  /\ k + Len(p) \in DOMAIN TrueSets
         /\ p[Len(p)].next_vset = TrueSets[k + Len(p)]
<1> DEFINE Good(i) == k + i \in DOMAIN TrueSets /\ p[i].next_vset = TrueSets[k + i]
           Bad == {i \in 1..Len(p) : ~Good(i)}
<1>1. Len(p) \in Nat /\ DOMAIN p = 1..Len(p)
  BY ProofsAssumption
<1>2. SUFFICES ASSUME Bad # {} PROVE FALSE
  BY <1>1
<1>3. PICK i \in Bad : \A j \in Bad : i <= j
  <2> Bad \in SUBSET Nat
    OBVIOUS
  <2> HIDE DEF Bad
  <2> QED BY <1>2, LeastNatural
<1>4. i \in 1..Len(p)
  OBVIOUS
<1>5. Provable(p[i])
  BY <1>1, <1>4, ProofsAssumption
<1>6. i # 1 => i - 1 \in 1..Len(p) /\ Good(i - 1)
  BY <1>1, <1>3, <1>4
<1> DEFINE before == IF i = 1 THEN TrueSets[k] ELSE p[i - 1].next_vset
<1>7. /\ p[i].header.validators_hash = before
      /\ VerifyQuorumCert(p[i].qc, before, p[i].header.digest, p[i].sig_ok)
      /\ p[i].header.next_validators_hash = p[i].next_vset
  BY <1>1, <1>4 DEF VerifyEpochChange
<1>8. k \in Nat /\ i \in Nat
  BY <1>1, <1>4, TrueSetsAssumption
<1>9. k + i - 1 \in DOMAIN TrueSets /\ before = TrueSets[k + i - 1]
  <2>1. CASE i = 1
    BY <2>1, <1>8
  <2>2. CASE i # 1
    <3>1. k + (i - 1) = k + i - 1
      BY <1>8
    <3> QED BY <1>6, <2>2, <3>1
  <2> QED BY <2>1, <2>2
<1> HIDE DEF before
<1>10. k + i - 1 + 1 \in DOMAIN TrueSets /\ p[i].next_vset = TrueSets[k + i - 1 + 1]
  BY <1>5, <1>7, <1>9, VerifiedStep
<1>11. k + i - 1 + 1 = k + i
  BY <1>8
<1>12. Good(i)
  BY <1>10, <1>11
<1> QED BY <1>12

\* What the client believes, with the type of its counter.
ClientInv == verified \in Nat /\ verified + 1 \in DOMAIN TrueSets /\ trusted = TrueSets[verified + 1]

LEMMA ClientInvNext == ClientInv /\ [LightNext]_lvars => ClientInv'
<1> SUFFICES ASSUME ClientInv, [LightNext]_lvars PROVE ClientInv'
  OBVIOUS
<1>1. CASE UNCHANGED lvars
  BY <1>1 DEF lvars, ClientInv
<1>2. ASSUME NEW p \in Proofs, AcceptProof(p) PROVE ClientInv'
  <2> DEFINE k == verified + 1
  <2>1. Len(p) \in Nat /\ Len(p) > 0
    BY <1>2, ProofsAssumption DEF AcceptProof, VerifyEpochChange
  <2>2. k \in DOMAIN TrueSets /\ VerifyEpochChange(p, TrueSets[k])
    BY <1>2 DEF AcceptProof, ClientInv
  <2> HIDE DEF k
  <2>3. k + Len(p) \in DOMAIN TrueSets /\ p[Len(p)].next_vset = TrueSets[k + Len(p)]
    BY <2>1, <2>2, VerifiedProof
  <2>4. k + Len(p) = verified' + 1 /\ verified' \in Nat
    BY <1>2, <2>1 DEF AcceptProof, ClientInv, k
  <2> QED BY <1>2, <2>3, <2>4 DEF ClientInv, AcceptProof
<1> QED BY <1>1, <1>2 DEF LightNext

\* The light client follows the chain for every history of validator sets, every
\* set of Byzantine members that is no quorum of any of them, and every proof a
\* prover can put together from the signatures there are.
THEOREM LightClientSound == LightSpec => []ClientFollowsChain
<1>1. LightInit => ClientInv
  BY TrueSetsAssumption DEF LightInit, ClientInv
<1>2. ClientInv => ClientFollowsChain
  BY TrueSetsAssumption DEF ClientInv, ClientFollowsChain
<1> QED BY <1>1, <1>2, ClientInvNext, PTL DEF LightSpec

\* Both consumers of certificates are safe, whatever the other does.
THEOREM CertificatesAreSound == CertSpec /\ LightSpec => []CertificatesSound
BY AcksSound, LightClientSound, PTL DEF CertificatesSound

-----------------------------------------------------------------------------
(* The fee market *)

FeeSpec == FeeInit /\ [][FeeNext]_fvars

\* Integer division, as far as the formulas need it.
LEMMA DivBounds ==
  ASSUME NEW a \in Nat, NEW t \in Nat, t > 0
  PROVE  a \div t \in Nat /\ t * (a \div t) <= a /\ a < t * (a \div t) + t
OBVIOUS

LEMMA DivMonotone ==
  ASSUME NEW a \in Nat, NEW b \in Nat, a <= b, NEW t \in Nat, t > 0
  PROVE  a \div t <= b \div t
<1> DEFINE q == a \div t  r == b \div t
<1>1. q \in Nat /\ r \in Nat /\ t * q <= a /\ b < t * r + t
  BY DivBounds
<1> HIDE DEF q, r
<1>2. t * q < t * (r + 1)
  BY <1>1
<1>3. q < r + 1
  BY <1>1, <1>2
<1> QED BY <1>1, <1>3 DEF q, r

\* A share of at most the whole is at most the whole.
LEMMA ShareFits ==
  ASSUME NEW whole \in Nat, NEW part \in Nat, NEW of \in Nat, part <= of, of > 0
  PROVE  (whole * part) \div of \in Nat /\ (whole * part) \div of <= whole
<1>1. whole * part \in Nat
  OBVIOUS
<1> DEFINE q == (whole * part) \div of
<1>2. q \in Nat /\ of * q <= whole * part
  BY <1>1, DivBounds
<1> HIDE DEF q
<1>3. whole * part <= whole * of
  OBVIOUS
<1>4. of * q <= of * whole
  BY <1>1, <1>2, <1>3
<1>5. q <= whole
  BY <1>2, <1>4
<1> QED BY <1>2, <1>5 DEF q

\* The change of a fee for a load off target.
LEMMA FeeDelta ==
  ASSUME NEW fee \in Nat, NEW diff \in Nat, NEW target \in Nat, target > 0
  PROVE  /\ ComputeFeeDelta(fee, diff, target) \in Nat
         /\ diff <= target => ComputeFeeDelta(fee, diff, target) <= fee \div 8
<1>1. (fee * diff) \div target \in Nat
  <2>1. fee * diff \in Nat
    OBVIOUS
  <2> QED BY <2>1, DivBounds
<1>2. diff <= target => (fee * diff) \div target <= fee
  BY ShareFits
<1> QED BY <1>1, <1>2, DivBounds, DivMonotone DEF ComputeFeeDelta, BASE_FEE_CHANGE_DENOMINATOR

\* One block's base fee from the one before.
LEMMA BaseFeeStep ==
  ASSUME NEW fee \in Nat, NEW l \in Nat, NEW u \in 0..l
  PROVE  LET target == l \div 2
             new == CalculateBaseFee(fee, u, l)
         IN  /\ new \in Nat /\ new >= MIN_BASE_FEE_DROP
             /\ fee >= MIN_BASE_FEE_DROP /\ target > 0 =>
                  /\ u > target => new > fee
                  /\ u <= target => new <= fee
                  /\ l % 2 = 0 => /\ new - fee <= AtLeast(fee \div 8, 1)
                                  /\ fee - new <= fee \div 8
<1> DEFINE target == l \div 2
           new == CalculateBaseFee(fee, u, l)
           eighth == fee \div 8
<1>1. target \in Nat /\ 2 * target <= l /\ (l % 2 = 0 => l = 2 * target)
  OBVIOUS
<1>2. eighth \in Nat /\ eighth <= fee
  OBVIOUS
<1>3. MIN_BASE_FEE_DROP \in Nat
  BY FeeAssumption
<1>4. new = AtLeast(CASE target = 0 \/ u = target -> fee
                      [] target # 0 /\ u > target -> Increased(fee, u - target, target)
                      [] target # 0 /\ u < target -> fee - ComputeFeeDelta(fee, target - u, target),
                    MIN_BASE_FEE_DROP)
  BY DEF CalculateBaseFee, GAS_TARGET_DENOMINATOR
<1> HIDE DEF target, new, eighth
<1>5. CASE target = 0 \/ u = target
  <2>1. new = AtLeast(fee, MIN_BASE_FEE_DROP)
    BY <1>1, <1>4, <1>5
  <2> QED BY <1>1, <1>2, <1>3, <1>5, <2>1 DEF AtLeast, target, new, eighth
<1>6. CASE target # 0 /\ u > target
  <2> DEFINE delta == ComputeFeeDelta(fee, u - target, target)
  <2>1. new = AtLeast(Increased(fee, u - target, target), MIN_BASE_FEE_DROP)
    BY <1>1, <1>4, <1>6
  <2>2. delta \in Nat /\ (l % 2 = 0 => delta <= eighth)
    BY <1>1, <1>6, FeeDelta DEF eighth
  <2>3. Increased(fee, u - target, target) = fee + AtLeast(delta, 1)
    BY DEF Increased, MIN_BASE_FEE_DELTA_DROP
  <2> HIDE DEF delta
  <2>4. AtLeast(delta, 1) \in Nat /\ AtLeast(delta, 1) >= 1
        /\ (l % 2 = 0 => AtLeast(delta, 1) <= AtLeast(eighth, 1))
    BY <2>2, <1>2 DEF AtLeast
  <2>5. /\ new \in Nat /\ new >= MIN_BASE_FEE_DROP
        /\ fee >= MIN_BASE_FEE_DROP => new = fee + AtLeast(delta, 1)
    BY <2>1, <2>3, <2>4, <1>3 DEF AtLeast
  <2>6. AtLeast(eighth, 1) \in Nat
    BY <1>2 DEF AtLeast
  <2>7. fee >= MIN_BASE_FEE_DROP => new > fee /\ (l % 2 = 0 => new - fee <= AtLeast(eighth, 1))
                                     /\ fee - new <= eighth
    BY <2>4, <2>5, <2>6, <1>2
  <2> QED BY <1>1, <1>6, <2>5, <2>7 DEF target, new, eighth
<1>7. CASE target # 0 /\ u < target
  <2> DEFINE delta == ComputeFeeDelta(fee, target - u, target)
  <2>1. new = AtLeast(fee - delta, MIN_BASE_FEE_DROP)
    BY <1>1, <1>4, <1>7
  <2>2. delta \in Nat /\ delta <= eighth
    <3>1. target - u \in Nat /\ target - u <= target /\ target > 0
      BY <1>1, <1>7
    <3> QED BY <1>1, <3>1, FeeDelta DEF eighth
  <2> HIDE DEF delta
  <2>3. /\ new \in Nat /\ new >= MIN_BASE_FEE_DROP
        /\ fee >= MIN_BASE_FEE_DROP => new <= fee /\ fee - new <= eighth
    BY <2>1, <2>2, <1>2, <1>3 DEF AtLeast
  <2>4. AtLeast(eighth, 1) >= 0
    BY <1>2 DEF AtLeast
  <2>5. fee >= MIN_BASE_FEE_DROP => new - fee <= AtLeast(eighth, 1)
    BY <2>3, <2>4, <1>2 DEF AtLeast
  <2> QED BY <1>1, <1>7, <2>3, <2>5 DEF target, new, eighth
<1> QED BY <1>1, <1>5, <1>6, <1>7

\* The split of a fee adds up.
LEMMA SplitExact ==
  ASSUME FeeTypeOK
  PROVE  FeeSplitExact
<1>1. base_fee \in Nat /\ gas.used \in Nat
  BY FeeAssumption DEF FeeTypeOK
<1>2. ASSUME NEW used \in Nat, NEW fee \in Nat, NEW price \in Nat, price >= fee
      PROVE  /\ fee * used >= 0 /\ (price - fee) * used >= 0
             /\ fee * used + (price - fee) * used = used * price
  <2>1. price - fee \in Nat
    BY <1>2
  <2> DEFINE tip == price - fee
  <2>2. tip \in Nat /\ price = fee + tip
    BY <2>1
  <2> HIDE DEF tip
  <2>3. fee * used + tip * used = used * (fee + tip)
    BY <2>2
  <2>4. fee * used >= 0 /\ tip * used >= 0
    BY <2>2
  <2> QED BY <2>2, <2>3, <2>4 DEF tip
<1> QED BY <1>1, <1>2 DEF FeeSplitExact, DistributeFee

\* The base fee follows the load and the fees split exactly, for every floor, every
\* gas limit and every sequence of block loads.
THEOREM FeesAreSound == FeeSpec => FeesSound
<1>1. FeeInit => FeeTypeOK
  BY FeeAssumption DEF FeeInit, FeeTypeOK
<1>2. FeeTypeOK /\ [FeeNext]_fvars => FeeTypeOK'
  <2> SUFFICES ASSUME FeeTypeOK, [FeeNext]_fvars PROVE FeeTypeOK'
    OBVIOUS
  <2>1. CASE UNCHANGED fvars
    BY <2>1 DEF fvars, FeeTypeOK
  <2>2. CASE FeeNext
    BY <2>2, BaseFeeStep, FeeAssumption DEF FeeNext, FeeTypeOK
  <2> QED BY <2>1, <2>2
<1> DEFINE Follows ==
      LET target == gas'.limit \div 2
      IN  /\ base_fee' >= MIN_BASE_FEE_DROP
          /\ base_fee >= MIN_BASE_FEE_DROP /\ target > 0 =>
               /\ gas'.used > target => base_fee' > base_fee
               /\ gas'.used <= target => base_fee' <= base_fee
               /\ gas'.limit % 2 = 0 => /\ base_fee' - base_fee <= AtLeast(base_fee \div 8, 1)
                                        /\ base_fee - base_fee' <= base_fee \div 8
<1>3. FeeTypeOK /\ [FeeNext]_fvars => [Follows]_fvars
  <2> SUFFICES ASSUME FeeTypeOK, FeeNext PROVE Follows
    OBVIOUS
  <2>1. PICK l \in GasLimits : \E u \in 0..l :
          base_fee' = CalculateBaseFee(base_fee, u, l) /\ gas' = [used |-> u, limit |-> l]
    BY DEF FeeNext
  <2>2. PICK u \in 0..l :
          base_fee' = CalculateBaseFee(base_fee, u, l) /\ gas' = [used |-> u, limit |-> l]
    BY <2>1
  <2>3. l \in Nat /\ base_fee \in Nat /\ gas'.used = u /\ gas'.limit = l
    BY <2>2, FeeAssumption DEF FeeTypeOK
  <2> QED BY <2>2, <2>3, BaseFeeStep
<1>4. FeeTypeOK => FeeSplitExact
  BY SplitExact
<1> QED BY <1>1, <1>2, <1>3, <1>4, PTL DEF FeeSpec, FeesSound, BaseFeeFollowsLoad

-----------------------------------------------------------------------------
(* Validators: slashing *)

Rate == 0..MAX_FRACTION_BPS

LEMMA FractionFits ==
  ASSUME NEW amount \in Nat, NEW bps \in Rate
  PROVE  Fraction(amount, bps) \in Nat /\ Fraction(amount, bps) <= amount
<1>1. bps \in Nat /\ bps <= MAX_FRACTION_BPS /\ MAX_FRACTION_BPS \in Nat /\ MAX_FRACTION_BPS > 0
  BY RatesAssumption DEF Rate
<1> QED BY <1>1, ShareFits DEF Fraction

\* Unbonding entries of the type the code has.
Entries(P) == IsFiniteSet(DOMAIN P) /\ P \in [DOMAIN P -> UnbondingEntry]

\* The entries left are among those there were, with their dates.
DatesKept(P, Q) ==
    \A i \in DOMAIN Q : /\ i \in DOMAIN P
                        /\ Q[i].start_height = P[i].start_height
                        /\ Q[i].complete_time = P[i].complete_time

LEMMA BalanceSum ==
  ASSUME NEW P, Entries(P)
  PROVE  /\ \A i \in DOMAIN P : BalanceOf(P)[i] \in Nat
         /\ SumFunction(BalanceOf(P)) = SumFunctionOnSet(BalanceOf(P), DOMAIN P)
         /\ SumFunction(BalanceOf(P)) \in Nat
<1>1. \A i \in DOMAIN P : BalanceOf(P)[i] \in Nat
  BY DEF Entries, BalanceOf, UnbondingEntry
<1>2. DOMAIN BalanceOf(P) = DOMAIN P
  BY DEF BalanceOf
<1>3. SumFunction(BalanceOf(P)) = SumFunctionOnSet(BalanceOf(P), DOMAIN P)
  BY <1>2 DEF SumFunction
<1>4. SumFunctionOnSet(BalanceOf(P), DOMAIN P) \in Nat
  BY <1>1, SumMonotone DEF Entries
<1> QED BY <1>1, <1>3, <1>4

Hit(P, h) == {i \in DOMAIN P : AfterInfraction(P[i], h)}
CutOf(P, h, bps) == [i \in Hit(P, h) |-> Fraction(P[i].initial_balance, bps)]

\* Slashing entries takes exactly the fractions counted as burned.
LEMMA EntriesSlashed ==
  ASSUME NEW P, Entries(P), NEW h \in Nat, NEW bps \in Rate
  PROVE  /\ Entries(SlashEntries(P, h, bps))
         /\ DatesKept(P, SlashEntries(P, h, bps))
         /\ SumFunction(CutOf(P, h, bps)) \in Nat
         /\ SumFunction(BalanceOf(SlashEntries(P, h, bps)))
              = SumFunction(BalanceOf(P)) - SumFunction(CutOf(P, h, bps))
<1> DEFINE Q == SlashEntries(P, h, bps)
           B == Hit(P, h)
           cut == CutOf(P, h, bps)
<1>1. DOMAIN Q = DOMAIN P
  BY DEF SlashEntries
<1>2. ASSUME NEW i \in DOMAIN P
      PROVE  /\ P[i] \in UnbondingEntry /\ Q[i] \in UnbondingEntry
             /\ Q[i].start_height = P[i].start_height /\ Q[i].complete_time = P[i].complete_time
             /\ i \in B => /\ cut[i] \in Nat
                           /\ Q[i].initial_balance = P[i].initial_balance - cut[i]
             /\ i \notin B => Q[i].initial_balance = P[i].initial_balance
  <2>1. P[i] \in UnbondingEntry
    BY DEF Entries
  <2>2. P[i].initial_balance \in Nat
    BY <2>1 DEF UnbondingEntry
  <2> DEFINE fr == Fraction(P[i].initial_balance, bps)
  <2>3. fr \in Nat /\ fr <= P[i].initial_balance
    BY <2>2, FractionFits
  <2>4. CASE i \in B
    <3>1. Q[i] = [P[i] EXCEPT !.initial_balance = P[i].initial_balance - fr] /\ cut[i] = fr
      BY <2>1, <2>4 DEF SlashEntries, Hit, CutOf, UnbondingEntry
    <3>2. P[i].initial_balance - fr \in Nat
      BY <2>2, <2>3
    <3> HIDE DEF fr, Q, B, cut
    <3> QED BY <2>1, <2>3, <2>4, <3>1, <3>2 DEF UnbondingEntry
  <2>5. CASE i \notin B
    BY <2>1, <2>5 DEF SlashEntries, Hit
  <2> QED BY <2>1, <2>4, <2>5
<1>3. Entries(Q)
  <2>1. Q \in [DOMAIN P -> UnbondingEntry]
    BY <1>2 DEF SlashEntries
  <2> QED BY <1>1, <2>1 DEF Entries
<1>4. DatesKept(P, Q)
  BY <1>1, <1>2 DEF DatesKept
<1>5. B \in SUBSET DOMAIN P /\ IsFiniteSet(B) /\ DOMAIN cut = B /\ IsFiniteSet(DOMAIN P)
  BY FS_Subset DEF Entries, Hit, CutOf
<1> HIDE DEF Q, B, cut
<1>6. SumFunction(cut) = SumFunctionOnSet(cut, B) /\ SumFunction(cut) \in Nat
  <2>1. \A i \in B : cut[i] \in Nat
    BY <1>2, <1>5
  <2>2. SumFunctionOnSet(cut, B) \in Nat
    BY <1>5, <2>1, SumMonotone
  <2> QED BY <1>5, <2>2 DEF SumFunction
<1>7. /\ \A i \in DOMAIN P : BalanceOf(P)[i] \in Int
      /\ \A i \in B : cut[i] \in Int /\ BalanceOf(Q)[i] = BalanceOf(P)[i] - cut[i]
      /\ \A i \in DOMAIN P \ B : BalanceOf(Q)[i] = BalanceOf(P)[i]
  <2>1. \A i \in DOMAIN P : BalanceOf(P)[i] = P[i].initial_balance /\ BalanceOf(Q)[i] = Q[i].initial_balance
    BY <1>1 DEF BalanceOf
  <2>2. \A i \in DOMAIN P : P[i].initial_balance \in Nat
    BY <1>2 DEF UnbondingEntry
  <2>3. \A i \in B : i \in DOMAIN P
    BY <1>5
  <2> QED BY <1>2, <2>1, <2>2, <2>3
<1>8. SumFunctionOnSet(BalanceOf(Q), DOMAIN P) = SumFunctionOnSet(BalanceOf(P), DOMAIN P) - SumFunctionOnSet(cut, B)
  BY <1>5, <1>7, SumCut
<1>9. SumFunction(BalanceOf(Q)) = SumFunctionOnSet(BalanceOf(Q), DOMAIN P)
  BY <1>1, <1>3, BalanceSum
<1>10. SumFunction(BalanceOf(P)) = SumFunctionOnSet(BalanceOf(P), DOMAIN P)
  BY BalanceSum
<1> QED BY <1>3, <1>4, <1>6, <1>8, <1>9, <1>10 DEF Q, B, cut

\* The stake of a validator is a natural number.
LEMMA StakeNat ==
  ASSUME NEW v, IsValidator(v)
  PROVE  /\ Entries(v.pending_inactive)
         /\ v.active \in Nat /\ v.pending_active \in Nat /\ v.inactive \in Nat /\ v.delegated \in Nat
         /\ PendingInactive(v) = SumFunction(BalanceOf(v.pending_inactive))
         /\ PendingInactive(v) \in Nat /\ WholeStake(v) \in Nat
         /\ WholeStake(v) = v.active + v.pending_active + PendingInactive(v) + v.inactive
<1>1. Entries(v.pending_inactive)
  BY DEF IsValidator, Entries
<1>2. v.active \in Nat /\ v.pending_active \in Nat /\ v.inactive \in Nat /\ v.delegated \in Nat
  BY DEF IsValidator, Validator
<1>3. PendingInactive(v) \in Nat
  BY <1>1, BalanceSum DEF PendingInactive
<1> QED BY <1>1, <1>2, <1>3 DEF PendingInactive, WholeStake, TotalBonded

\* A record of the right type with the right entries is a validator.
LEMMA RecordStake ==
  ASSUME NEW Q, Entries(Q), NEW w \in Validator(Q)
  PROVE  /\ IsValidator(w) /\ w.pending_inactive = Q
         /\ WholeStake(w) = w.active + w.pending_active + SumFunction(BalanceOf(Q)) + w.inactive
<1>1. w.pending_inactive = Q
  BY DEF Validator
<1> QED BY <1>1 DEF IsValidator, Entries, WholeStake, TotalBonded, PendingInactive

\* Slashing burns exactly what it reports and keeps the dates of the entries.
LEMMA SlashExact ==
  ASSUME NEW v, IsValidator(v), NEW h \in Nat, NEW power \in Nat, NEW bps \in Rate
  PROVE  LET w == Slash(v, h, power, bps)
         IN  /\ IsValidator(w) /\ Burned(v, h, power, bps) \in Nat
             /\ WholeStake(w) = WholeStake(v) - Burned(v, h, power, bps)
             /\ DatesKept(v.pending_inactive, w.pending_inactive)
<1> DEFINE w == Slash(v, h, power, bps)
           P == v.pending_inactive
           Q == SlashEntries(P, h, bps)
           intended == Fraction(power, bps)
           act == IF v.active < intended THEN 0 ELSE v.active - intended
           taken == IF v.active < intended THEN v.active ELSE intended
           cut == SumFunction(CutOf(P, h, bps))
<1>1. v \in Validator(P) /\ Entries(P)
  BY StakeNat DEF IsValidator
<1>2. /\ v.active \in Nat /\ v.pending_active \in Nat /\ v.inactive \in Nat /\ v.jailed_until \in Nat
      /\ v.status \in {"Unbonded", "Bonded", "Unbonding"} /\ v.tombstoned \in BOOLEAN
  BY <1>1 DEF Validator
<1>3. intended \in Nat
  BY FractionFits
<1>4. act \in Nat /\ taken \in Nat /\ act = v.active - taken
  BY <1>2, <1>3
<1>5. /\ Entries(Q) /\ DatesKept(P, Q) /\ cut \in Nat
      /\ SumFunction(BalanceOf(Q)) = SumFunction(BalanceOf(P)) - cut
  BY <1>1, EntriesSlashed
<1>6. w \in Validator(Q) /\ w.active = act /\ w.pending_active = v.pending_active /\ w.inactive = v.inactive
  <2> HIDE DEF act, Q
  <2>1. w = [v EXCEPT !.active = act, !.pending_inactive = Q]
    BY <1>1 DEF Slash, Validator, act, Q
  <2> QED BY <1>1, <1>4, <2>1 DEF Validator
<1>7. Burned(v, h, power, bps) = taken + cut
  BY DEF Burned, CutOf, Hit
<1>8. WholeStake(v) = v.active + v.pending_active + SumFunction(BalanceOf(P)) + v.inactive
      /\ SumFunction(BalanceOf(P)) \in Nat
  BY StakeNat
<1> HIDE DEF w, P, Q, act, taken, cut
<1>9. /\ IsValidator(w) /\ w.pending_inactive = Q
      /\ WholeStake(w) = act + v.pending_active + SumFunction(BalanceOf(Q)) + v.inactive
  BY <1>5, <1>6, RecordStake
<1>10. WholeStake(w) = WholeStake(v) - Burned(v, h, power, bps)
  BY <1>2, <1>4, <1>5, <1>7, <1>8, <1>9
<1> QED BY <1>4, <1>5, <1>7, <1>9, <1>10 DEF w, P

\* So do the three faults, which jail or tombstone the validator besides.
Punished(v, w, burned) ==
    /\ IsValidator(w) /\ burned \in Nat
    /\ WholeStake(w) = WholeStake(v) - burned
    /\ DatesKept(v.pending_inactive, w.pending_inactive)

LEMMA TombstoneExact ==
  ASSUME NEW v, NEW w, NEW burned, Punished(v, w, burned)
  PROVE  Punished(v, Tombstone(w), burned)
<1> DEFINE u == Tombstone(w)
<1>1. w \in Validator(w.pending_inactive) /\ IsValidator(w)
  BY DEF Punished, IsValidator
<1>2. /\ u \in Validator(w.pending_inactive) /\ u.pending_inactive = w.pending_inactive
      /\ u.active = w.active /\ u.pending_active = w.pending_active /\ u.inactive = w.inactive
  BY <1>1 DEF Tombstone, Validator
<1> HIDE DEF u
<1>3. IsValidator(u)
  BY <1>1, <1>2 DEF IsValidator
<1>4. WholeStake(u) = WholeStake(w)
  BY <1>2 DEF WholeStake, TotalBonded, PendingInactive
<1> QED BY <1>2, <1>3, <1>4 DEF Punished, u

LEMMA JailExact ==
  ASSUME NEW v, NEW w, NEW burned, Punished(v, w, burned), NEW until \in Nat
  PROVE  Punished(v, Jail(w, until), burned)
<1> DEFINE u == Jail(w, until)
<1>1. w \in Validator(w.pending_inactive) /\ IsValidator(w)
  BY DEF Punished, IsValidator
<1>2. /\ u \in Validator(w.pending_inactive) /\ u.pending_inactive = w.pending_inactive
      /\ u.active = w.active /\ u.pending_active = w.pending_active /\ u.inactive = w.inactive
  BY <1>1 DEF Jail, Validator
<1> HIDE DEF u
<1>3. IsValidator(u)
  BY <1>1, <1>2 DEF IsValidator
<1>4. WholeStake(u) = WholeStake(w)
  BY <1>2 DEF WholeStake, TotalBonded, PendingInactive
<1> QED BY <1>2, <1>3, <1>4 DEF Punished, u

LEMMA FaultsExact ==
  ASSUME NEW v, IsValidator(v), NEW h \in Nat, NEW power \in Nat, NEW t \in Nat
  PROVE  /\ Punished(v, ApplyDowntime(v, h, power, t), Burned(v, h, power, DOWNTIME_SLASH_BPS))
         /\ Punished(v, ApplyWithholding(v, h, power, t), Burned(v, h, power, SHARE_WITHHOLDING_SLASH_BPS))
         /\ \A e : e.infraction_height = h /\ e.power = power =>
              Punished(v, ApplyDoubleSign(v, e), Burned(v, h, power, DOUBLE_SIGN_SLASH_BPS))
<1>1. ASSUME NEW bps \in Rate PROVE Punished(v, Slash(v, h, power, bps), Burned(v, h, power, bps))
  BY SlashExact DEF Punished
<1>2. /\ DOWNTIME_SLASH_BPS \in Rate /\ SHARE_WITHHOLDING_SLASH_BPS \in Rate /\ DOUBLE_SIGN_SLASH_BPS \in Rate
      /\ t + DOWNTIME_JAIL_DURATION_SECONDS \in Nat /\ t + SHARE_WITHHOLDING_JAIL_DURATION_SECONDS \in Nat
  BY RatesAssumption DEF Rate
<1>3. Punished(v, ApplyDowntime(v, h, power, t), Burned(v, h, power, DOWNTIME_SLASH_BPS))
  BY <1>1, <1>2, JailExact DEF ApplyDowntime
<1>4. Punished(v, ApplyWithholding(v, h, power, t), Burned(v, h, power, SHARE_WITHHOLDING_SLASH_BPS))
  BY <1>1, <1>2, JailExact DEF ApplyWithholding
<1>5. ASSUME NEW e, e.infraction_height = h, e.power = power
      PROVE  Punished(v, ApplyDoubleSign(v, e), Burned(v, h, power, DOUBLE_SIGN_SLASH_BPS))
  BY <1>1, <1>2, <1>5, TombstoneExact DEF ApplyDoubleSign
<1> QED BY <1>3, <1>4, <1>5

-----------------------------------------------------------------------------
(* Validators: rewards *)

LEMMA DivLower ==
  ASSUME NEW d \in Nat, d > 0, NEW q \in Nat, NEW n \in Nat, d * q <= n
  PROVE  q <= n \div d
<1> DEFINE r == n \div d
<1>1. r \in Nat /\ n < d * r + d
  BY DivBounds
<1> HIDE DEF r
<1>2. d * q < d * (r + 1)
  BY <1>1
<1>3. q < r + 1
  BY <1>1, <1>2
<1> QED BY <1>1, <1>3 DEF r

LEMMA CancelFactor ==
  ASSUME NEW t \in Nat, t > 0, NEW a \in Nat, NEW b \in Nat, t * a <= t * b
  PROVE  a <= b
OBVIOUS

\* The shares are naturals and together fit the pool: rounding each share down, and
\* each power before it, loses but never gains.
LEMMA SharesFit ==
  ASSUME NEW members, IsValidatorSet(members), NEW pool \in Nat
  PROVE  /\ \A a \in DOMAIN members : RewardShare(members, pool, a) \in Nat
         /\ Distributed(members, pool) \in Nat
         /\ Distributed(members, pool) <= pool
<1> DEFINE D == DROPS_PER_DRIP
           S == DOMAIN members
           M == SumFunctionOnSet(members, S)
           T == M \div D
           P == pool \div D
           w == [a \in S |-> members[a] \div D]
           q == [a \in S |-> (P * w[a]) \div T]
           share == [a \in S |-> RewardShare(members, pool, a)]
<1>1. D \in Nat /\ D > 0 /\ IsFiniteSet(S) /\ \A a \in S : members[a] \in Nat
  BY RatesAssumption DEF IsValidatorSet
<1>2. TotalPower(members) = M
  <2>1. DOMAIN members \cap DOMAIN members = S
    OBVIOUS
  <2> QED BY <2>1 DEF TotalPower, Accumulated
<1>3. \A a \in S : w[a] \in Nat /\ D * w[a] <= members[a] /\ w[a] = members[a] \div D
  <2>1. ASSUME NEW a \in S PROVE members[a] \div D \in Nat /\ D * (members[a] \div D) <= members[a]
    BY <1>1, DivBounds
  <2> QED BY <2>1
<1>4. P \in Nat /\ D * P <= pool
  BY <1>1, DivBounds
<1>5. M \in Nat
  BY <1>1, SumMonotone
<1>6. T \in Nat
  BY <1>1, <1>5, DivBounds
<1>7. \A a \in S : share[a] = IF T = 0 THEN 0 ELSE ((P * w[a]) \div T) * D
  BY <1>2 DEF RewardShare
<1>8. Distributed(members, pool) = SumFunctionOnSet(share, S)
  BY DEF Distributed, SumFunction
<1>9. \A a \in S : share[a] = RewardShare(members, pool, a)
  OBVIOUS
<1>10. \A a \in S : q[a] = (P * w[a]) \div T
  OBVIOUS
<1> HIDE DEF D, S, M, T, P, w, q, share
<1>11. CASE T = 0
  <2>1. \A a \in S : share[a] \in Nat /\ share[a] = 0
    BY <1>7, <1>11
  <2>2. \A a \in S : share[a] = 0 * share[a] /\ share[a] \in Int
    BY <2>1
  <2>3. SumFunctionOnSet(share, S) = 0 * SumFunctionOnSet(share, S)
    BY <1>1, <2>2, SumScale
  <2>4. SumFunctionOnSet(share, S) \in Nat
    BY <1>1, <2>1, SumMonotone
  <2> QED BY <1>8, <1>9, <2>1, <2>3, <2>4 DEF S
<1>12. CASE T # 0
  <2>1. \A a \in S : q[a] \in Nat /\ T * q[a] <= P * w[a] /\ P * w[a] \in Nat
    <3>1. ASSUME NEW a \in S
          PROVE  /\ P * w[a] \in Nat /\ (P * w[a]) \div T \in Nat
                 /\ T * ((P * w[a]) \div T) <= P * w[a]
      <4>1. P * w[a] \in Nat
        BY <1>3, <1>4
      <4> QED BY <4>1, <1>6, <1>12, DivBounds
    <3> QED BY <1>10, <3>1
  <2>2. \A a \in S : share[a] \in Nat /\ share[a] = D * q[a] /\ q[a] \in Int
    <3>1. \A m \in Nat : m * D \in Nat /\ m * D = D * m
      BY <1>1
    <3> QED BY <1>7, <1>10, <1>12, <2>1, <3>1
  <2> DEFINE W == SumFunctionOnSet(w, S)
             Q == SumFunctionOnSet(q, S)
             tq == [a \in S |-> T * q[a]]
             pw == [a \in S |-> P * w[a]]
             dw == [a \in S |-> D * w[a]]
  <2>3. W \in Nat /\ Q \in Nat
    BY <1>1, <1>3, <2>1, SumMonotone
  <2>4. D * W <= M
    <3>1. \A a \in S : dw[a] \in Nat /\ dw[a] = D * w[a] /\ dw[a] <= members[a] /\ members[a] \in Nat
                       /\ w[a] \in Int
      <4>1. \A m \in Nat : D * m \in Nat
        BY <1>1
      <4> QED BY <1>1, <1>3, <4>1
    <3> HIDE DEF dw
    <3>2. SumFunctionOnSet(dw, S) = D * W
      BY <1>1, <3>1, SumScale
    <3>3. SumFunctionOnSet(dw, S) <= M
      BY <1>1, <3>1, SumMonotone DEF M
    <3> QED BY <3>2, <3>3
  <2>5. W <= T
    BY <1>1, <1>5, <2>3, <2>4, DivLower DEF T
  <2>6. T * Q <= P * W
    <3>1. \A a \in S : /\ tq[a] \in Nat /\ tq[a] = T * q[a] /\ q[a] \in Int
                       /\ pw[a] \in Nat /\ pw[a] = P * w[a] /\ w[a] \in Int
                       /\ tq[a] <= pw[a]
      <4>1. \A m \in Nat : T * m \in Nat
        BY <1>6
      <4> QED BY <1>3, <2>1, <4>1
    <3> HIDE DEF tq, pw
    <3>2. SumFunctionOnSet(tq, S) = T * Q
      BY <1>1, <1>6, <3>1, SumScale
    <3>3. SumFunctionOnSet(pw, S) = P * W
      BY <1>1, <1>4, <3>1, SumScale
    <3>4. SumFunctionOnSet(tq, S) <= SumFunctionOnSet(pw, S)
      BY <1>1, <3>1, SumMonotone
    <3> QED BY <3>2, <3>3, <3>4
  <2>7. SumFunctionOnSet(share, S) = D * Q
    BY <1>1, <2>2, SumScale
  <2> HIDE DEF W, Q, tq, pw, dw
  <2>8. P * W <= P * T
    BY <1>4, <1>6, <2>3, <2>5
  <2>9. P * T = T * P /\ T * P \in Nat /\ P * W \in Nat /\ T * Q \in Nat
    BY <1>4, <1>6, <2>3
  <2>10. T * Q <= T * P
    BY <2>6, <2>8, <2>9
  <2>11. Q <= P
    BY <1>4, <1>6, <1>12, <2>3, <2>10, CancelFactor
  <2>12. D * Q <= D * P /\ D * Q \in Nat /\ D * P \in Nat
    BY <1>1, <1>4, <2>3, <2>11
  <2>13. D * Q <= pool
    BY <1>4, <2>12
  <2> QED BY <1>8, <1>9, <2>2, <2>7, <2>12, <2>13 DEF S
<1> QED BY <1>11, <1>12

-----------------------------------------------------------------------------
(* Validators: the epoch boundary *)

\* A validator whose stake changed by a gain, entries only removed.
Moved(v, w, gain) ==
    /\ IsValidator(w)
    /\ WholeStake(w) = WholeStake(v) + gain
    /\ DatesKept(v.pending_inactive, w.pending_inactive)

LEMMA PaidExact ==
  ASSUME NEW v, IsValidator(v), NEW share \in Nat
  PROVE  Moved(v, [v EXCEPT !.active = @ + share], share)
<1> DEFINE w == [v EXCEPT !.active = @ + share]  P == v.pending_inactive
<1>1. v \in Validator(P) /\ Entries(P) /\ v.active \in Nat
  BY StakeNat DEF IsValidator
<1>2. /\ w \in Validator(P) /\ w.active = v.active + share
      /\ w.pending_active = v.pending_active /\ w.inactive = v.inactive
  BY <1>1 DEF Validator
<1>3. /\ WholeStake(v) = v.active + v.pending_active + SumFunction(BalanceOf(P)) + v.inactive
      /\ SumFunction(BalanceOf(P)) \in Nat /\ v.pending_active \in Nat /\ v.inactive \in Nat
  BY StakeNat
<1> HIDE DEF w, P
<1>4. /\ IsValidator(w) /\ w.pending_inactive = P
      /\ WholeStake(w) = w.active + w.pending_active + SumFunction(BalanceOf(P)) + w.inactive
  BY <1>1, <1>2, RecordStake
<1>5. WholeStake(w) = WholeStake(v) + share
  BY <1>1, <1>2, <1>3, <1>4
<1>6. DatesKept(P, P)
  BY DEF DatesKept
<1> QED BY <1>4, <1>5, <1>6 DEF Moved, w, P

LEMMA SettleExact ==
  ASSUME NEW v, IsValidator(v), NEW t \in Nat
  PROVE  LET w == SettleExpiredUnbonding(v, t)
         IN  /\ Moved(v, w, 0)
             /\ w.status = v.status /\ w.tombstoned = v.tombstoned /\ w.jailed_until = v.jailed_until
<1> DEFINE P == v.pending_inactive
           done == {i \in DOMAIN P : Matured(P[i], t)}
           left == DOMAIN P \ done
           Q == Restrict(P, left)
           out == SumFunctionOnSet(BalanceOf(P), done)
           w == SettleExpiredUnbonding(v, t)
<1>1. v \in Validator(P) /\ Entries(P) /\ v.inactive \in Nat
  BY StakeNat DEF IsValidator
<1>2. w = [v EXCEPT !.inactive = v.inactive + out, !.pending_inactive = Q]
  BY <1>1 DEF SettleExpiredUnbonding, Validator
<1>3. done \in SUBSET DOMAIN P /\ left \in SUBSET DOMAIN P /\ left = DOMAIN P \ done
  OBVIOUS
<1>4. DOMAIN Q = left /\ \A i \in left : Q[i] = P[i]
  BY DEF Restrict
<1>5. Q = [i \in left |-> P[i]]
  BY DEF Restrict
<1> HIDE DEF done, left, Q, w
<1>6. IsFiniteSet(DOMAIN P) /\ IsFiniteSet(done) /\ IsFiniteSet(left)
  BY <1>1, <1>3, FS_Subset DEF Entries
<1>7. Entries(Q)
  BY <1>1, <1>3, <1>4, <1>5, <1>6 DEF Entries
<1>8. DatesKept(P, Q)
  BY <1>3, <1>4 DEF DatesKept
<1>9. \A i \in DOMAIN P : BalanceOf(P)[i] \in Nat /\ BalanceOf(P)[i] \in Int
  BY <1>1, BalanceSum
<1>10. out \in Nat
  BY <1>3, <1>6, <1>9, SumMonotone
<1>11. SumFunction(BalanceOf(P)) = out + SumFunctionOnSet(BalanceOf(P), left)
  BY <1>1, <1>3, <1>6, <1>9, SumSplit, BalanceSum
<1>12. SumFunctionOnSet(BalanceOf(P), left) = SumFunction(BalanceOf(Q))
  <2>1. \A i \in left : BalanceOf(P)[i] \in Int /\ BalanceOf(P)[i] = BalanceOf(Q)[i]
    BY <1>3, <1>4, <1>9 DEF BalanceOf
  <2>2. SumFunctionOnSet(BalanceOf(P), left) = SumFunctionOnSet(BalanceOf(Q), left)
    BY <1>6, <2>1, SumEqual
  <2> QED BY <2>2, <1>4, <1>7, BalanceSum
<1> HIDE DEF out
<1>13. /\ w \in Validator(Q) /\ w.active = v.active /\ w.pending_active = v.pending_active
       /\ w.inactive = v.inactive + out
       /\ w.status = v.status /\ w.tombstoned = v.tombstoned /\ w.jailed_until = v.jailed_until
  <2> DEFINE total == v.inactive + out
  <2>1. total \in Nat
    BY <1>1, <1>10
  <2> HIDE DEF total
  <2>2. w = [v EXCEPT !.inactive = total, !.pending_inactive = Q]
    BY <1>2 DEF total
  <2>3. w \in Validator(Q)
    BY <1>1, <2>1, <2>2 DEF Validator
  <2>4. /\ w.active = v.active /\ w.pending_active = v.pending_active /\ w.inactive = total
        /\ w.status = v.status /\ w.tombstoned = v.tombstoned /\ w.jailed_until = v.jailed_until
    BY <1>1, <2>2 DEF Validator
  <2> QED BY <2>3, <2>4 DEF total
<1>14. /\ WholeStake(v) = v.active + v.pending_active + SumFunction(BalanceOf(P)) + v.inactive
       /\ SumFunction(BalanceOf(P)) \in Nat /\ v.pending_active \in Nat /\ v.active \in Nat
  BY StakeNat
<1>15. SumFunction(BalanceOf(Q)) \in Nat
  BY <1>7, BalanceSum
<1> HIDE DEF P
<1>16. /\ IsValidator(w) /\ w.pending_inactive = Q
       /\ WholeStake(w) = w.active + w.pending_active + SumFunction(BalanceOf(Q)) + w.inactive
  BY <1>7, <1>13, RecordStake
<1>17. WholeStake(w) = WholeStake(v) + 0
  BY <1>1, <1>10, <1>11, <1>12, <1>13, <1>14, <1>15, <1>16
<1> QED BY <1>8, <1>13, <1>16, <1>17 DEF Moved, w, P

LEMMA ActivateExact ==
  ASSUME NEW v, IsValidator(v)
  PROVE  LET w == ActivatePendingStake(v)
         IN  /\ Moved(v, w, 0)
             /\ w.status = v.status /\ w.tombstoned = v.tombstoned /\ w.jailed_until = v.jailed_until
<1> DEFINE w == ActivatePendingStake(v)  P == v.pending_inactive
<1>1. v \in Validator(P) /\ Entries(P) /\ v.active \in Nat /\ v.pending_active \in Nat
  BY StakeNat DEF IsValidator
<1>2. /\ w \in Validator(P) /\ w.active = v.active + v.pending_active
      /\ w.pending_active = 0 /\ w.inactive = v.inactive
      /\ w.status = v.status /\ w.tombstoned = v.tombstoned /\ w.jailed_until = v.jailed_until
  <2> DEFINE total == v.active + v.pending_active
  <2>1. total \in Nat
    BY <1>1
  <2>2. w = [v EXCEPT !.active = total, !.pending_active = 0]
    BY <1>1 DEF Validator, ActivatePendingStake
  <2> HIDE DEF total, w, P
  <2>3. w \in Validator(P)
    BY <1>1, <2>1, <2>2 DEF Validator
  <2>4. /\ w.active = total /\ w.pending_active = 0 /\ w.inactive = v.inactive
        /\ w.status = v.status /\ w.tombstoned = v.tombstoned /\ w.jailed_until = v.jailed_until
    BY <1>1, <2>2 DEF Validator
  <2> QED BY <2>3, <2>4 DEF total
<1>3. /\ WholeStake(v) = v.active + v.pending_active + SumFunction(BalanceOf(P)) + v.inactive
      /\ SumFunction(BalanceOf(P)) \in Nat /\ v.inactive \in Nat
  BY StakeNat
<1> HIDE DEF w, P
<1>4. /\ IsValidator(w) /\ w.pending_inactive = P
      /\ WholeStake(w) = w.active + w.pending_active + SumFunction(BalanceOf(P)) + w.inactive
  BY <1>1, <1>2, RecordStake
<1>5. WholeStake(w) = WholeStake(v) + 0
  BY <1>1, <1>2, <1>3, <1>4
<1>6. DatesKept(P, P)
  BY DEF DatesKept
<1> QED BY <1>2, <1>4, <1>5, <1>6 DEF Moved, w, P

\* The new status, and who can be a member with it.
LEMMA StatusExact ==
  ASSUME NEW v, IsValidator(v), NEW t \in Nat
  PROVE  LET w == UpdateValidatorStatus(v, t)
         IN  /\ Moved(v, w, 0)
             /\ IsActive(w) => ~v.tombstoned /\ v.jailed_until <= t /\ w.active >= MinStake
<1> DEFINE w == UpdateValidatorStatus(v, t)  P == v.pending_inactive
           jail == IF Served(v, t) THEN 0 ELSE v.jailed_until
<1>1. v \in Validator(P) /\ Entries(P) /\ v.active \in Nat /\ v.jailed_until \in Nat
  BY StakeNat DEF IsValidator, Validator
<1>2. v.status \in {"Unbonded", "Bonded", "Unbonding"} /\ v.tombstoned \in BOOLEAN
  BY <1>1 DEF Validator
<1>3. NextStatus(v) \in {"Unbonded", "Bonded", "Unbonding"}
  BY <1>2 DEF NextStatus
<1>4. NextStatus(v) = "Bonded" /\ ~v.tombstoned => v.active >= MinStake
  BY <1>1, <1>2, RatesAssumption DEF NextStatus
<1>5. jail \in Nat /\ (jail = 0 => v.jailed_until <= t)
  BY <1>1 DEF Served
<1>6. w = [v EXCEPT !.jailed_until = jail, !.status = NextStatus(v)]
  BY <1>1 DEF UpdateValidatorStatus, Validator
<1>7. /\ WholeStake(v) = v.active + v.pending_active + SumFunction(BalanceOf(P)) + v.inactive
      /\ SumFunction(BalanceOf(P)) \in Nat /\ v.inactive \in Nat /\ v.pending_active \in Nat
  BY StakeNat
<1> HIDE DEF jail, w, P
<1>8. /\ w \in Validator(P) /\ w.active = v.active /\ w.pending_active = v.pending_active /\ w.inactive = v.inactive
      /\ w.status = NextStatus(v) /\ w.tombstoned = v.tombstoned /\ w.jailed_until = jail
  BY <1>1, <1>3, <1>5, <1>6 DEF Validator
<1>9. /\ IsValidator(w) /\ w.pending_inactive = P
      /\ WholeStake(w) = w.active + w.pending_active + SumFunction(BalanceOf(P)) + w.inactive
  BY <1>1, <1>8, RecordStake
<1>10. WholeStake(w) = WholeStake(v) + 0
  BY <1>1, <1>7, <1>8, <1>9
<1>11. DatesKept(P, P)
  BY DEF DatesKept
<1>12. IsActive(w) => ~v.tombstoned /\ v.jailed_until <= t /\ w.active >= MinStake
  BY <1>4, <1>5, <1>8 DEF IsActive
<1> QED BY <1>9, <1>10, <1>11, <1>12 DEF Moved, w, P

LEMMA MovedTwice ==
  ASSUME NEW u, NEW v, NEW w, IsValidator(u), NEW gain \in Nat, Moved(u, v, gain), Moved(v, w, 0)
  PROVE  Moved(u, w, gain)
<1>1. WholeStake(u) \in Nat
  BY StakeNat
<1>2. WholeStake(w) = WholeStake(u) + gain
  BY <1>1 DEF Moved
<1>3. DatesKept(u.pending_inactive, w.pending_inactive)
  BY DEF Moved, DatesKept
<1> QED BY <1>2, <1>3 DEF Moved

\* What an epoch boundary does to one validator with its share of the rewards.
LEMMA BoundaryExact ==
  ASSUME NEW v, IsValidator(v), NEW share \in Nat, NEW paid, NEW t \in Nat,
         Moved(v, paid, share),
         paid.tombstoned = v.tombstoned, paid.jailed_until = v.jailed_until
  PROVE  LET w == UpdateValidatorStatus(ActivatePendingStake(SettleExpiredUnbonding(paid, t)), t)
         IN  /\ Moved(v, w, share)
             /\ IsActive(w) => ~v.tombstoned /\ v.jailed_until <= t /\ w.active >= MinStake
<1> DEFINE x == SettleExpiredUnbonding(paid, t)
           y == ActivatePendingStake(x)
           z == UpdateValidatorStatus(y, t)
<1>1. IsValidator(paid)
  BY DEF Moved
<1>2. Moved(paid, x, 0) /\ x.tombstoned = v.tombstoned /\ x.jailed_until = v.jailed_until
  BY <1>1, SettleExact
<1> HIDE DEF x
<1>3. IsValidator(x)
  BY <1>2 DEF Moved
<1>4. Moved(x, y, 0) /\ y.tombstoned = v.tombstoned /\ y.jailed_until = v.jailed_until
  BY <1>2, <1>3, ActivateExact
<1> HIDE DEF y
<1>5. IsValidator(y)
  BY <1>4 DEF Moved
<1>6. Moved(y, z, 0) /\ (IsActive(z) => ~y.tombstoned /\ y.jailed_until <= t /\ z.active >= MinStake)
  BY <1>5, StatusExact
<1> HIDE DEF z
<1>7. Moved(v, x, share)
  BY <1>2, MovedTwice
<1>8. Moved(v, y, share)
  BY <1>4, <1>7, MovedTwice
<1>9. Moved(v, z, share)
  BY <1>6, <1>8, MovedTwice
<1> QED BY <1>4, <1>6, <1>9 DEF x, y, z

-----------------------------------------------------------------------------
(* The signed-blocks window *)

Missed(w) == {i \in DOMAIN w.bits : ~w.bits[i]}
WindowExact(w) == w \in Window /\ w.missed_count = Cardinality(Missed(w))

LEMMA NewWindowExact == WindowExact(NewWindow)
<1>1. Missed(NewWindow) = {} /\ NewWindow.missed_count = 0
  BY DEF Missed, NewWindow
<1>2. NewWindow \in Window
  BY DEF NewWindow, Window, NoBreach
<1> QED BY <1>1, <1>2, FS_EmptySet DEF WindowExact

\* Overwriting one slot changes the count by what it changes in the window.
LEMMA RecordExact ==
  ASSUME NEW w, WindowExact(w), NEW h \in Nat, NEW signed_ok \in BOOLEAN
  PROVE  WindowExact(RecordBlock(w, h, signed_ok))
<1> DEFINE slot == h % SIGNED_BLOCKS_WINDOW
           Slots == 0..SIGNED_BLOCKS_WINDOW - 1
           v == RecordBlock(w, h, signed_ok)
<1>1. slot \in Slots /\ IsFiniteSet(Slots)
  BY RatesAssumption, FS_Interval
<1>2. w.bits \in [Slots -> BOOLEAN] /\ w.missed_count \in Nat
      /\ w.last_breach_height \in Nat \cup {NoBreach}
  BY DEF WindowExact, Window
<1>3. v.bits = [w.bits EXCEPT ![slot] = signed_ok] /\ v.missed_count = Counted(w, slot, signed_ok)
      /\ v.last_breach_height \in {h, w.last_breach_height}
      /\ v = [bits |-> v.bits, missed_count |-> v.missed_count, last_breach_height |-> v.last_breach_height]
  BY DEF RecordBlock
<1> HIDE DEF slot, Slots, v
<1>4. v.bits \in [Slots -> BOOLEAN]
  BY <1>1, <1>2, <1>3
<1>5. IsFiniteSet(Missed(w)) /\ Cardinality(Missed(w)) \in Nat /\ Cardinality(Missed(w)) = w.missed_count
  <2>1. Missed(w) \subseteq Slots
    BY <1>2 DEF Missed
  <2> QED BY <1>1, <2>1, FS_Subset, FS_CardinalityType DEF WindowExact
<1>6. v.missed_count = Cardinality(Missed(v)) /\ v.missed_count \in Nat
  <2>1. CASE w.bits[slot] /\ ~signed_ok
    <3>1. Missed(v) = Missed(w) \cup {slot} /\ slot \notin Missed(w)
      BY <1>1, <1>2, <1>3, <2>1 DEF Missed
    <3>2. Cardinality(Missed(v)) = Cardinality(Missed(w)) + 1
      BY <1>5, <3>1, FS_AddElement
    <3>3. v.missed_count = w.missed_count + 1
      BY <1>3, <2>1 DEF Counted
    <3> QED BY <1>2, <1>5, <3>2, <3>3
  <2>2. CASE ~w.bits[slot] /\ signed_ok
    <3>1. Missed(v) = Missed(w) \ {slot} /\ slot \in Missed(w)
      BY <1>1, <1>2, <1>3, <2>2 DEF Missed
    <3>2. Cardinality(Missed(v)) = Cardinality(Missed(w)) - 1
      BY <1>5, <3>1, FS_RemoveElement
    <3>3. w.missed_count # 0
      BY <1>5, <3>1, FS_EmptySet
    <3>4. v.missed_count = w.missed_count - 1
      BY <1>3, <2>2, <3>3 DEF Counted
    <3> QED BY <1>2, <1>5, <3>2, <3>3, <3>4
  <2>3. CASE w.bits[slot] = signed_ok
    <3>1. v.bits = w.bits
      BY <1>1, <1>2, <1>3, <2>3
    <3>2. Missed(v) = Missed(w)
      BY <3>1 DEF Missed
    <3>3. v.missed_count = w.missed_count
      BY <1>3, <2>3 DEF Counted
    <3> QED BY <1>2, <1>5, <3>2, <3>3
  <2> QED BY <1>1, <1>2, <2>1, <2>2, <2>3
<1>7. v \in Window
  <2>1. v.last_breach_height \in Nat \cup {NoBreach}
    BY <1>2, <1>3
  <2> QED BY <1>3, <1>4, <1>6, <2>1 DEF Window, Slots
<1> QED BY <1>6, <1>7 DEF WindowExact, v

-----------------------------------------------------------------------------
(* The total stake *)

Vals(vals) == vals = [a \in Addresses |-> vals[a]] /\ \A a \in Addresses : IsValidator(vals[a])

LEMMA StakeOfSum ==
  ASSUME NEW vals, Vals(vals)
  PROVE  LET f == [a \in Addresses |-> WholeStake(vals[a])]
         IN  /\ StakeOf(vals) = SumFunctionOnSet(f, Addresses)
             /\ \A a \in Addresses : f[a] \in Nat
             /\ StakeOf(vals) \in Nat
<1> DEFINE f == [a \in Addresses |-> WholeStake(vals[a])]
<1>1. DOMAIN vals = Addresses
  <2>1. vals = [a \in Addresses |-> vals[a]]
    BY DEF Vals
  <2> QED BY <2>1
<1>2. StakeOf(vals) = SumFunctionOnSet(f, Addresses)
  BY <1>1 DEF StakeOf, SumFunction
<1>3. \A a \in Addresses : f[a] \in Nat
  BY StakeNat DEF Vals
<1>4. IsFiniteSet(Addresses)
  BY GenesisAssumption DEF Addresses
<1> HIDE DEF f
<1>5. SumFunctionOnSet(f, Addresses) \in Nat
  BY <1>3, <1>4, SumMonotone
<1> QED BY <1>2, <1>3, <1>5 DEF f

\* The stake after punishing some validators is what was there less what was burned.
LEMMA StakeCut ==
  ASSUME NEW vals, Vals(vals), NEW new, Vals(new), NEW B \in SUBSET Addresses, NEW b,
         DOMAIN b = B,
         \A a \in B : Punished(vals[a], new[a], b[a]),
         \A a \in Addresses \ B : new[a] = vals[a]
  PROVE  StakeOf(new) = StakeOf(vals) - SumFunction(b)
<1> DEFINE f == [a \in Addresses |-> WholeStake(vals[a])]
           g == [a \in Addresses |-> WholeStake(new[a])]
<1>1. IsFiniteSet(Addresses)
  BY GenesisAssumption DEF Addresses
<1>2. /\ StakeOf(vals) = SumFunctionOnSet(f, Addresses) /\ StakeOf(new) = SumFunctionOnSet(g, Addresses)
      /\ \A a \in Addresses : f[a] \in Nat /\ f[a] \in Int
  BY StakeOfSum
<1>3. \A a \in B : b[a] \in Int /\ g[a] = f[a] - b[a]
  BY DEF Punished
<1>4. \A a \in Addresses \ B : g[a] = f[a]
  OBVIOUS
<1> HIDE DEF f, g
<1>5. SumFunctionOnSet(g, Addresses) = SumFunctionOnSet(f, Addresses) - SumFunctionOnSet(b, B)
  BY <1>1, <1>2, <1>3, <1>4, SumCut
<1> QED BY <1>2, <1>5 DEF SumFunction

\* The stake after rewards is what was there and the rewards.
LEMMA StakePaid ==
  ASSUME NEW vals, Vals(vals), NEW new, Vals(new), NEW B \in SUBSET Addresses, NEW b,
         DOMAIN b = B,
         \A a \in B : b[a] \in Nat /\ Moved(vals[a], new[a], b[a]),
         \A a \in Addresses \ B : Moved(vals[a], new[a], 0)
  PROVE  StakeOf(new) = StakeOf(vals) + SumFunction(b)
<1> DEFINE f == [a \in Addresses |-> WholeStake(vals[a])]
           g == [a \in Addresses |-> WholeStake(new[a])]
<1>1. IsFiniteSet(Addresses) /\ IsFiniteSet(B)
  BY GenesisAssumption, FS_Subset DEF Addresses
<1>2. /\ StakeOf(vals) = SumFunctionOnSet(f, Addresses) /\ StakeOf(new) = SumFunctionOnSet(g, Addresses)
      /\ \A a \in Addresses : f[a] \in Nat /\ g[a] \in Nat /\ g[a] \in Int
      /\ StakeOf(vals) \in Nat /\ StakeOf(new) \in Nat
  BY StakeOfSum
<1>3. \A a \in B : b[a] \in Int /\ g[a] = f[a] + b[a]
  BY DEF Moved
<1>4. \A a \in Addresses \ B : g[a] = f[a] + 0
  BY DEF Moved
<1> HIDE DEF f, g
<1>5. \A a \in B : b[a] \in Int /\ f[a] = g[a] - b[a]
  BY <1>2, <1>3
<1>6. \A a \in Addresses \ B : f[a] = g[a]
  BY <1>2, <1>4
<1>7. SumFunctionOnSet(f, Addresses) = SumFunctionOnSet(g, Addresses) - SumFunctionOnSet(b, B)
  BY <1>1, <1>2, <1>5, <1>6, SumCut
<1>8. SumFunctionOnSet(b, B) \in Nat
  BY <1>1, SumMonotone
<1> QED BY <1>2, <1>7, <1>8 DEF SumFunction

-----------------------------------------------------------------------------
(* Epochs: the inductive invariant *)

EpochSpec == EpochInit /\ [][EpochNext]_evars

CommitteeOK ==
    /\ epoch \in [number : Nat, start_height : Nat, start_timestamp : Nat, members : {epoch.members}]
    /\ Members \subseteq Addresses /\ Members # {} /\ \A a \in Members : epoch.members[a] \in Nat

RecordsOK ==
    /\ height \in Nat /\ time \in Nat /\ supply \in Nat /\ halted \in BOOLEAN
    /\ offences \subseteq Infraction
    /\ dedup \subseteq Addresses \X Nat /\ recovered \subseteq Nat \X Nat

WindowsOK ==
    windows = [a \in Addresses |-> windows[a]] /\ \A a \in Addresses : WindowExact(windows[a])

\* Evidence of an offence lasts at least as long as the unbonding of any stake that
\* began to unbond after it; nothing is dated in the future.
EntryDated(e) ==
    /\ e.start_height <= height
    /\ e.start_height \in Nat /\ e.complete_time \in Nat
EntryOutlived(o, e) ==
    e.start_height > o.infraction_height => e.complete_time >= o.infraction_time + EVIDENCE_MAX_AGE_SECONDS
DatesOK ==
    /\ \A o \in offences : o.infraction_height <= height /\ o.infraction_time <= time
    /\ \A a \in Addresses : \A i \in DOMAIN validators[a].pending_inactive :
         EntryDated(validators[a].pending_inactive[i])
    /\ \A o \in offences : \A i \in DOMAIN validators[o.validator].pending_inactive :
         EntryOutlived(o, validators[o.validator].pending_inactive[i])
    /\ \A r \in released : r.start_height <= height /\ r.start_height \in Nat

EpochInv ==
    /\ Vals(validators) /\ CommitteeOK /\ RecordsOK /\ WindowsOK /\ DatesOK
    /\ SupplyConserved /\ EvidenceOutlivesUnbonding

\* The members of a committee taken from validator records are a validator set.
LEMMA CommitteeFromActive ==
  ASSUME NEW vals, Vals(vals)
  PROVE  /\ DOMAIN FromActiveValidators(vals) \subseteq Addresses
         /\ \A a \in DOMAIN FromActiveValidators(vals) :
              FromActiveValidators(vals)[a] \in Nat /\ IsActive(vals[a])
<1>1. DOMAIN vals = Addresses
  <2>1. vals = [a \in Addresses |-> vals[a]]
    BY DEF Vals
  <2> QED BY <2>1
<1>2. \A a \in Addresses : VotingPower(vals[a]) \in Nat
  BY StakeNat DEF Vals, VotingPower
<1> QED BY <1>1, <1>2 DEF FromActiveValidators

LEMMA MembersAreSet == CommitteeOK => IsValidatorSet(epoch.members) /\ IsFiniteSet(Members)
BY GenesisAssumption, FS_Subset DEF CommitteeOK, IsValidatorSet, Members, Addresses

LEMMA EpochInvInit == EpochInit => EpochInv
<1> SUFFICES ASSUME EpochInit PROVE EpochInv
  OBVIOUS
<1>1. Vals(GenesisValidators)
  <2>1. GenesisValidators = [a \in Addresses |-> GenesisValidators[a]]
    BY GenesisAssumption DEF Addresses
  <2> QED BY <2>1, GenesisAssumption DEF Vals, Addresses
<1>2. StakeOf(GenesisValidators) \in Nat
  BY <1>1, StakeOfSum, ZenonT(30)
<1>3. CommitteeOK
  <2>1. epoch \in [number : Nat, start_height : Nat, start_timestamp : Nat, members : {epoch.members}]
        /\ epoch.members = FromActiveValidators(GenesisValidators)
    BY DEF EpochInit
  <2>2. DOMAIN epoch.members # {}
    BY <2>1, GenesisAssumption DEF FromActiveValidators
  <2> QED BY <1>1, <2>1, <2>2, CommitteeFromActive DEF CommitteeOK, Members
<1>4. WindowsOK
  BY NewWindowExact DEF EpochInit, WindowsOK
<1>5. DatesOK
  <2>1. \A a \in Addresses : \A i \in DOMAIN validators[a].pending_inactive :
          /\ validators[a].pending_inactive[i].start_height = 0
          /\ validators[a].pending_inactive[i] \in UnbondingEntry
    BY GenesisAssumption DEF EpochInit, Addresses, IsValidator
  <2> QED BY <2>1 DEF EpochInit, DatesOK, EntryDated, UnbondingEntry
<1>6. RecordsOK
  BY <1>2 DEF EpochInit, RecordsOK
<1> QED BY <1>1, <1>3, <1>4, <1>5, <1>6 DEF EpochInv, EpochInit, SupplyConserved, EvidenceOutlivesUnbonding

\* Steps that keep the dates of all entries and report no new offence.
LEMMA DatesStep ==
  ASSUME EpochInv, Vals(validators'), offences' = offences,
         height' \in Nat, height' >= height, time' \in Nat, time' >= time,
         \A a \in Addresses : DatesKept(validators[a].pending_inactive, validators'[a].pending_inactive)
  PROVE  /\ \A o \in offences' : o.infraction_height <= height' /\ o.infraction_time <= time'
         /\ \A a \in Addresses : \A i \in DOMAIN validators'[a].pending_inactive :
              EntryDated(validators[a].pending_inactive[i])'
         /\ \A o \in offences' : \A i \in DOMAIN validators'[o.validator].pending_inactive :
              EntryOutlived(o, validators'[o.validator].pending_inactive[i])
<1>1. height \in Nat /\ time \in Nat /\ offences \subseteq Infraction
  BY DEF EpochInv, RecordsOK
<1>2. \A o \in offences : o.infraction_height \in Nat /\ o.infraction_time \in Nat /\ o.validator \in Addresses
  BY <1>1 DEF Infraction
<1>3. \A o \in offences' : o.infraction_height <= height' /\ o.infraction_time <= time'
  BY <1>1, <1>2 DEF EpochInv, DatesOK
<1>4. ASSUME NEW a \in Addresses, NEW i \in DOMAIN validators'[a].pending_inactive
      PROVE  EntryDated(validators[a].pending_inactive[i])'
  <2>1. /\ i \in DOMAIN validators[a].pending_inactive
        /\ validators'[a].pending_inactive[i].start_height = validators[a].pending_inactive[i].start_height
        /\ validators'[a].pending_inactive[i].complete_time = validators[a].pending_inactive[i].complete_time
    BY DEF DatesKept
  <2>2. EntryDated(validators[a].pending_inactive[i])
    BY <2>1 DEF EpochInv, DatesOK
  <2> QED BY <1>1, <2>1, <2>2 DEF EntryDated
<1>5. ASSUME NEW o \in offences', NEW i \in DOMAIN validators'[o.validator].pending_inactive
      PROVE  EntryOutlived(o, validators'[o.validator].pending_inactive[i])
  <2> DEFINE a == o.validator
  <2>0. a \in Addresses
    BY <1>2
  <2>1. /\ i \in DOMAIN validators[a].pending_inactive
        /\ validators'[a].pending_inactive[i].start_height = validators[a].pending_inactive[i].start_height
        /\ validators'[a].pending_inactive[i].complete_time = validators[a].pending_inactive[i].complete_time
    BY <2>0 DEF DatesKept
  <2>2. EntryOutlived(o, validators[a].pending_inactive[i])
    BY <2>1 DEF EpochInv, DatesOK
  <2> QED BY <2>1, <2>2 DEF EntryOutlived
<1> QED BY <1>3, <1>4, <1>5

\* Putting the parts of the invariant together after such a step.
LEMMA DatesAfter ==
  ASSUME EpochInv, Vals(validators'), offences' = offences,
         height' \in Nat, height' >= height, time' \in Nat, time' >= time, released' = released,
         \A a \in Addresses : DatesKept(validators[a].pending_inactive, validators'[a].pending_inactive)
  PROVE  DatesOK' /\ EvidenceOutlivesUnbonding'
<1>1. \A r \in released' : r.start_height <= height' /\ r.start_height \in Nat
  BY DEF EpochInv, DatesOK, RecordsOK
<1>2. EvidenceOutlivesUnbonding'
  BY DEF EpochInv, EvidenceOutlivesUnbonding
<1> QED BY <1>1, <1>2, DatesStep DEF DatesOK

LEMMA SameDates == \A P : DatesKept(P, P)
BY DEF DatesKept

\* Validators after one or several were punished, the rest untouched.
LEMMA AfterPunishment ==
  ASSUME EpochInv, ~halted, halted' = halted, NEW B \in SUBSET Addresses, NEW b, DOMAIN b = B,
         validators' = [a \in Addresses |-> validators'[a]],
         \A a \in B : Punished(validators[a], validators'[a], b[a]),
         \A a \in Addresses \ B : validators'[a] = validators[a],
         supply' = supply - SumFunction(b)
  PROVE  /\ Vals(validators') /\ SupplyConserved' /\ supply' \in Nat
         /\ \A a \in Addresses : DatesKept(validators[a].pending_inactive, validators'[a].pending_inactive)
<1>1. Vals(validators')
  <2>1. \A a \in Addresses : IsValidator(validators'[a])
    BY DEF EpochInv, Vals, Punished
  <2> QED BY <2>1 DEF Vals
<1>2. StakeOf(validators') = StakeOf(validators) - SumFunction(b)
  BY <1>1, StakeCut DEF EpochInv
<1>3. supply = StakeOf(validators)
  BY DEF EpochInv, SupplyConserved
<1>4. supply' = StakeOf(validators')
  BY <1>2, <1>3
<1>5. StakeOf(validators') \in Nat
  BY <1>1, StakeOfSum, ZenonT(30)
<1>6. SupplyConserved'
  BY <1>4 DEF SupplyConserved
<1>7. \A a \in Addresses : DatesKept(validators[a].pending_inactive, validators'[a].pending_inactive)
  BY SameDates DEF Punished
<1> QED BY <1>1, <1>4, <1>5, <1>6, <1>7

-----------------------------------------------------------------------------
(* Epochs: one lemma per action *)

LEMMA ProduceBlockInv ==
  ASSUME EpochInv, ~halted, NEW absent \in SUBSET Members, ProduceBlock(absent)
  PROVE  EpochInv'
<1> DEFINE h == height + 1
           breached == {a \in Members : Breaches(windows[a], h, a \notin absent)}
           b == [a \in breached |-> Burned(validators[a], h, epoch.members[a], DOWNTIME_SLASH_BPS)]
<1>1. /\ height' = h /\ time' = time + 1
      /\ windows' = [a \in Addresses |->
           IF a \in breached THEN NewWindow
           ELSE IF a \in Members THEN RecordBlock(windows[a], h, a \notin absent) ELSE windows[a]]
      /\ validators' = [a \in Addresses |->
           IF a \in breached
           THEN ApplyDowntime(validators[a], h, epoch.members[a], time + 1) ELSE validators[a]]
      /\ supply' = supply - SumFunction(b)
      /\ UNCHANGED <<epoch, offences, dedup, recovered, halted, shielded, released>>
  BY DEF ProduceBlock
<1>2. h \in Nat /\ time + 1 \in Nat /\ h >= height /\ time + 1 >= time
  BY DEF EpochInv, RecordsOK
<1>3. breached \subseteq Members /\ Members \subseteq Addresses /\ DOMAIN b = breached
  BY DEF EpochInv, CommitteeOK
<1>4. \A a \in breached : b[a] = Burned(validators[a], h, epoch.members[a], DOWNTIME_SLASH_BPS)
  OBVIOUS
<1> HIDE DEF h, breached, b
<1>5. \A a \in breached : Punished(validators[a], validators'[a], b[a])
  <2>1. ASSUME NEW a \in breached
        PROVE  Punished(validators[a], ApplyDowntime(validators[a], h, epoch.members[a], time + 1),
                        Burned(validators[a], h, epoch.members[a], DOWNTIME_SLASH_BPS))
    <3>1. a \in Addresses /\ IsValidator(validators[a]) /\ epoch.members[a] \in Nat
      BY <1>3 DEF EpochInv, Vals, CommitteeOK
    <3> QED BY <1>2, <3>1, FaultsExact
  <2> QED BY <1>1, <1>3, <1>4, <2>1
<1>6. \A a \in Addresses \ breached : validators'[a] = validators[a]
  BY <1>1
<1>7. validators' = [a \in Addresses |-> validators'[a]]
  BY <1>1
<1>8. /\ Vals(validators') /\ SupplyConserved' /\ supply' \in Nat
      /\ \A a \in Addresses : DatesKept(validators[a].pending_inactive, validators'[a].pending_inactive)
  <2>1. breached \in SUBSET Addresses
    BY <1>3
  <2> QED BY <1>1, <1>3, <1>5, <1>6, <1>7, <2>1, AfterPunishment
<1>9. DatesOK' /\ EvidenceOutlivesUnbonding'
  BY <1>1, <1>2, <1>8, DatesAfter
<1>10. WindowsOK'
  <2>1. \A a \in Addresses : WindowExact(windows'[a])
    <3>1. ASSUME NEW a \in Addresses PROVE WindowExact(windows'[a])
      <4>1. WindowExact(windows[a])
        BY DEF EpochInv, WindowsOK
      <4>2. WindowExact(RecordBlock(windows[a], h, a \notin absent))
        BY <1>2, <4>1, RecordExact
      <4> QED BY <1>1, <4>1, <4>2, NewWindowExact
    <3> QED BY <3>1
  <2>2. windows' = [a \in Addresses |-> windows'[a]]
    BY <1>1
  <2> QED BY <2>1, <2>2 DEF WindowsOK
<1>11. CommitteeOK' /\ RecordsOK'
  BY <1>1, <1>2, <1>8 DEF EpochInv, CommitteeOK, Members, RecordsOK
<1> QED BY <1>8, <1>9, <1>10, <1>11 DEF EpochInv

LEMMA SlashWithholdersInv ==
  ASSUME EpochInv, ~halted, NEW withholders \in SUBSET Members, SlashWithholders(withholders)
  PROVE  EpochInv'
<1> DEFINE b == [a \in withholders |-> Burned(validators[a], height, epoch.members[a], SHARE_WITHHOLDING_SLASH_BPS)]
<1>1. /\ validators' = [a \in Addresses |->
           IF a \in withholders
           THEN ApplyWithholding(validators[a], height, epoch.members[a], time) ELSE validators[a]]
      /\ supply' = supply - SumFunction(b)
      /\ UNCHANGED <<epoch, height, time, windows, offences, dedup, recovered, halted, released>>
  BY DEF SlashWithholders
<1>2. height \in Nat /\ time \in Nat
  BY DEF EpochInv, RecordsOK
<1>3. withholders \in SUBSET Addresses /\ DOMAIN b = withholders
  BY DEF EpochInv, CommitteeOK
<1>4. \A a \in withholders : b[a] = Burned(validators[a], height, epoch.members[a], SHARE_WITHHOLDING_SLASH_BPS)
  OBVIOUS
<1> HIDE DEF b
<1>5. \A a \in withholders : Punished(validators[a], validators'[a], b[a])
  <2>1. ASSUME NEW a \in withholders
        PROVE  Punished(validators[a], ApplyWithholding(validators[a], height, epoch.members[a], time),
                        Burned(validators[a], height, epoch.members[a], SHARE_WITHHOLDING_SLASH_BPS))
    <3>1. a \in Addresses /\ IsValidator(validators[a]) /\ epoch.members[a] \in Nat
      BY <1>3 DEF EpochInv, Vals, CommitteeOK
    <3> QED BY <1>2, <3>1, FaultsExact
  <2> QED BY <1>1, <1>3, <1>4, <2>1
<1>6. \A a \in Addresses \ withholders : validators'[a] = validators[a]
  BY <1>1
<1>7. validators' = [a \in Addresses |-> validators'[a]]
  BY <1>1
<1>8. /\ Vals(validators') /\ SupplyConserved' /\ supply' \in Nat
      /\ \A a \in Addresses : DatesKept(validators[a].pending_inactive, validators'[a].pending_inactive)
  BY <1>1, <1>3, <1>5, <1>6, <1>7, AfterPunishment
<1>9. DatesOK' /\ EvidenceOutlivesUnbonding'
  <2>1. /\ offences' = offences /\ released' = released
        /\ height' \in Nat /\ height' >= height /\ time' \in Nat /\ time' >= time
    <3>1. offences' = offences /\ released' = released /\ height' = height /\ time' = time
      BY <1>1, Zenon
    <3> QED BY <1>2, <3>1
  <2> QED BY <1>8, <2>1, DatesAfter
<1>10. WindowsOK' /\ CommitteeOK' /\ RecordsOK'
  BY <1>1, <1>8 DEF EpochInv, CommitteeOK, Members, RecordsOK, WindowsOK
<1> QED BY <1>8, <1>9, <1>10 DEF EpochInv

LEMMA ReportDoubleSignInv ==
  ASSUME EpochInv, ~halted, NEW e \in offences, ReportDoubleSign(e)
  PROVE  EpochInv'
<1> DEFINE v == e.validator
           burned == Burned(validators[v], e.infraction_height, e.power, DOUBLE_SIGN_SLASH_BPS)
           b == [a \in {v} |-> burned]
<1>1. /\ validators' = [validators EXCEPT ![v] = ApplyDoubleSign(validators[v], e)]
      /\ supply' = supply - burned
      /\ dedup' = dedup \cup {<<v, e.infraction_height>>}
      /\ UNCHANGED <<epoch, height, time, windows, offences, recovered, halted, released>>
  BY DEF ReportDoubleSign
<1>2. /\ v \in Addresses /\ e.infraction_height \in Nat /\ e.power \in Nat
      /\ height \in Nat /\ time \in Nat
  BY DEF EpochInv, RecordsOK, Infraction
<1>3. IsValidator(validators[v]) /\ validators = [a \in Addresses |-> validators[a]]
  BY <1>2 DEF EpochInv, Vals
<1>4. Punished(validators[v], ApplyDoubleSign(validators[v], e), burned)
  BY <1>2, <1>3, FaultsExact
<1>5. /\ validators' = [a \in Addresses |-> validators'[a]]
      /\ validators'[v] = ApplyDoubleSign(validators[v], e)
      /\ \A a \in Addresses \ {v} : validators'[a] = validators[a]
  BY <1>1, <1>2, <1>3
<1> HIDE DEF v, burned
<1>6. SumFunction(b) = burned /\ DOMAIN b = {v} /\ b[v] = burned
  <2>1. DOMAIN b = {v} /\ b[v] = burned
    OBVIOUS
  <2>2. burned \in Nat
    BY <1>4 DEF Punished
  <2> HIDE DEF b
  <2>3. IsFiniteSet({v}) /\ {v} \ {v} = {}
    BY FS_Singleton
  <2>4. SumFunctionOnSet(b, {v}) = b[v] + SumFunctionOnSet(b, {v} \ {v})
    BY <2>1, <2>2, <2>3, SumRemove
  <2> QED BY <2>1, <2>2, <2>3, <2>4, SumEmpty DEF SumFunction
<1> HIDE DEF b
<1>7. /\ Vals(validators') /\ SupplyConserved' /\ supply' \in Nat
      /\ \A a \in Addresses : DatesKept(validators[a].pending_inactive, validators'[a].pending_inactive)
  <2>1. {v} \in SUBSET Addresses
    BY <1>2
  <2>2. \A a \in {v} : Punished(validators[a], validators'[a], b[a])
    BY <1>4, <1>5, <1>6
  <2> QED BY <1>1, <1>5, <1>6, <2>1, <2>2, AfterPunishment
<1>8. DatesOK' /\ EvidenceOutlivesUnbonding'
  BY <1>1, <1>2, <1>7, DatesAfter
<1>9. WindowsOK' /\ CommitteeOK' /\ RecordsOK'
  BY <1>1, <1>2, <1>7 DEF EpochInv, CommitteeOK, Members, RecordsOK, WindowsOK
<1> QED BY <1>7, <1>8, <1>9 DEF EpochInv

LEMMA DoubleSignInv ==
  ASSUME EpochInv, NEW a \in Members, DoubleSign(a)
  PROVE  EpochInv'
<1> DEFINE o == [validator |-> a, infraction_height |-> height,
                 infraction_time |-> time, power |-> epoch.members[a]]
<1>1. /\ offences' = offences \cup {o}
      /\ UNCHANGED <<validators, epoch, height, time, windows, dedup, recovered, supply, halted, released>>
  BY DEF DoubleSign
<1>2. o \in Infraction /\ a \in Addresses /\ height \in Nat /\ time \in Nat
  BY DEF EpochInv, CommitteeOK, RecordsOK, Infraction
<1>3. \A i \in DOMAIN validators[a].pending_inactive : EntryOutlived(o, validators[a].pending_inactive[i])
  BY <1>2 DEF EpochInv, DatesOK, EntryDated, EntryOutlived
<1>4. DatesOK'
  <2>1. o.infraction_height <= height /\ o.infraction_time <= time /\ o.validator = a
    BY <1>2
  <2>2. \A x \in offences' : x.infraction_height <= height' /\ x.infraction_time <= time'
    BY <1>1, <2>1 DEF EpochInv, DatesOK
  <2>3. \A x \in offences' : \A i \in DOMAIN validators'[x.validator].pending_inactive :
          EntryOutlived(x, validators'[x.validator].pending_inactive[i])
    BY <1>1, <1>3, <2>1 DEF EpochInv, DatesOK
  <2>4. /\ \A b \in Addresses : \A i \in DOMAIN validators'[b].pending_inactive :
             EntryDated(validators[b].pending_inactive[i])'
        /\ \A r \in released' : r.start_height <= height' /\ r.start_height \in Nat
    BY <1>1 DEF EpochInv, DatesOK, EntryDated
  <2> QED BY <2>2, <2>3, <2>4 DEF DatesOK
<1>5. EvidenceOutlivesUnbonding'
  <2>1. \A r \in released : r.start_height <= height /\ r.start_height \in Nat
    BY DEF EpochInv, DatesOK
  <2>2. \A r \in released : ~(r.start_height > o.infraction_height)
    <3>1. o.infraction_height = height
      OBVIOUS
    <3> QED BY <1>2, <2>1, <3>1
  <2> HIDE DEF o
  <2> QED BY <1>1, <2>2 DEF EpochInv, EvidenceOutlivesUnbonding
<1>6. Vals(validators') /\ WindowsOK' /\ CommitteeOK' /\ RecordsOK' /\ SupplyConserved'
  BY <1>1, <1>2 DEF EpochInv, Vals, CommitteeOK, Members, RecordsOK, WindowsOK, SupplyConserved
<1> QED BY <1>4, <1>5, <1>6 DEF EpochInv

\* A step that moves stake between the buckets of validators.
LEMMA StakeSame ==
  ASSUME NEW vals, Vals(vals), NEW new, Vals(new),
         \A a \in Addresses : WholeStake(new[a]) = WholeStake(vals[a])
  PROVE  StakeOf(new) = StakeOf(vals)
<1> DEFINE f == [a \in Addresses |-> WholeStake(vals[a])]
           g == [a \in Addresses |-> WholeStake(new[a])]
<1>1. IsFiniteSet(Addresses)
  BY GenesisAssumption DEF Addresses
<1>2. /\ StakeOf(vals) = SumFunctionOnSet(f, Addresses) /\ StakeOf(new) = SumFunctionOnSet(g, Addresses)
      /\ \A a \in Addresses : f[a] \in Int /\ f[a] = g[a]
  BY StakeOfSum
<1> HIDE DEF f, g
<1> QED BY <1>1, <1>2, SumEqual

LEMMA FreeSlotIsFree ==
  ASSUME NEW P, IsFiniteSet(DOMAIN P)
  PROVE  FreeSlot(P) \notin DOMAIN P
<1> DEFINE n == Cardinality(DOMAIN P)
<1>1. n \in Nat
  BY FS_CardinalityType
<1>2. IsFiniteSet(0..n) /\ Cardinality(0..n) = n + 1
  BY <1>1, FS_Interval
<1>3. ~(0..n \subseteq DOMAIN P)
  <2> SUFFICES ASSUME 0..n \subseteq DOMAIN P PROVE FALSE
    OBVIOUS
  <2>1. Cardinality(0..n) <= Cardinality(DOMAIN P)
    BY FS_Subset
  <2> QED BY <1>1, <1>2, <2>1
<1>4. \E i \in 0..n : i \notin DOMAIN P
  BY <1>3
<1> QED BY <1>4 DEF FreeSlot

LEMMA EntryAdded ==
  ASSUME NEW P, Entries(P), NEW e \in UnbondingEntry
  PROVE  LET Q == WithEntry(P, e)
         IN  /\ Entries(Q) /\ DOMAIN Q = DOMAIN P \cup {FreeSlot(P)}
             /\ \A i \in DOMAIN P : Q[i] = P[i]
             /\ Q[FreeSlot(P)] = e
             /\ SumFunction(BalanceOf(Q)) = e.initial_balance + SumFunction(BalanceOf(P))
<1> DEFINE Q == WithEntry(P, e)  x == FreeSlot(P)  D == DOMAIN P
<1>1. x \notin D /\ IsFiniteSet(D)
  BY FreeSlotIsFree DEF Entries
<1>2. DOMAIN Q = D \cup {x} /\ (\A i \in D : Q[i] = P[i]) /\ Q[x] = e /\ Q \in [D \cup {x} -> UnbondingEntry]
  <2>1. Q = [i \in D \cup {x} |-> IF i \in D THEN P[i] ELSE e]
    BY DEF WithEntry
  <2>2. \A i \in D : P[i] \in UnbondingEntry
    BY DEF Entries
  <2> HIDE DEF Q, x, D
  <2> QED BY <1>1, <2>1, <2>2
<1> HIDE DEF Q, x, D
<1>3. IsFiniteSet(D \cup {x})
  BY <1>1, FS_AddElement
<1>4. Entries(Q)
  BY <1>2, <1>3 DEF Entries
<1>5. /\ \A i \in D \cup {x} : BalanceOf(Q)[i] \in Int
      /\ SumFunction(BalanceOf(Q)) = SumFunctionOnSet(BalanceOf(Q), D \cup {x})
  <2>1. \A i \in DOMAIN Q : BalanceOf(Q)[i] \in Nat
    BY <1>4, BalanceSum
  <2> QED BY <1>2, <1>4, <2>1, BalanceSum
<1>6. SumFunctionOnSet(BalanceOf(Q), D \cup {x}) = BalanceOf(Q)[x] + SumFunctionOnSet(BalanceOf(Q), D)
  BY <1>1, <1>5, SumAdd
<1>7. \A i \in D : BalanceOf(Q)[i] = BalanceOf(P)[i]
  BY <1>2 DEF BalanceOf, D
<1>8. SumFunctionOnSet(BalanceOf(Q), D) = SumFunctionOnSet(BalanceOf(P), D)
  BY <1>1, <1>5, <1>7, SumEqual
<1>9. SumFunction(BalanceOf(P)) = SumFunctionOnSet(BalanceOf(P), D)
  BY BalanceSum DEF D
<1>10. BalanceOf(Q)[x] = e.initial_balance
  BY <1>2 DEF BalanceOf
<1> QED BY <1>2, <1>4, <1>5, <1>6, <1>8, <1>9, <1>10 DEF Q, x, D

LEMMA BeginUnbondingInv ==
  ASSUME EpochInv, NEW a \in Addresses, BeginUnbonding(a, UnbondAmount)
  PROVE  EpochInv'
<1> DEFINE v == validators[a]
           e == [initial_balance |-> UnbondAmount, start_height |-> height,
                 complete_time |-> time + EVIDENCE_MAX_AGE_SECONDS, on_hold |-> FALSE]
           P == v.pending_inactive
           Q == WithEntry(P, e)
           rest == v.active - UnbondAmount
           w == [v EXCEPT !.active = rest, !.pending_inactive = Q]
<1>1. /\ IsValidator(v) /\ validators = [b \in Addresses |-> validators[b]]
      /\ v \in Validator(P) /\ Entries(P) /\ v.active \in Nat
  BY StakeNat DEF EpochInv, Vals, IsValidator
<1>2. /\ UnbondAmount <= v.active
      /\ validators' = [validators EXCEPT ![a] = w]
      /\ UNCHANGED <<epoch, height, time, windows, offences, dedup, recovered, supply, halted, released>>
  BY <1>1 DEF BeginUnbonding, Validator
<1>3. height \in Nat /\ time \in Nat /\ UnbondAmount \in Nat /\ EVIDENCE_MAX_AGE_SECONDS \in Nat
      /\ offences \subseteq Infraction
  BY GenesisAssumption, RatesAssumption DEF EpochInv, RecordsOK
<1>4. e \in UnbondingEntry /\ rest \in Nat /\ e.initial_balance = UnbondAmount
      /\ e.start_height = height /\ e.complete_time = time + EVIDENCE_MAX_AGE_SECONDS
  BY <1>1, <1>2, <1>3 DEF UnbondingEntry
<1> HIDE DEF e
<1>5. /\ Entries(Q) /\ DOMAIN Q = DOMAIN P \cup {FreeSlot(P)}
      /\ \A i \in DOMAIN P : Q[i] = P[i]
      /\ Q[FreeSlot(P)] = e
      /\ SumFunction(BalanceOf(Q)) = UnbondAmount + SumFunction(BalanceOf(P))
  BY <1>1, <1>4, EntryAdded
<1>6. /\ WholeStake(v) = v.active + v.pending_active + SumFunction(BalanceOf(P)) + v.inactive
      /\ SumFunction(BalanceOf(P)) \in Nat /\ v.inactive \in Nat /\ v.pending_active \in Nat
  BY <1>1, StakeNat
<1> HIDE DEF v, P, Q
<1>7. w \in Validator(Q) /\ w.active = rest /\ w.pending_active = v.pending_active /\ w.inactive = v.inactive
  <2> HIDE DEF rest
  <2> QED BY <1>1, <1>4 DEF Validator
<1> HIDE DEF w
<1>8. /\ IsValidator(w) /\ w.pending_inactive = Q
      /\ WholeStake(w) = w.active + w.pending_active + SumFunction(BalanceOf(Q)) + w.inactive
  BY <1>5, <1>7, RecordStake
<1>9. WholeStake(w) = WholeStake(v)
  BY <1>1, <1>3, <1>5, <1>6, <1>7, <1>8
<1>10. /\ validators' = [b \in Addresses |-> validators'[b]]
       /\ validators'[a] = w
       /\ \A b \in Addresses \ {a} : validators'[b] = validators[b]
  BY <1>1, <1>2
<1>11. Vals(validators')
  BY <1>8, <1>10 DEF EpochInv, Vals
<1>12. StakeOf(validators') = StakeOf(validators)
  BY <1>9, <1>10, <1>11, StakeSame DEF EpochInv, v
<1>13. \A b \in Addresses : \A i \in DOMAIN validators'[b].pending_inactive :
         \/ validators'[b].pending_inactive[i] = e
         \/ /\ i \in DOMAIN validators[b].pending_inactive
            /\ validators'[b].pending_inactive[i] = validators[b].pending_inactive[i]
  BY <1>5, <1>8, <1>10 DEF v, P
<1>14. /\ e.start_height <= height' /\ e.start_height \in Nat /\ e.complete_time \in Nat
       /\ \A o \in offences : EntryOutlived(o, e)
  <2>1. \A o \in offences : o.infraction_time \in Nat /\ o.infraction_time <= time
    BY <1>3 DEF EpochInv, DatesOK, Infraction
  <2> QED BY <1>2, <1>3, <1>4, <2>1 DEF EntryOutlived
<1>15. DatesOK'
  <2>1. \A b \in Addresses : \A i \in DOMAIN validators'[b].pending_inactive :
          EntryDated(validators[b].pending_inactive[i])'
    BY <1>2, <1>13, <1>14 DEF EpochInv, DatesOK, EntryDated
  <2>2. \A o \in offences : o.validator \in Addresses
    BY <1>3 DEF Infraction
  <2>3. \A o \in offences' : \A i \in DOMAIN validators'[o.validator].pending_inactive :
          EntryOutlived(o, validators'[o.validator].pending_inactive[i])
    BY <1>2, <1>13, <1>14, <2>2 DEF EpochInv, DatesOK
  <2> QED BY <1>2, <2>1, <2>3 DEF EpochInv, DatesOK
<1>16. EvidenceOutlivesUnbonding' /\ SupplyConserved'
  BY <1>2, <1>12 DEF EpochInv, EvidenceOutlivesUnbonding, SupplyConserved
<1>17. WindowsOK' /\ CommitteeOK' /\ RecordsOK'
  BY <1>2 DEF EpochInv, CommitteeOK, Members, RecordsOK, WindowsOK
<1> QED BY <1>11, <1>15, <1>16, <1>17 DEF EpochInv

LEMMA RebondInv ==
  ASSUME EpochInv, NEW a \in Addresses, Rebond(a)
  PROVE  EpochInv'
<1> DEFINE v == validators[a]
           P == v.pending_inactive
           total == v.pending_active + v.inactive
           w == [v EXCEPT !.inactive = 0, !.pending_active = total]
<1>1. /\ IsValidator(v) /\ validators = [b \in Addresses |-> validators[b]]
      /\ v \in Validator(P) /\ Entries(P) /\ total \in Nat
  BY StakeNat DEF EpochInv, Vals, IsValidator
<1>2. /\ validators' = [validators EXCEPT ![a] = w]
      /\ UNCHANGED <<epoch, height, time, windows, offences, dedup, recovered, supply, halted, released>>
  BY <1>1 DEF Rebond, Validator
<1>3. height \in Nat /\ time \in Nat
  BY DEF EpochInv, RecordsOK
<1>4. /\ WholeStake(v) = v.active + v.pending_active + SumFunction(BalanceOf(P)) + v.inactive
      /\ SumFunction(BalanceOf(P)) \in Nat /\ v.inactive \in Nat /\ v.pending_active \in Nat /\ v.active \in Nat
  BY <1>1, StakeNat
<1> HIDE DEF v, P
<1>5. w \in Validator(P) /\ w.active = v.active /\ w.pending_active = total /\ w.inactive = 0
  <2> HIDE DEF total
  <2> QED BY <1>1 DEF Validator
<1> HIDE DEF w
<1>6. /\ IsValidator(w) /\ w.pending_inactive = P
      /\ WholeStake(w) = w.active + w.pending_active + SumFunction(BalanceOf(P)) + w.inactive
  BY <1>1, <1>5, RecordStake
<1>7. WholeStake(w) = WholeStake(v)
  BY <1>4, <1>5, <1>6
<1>8. /\ validators' = [b \in Addresses |-> validators'[b]]
      /\ validators'[a] = w
      /\ \A b \in Addresses \ {a} : validators'[b] = validators[b]
  BY <1>1, <1>2
<1>9. Vals(validators')
  BY <1>6, <1>8 DEF EpochInv, Vals
<1>10. StakeOf(validators') = StakeOf(validators)
  BY <1>7, <1>8, <1>9, StakeSame DEF EpochInv, v
<1>11. \A b \in Addresses : DatesKept(validators[b].pending_inactive, validators'[b].pending_inactive)
  BY <1>6, <1>8, SameDates DEF v, P
<1>12. DatesOK' /\ EvidenceOutlivesUnbonding'
  BY <1>2, <1>3, <1>9, <1>11, DatesAfter
<1>13. WindowsOK' /\ CommitteeOK' /\ RecordsOK' /\ SupplyConserved'
  BY <1>2, <1>10 DEF EpochInv, CommitteeOK, Members, RecordsOK, WindowsOK, SupplyConserved
<1> QED BY <1>9, <1>12, <1>13 DEF EpochInv

\* The validators after an epoch boundary.
LEMMA SettledExact ==
  ASSUME EpochInv, NEW minted \in Nat
  PROVE  LET settled == SettledValidators(validators, epoch.members, minted, time)
         IN  /\ Vals(settled)
             /\ StakeOf(settled) = StakeOf(validators) + Distributed(epoch.members, minted)
             /\ \A a \in Addresses : DatesKept(validators[a].pending_inactive, settled[a].pending_inactive)
             /\ \A a \in Addresses : IsActive(settled[a]) =>
                  ~validators[a].tombstoned /\ validators[a].jailed_until <= time /\ settled[a].active >= MinStake
<1> DEFINE members == epoch.members
           settled == SettledValidators(validators, members, minted, time)
           share == [a \in Members |-> RewardShare(members, minted, a)]
           Pay(a) == IF a \in Members THEN [validators[a] EXCEPT !.active = @ + RewardShare(members, minted, a)]
                     ELSE validators[a]
           Settle(v) == UpdateValidatorStatus(ActivatePendingStake(SettleExpiredUnbonding(v, time)), time)
<1>1. /\ DOMAIN validators = Addresses /\ time \in Nat /\ Members \subseteq Addresses
      /\ \A a \in Addresses : IsValidator(validators[a])
      /\ IsValidatorSet(members)
  <2>1. validators = [a \in Addresses |-> validators[a]]
    BY DEF EpochInv, Vals
  <2> QED BY <2>1, MembersAreSet DEF EpochInv, Vals, RecordsOK, CommitteeOK
<1>2. settled = [a \in Addresses |-> Settle(Pay(a))]
  <2>1. DistributeRewards(validators, members, minted) = [a \in Addresses |-> Pay(a)]
    BY <1>1 DEF DistributeRewards, Members
  <2> QED BY <2>1 DEF SettledValidators
<1>3. \A a \in Members : RewardShare(members, minted, a) \in Nat /\ share[a] = RewardShare(members, minted, a)
  BY <1>1, SharesFit DEF Members
<1>4. Distributed(members, minted) = SumFunction(share) /\ DOMAIN share = Members
  BY DEF Distributed, Members
<1> HIDE DEF share
<1>5. ASSUME NEW a \in Addresses
      PROVE  /\ a \in Members => Moved(validators[a], settled[a], share[a])
             /\ a \notin Members => Moved(validators[a], settled[a], 0)
             /\ IsActive(settled[a]) =>
                  ~validators[a].tombstoned /\ validators[a].jailed_until <= time /\ settled[a].active >= MinStake
  <2> DEFINE v == validators[a]
             gain == IF a \in Members THEN share[a] ELSE 0
  <2>1. IsValidator(v) /\ gain \in Nat /\ v \in Validator(v.pending_inactive)
    BY <1>1, <1>3 DEF IsValidator
  <2>2. Moved(v, Pay(a), gain) /\ Pay(a).tombstoned = v.tombstoned /\ Pay(a).jailed_until = v.jailed_until
    <3>1. CASE a \in Members
      <4>1. Moved(v, [v EXCEPT !.active = @ + gain], gain)
        BY <2>1, PaidExact
      <4>2. Pay(a) = [v EXCEPT !.active = @ + gain]
        BY <1>3, <3>1
      <4>3. Pay(a).tombstoned = v.tombstoned /\ Pay(a).jailed_until = v.jailed_until
        BY <2>1, <4>2 DEF Validator
      <4> QED BY <4>1, <4>2, <4>3
    <3>2. CASE a \notin Members
      <4>1. WholeStake(v) \in Nat
        BY <2>1, StakeNat
      <4>2. Pay(a) = v /\ gain = 0
        BY <3>2
      <4> HIDE DEF Pay, gain, v
      <4> QED BY <2>1, <4>1, <4>2, SameDates DEF Moved
    <3> QED BY <3>1, <3>2
  <2>3. settled[a] = Settle(Pay(a))
    BY <1>2
  <2> HIDE DEF Pay, gain, v, settled
  <2>4. /\ Moved(v, Settle(Pay(a)), gain)
        /\ IsActive(Settle(Pay(a))) => ~v.tombstoned /\ v.jailed_until <= time /\ Settle(Pay(a)).active >= MinStake
    BY <1>1, <2>1, <2>2, BoundaryExact
  <2> HIDE DEF Settle
  <2> QED BY <2>3, <2>4 DEF gain, v
<1>6. settled = [a \in Addresses |-> settled[a]]
  BY <1>2
<1> HIDE DEF settled, Pay, Settle
<1>7. Vals(settled)
  BY <1>5, <1>6 DEF Vals, Moved
<1>8. StakeOf(settled) = StakeOf(validators) + SumFunction(share)
  <2>1. \A a \in Members : share[a] \in Nat /\ Moved(validators[a], settled[a], share[a])
    BY <1>1, <1>3, <1>5
  <2>2. \A a \in Addresses \ Members : Moved(validators[a], settled[a], 0)
    BY <1>5
  <2>3. Vals(validators) /\ Members \in SUBSET Addresses
    BY <1>1 DEF EpochInv
  <2> HIDE DEF Members
  <2> QED BY <1>4, <1>7, <2>1, <2>2, <2>3, StakePaid
<1>9. \A a \in Addresses : DatesKept(validators[a].pending_inactive, settled[a].pending_inactive)
  BY <1>5 DEF Moved
<1> QED BY <1>4, <1>5, <1>7, <1>8, <1>9 DEF settled

LEMMA InflationNat ==
  ASSUME NEW total \in Nat, NEW n \in Nat
  PROVE  ComputeEpochInflation(total, n) \in Nat
<1> DEFINE year == n \div EPOCHS_PER_YEAR
           last == Len(INFLATION_SCHEDULE_BPS)
           k == IF year + 1 < last THEN year + 1 ELSE last
           rate == INFLATION_SCHEDULE_BPS[k]
<1>1. EPOCHS_PER_YEAR \in Nat /\ EPOCHS_PER_YEAR > 0 /\ MAX_FRACTION_BPS \in Nat /\ MAX_FRACTION_BPS > 0
  BY RatesAssumption
<1>2. year \in Nat
  BY <1>1, DivBounds
<1>3. last \in Nat /\ last > 0
  BY RatesAssumption
<1>4. k \in 1..last
  BY <1>2, <1>3
<1>5. rate \in Nat
  BY <1>4, RatesAssumption
<1> HIDE DEF rate
<1>6. total * rate \in Nat
  BY <1>5
<1>7. (total * rate) \div MAX_FRACTION_BPS \in Nat
  BY <1>1, <1>6, DivBounds
<1>8. ((total * rate) \div MAX_FRACTION_BPS) \div EPOCHS_PER_YEAR \in Nat
  BY <1>1, <1>7, DivBounds
<1> QED BY <1>8 DEF ComputeEpochInflation, rate

\* Who can be a member of a new committee.
Eligible ==
    epoch' # epoch =>
      \A a \in DOMAIN epoch'.members :
        /\ ~validators[a].tombstoned
        /\ validators[a].jailed_until <= time
        /\ validators'[a].active >= MinStake

LEMMA TransitionInv ==
  ASSUME EpochInv, ~halted, TransitionEpoch, recovered' \subseteq Nat \X Nat
  PROVE  EpochInv' /\ Eligible
<1> DEFINE minted == ComputeEpochInflation(supply, epoch.number)
           settled == SettledValidators(validators, epoch.members, minted, time)
           next == FromActiveValidators(settled)
<1>1. /\ validators' = settled /\ released' = released \cup ReleasedNow
      /\ UNCHANGED <<height, time, windows, offences, dedup>>
      /\ \/ DOMAIN next = {} /\ halted' = TRUE /\ UNCHANGED <<epoch, supply>>
         \/ /\ DOMAIN next # {} /\ UNCHANGED halted
            /\ epoch' = [number |-> epoch.number + 1, start_height |-> height + 1,
                         start_timestamp |-> time, members |-> next]
            /\ supply' = supply + Distributed(epoch.members, minted)
  BY ZenonT(30) DEF TransitionEpoch
<1>2. minted \in Nat
  BY InflationNat DEF EpochInv, RecordsOK, CommitteeOK
<1>3. height \in Nat /\ time \in Nat /\ supply \in Nat /\ offences \subseteq Infraction
  BY DEF EpochInv, RecordsOK
<1> HIDE DEF minted
<1>4. /\ Vals(settled)
      /\ StakeOf(settled) = StakeOf(validators) + Distributed(epoch.members, minted)
      /\ \A a \in Addresses : DatesKept(validators[a].pending_inactive, settled[a].pending_inactive)
      /\ \A a \in Addresses : IsActive(settled[a]) =>
           ~validators[a].tombstoned /\ validators[a].jailed_until <= time /\ settled[a].active >= MinStake
  BY <1>2, SettledExact
<1> HIDE DEF settled
<1>5. DOMAIN next \subseteq Addresses /\ \A a \in DOMAIN next : next[a] \in Nat /\ IsActive(settled[a])
  BY <1>4, CommitteeFromActive
<1> HIDE DEF next
<1>6. ASSUME NEW r \in ReleasedNow
      PROVE  /\ r.start_height <= height /\ r.start_height \in Nat
             /\ \A o \in offences : r.validator = o.validator /\ r.start_height > o.infraction_height
                                      => Expired(o.infraction_time, r.time)
  <2>1. PICK a \in Addresses : r \in {[validator |-> a, start_height |-> e.start_height, time |-> time] :
                          e \in {f \in Range(validators[a].pending_inactive) : Matured(f, time)}}
    BY DEF ReleasedNow
  <2>2. PICK e \in Range(validators[a].pending_inactive) :
          Matured(e, time) /\ r = [validator |-> a, start_height |-> e.start_height, time |-> time]
    BY <2>1
  <2>3. PICK i \in DOMAIN validators[a].pending_inactive : e = validators[a].pending_inactive[i]
    BY DEF Range
  <2>4. r.validator = a /\ r.start_height = e.start_height /\ r.time = time
    BY <2>2
  <2>5. e.start_height <= height /\ e.start_height \in Nat /\ e.complete_time \in Nat /\ e.complete_time <= time
    BY <2>2, <2>3 DEF EpochInv, DatesOK, EntryDated, Matured
  <2>6. ASSUME NEW o \in offences, o.validator = a, e.start_height > o.infraction_height
        PROVE  Expired(o.infraction_time, time)
    <3>1. e.complete_time >= o.infraction_time + EVIDENCE_MAX_AGE_SECONDS /\ o.infraction_time \in Nat
      BY <1>3, <2>3, <2>6 DEF EpochInv, DatesOK, EntryOutlived, Infraction
    <3> QED BY <1>3, <2>5, <3>1, RatesAssumption DEF Expired
  <2> QED BY <2>4, <2>5, <2>6
<1>7. EvidenceOutlivesUnbonding'
  BY <1>1, <1>6 DEF EpochInv, EvidenceOutlivesUnbonding
<1>8. DatesOK'
  <2>1. \A r \in released' : r.start_height <= height' /\ r.start_height \in Nat
    BY <1>1, <1>6 DEF EpochInv, DatesOK
  <2>2. /\ offences' = offences
        /\ height' \in Nat /\ height' >= height /\ time' \in Nat /\ time' >= time
        /\ Vals(validators')
        /\ \A a \in Addresses : DatesKept(validators[a].pending_inactive, validators'[a].pending_inactive)
    BY <1>1, <1>3, <1>4
  <2>3. /\ \A o \in offences' : o.infraction_height <= height' /\ o.infraction_time <= time'
        /\ \A a \in Addresses : \A i \in DOMAIN validators'[a].pending_inactive :
             EntryDated(validators[a].pending_inactive[i])'
        /\ \A o \in offences' : \A i \in DOMAIN validators'[o.validator].pending_inactive :
             EntryOutlived(o, validators'[o.validator].pending_inactive[i])
    BY <2>2, DatesStep
  <2> QED BY <2>1, <2>3 DEF DatesOK
<1>9. WindowsOK'
  BY <1>1 DEF EpochInv, WindowsOK
<1>10. CASE DOMAIN next = {}
  <2>1. halted' = TRUE /\ epoch' = epoch /\ supply' = supply
    BY <1>1, <1>10
  <2>2. CommitteeOK' /\ RecordsOK' /\ SupplyConserved'
    BY <1>1, <2>1 DEF EpochInv, CommitteeOK, Members, RecordsOK, SupplyConserved
  <2> QED BY <1>1, <1>4, <1>7, <1>8, <1>9, <2>1, <2>2 DEF EpochInv, Eligible
<1>11. CASE DOMAIN next # {}
  <2>1. /\ halted' = halted /\ supply' = supply + Distributed(epoch.members, minted)
        /\ epoch' = [number |-> epoch.number + 1, start_height |-> height + 1,
                     start_timestamp |-> time, members |-> next]
    BY <1>1, <1>11
  <2>2. SupplyConserved' /\ supply' \in Nat
    <3>1. supply = StakeOf(validators)
      BY DEF EpochInv, SupplyConserved
    <3>2. supply' = StakeOf(settled) /\ StakeOf(settled) \in Nat
      BY <1>4, <2>1, <3>1, StakeOfSum, ZenonT(30)
    <3> QED BY <1>1, <3>2 DEF SupplyConserved
  <2>3. epoch.number \in Nat
    BY DEF EpochInv, CommitteeOK
  <2>4. epoch' \in [number : Nat, start_height : Nat, start_timestamp : Nat, members : {next}]
        /\ epoch'.members = next
    BY <1>3, <2>1, <2>3
  <2>5. CommitteeOK'
    BY <1>5, <1>11, <2>4 DEF CommitteeOK, Members
  <2>6. RecordsOK'
    BY <1>1, <2>1, <2>2 DEF EpochInv, RecordsOK
  <2>7. Eligible
    BY <1>1, <1>4, <1>5, <2>4 DEF Eligible
  <2> QED BY <1>1, <1>4, <1>7, <1>8, <1>9, <2>2, <2>5, <2>6, <2>7 DEF EpochInv
<1> QED BY <1>10, <1>11

LEMMA EpochInvNext == EpochInv /\ [EpochNext]_evars => EpochInv' /\ [Eligible]_evars
<1> SUFFICES ASSUME EpochInv, [EpochNext]_evars PROVE EpochInv' /\ [Eligible]_evars
  OBVIOUS
<1>1. CASE UNCHANGED evars
  BY <1>1 DEF evars, EpochInv, Vals, CommitteeOK, Members, RecordsOK, WindowsOK, DatesOK, EntryDated,
              SupplyConserved, EvidenceOutlivesUnbonding
<1>2. ASSUME ~halted, NEW absent \in SUBSET Members, ProduceBlock(absent) PROVE EpochInv' /\ Eligible
  BY <1>2, ProduceBlockInv DEF Eligible, ProduceBlock
<1>3. ASSUME NEW a \in Members, DoubleSign(a) PROVE EpochInv' /\ Eligible
  BY <1>3, DoubleSignInv DEF Eligible, DoubleSign
<1>4. ASSUME ~halted, NEW a \in Members, SlashWithholders({a}) PROVE EpochInv' /\ Eligible
  BY <1>4, SlashWithholdersInv DEF Eligible, SlashWithholders
<1>5. ASSUME ~halted, NEW e \in offences, ReportDoubleSign(e) PROVE EpochInv' /\ Eligible
  BY <1>5, ReportDoubleSignInv, ZenonT(30) DEF Eligible, ReportDoubleSign
<1>6. ASSUME NEW a \in Addresses, BeginUnbonding(a, UnbondAmount) PROVE EpochInv' /\ Eligible
  BY <1>6, BeginUnbondingInv DEF Eligible, BeginUnbonding
<1>7. ASSUME NEW a \in Addresses, Rebond(a) PROVE EpochInv' /\ Eligible
  BY <1>7, RebondInv DEF Eligible, Rebond
<1>8. ASSUME ~halted, CloseEpoch PROVE EpochInv' /\ Eligible
  BY <1>8, TransitionInv DEF CloseEpoch, EpochInv, RecordsOK
<1>9. ASSUME ~halted, NEW signers \in SUBSET Members, ForceEpochClose(signers, height) PROVE EpochInv' /\ Eligible
  <2>1. recovered' \subseteq Nat \X Nat
    BY <1>9 DEF ForceEpochClose, EpochInv, RecordsOK, CommitteeOK
  <2> QED BY <1>9, <2>1, TransitionInv DEF ForceEpochClose
<1>10. CASE EpochNext
  <2>1. ~halted
    BY <1>10 DEF EpochNext
  <2>2. CASE \E absent \in {S \in SUBSET Members : Cardinality(S) <= 1} : ProduceBlock(absent)
    BY <1>2, <2>1, <2>2
  <2> QED BY <1>10, <2>1, <2>2, <1>3, <1>4, <1>5, <1>6, <1>7, <1>8, <1>9 DEF EpochNext
<1> QED BY <1>1, <1>10

-----------------------------------------------------------------------------
(* Epochs: the theorems *)

\* The validator records, the committee and the windows keep their types through
\* every order of blocks, faults, staking and epoch boundaries.
THEOREM EpochTypesHold == EpochSpec => []EpochTypeOK
<1>1. EpochInv => EpochTypeOK
  BY DEF EpochInv, EpochTypeOK, Vals, CommitteeOK, RecordsOK, WindowsOK, WindowExact
<1>2. EpochInv /\ [EpochNext]_evars => EpochInv'
  BY EpochInvNext
<1> QED BY <1>1, <1>2, EpochInvInit, PTL DEF EpochSpec

\* No stake appears or vanishes: the supply the caller keeps from the reported
\* burns and rewards is the sum of all buckets of all validators, and the rewards
\* of a committee fit the pool they are paid from.  For any number of validators,
\* any stakes and any slashing rates.
THEOREM StakeIsConserved == EpochSpec => []StakeConserved
<1>1. EpochInv => StakeConserved
  <2> SUFFICES ASSUME EpochInv PROVE SupplyConserved /\ RewardsFitPool
    BY DEF StakeConserved
  <2>1. IsValidatorSet(epoch.members)
    BY MembersAreSet DEF EpochInv
  <2>2. RewardsFitPool
    BY <2>1, SharesFit DEF RewardsFitPool
  <2> QED BY <2>2 DEF EpochInv
<1>2. EpochInv /\ [EpochNext]_evars => EpochInv'
  BY EpochInvNext
<1> QED BY <1>1, <1>2, EpochInvInit, PTL DEF EpochSpec

\* Stake that began to unbond after a double sign matures only when the evidence
\* has expired, and every window counts exactly the blocks it holds as missed.
THEOREM FaultsArePunishable == EpochSpec => []FaultsStayPunishable
<1>1. EpochInv => FaultsStayPunishable
  BY DEF EpochInv, FaultsStayPunishable, MissedCountExact, WindowsOK, WindowExact, Missed
<1>2. EpochInv /\ [EpochNext]_evars => EpochInv'
  BY EpochInvNext
<1> QED BY <1>1, <1>2, EpochInvInit, PTL DEF EpochSpec

\* Whoever enters a new committee is not tombstoned, has served its sentence and
\* holds the minimum stake.
THEOREM CommitteesAreEligible == EpochSpec => CommitteeEligible
<1>1. EpochInv /\ [EpochNext]_evars => EpochInv'
  BY EpochInvNext
<1>2. EpochInv /\ [EpochNext]_evars => [Eligible]_evars
  BY EpochInvNext
<1> QED BY <1>1, <1>2, EpochInvInit, PTL DEF EpochSpec, CommitteeEligible, Eligible

-----------------------------------------------------------------------------
(* Reputation *)

RepSpec == RepInit /\ [][RepNext]_rvars

Scores(s) == \A a \in DOMAIN s : s[a] \in Nat

RepInv == Scores(scores) /\ next_committee \in Committees

LEMMA ScoreNatural == ASSUME NEW s, Scores(s), NEW a PROVE Score(s, a) \in Nat
BY DEF Scores, Score

\* The committee as from_scores ranks it, the worst first.
LEMMA RankedExact ==
  ASSUME NEW s, Scores(s), NEW C \in SUBSET Nat, IsFiniteSet(C)
  PROVE  LET n == Cardinality(C)
             ranked == Ranked(s, C)
         IN  /\ n \in Nat /\ \A i \in 1..n : ranked[i] \in C
             /\ \A i, j \in 1..n : ranked[i] = ranked[j] => i = j
             /\ \A a \in C : \E i \in 1..n : ranked[i] = a
             /\ \A i, j \in 1..n : i < j => Score(s, ranked[i]) <= Score(s, ranked[j])
<1> DEFINE before(a, b) == Score(s, a) < Score(s, b) \/ (Score(s, a) = Score(s, b) /\ a < b)
           R == {p \in C \X C : before(p[1], p[2])}
           n == Cardinality(C)
           ranked == Ranked(s, C)
<1>1. \A a \in C : Score(s, a) \in Nat /\ a \in Nat
  BY ScoreNatural
<1>2. \A a, b \in C : <<a, b>> \in R <=> before(a, b)
  OBVIOUS
<1>3. TotalOrder(R, C)
  <2>1. \A a \in C : ~before(a, a)
    BY <1>1
  <2>2. \A a, b, c \in C : before(a, b) /\ before(b, c) => before(a, c)
    BY <1>1
  <2>3. \A a, b \in C : a = b \/ before(a, b) \/ before(b, a)
    BY <1>1
  <2> HIDE DEF R, before
  <2> QED BY <1>2, <2>1, <2>2, <2>3 DEF TotalOrder
<1>4. \A a \in C : {b \in C : before(b, a)} = Below(R, C, a)
  <2> HIDE DEF R, before
  <2> QED BY <1>2 DEF Below
<1>5. \A i \in 1..n : (\E a \in C : Cardinality(Below(R, C, a)) = i - 1)
           => ranked[i] \in C /\ Cardinality(Below(R, C, ranked[i])) = i - 1
  <2>1. ranked = [i \in 1..n |-> CHOOSE a \in C : Cardinality({b \in C : before(b, a)}) = i - 1]
    BY DEF Ranked
  <2> HIDE DEF R, before, n, ranked
  <2>2. ASSUME NEW i \in 1..n, \E a \in C : Cardinality(Below(R, C, a)) = i - 1
        PROVE  ranked[i] \in C /\ Cardinality(Below(R, C, ranked[i])) = i - 1
    <3>1. \E a \in C : Cardinality({b \in C : before(b, a)}) = i - 1
      BY <1>4, <2>2
    <3>2. ranked[i] \in C /\ Cardinality({b \in C : before(b, ranked[i])}) = i - 1
      BY <2>1, <3>1
    <3> QED BY <1>4, <3>2
  <2> QED BY <2>2
<1> HIDE DEF R, ranked, n
<1>6. /\ n \in Nat /\ \A i \in 1..n : ranked[i] \in C
      /\ \A i, j \in 1..n : ranked[i] = ranked[j] => i = j
      /\ \A a \in C : \E i \in 1..n : ranked[i] = a
      /\ \A i, j \in 1..n : i < j => <<ranked[i], ranked[j]>> \in R
  BY <1>3, <1>5, ListedInOrder DEF n
<1>7. ASSUME NEW i \in 1..n, NEW j \in 1..n, i < j PROVE Score(s, ranked[i]) <= Score(s, ranked[j])
  <2>1. ranked[i] \in C /\ ranked[j] \in C /\ <<ranked[i], ranked[j]>> \in R
    BY <1>6, <1>7
  <2>2. before(ranked[i], ranked[j])
    BY <1>2, <2>1
  <2>3. Score(s, ranked[i]) \in Nat /\ Score(s, ranked[j]) \in Nat
    BY ScoreNatural
  <2> QED BY <2>2, <2>3
<1> QED BY <1>6, <1>7 DEF n, ranked

\* The committee in address order.
LEMMA OrderExact ==
  ASSUME NEW C \in SUBSET Nat, IsFiniteSet(C)
  PROVE  /\ Cardinality(C) \in Nat /\ \A i \in 1..Cardinality(C) : CommitteeOrder(C)[i] \in C
         /\ \A a \in C : \E i \in 1..Cardinality(C) : CommitteeOrder(C)[i] = a
<1> DEFINE R == {p \in C \X C : p[1] < p[2]}
           n == Cardinality(C)
           order == CommitteeOrder(C)
<1>1. \A a, b \in C : <<a, b>> \in R <=> a < b
  OBVIOUS
<1>2. TotalOrder(R, C)
  <2>1. \A a \in C : a \in Nat
    OBVIOUS
  <2> HIDE DEF R
  <2> QED BY <1>1, <2>1 DEF TotalOrder
<1>3. \A a \in C : {b \in C : b < a} = Below(R, C, a)
  <2> HIDE DEF R
  <2> QED BY <1>1 DEF Below
<1>4. \A i \in 1..n : (\E a \in C : Cardinality(Below(R, C, a)) = i - 1)
           => order[i] \in C /\ Cardinality(Below(R, C, order[i])) = i - 1
  <2>1. order = [i \in 1..n |-> CHOOSE a \in C : Cardinality({b \in C : b < a}) = i - 1]
    BY DEF CommitteeOrder
  <2> HIDE DEF R, n, order
  <2>2. ASSUME NEW i \in 1..n, \E a \in C : Cardinality(Below(R, C, a)) = i - 1
        PROVE  order[i] \in C /\ Cardinality(Below(R, C, order[i])) = i - 1
    <3>1. \E a \in C : Cardinality({b \in C : b < a}) = i - 1
      BY <1>3, <2>2
    <3>2. order[i] \in C /\ Cardinality({b \in C : b < order[i]}) = i - 1
      BY <2>1, <3>1
    <3> QED BY <1>3, <3>2
  <2> QED BY <2>2
<1> HIDE DEF R, order, n
<1>5. /\ n \in Nat /\ \A i \in 1..n : order[i] \in C
      /\ \A i, j \in 1..n : order[i] = order[j] => i = j
      /\ \A a \in C : \E i \in 1..n : order[i] = a
      /\ \A i, j \in 1..n : i < j => <<order[i], order[j]>> \in R
  BY <1>2, <1>4, ListedInOrder DEF n
<1> QED BY <1>5 DEF n, order

\* The remainder is the only one that fits.
LEMMA RemainderExact ==
  ASSUME NEW n \in Nat, n > 0, NEW q \in Nat, NEW k \in 0..(n - 1)
  PROVE  (n * q + k) % n = k
<1> DEFINE a == n * q + k
           p == a \div n
           r == a % n
<1>1. k \in Nat /\ k < n
  OBVIOUS
<1>2. n * q \in Nat
  OBVIOUS
<1>3. a \in Nat
  BY <1>1, <1>2
<1>4. a = n * q + k
  OBVIOUS
<1> HIDE DEF a
<1>5. p \in Nat /\ r \in 0..(n - 1) /\ a = n * p + r
  BY <1>3
<1> HIDE DEF p, r
<1>6. r \in Nat /\ r < n
  BY <1>5
<1>7. CASE p = q
  <2>1. n * p = n * q
    BY <1>7
  <2>2. n * p \in Nat
    BY <1>5
  <2>3. r = k
    BY <1>1, <1>2, <1>4, <1>5, <1>6, <2>1, <2>2
  <2> QED BY <2>3 DEF r, a
<1>8. CASE p > q
  <2>1. n * p >= n * (q + 1) /\ n * (q + 1) = n * q + n
    BY <1>5, <1>8
  <2>2. n * p \in Nat
    BY <1>5
  <2> QED BY <1>1, <1>2, <1>4, <1>5, <1>6, <2>1, <2>2
<1>9. CASE p < q
  <2>1. n * q >= n * (p + 1) /\ n * (p + 1) = n * p + n
    BY <1>5, <1>9
  <2>2. n * p \in Nat
    BY <1>5
  <2> QED BY <1>1, <1>2, <1>4, <1>5, <1>6, <2>1, <2>2
<1> QED BY <1>5, <1>7, <1>8, <1>9

\* One rotation of the rounds visits every position.
LEMMA RotationCovers ==
  ASSUME NEW n \in Nat, n > 0, NEW offset \in Nat, NEW k \in 0..(n - 1)
  PROVE  \E r \in 1..n : (r + offset) % n = k
<1> DEFINE q == offset \div n
           m == offset % n
<1>1. q \in Nat /\ m \in 0..(n - 1) /\ offset = n * q + m
  OBVIOUS
<1> HIDE DEF q, m
<1>2. n * q \in Nat /\ m \in Nat /\ k \in Nat
  BY <1>1
<1>3. CASE k > m
  <2> DEFINE r == k - m
  <2>1. r \in 1..n /\ r + offset = n * q + k
    BY <1>1, <1>2, <1>3
  <2>2. (r + offset) % n = k
    BY <1>1, <2>1, RemainderExact
  <2> QED BY <2>1, <2>2
<1>4. CASE ~(k > m)
  <2> DEFINE r == k - m + n
  <2>1. n * (q + 1) = n * q + n
    BY <1>1
  <2>2. r \in 1..n /\ r + offset = n * (q + 1) + k
    BY <1>1, <1>2, <1>4, <2>1
  <2>3. (n * (q + 1) + k) % n = k
    <3>1. q + 1 \in Nat
      BY <1>1
    <3> QED BY <3>1, RemainderExact
  <2>4. (r + offset) % n = k
    BY <2>2, <2>3
  <2> QED BY <2>2, <2>4
<1> QED BY <1>3, <1>4

\* The table and the leaders it gives, for any scores and any committee.
LEMMA SwapExact ==
  ASSUME NEW s, Scores(s), NEW C \in SUBSET Nat, IsFiniteSet(C), C # {}
  PROVE  LET t == SwapTable(s, C)
         IN  /\ DOMAIN t \subseteq C /\ IsFiniteSet(DOMAIN t) /\ Cardinality(DOMAIN t) <= Faulty(C)
             /\ \A b \in DOMAIN t : /\ t[b] \in C /\ t[b] \notin DOMAIN t
                                    /\ Score(s, b) < Score(s, t[b])
                                    /\ \A a \in C \ DOMAIN t : Score(s, b) <= Score(s, a)
<1> DEFINE n == Cardinality(C)
           f == Faulty(C)
           actual == IF f < n \div 2 THEN f ELSE n \div 2
           ranked == Ranked(s, C)
           swapped == {i \in 1..actual : Worse(s, ranked[i], ranked[n + 1 - i])}
           t == SwapTable(s, C)
<1>1. /\ n \in Nat /\ \A i \in 1..n : ranked[i] \in C
      /\ \A i, j \in 1..n : ranked[i] = ranked[j] => i = j
      /\ \A a \in C : \E i \in 1..n : ranked[i] = a
      /\ \A i, j \in 1..n : i < j => Score(s, ranked[i]) <= Score(s, ranked[j])
  BY RankedExact
<1>2. n # 0
  BY FS_EmptySet
<1>3. f = (n - 1) \div 3
  BY DEF Faulty
<1> HIDE DEF n, ranked, f
<1>4. f \in Nat /\ n \div 2 \in Nat /\ actual \in Nat /\ actual <= f /\ 2 * actual <= n
  BY <1>1, <1>2, <1>3
<1> HIDE DEF actual
<1>5. \A i \in 1..actual : /\ i \in 1..n /\ n + 1 - i \in 1..n /\ actual < n + 1 - i
                           /\ ranked[i] \in C /\ ranked[n + 1 - i] \in C
  BY <1>1, <1>4
<1> DEFINE pairs == {<<ranked[i], ranked[n + 1 - i]>> : i \in 1..actual}
           better == {p \in pairs : Worse(s, p[1], p[2])}
           Target(b) == (CHOOSE p \in better : p[1] = b)[2]
<1>6. t = [b \in {p[1] : p \in better} |-> Target(b)]
  BY DEF SwapTable, FromScores, n, ranked, f, actual
<1>7. better = {<<ranked[i], ranked[n + 1 - i]>> : i \in swapped}
  OBVIOUS
<1> HIDE DEF better, t, Target
<1>8. DOMAIN t = {ranked[i] : i \in swapped}
  <2>1. DOMAIN t = {p[1] : p \in better}
    BY <1>6
  <2> HIDE DEF swapped
  <2>2. ASSUME NEW i \in swapped PROVE \E p \in better : p[1] = ranked[i]
    <3>1. <<ranked[i], ranked[n + 1 - i]>> \in better
      BY <1>7
    <3> QED BY <3>1
  <2>3. ASSUME NEW p \in better PROVE \E i \in swapped : p[1] = ranked[i]
    <3>1. PICK i \in swapped : p = <<ranked[i], ranked[n + 1 - i]>>
      BY <1>7
    <3> QED BY <3>1
  <2> QED BY <2>1, <2>2, <2>3
<1>9. ASSUME NEW i \in swapped PROVE t[ranked[i]] = ranked[n + 1 - i]
  <2>1. <<ranked[i], ranked[n + 1 - i]>> \in better
    BY <1>7
  <2>2. ASSUME NEW p \in better, p[1] = ranked[i] PROVE p = <<ranked[i], ranked[n + 1 - i]>>
    <3>1. PICK j \in swapped : p = <<ranked[j], ranked[n + 1 - j]>>
      BY <1>7
    <3>2. i \in 1..n /\ j \in 1..n
      BY <1>5
    <3>3. j = i
      BY <1>1, <2>2, <3>1, <3>2
    <3> QED BY <3>1, <3>3
  <2>3. (CHOOSE p \in better : p[1] = ranked[i]) = <<ranked[i], ranked[n + 1 - i]>>
    <3>1. \E p \in better : p[1] = ranked[i]
      BY <2>1
    <3> QED BY <2>2, <3>1
  <2>4. ranked[i] \in DOMAIN t
    BY <1>8
  <2>5. t[ranked[i]] = Target(ranked[i])
    BY <1>6, <2>4
  <2>6. Target(ranked[i]) = <<ranked[i], ranked[n + 1 - i]>>[2]
    BY <2>3, Zenon DEF Target
  <2> QED BY <2>5, <2>6
<1>10. DOMAIN t \subseteq C
  BY <1>5, <1>8
<1>11. IsFiniteSet(DOMAIN t) /\ Cardinality(DOMAIN t) <= f
  <2>1. IsFiniteSet(1..actual) /\ Cardinality(1..actual) = actual
    <3>1. 1 \in Int /\ actual \in Int
      BY <1>4
    <3>2. IsFiniteSet(1..actual) /\ Cardinality(1..actual) = IF 1 > actual THEN 0 ELSE actual - 1 + 1
      BY <3>1, FS_Interval
    <3> QED BY <1>4, <3>2
  <2>2. swapped \in SUBSET (1..actual)
    OBVIOUS
  <2> DEFINE g == [i \in swapped |-> ranked[i]]
             D == DOMAIN t
  <2>3. g \in Surjection(swapped, D)
    <3>1. D = {ranked[i] : i \in swapped}
      BY <1>8
    <3> HIDE DEF D, swapped
    <3> QED BY <3>1 DEF Surjection
  <2> HIDE DEF g, swapped, D
  <2>4. IsFiniteSet(swapped) /\ Cardinality(swapped) <= actual
    BY <2>1, <2>2, FS_Subset
  <2>5. IsFiniteSet(D) /\ Cardinality(D) <= Cardinality(swapped)
    BY <2>3, <2>4, FS_Surjection
  <2>6. Cardinality(swapped) \in Nat /\ Cardinality(D) \in Nat
    BY <2>4, <2>5, FS_CardinalityType
  <2>7. Cardinality(D) <= f
    BY <1>4, <2>4, <2>5, <2>6
  <2> QED BY <2>5, <2>7 DEF D
<1>12. ASSUME NEW b \in DOMAIN t
       PROVE  /\ t[b] \in C /\ t[b] \notin DOMAIN t
              /\ Score(s, b) < Score(s, t[b])
              /\ \A a \in C \ DOMAIN t : Score(s, b) <= Score(s, a)
  <2>1. PICK i \in swapped : b = ranked[i]
    BY <1>8
  <2>2. t[b] = ranked[n + 1 - i] /\ i \in 1..n /\ n + 1 - i \in 1..n /\ actual < n + 1 - i
    BY <1>5, <1>9, <2>1
  <2>3. Score(s, b) < Score(s, t[b])
    BY <2>1, <2>2 DEF Worse
  <2>4. t[b] \notin DOMAIN t
    <3> SUFFICES ASSUME t[b] \in DOMAIN t PROVE FALSE
      OBVIOUS
    <3>1. PICK j \in swapped : t[b] = ranked[j]
      BY <1>8
    <3>2. j \in 1..n /\ j = n + 1 - i
      BY <1>1, <1>5, <2>2, <3>1, ZenonT(30)
    <3> QED BY <1>4, <2>2, <3>2
  <2>5. ASSUME NEW a \in C \ DOMAIN t PROVE Score(s, b) <= Score(s, a)
    <3>1. PICK j \in 1..n : a = ranked[j]
      BY <1>1
    <3>2. i \in Nat /\ j \in Nat /\ i # j
      BY <1>1, <1>8, <2>1, <2>2, <3>1
    <3>3. CASE i < j
      BY <1>1, <2>1, <2>2, <3>1, <3>3
    <3>4. CASE j < i
      <4>1. j \in 1..actual /\ j \notin swapped
        BY <1>4, <1>8, <3>1, <3>2, <3>4
      <4>2. n + 1 - j \in 1..n /\ n + 1 - i < n + 1 - j
        BY <1>1, <1>5, <3>2, <3>4, <4>1
      <4>3. Score(s, ranked[n + 1 - i]) <= Score(s, ranked[n + 1 - j])
        BY <1>1, <2>2, <4>2
      <4>4. ~(Score(s, ranked[j]) < Score(s, ranked[n + 1 - j]))
        BY <4>1 DEF Worse
      <4>5. /\ Score(s, ranked[i]) < Score(s, ranked[n + 1 - i])
            /\ Score(s, ranked[i]) \in Nat /\ Score(s, ranked[n + 1 - i]) \in Nat
            /\ Score(s, ranked[j]) \in Nat /\ Score(s, ranked[n + 1 - j]) \in Nat
        BY <2>1, <2>2, <2>3, ScoreNatural
      <4>6. Score(s, ranked[i]) <= Score(s, ranked[j])
        BY <4>3, <4>4, <4>5
      <4> QED BY <2>1, <3>1, <4>6
    <3> QED BY <3>2, <3>3, <3>4
  <2>6. t[b] \in C
    BY <1>1, <2>2
  <2> QED BY <2>3, <2>4, <2>5, <2>6
<1> QED BY <1>10, <1>11, <1>12 DEF t, f

\* Every member without an entry in the table leads in every rotation.
LEMMA LeadersExact ==
  ASSUME NEW s, Scores(s), NEW C \in SUBSET Nat, IsFiniteSet(C), C # {}
  PROVE  LET t == SwapTable(s, C)
             n == Cardinality(C)
         IN  /\ \A r \in 1..n : ElectLeaderOf(C, t, r) \in C
             /\ \A b \in C \ DOMAIN t : \E r \in 1..n : ElectLeaderOf(C, t, r) = b
<1> DEFINE t == SwapTable(s, C)
           n == Cardinality(C)
           order == CommitteeOrder(C)
           at(r) == ((r + LEADER_OFFSET) % n) + 1
<1>1. /\ n \in Nat /\ \A i \in 1..n : order[i] \in C
      /\ \A a \in C : \E i \in 1..n : order[i] = a
  BY OrderExact
<1>2. n # 0 /\ LEADER_OFFSET \in Nat
  BY FS_EmptySet, CommitteeAssumption
<1>3. \A b \in DOMAIN t : t[b] \in C
  BY SwapExact
<1>4. Len(order) = n
  <2> DEFINE Nth(i) == CHOOSE a \in C : Cardinality({b \in C : b < a}) = i - 1
  <2>1. order = [i \in 1..n |-> Nth(i)]
    BY DEF CommitteeOrder
  <2> HIDE DEF order, n, Nth
  <2>2. DOMAIN order = 1..n /\ order \in [1..n -> C]
    BY <1>1, <2>1
  <2>3. order \in Seq(C)
    BY <1>1, <2>2
  <2> QED BY <1>1, <2>2, <2>3
<1>5. \A r \in 1..n : ElectLeaderOf(C, t, r) = Swap(t, order[at(r)])
  BY <1>4 DEF ElectLeaderOf
<1> HIDE DEF t, n, order
<1>6. ASSUME NEW r \in 1..n PROVE at(r) \in 1..n
  <2>1. r + LEADER_OFFSET \in Nat
    BY <1>1, <1>2
  <2>2. (r + LEADER_OFFSET) % n \in 0..(n - 1)
    BY <1>1, <1>2, <2>1
  <2> QED BY <1>1, <2>2
<1>7. ASSUME NEW r \in 1..n PROVE ElectLeaderOf(C, t, r) \in C
  <2>1. order[at(r)] \in C
    BY <1>1, <1>6
  <2> QED BY <1>3, <1>5, <2>1 DEF Swap
<1>8. ASSUME NEW b \in C \ DOMAIN t PROVE \E r \in 1..n : ElectLeaderOf(C, t, r) = b
  <2>1. PICK i \in 1..n : order[i] = b
    BY <1>1
  <2>2. i - 1 \in 0..(n - 1) /\ n > 0
    BY <1>1, <1>2
  <2>3. PICK r \in 1..n : (r + LEADER_OFFSET) % n = i - 1
    BY <1>1, <1>2, <2>2, RotationCovers
  <2>4. at(r) = i
    BY <1>1, <2>3
  <2>5. ElectLeaderOf(C, t, r) = Swap(t, b)
    BY <1>5, <2>1, <2>4
  <2> QED BY <2>5 DEF Swap
<1> QED BY <1>7, <1>8 DEF t, n

\* Over one rotation of any next committee every leader is a member, at most f
\* members lose their slot, only to members with strictly more committed blocks,
\* and no member that kept its slot has fewer than one that lost it.
THEOREM SwapsAreFair == RepSpec => []SwapIsFair
<1>1. RepInit => RepInv
  BY DEF RepInit, RepInv, Scores
<1>2. RepInv /\ [RepNext]_rvars => RepInv'
  <2> SUFFICES ASSUME RepInv, [RepNext]_rvars PROVE RepInv'
    OBVIOUS
  <2>1. CASE UNCHANGED rvars
    BY <2>1 DEF rvars, RepInv
  <2>2. ASSUME NEW a \in Authors, CountBlock(a) PROVE RepInv'
    <3>1. Score(scores, a) + 1 \in Nat
      BY ScoreNatural DEF RepInv
    <3> QED BY <2>2, <3>1 DEF CountBlock, RepInv, Scores
  <2> QED BY <2>1, <2>2 DEF RepNext
<1>3. RepInv => SwapIsFair
  <2> SUFFICES ASSUME RepInv PROVE SwapIsFair
    OBVIOUS
  <2> DEFINE C == next_committee
             t == SwapTable(scores, C)
             n == Cardinality(C)
             leaders == [r \in 1..n |-> ElectLeaderOf(C, t, r)]
             lost == C \ {leaders[r] : r \in 1..n}
  <2>1. Scores(scores) /\ C \in SUBSET Nat /\ IsFiniteSet(C) /\ C # {}
    BY CommitteeAssumption DEF RepInv
  <2>2. /\ DOMAIN t \subseteq C /\ IsFiniteSet(DOMAIN t) /\ Cardinality(DOMAIN t) <= Faulty(C)
        /\ \A b \in DOMAIN t : /\ t[b] \in C /\ t[b] \notin DOMAIN t
                               /\ Score(scores, b) < Score(scores, t[b])
                               /\ \A a \in C \ DOMAIN t : Score(scores, b) <= Score(scores, a)
    BY <2>1, SwapExact
  <2>3. /\ \A r \in 1..n : ElectLeaderOf(C, t, r) \in C
        /\ \A b \in C \ DOMAIN t : \E r \in 1..n : ElectLeaderOf(C, t, r) = b
    BY <2>1, LeadersExact
  <2> HIDE DEF C, t, n
  <2>4. \A r \in 1..n : leaders[r] \in C
    BY <2>3
  <2>5. lost \in SUBSET DOMAIN t
    BY <2>3
  <2> HIDE DEF lost, leaders
  <2>6. Cardinality(lost) <= Faulty(C)
    <3> DEFINE D == DOMAIN t
    <3>1. IsFiniteSet(D) /\ lost \in SUBSET D /\ Cardinality(D) <= Faulty(C)
      BY <2>2, <2>5
    <3> HIDE DEF D
    <3>2. IsFiniteSet(lost) /\ Cardinality(lost) <= Cardinality(D)
      BY <3>1, FS_Subset
    <3>3. Cardinality(lost) \in Nat /\ Cardinality(D) \in Nat /\ Cardinality(C) \in Nat
      BY <2>1, <3>1, <3>2, FS_CardinalityType
    <3>4. Faulty(C) \in Int
      BY <3>3 DEF Faulty
    <3> QED BY <3>1, <3>2, <3>3, <3>4
  <2>7. \A b \in lost : /\ b \in DOMAIN t /\ Score(scores, b) < Score(scores, t[b])
                        /\ \A a \in C \ DOMAIN t : Score(scores, b) <= Score(scores, a)
    BY <2>2, <2>5
  <2>8. \A b \in DOMAIN t : t[b] \notin DOMAIN t
    BY <2>2
  <2> QED BY <2>4, <2>6, <2>7, <2>8 DEF SwapIsFair, C, t, n, leaders, lost
<1> QED BY <1>1, <1>2, <1>3, PTL DEF RepSpec
=============================================================================
