------------------------------ MODULE MCSurge ------------------------------
(***************************************************************************)
(* DAGs built by three validators of powers 1, 2 and 1, where a quorum is  *)
(* validator 2 and one of the others and validator 1 leads every wave, or  *)
(* by four validators of equal power, where a quorum is any three.         *)
(***************************************************************************)
EXTENDS Surge, TLC

MCThree == 1 .. 3
MCFour == 1 .. 4

MCValidatorSet == <<<<1, 2, 1>>, 2 :> 1 @@ 3 :> 3>>
MCFourValidators == <<<<1, 1, 1, 1>>>>

Ref(r, v) == [round |-> r, author |-> v, digest |-> 1]

\* Blocks of a round and the next arrive in any order.
MCNextRound(b, c) == b.epoch = c.epoch => b.round <= c.round + 1

Earlier(b, c) == b.round < c.round \/ (b.round = c.round /\ b.author < c.author)

\* Blocks arrive in order, but for three that may come at any time.
MCStragglers(b, c) ==
  Earlier(b, c) \/ <<c.round, c.author>> \in {<<0, 3>>, <<2, 2>>, <<5, 1>>}

\* The same DAG with other digests, which tell its blocks apart.
Relabel(u, digest) ==
  {[b EXCEPT !.digest = digest,
             !.ancestors = {[a EXCEPT !.digest = digest] : a \in @}] : b \in u}

\* The DAG of rounds 0 .. last in which author v of round r links to the
\* authors parents(r, v) of round r - 1.
Build(last, authors(_), parents(_, _)) ==
  {[round |-> b[1], author |-> b[2], digest |-> 1, epoch |-> 1, intact |-> TRUE,
    ancestors |-> IF b[1] = 0 THEN {}
                  ELSE {Ref(b[1] - 1, p) : p \in parents(b[1], b[2])}] :
   b \in {b \in (0 .. last) \X MCFour : b[2] \in authors(b[1])}}

\* Everybody links to everybody.
Full(last) == Build(last, LAMBDA r : MCThree, LAMBDA r, v : MCThree)

\* Validator 1 makes no block in rounds 3 to 5.
Absent(last) ==
  Build(last, LAMBDA r : IF r \in 3 .. 5 THEN {2, 3} ELSE MCThree,
              LAMBDA r, v : IF r \in 4 .. 6 THEN {2, 3} ELSE MCThree)

\* The blocks of validator 3 are late: the others link to them only in rounds
\* 3 and 6.
Slow(last) ==
  Build(last, LAMBDA r : MCThree,
              LAMBDA r, v : IF v = 3 \/ r \in {3, 6} THEN MCThree ELSE {1, 2})

\* Validator 2 does not vote for the leader of round 3: there is neither a
\* certificate nor a quorum of blames, and the next leader decides.
NoVote(last) ==
  Build(last, LAMBDA r : MCThree,
              LAMBDA r, v : IF r = 4 /\ v = 2 THEN {2, 3} ELSE MCThree)

\* Two epochs: validators 1 and 2, then validators 2 and 3, of which 3 alone
\* is a quorum and leads round 3.
MCTwoEpochs ==
  LET first  == Build(5, LAMBDA r : {1, 2}, LAMBDA r, v : {1, 2})
      second == Build(5, LAMBDA r : {2, 3}, LAMBDA r, v : {v, 3})
  IN  {first \cup {[b EXCEPT !.epoch = 2] : b \in Relabel(second, 2)}}

\* The DAGs with digest 3 are those delivered with stragglers.
MCUniverses ==
  {Absent(8), Slow(8), NoVote(8)} \cup MCTwoEpochs
    \cup {Relabel(u, 3) : u \in {Full(8), Absent(8), Slow(8), NoVote(8)}}

MCOrders(b, c) == IF b.digest = 3 THEN MCStragglers(b, c) ELSE MCNextRound(b, c)

\* Four validators.  1, 2 and 4 vote for the leader of round 3, which is
\* validator 4, but only the block of 4 links to all three votes.
MCSplit ==
  {Build(8, LAMBDA r : IF r < 3 THEN {1, 2, 4} ELSE IF r < 6 THEN MCFour ELSE MCThree,
            LAMBDA r, v : IF r <= 3 THEN {1, 2, 4}
                          ELSE IF r = 4 THEN IF v = 3 THEN MCThree ELSE MCFour
                          ELSE IF r = 5 /\ v = 4 THEN {1, 2, 4}
                          ELSE MCThree)}

\* Blocks arrive in order, but for the only block that certifies the leader.
MCLateCertificate(b, c) == Earlier(b, c) \/ Reference(c) = Ref(5, 4)
=============================================================================
