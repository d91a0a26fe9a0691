------------------------------- MODULE MCFlux -------------------------------
(***************************************************************************)
(* A small block for Flux, over a balance "x" and a contract's storage     *)
(* slot "y".                                                               *)
(***************************************************************************)
EXTENDS Flux, TLC

MCValues == 0 .. 7
MCReceipts == {"ok", "failed"} \X MCValues
MCBase == [k \in StateKey |-> 0]

End(writes, receipt) == [op |-> "end", writes |-> writes, receipt |-> receipt]

\* Every transaction reads what an earlier one writes.  Which keys 1 writes
\* depends on what it has read, and so does its receipt.
Block(t, o, Read(_)) ==
  CASE t = 0 -> IF Len(o) = 0 THEN Read("x") ELSE End("x" :> (o[1] + 1) % 8, <<"ok", 0>>)
    [] t = 1 -> IF Len(o) = 0 THEN Read("x")
                ELSE IF o[1] = 0 THEN End("x" :> 7 @@ "y" :> 7, <<"failed", 0>>)
                ELSE End("y" :> o[1], <<"ok", 0>>)
    [] t = 2 -> IF Len(o) = 0 THEN Read("x")
                ELSE IF Len(o) = 1 THEN Read("y")
                ELSE End("x" :> (2 * o[1] + 3 * o[2]) % 8, <<"ok", o[1]>>)

\* The executor reads the state itself: no contract runs.
HostRead(k) == [op |-> "read", key |-> k, captured |-> TRUE]
MCTransfers(t, o) == Block(t, o, HostRead)

\* The contract's storage is read by the contract, through the snapshot.
CallRead(k) == [op |-> "read", key |-> k, captured |-> k # "y"]
MCContractCalls(t, o) == Block(t, o, CallRead)
=============================================================================
