----------------------------- MODULE SerialExec -----------------------------
(***************************************************************************)
(* What block execution promises: the transactions of a block, one after   *)
(* the other in block order, each on top of everything the earlier ones    *)
(* wrote.  This is lemma-vm's `SequentialScheduler`, the oracle of the     *)
(* parallel engine.                                                        *)
(*                                                                         *)
(* A transaction is a deterministic program over the state.  Program(t, o) *)
(* is what transaction t does once its reads have returned the values o,   *)
(* in order: another read, or the end of the execution with the writes it  *)
(* has buffered and its receipt.  A read that the transaction's own writes *)
(* answer is inside Program.                                               *)
(***************************************************************************)
EXTENDS Integers, Sequences

CONSTANTS StateKey,
          Base,           \* the committed state before the block
          NumTxns,
          Values,         \* the values of the keys
          MaxReads,       \* bound: reads of one execution
          Program(_, _)

VARIABLES executed,       \* number of transactions executed
          writes,         \* the last value of every key written
          receipts

vars == <<executed, writes, receipts>>

Txns == 0 .. (NumTxns - 1)

\* The write of the key, or the base value below it.
ReadThrough(written, key) ==
  IF key \in DOMAIN written THEN written[key] ELSE Base[key]

Overlay(written, new) ==
  [k \in DOMAIN written \cup DOMAIN new |->
     IF k \in DOMAIN new THEN new[k] ELSE written[k]]

Readings == UNION {[1 .. n -> Values] : n \in 0 .. MaxReads}

\* What the reads of transaction t return when nothing else runs.
ReadingsAlone(t, written) ==
  {o \in Readings :
     /\ \A i \in DOMAIN o :
          LET step == Program(t, SubSeq(o, 1, i - 1)) IN
          step.op = "read" /\ o[i] = ReadThrough(written, step.key)
     /\ Program(t, o).op = "end"}

Init == executed = 0 /\ writes = << >> /\ receipts = << >>

\* One turn of the loop of SequentialScheduler::execute_block.
ExecuteNext ==
  /\ executed < NumTxns
  /\ \E o \in ReadingsAlone(executed, writes) :
     LET end == Program(executed, o) IN
     /\ writes' = Overlay(writes, end.writes)
     /\ receipts' = Append(receipts, end.receipt)
  /\ executed' = executed + 1

Spec == Init /\ [][ExecuteNext]_vars

\* The output of the whole block.
BlockOutput ==
  LET after[n \in 0 .. NumTxns] ==
        IF n = 0 THEN [writes |-> << >>, receipts |-> << >>]
        ELSE LET o == CHOOSE o \in ReadingsAlone(n - 1, after[n - 1].writes) : TRUE
                 end == Program(n - 1, o) IN
             [writes |-> Overlay(after[n - 1].writes, end.writes),
              receipts |-> Append(after[n - 1].receipts, end.receipt)]
  IN  after[NumTxns]
=============================================================================
