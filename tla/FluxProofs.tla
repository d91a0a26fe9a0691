----------------------------- MODULE FluxProofs -----------------------------
(***************************************************************************)
(* Flux for every number of workers, every block and every base state.     *)
(* The pool first: the types hold, the commit slot has one holder, and     *)
(* that holder is at the commit cursor.  Then the multi-version store:     *)
(* what it holds of each transaction, that it does not change below the    *)
(* commit cursor, and that a commit follows reads which still resolve as   *)
(* they did.  Last, Flux implements SerialExec: for transactions whose     *)
(* reads are all captured, the committed prefix is the one the serial      *)
(* schedule computes.                                                      *)
(***************************************************************************)
EXTENDS Flux, SequenceTheorems, WellFoundedInduction, TLAPS

-----------------------------------------------------------------------------
(* Maxima of bounded sets of naturals.                                     *)

\* Every non-empty set of naturals has a least element.
LEMMA LeastExists ==
  ASSUME NEW T \in SUBSET Nat, T # {}
  PROVE  \E x \in T : \A y \in T : x <= y
  <1> DEFINE R == {ss \in Nat \X Nat : ss[1] < ss[2]}
  <1>1. IsWellFoundedOn(R, Nat)
    BY NatLessThanWellFounded DEF OpToRel
  <1> HIDE DEF R
  <1>2. PICK x \in T : \A y \in T : ~(<<y, x>> \in R)
    BY <1>1, WFMin, Zenon
  <1>3. ASSUME NEW y \in T PROVE x <= y
    <2>1. <<y, x>> \notin R
      BY <1>2
    <2>2. <<y, x>> \in Nat \X Nat
      OBVIOUS
    <2>3. ~(y < x)
      BY <2>1, <2>2 DEF R
    <2> QED BY <2>3
  <1> QED BY <1>3

\* Max is what its name says on the transactions below a bound.
LEMMA MaxBelow ==
  ASSUME NEW n \in Nat, NEW T \in SUBSET Nat, T # {}, \A x \in T : x < n
  PROVE  Max(T) \in T /\ \A y \in T : y <= Max(T)
  <1> DEFINE D == {d \in Nat : n - d \in T}
  <1>0. \A x \in T : n - x \in D
    OBVIOUS
  <1>1. D \in SUBSET Nat /\ D # {}
    BY <1>0, Zenon
  <1>2. PICK d \in D : \A e \in D : d <= e
    BY <1>1, LeastExists, Zenon
  <1>3. PICK x \in T : d = n - x
    BY <1>2
  <1>4. ASSUME NEW y \in T PROVE x >= y
    <2>1. d <= n - y
      BY <1>0, <1>2
    <2> QED BY <1>3, <2>1
  <1> QED BY <1>4, Zenon DEF Max

-----------------------------------------------------------------------------
(***************************************************************************)
(* The inductive invariant of the worker pool.  A busy worker owns the     *)
(* entries of its transaction, which is neither executed nor below the     *)
(* commit cursor; the claim holder is the only one at the cursor.          *)
(***************************************************************************)
Busy(w) == worker[w].pc \in {"execute", "aborting"}

Txn(w) == sched.txns[worker[w].idx]

CursorInv ==
  \A t \in Txns :
    /\ t < sched.commit_idx => sched.txns[t].executed
    /\ sched.txns[t].executed => t < sched.next_to_execute

BusyInv ==
  /\ \A w \in Workers :
       Busy(w) => ~Txn(w).executed /\ worker[w].idx < sched.next_to_execute
  /\ \A v, w \in Workers :
       Busy(v) /\ Busy(w) /\ worker[v].idx = worker[w].idx => v = w

HolderInv ==
  /\ ClaimHasOneHolder
  /\ \A w \in Workers :
       /\ worker[w].pc \in {"validate", "validating", "abort", "commit"} => Txn(w).executed
       /\ worker[w].reexecuting => worker[w].pc = "execute"

PoolInv == TypeOK /\ CursorInv /\ BusyInv /\ HolderInv

\* The empty sequence is a reading, a list of reads and a receipt not yet given.
LEMMA EmptyReading == << >> \in Readings /\ << >> \in Seq(Reads) /\ << >> \in Seq(Receipts)
  <1>1. << >> \in [1 .. 0 -> Values]
    OBVIOUS
  <1> QED BY <1>1, BlockAssumption DEF Readings

\* A block has a transaction.
LEMMA FirstTxn == 0 \in Txns
  BY BlockAssumption DEF Txns

\* A new block satisfies the invariant.
LEMMA InitPool == Init => PoolInv
  <1> SUFFICES ASSUME Init PROVE PoolInv
    OBVIOUS
  <1> USE EmptyReading, FirstTxn, BlockAssumption DEF Init
  <1>1. TypeOK
    BY DEF TypeOK, StoreOK, SchedulerStates, TxnStates, WorkerStates, NewScheduler,
           NewTxn, Ready
  <1>2. CursorInv
    BY DEF CursorInv, NewScheduler, NewTxn, Txns
  <1>3. BusyInv
    BY DEF BusyInv, Busy, Ready
  <1>4. HolderInv
    BY DEF HolderInv, ClaimHasOneHolder, Holds, NewScheduler, Ready
  <1> QED BY <1>1, <1>2, <1>3, <1>4 DEF PoolInv

\* An idle worker, and one that starts an execution.
LEMMA WorkerTypes ==
  ASSUME NEW t \in Txns, NEW n \in Nat, NEW again \in BOOLEAN
  PROVE  Ready \in WorkerStates /\ Executing(t, n, again) \in WorkerStates
  BY EmptyReading, FirstTxn, Zenon DEF Ready, Executing, WorkerStates

\* What a worker that executes does next.
LEMMA StepType ==
  ASSUME TypeOK, NEW w \in Workers
  PROVE  \/ /\ Step(w).op = "read" /\ Step(w).key \in StateKey
            /\ Len(worker[w].observed) < MaxReads
            /\ Step(w).captured \in BOOLEAN
         \/ /\ Step(w).op = "end"
            /\ DOMAIN Step(w).writes \subseteq StateKey
            /\ Step(w).writes \in [DOMAIN Step(w).writes -> Values]
            /\ Step(w).receipt \in Receipts
  <1>1. worker[w].idx \in Txns /\ worker[w].observed \in Readings
    BY DEF TypeOK, WorkerStates
  <1> QED BY <1>1, ProgramAssumption DEF Step

\* A worker's step keeps the type of the scheduler state.
LEMMA SchedulerTypeStep ==
  ASSUME TypeOK, HolderInv, NEW w \in Workers, WorkerStep(w)
  PROVE  sched' \in SchedulerStates
  <1> USE DEF TypeOK
  <1>w. worker[w] \in WorkerStates
    OBVIOUS
  <1>1. CASE NextTask(w)
    <2>1. CASE sched' = [sched EXCEPT !.next_to_execute = @ + 1]
               /\ sched.next_to_execute < NumTxns
      BY <2>1, BlockAssumption DEF SchedulerStates
    <2> QED BY <1>1, <2>1, Zenon DEF NextTask
  <1>2. CASE RecordExecution(w)
    <2> DEFINE x == [incarnation |-> sched.txns[worker[w].idx].incarnation, executed |-> TRUE,
                     write_keys |-> worker[w].keys, reads |-> worker[w].reads,
                     receipt |-> <<Step(w).receipt>>]
    <2>1. Step(w).receipt \in Receipts
      BY <1>2, StepType DEF RecordExecution
    <2>2. worker[w].idx \in Txns /\ sched.txns[worker[w].idx] \in TxnStates
      BY <1>w DEF WorkerStates, SchedulerStates
    <2>3. x \in TxnStates
      BY <1>w, <2>1, <2>2 DEF WorkerStates, TxnStates
    <2>4. sched' = [sched EXCEPT !.txns[worker[w].idx] = x]
      BY <1>2 DEF RecordExecution
    <2> HIDE DEF x
    <2> QED BY <2>2, <2>3, <2>4 DEF SchedulerStates
  <1>3. CASE TryCommit(w)
    BY <1>3, Zenon DEF TryCommit, SchedulerStates
  <1>4. CASE Abort(w)
    <2> DEFINE t == worker[w].idx
               x == [sched.txns[t] EXCEPT !.incarnation = @ + 1, !.executed = FALSE,
                                          !.write_keys = {}]
    <2>1. t \in Txns /\ sched.txns[t] \in TxnStates
      BY <1>w DEF WorkerStates, SchedulerStates
    <2>2. x \in TxnStates
      <3> HIDE DEF t
      <3>1. sched.txns[t].incarnation + 1 \in Nat
        BY <2>1 DEF TxnStates
      <3>2. \A n \in Nat : [sched.txns[t] EXCEPT !.incarnation = n] \in TxnStates
        BY <2>1, SMTT(30) DEF TxnStates
      <3>3. \A y \in TxnStates : [y EXCEPT !.executed = FALSE] \in TxnStates
        BY Zenon DEF TxnStates
      <3>4. \A y \in TxnStates : [y EXCEPT !.write_keys = {}] \in TxnStates
        BY DEF TxnStates
      <3>5. x = [[[sched.txns[t] EXCEPT !.incarnation = @ + 1] EXCEPT !.executed = FALSE]
                   EXCEPT !.write_keys = {}]
        OBVIOUS
      <3> QED BY <3>1, <3>2, <3>3, <3>4, <3>5, Zenon
    <2>3. sched' = [sched EXCEPT !.txns[t] = x]
      BY <1>4, <2>1, Zenon DEF Abort, SchedulerStates, TxnStates
    <2> HIDE DEF x
    <2> QED BY <2>1, <2>2, <2>3 DEF SchedulerStates
  <1>5. CASE Commit(w)
    <2>1. sched.commit_idx \in Txns
      BY <1>5, <1>w DEF Commit, HolderInv, ClaimHasOneHolder, Holds, WorkerStates
    <2>2. sched.commit_idx + 1 \in 0 .. NumTxns
      BY <2>1, BlockAssumption DEF Txns
    <2> QED BY <1>5, <2>2, Zenon DEF Commit, SchedulerStates
  <1>6. CASE UNCHANGED sched
    BY <1>6
  <1> QED BY <1>1, <1>2, <1>3, <1>4, <1>5, <1>6, Zenon
          DEF WorkerStep, ReadState, Publish, Validate, ValidateRead, MarkEstimates, RemoveWrites

-----------------------------------------------------------------------------
(* Workers.                                                                *)

\* What a read of the store returns: an entry of an earlier transaction, whole.
LEMMA MvReadType ==
  ASSUME StoreOK, NEW k \in StateKey, NEW t \in Txns
  PROVE  /\ Observed(MvRead(k, t)) \in {NotFound} \cup
              [kind : {"Value"}, txn : Txns, incarnation : Nat, value : Values]
         /\ Resolved(k, MvRead(k, t)) \in Values
  <1> DEFINE below == {i \in DOMAIN mv[k] : i < t}
  <1>1. CASE below = {}
    BY <1>1, BlockAssumption DEF MvRead, NotFound, Observed, Resolved
  <1>2. CASE below # {}
    <2> DEFINE m == Max(below)
    <2>1. below \in SUBSET Nat /\ t \in Nat /\ \A x \in below : x < t
      BY BlockAssumption DEF StoreOK, Txns
    <2>2. m \in below
      BY <1>2, <2>1, MaxBelow, Zenon
    <2>3. m \in Txns /\ mv[k][m] \in Entries
      BY <2>2 DEF StoreOK
    <2>4. MvRead(k, t) = IF mv[k][m].is_estimate THEN Estimate ELSE Value(m, mv[k][m])
      BY <1>2 DEF MvRead
    <2> HIDE DEF m, below
    <2> QED BY <2>3, <2>4, BlockAssumption
            DEF Estimate, Value, NotFound, Observed, Resolved, Entries
  <1> QED BY <1>1, <1>2

\* The readings are the sequences of values that are no longer than the bound.
LEMMA ReadingIsSeq ==
  ASSUME NEW o
  PROVE  o \in Readings <=> o \in Seq(Values) /\ Len(o) <= MaxReads
  <1>1. ASSUME o \in Readings PROVE o \in Seq(Values) /\ Len(o) <= MaxReads
    <2>1. PICK n \in 0 .. MaxReads : o \in [1 .. n -> Values]
      BY <1>1 DEF Readings
    <2>2. o \in Seq(Values)
      BY <2>1, SeqDef, BlockAssumption
    <2>3. Len(o) = n
      BY <2>1, BlockAssumption
    <2> QED BY <2>2, <2>3, BlockAssumption
  <1>2. ASSUME o \in Seq(Values), Len(o) <= MaxReads PROVE o \in Readings
    <2>1. Len(o) \in Nat /\ o \in [1 .. Len(o) -> Values]
      BY <1>2, LenProperties
    <2>2. Len(o) \in 0 .. MaxReads
      BY <1>2, <2>1, BlockAssumption
    <2> QED BY <2>1, <2>2 DEF Readings
  <1> QED BY <1>1, <1>2

\* Another read is another value observed.
LEMMA LongerReading ==
  ASSUME NEW o \in Readings, Len(o) < MaxReads, NEW v \in Values
  PROVE  Append(o, v) \in Readings
  <1>1. o \in Seq(Values)
    BY ReadingIsSeq
  <1>2. Append(o, v) \in Seq(Values) /\ Len(Append(o, v)) = Len(o) + 1
    BY <1>1, AppendProperties
  <1>3. Len(o) \in Nat
    BY <1>1, LenProperties
  <1>4. Len(Append(o, v)) <= MaxReads
    BY <1>2, <1>3, BlockAssumption
  <1> QED BY <1>2, <1>4, ReadingIsSeq, Zenon


\* A worker's step keeps the types of the workers.
LEMMA WorkerTypeStep ==
  ASSUME TypeOK, NEW w \in Workers, WorkerStep(w)
  PROVE  worker' \in [Workers -> WorkerStates]
  <1> DEFINE W == worker[w]
  <1>w. /\ worker \in [Workers -> WorkerStates] /\ W \in WorkerStates
        /\ W.idx \in Txns /\ W.observed \in Readings /\ W.reads \in Seq(Reads)
        /\ W.keys \subseteq StateKey /\ W.old_keys \subseteq StateKey
    BY DEF TypeOK, WorkerStates
  <1>s. \A t \in Txns : /\ sched.txns[t].reads \in Seq(Reads)
                        /\ sched.txns[t].write_keys \subseteq StateKey
                        /\ sched.txns[t].incarnation \in Nat
    BY DEF TypeOK, SchedulerStates, TxnStates
  <1>c. sched.next_to_execute \in 0 .. NumTxns /\ sched.commit_idx \in 0 .. NumTxns
    BY DEF TypeOK, SchedulerStates
  <1>r. Ready \in WorkerStates
    BY EmptyReading, FirstTxn DEF Ready, WorkerStates
  <1>pc. ASSUME NEW x \in WorkerStates, NEW p \in {"try_commit", "validate", "validating", "abort", "aborting", "commit", "done"}
         PROVE  [x EXCEPT !.pc = p] \in WorkerStates
    BY Zenon DEF WorkerStates
  <1>rd. ASSUME NEW x \in WorkerStates, NEW rs \in Seq(Reads)
         PROVE  [x EXCEPT !.reads = rs] \in WorkerStates
    BY DEF WorkerStates
  <1>ks. ASSUME NEW x \in WorkerStates, NEW ks \in SUBSET StateKey
         PROVE  [x EXCEPT !.keys = ks] \in WorkerStates /\ [x EXCEPT !.old_keys = ks] \in WorkerStates
    BY DEF WorkerStates
  <1>ix. ASSUME NEW x \in WorkerStates, NEW t \in Txns
         PROVE  [x EXCEPT !.idx = t] \in WorkerStates
    BY DEF WorkerStates
  <1>ob. ASSUME NEW x \in WorkerStates, NEW o \in Readings
         PROVE  [x EXCEPT !.observed = o] \in WorkerStates
    BY DEF WorkerStates
  <1>1. CASE NextTask(w)
    <2>1. CASE worker' = [worker EXCEPT ![w].pc = "done"]
      BY <2>1, <1>w, <1>pc, Zenon
    <2>2. CASE worker' = [worker EXCEPT ![w].pc = "try_commit"]
      BY <2>2, <1>w, <1>pc, Zenon
    <2>3. CASE /\ sched.next_to_execute < NumTxns
               /\ worker' = [worker EXCEPT ![w] =
                    Executing(sched.next_to_execute,
                              sched.txns[sched.next_to_execute].incarnation, FALSE)]
      <3>1. sched.next_to_execute \in Txns
        BY <1>c, <2>3, BlockAssumption DEF Txns
      <3> QED BY <2>3, <3>1, <1>w, <1>s, WorkerTypes, Zenon
    <2> QED BY <1>1, <2>1, <2>2, <2>3, Zenon DEF NextTask
  <1>2. CASE ReadState(w)
    <2> DEFINE k == Step(w).key
               v == Resolved(k, MvRead(k, W.idx))
               c == Capture(Step(w), MvRead(k, W.idx))
               x == [W EXCEPT !.observed = Append(@, v), !.reads = @ \o c]
    <2>1. k \in StateKey /\ Len(W.observed) < MaxReads
      BY <1>2, StepType DEF ReadState
    <2>2. v \in Values /\ [key |-> k, observed |-> Observed(MvRead(k, W.idx))] \in Reads
      BY <1>w, <2>1, MvReadType DEF TypeOK, Reads
    <2>3. Append(W.observed, v) \in Readings
      BY <1>w, <2>1, <2>2, LongerReading
    <2>4. c \in Seq(Reads)
      BY <2>2 DEF Capture
    <2>5. W.reads \o c \in Seq(Reads)
      BY <1>w, <2>4, ConcatProperties
    <2>6. worker' = [worker EXCEPT ![w] = x]
      BY <1>2, <1>w, Zenon DEF ReadState
    <2> HIDE DEF k, v, c, W
    <2>7. x = [[W EXCEPT !.observed = Append(W.observed, v)] EXCEPT !.reads = W.reads \o c]
      BY <1>w DEF WorkerStates
    <2>8. x \in WorkerStates
      BY <1>w, <2>3, <2>5, <2>7, <1>ob, <1>rd, Zenon
    <2> HIDE DEF x
    <2> QED BY <2>6, <2>8, <1>w DEF W
  <1>3. CASE Publish(w)
    <2>1. PICK k \in DOMAIN Step(w).writes \ W.keys : worker' = [worker EXCEPT ![w].keys = @ \cup {k}]
      BY <1>3, Zenon DEF Publish
    <2>2. W.keys \cup {k} \in SUBSET StateKey
      BY <1>3, <1>w, <2>1, StepType DEF Publish
    <2> QED BY <2>1, <2>2, <1>w, <1>ks, Zenon
  <1>4. CASE RecordExecution(w)
    <2>1. [Ready EXCEPT !.pc = "commit", !.idx = W.idx] \in WorkerStates
      BY <1>w, EmptyReading, FirstTxn, Zenon DEF Ready, WorkerStates
    <2> QED BY <1>4, <2>1, <1>r, <1>w DEF RecordExecution
  <1>5. CASE TryCommit(w)
    <2>1. CASE MayClaim
      <3>1. sched.commit_idx \in Txns
        BY <1>c, <2>1, BlockAssumption DEF MayClaim, IsDone, Txns
      <3>2. worker' = [worker EXCEPT ![w] = [[W EXCEPT !.pc = "validate"] EXCEPT !.idx = sched.commit_idx]]
        BY <1>5, <2>1, <1>w, Zenon DEF TryCommit, WorkerStates
      <3> QED BY <3>1, <3>2, <1>w, <1>pc, <1>ix, Zenon
    <2>2. CASE ~MayClaim
      BY <1>5, <2>2, <1>w, <1>r DEF TryCommit
    <2> QED BY <2>1, <2>2
  <1>6. CASE Validate(w)
    <2>1. worker' = [worker EXCEPT ![w] = [[W EXCEPT !.pc = "validating"] EXCEPT !.reads = sched.txns[W.idx].reads]]
      BY <1>6, <1>w, Zenon DEF Validate, WorkerStates
    <2> QED BY <2>1, <1>w, <1>s, <1>pc, <1>rd, Zenon
  <1>7. CASE ValidateRead(w)
    <2>1. [W EXCEPT !.pc = "commit"] \in WorkerStates
      BY <1>w, <1>pc, Zenon
    <2>2. W.reads # << >> => [W EXCEPT !.reads = Tail(W.reads)] \in WorkerStates
      BY <1>w, <1>rd, HeadTailProperties, Zenon
    <2>3. [[W EXCEPT !.pc = "abort"] EXCEPT !.reads = << >>] \in WorkerStates
      BY <1>w, <1>pc, <1>rd, EmptyReading, Zenon
    <2>4. [W EXCEPT !.pc = "abort", !.reads = << >>] \in WorkerStates
      BY <2>3
    <2>5. \E x \in WorkerStates : worker' = [worker EXCEPT ![w] = x]
      BY <1>7, <2>1, <2>2, <2>4, Zenon DEF ValidateRead
    <2> QED BY <2>5, <1>w
  <1>8. CASE Abort(w)
    <2> DEFINE old == sched.txns[W.idx].write_keys
    <2>1. old \in SUBSET StateKey
      BY <1>w, <1>s
    <2>2. [[[W EXCEPT !.pc = "aborting"] EXCEPT !.keys = old] EXCEPT !.old_keys = old] \in WorkerStates
      BY <2>1, <1>w, <1>pc, <1>ks, Zenon
    <2>3. [W EXCEPT !.pc = "aborting", !.keys = old, !.old_keys = old] \in WorkerStates
      BY <2>2
    <2>4. sched.txns[W.idx].incarnation + 1 \in Nat
      BY <1>w, <1>s
    <2>5. Executing(W.idx, sched.txns[W.idx].incarnation + 1, TRUE) \in WorkerStates
      BY <1>w, <2>4, WorkerTypes, Zenon
    <2> QED BY <1>8, <2>3, <2>5, <1>w, Zenon DEF Abort
  <1>9. CASE MarkEstimates(w)
    <2>1. PICK k \in W.keys : worker' = [worker EXCEPT ![w].keys = @ \ {k}]
      BY <1>9, Zenon DEF MarkEstimates
    <2>2. W.keys \ {k} \in SUBSET StateKey
      BY <1>w
    <2> QED BY <2>1, <2>2, <1>w, <1>ks, Zenon
  <1>10. CASE RemoveWrites(w)
    <2>1. PICK k \in W.old_keys :
            worker' = [worker EXCEPT ![w] =
              IF W.old_keys = {k} THEN Executing(W.idx, sched.txns[W.idx].incarnation, TRUE)
              ELSE [W EXCEPT !.old_keys = W.old_keys \ {k}]]
      BY <1>10, Zenon DEF RemoveWrites
    <2>2. W.old_keys \ {k} \in SUBSET StateKey
      BY <1>w
    <2>3. [W EXCEPT !.old_keys = W.old_keys \ {k}] \in WorkerStates
      BY <2>2, <1>w, <1>ks, Zenon
    <2>4. Executing(W.idx, sched.txns[W.idx].incarnation, TRUE) \in WorkerStates
      BY <1>w, <1>s, WorkerTypes, Zenon
    <2> QED BY <2>1, <2>3, <2>4, <1>w, Zenon
  <1>11. CASE Commit(w)
    BY <1>11, <1>w, <1>r DEF Commit
  <1> QED BY <1>1, <1>2, <1>3, <1>4, <1>5, <1>6, <1>7, <1>8, <1>9, <1>10, <1>11 DEF WorkerStep

-----------------------------------------------------------------------------
(* The store.                                                              *)

\* Only the entries of transaction t differ.
SameBut(t) ==
  \A k \in StateKey, i \in Txns \ {t} :
    /\ i \in DOMAIN mv'[k] <=> i \in DOMAIN mv[k]
    /\ i \in DOMAIN mv[k] => mv'[k][i] = mv[k][i]

\* MvState::write changes one entry of one key.
LEMMA MvWriteEffect ==
  ASSUME StoreOK, NEW k \in StateKey, NEW t \in Txns, NEW e \in Entries, mv' = MvWrite(k, t, e)
  PROVE  /\ StoreOK' /\ SameBut(t)
         /\ \A j \in StateKey \ {k} : mv'[j] = mv[j]
         /\ t \in DOMAIN mv'[k] /\ mv'[k][t] = e
  <1>1. /\ \A j \in StateKey \ {k} : mv'[j] = mv[j]
        /\ mv'[k] = [i \in DOMAIN mv[k] \cup {t} |-> IF i = t THEN e ELSE mv[k][i]]
        /\ DOMAIN mv' = StateKey
    BY DEF StoreOK, MvWrite
  <1>2. mv' = [j \in StateKey |-> mv'[j]]
    BY DEF StoreOK, MvWrite
  <1>3. DOMAIN mv'[k] = DOMAIN mv[k] \cup {t}
    BY <1>1
  <1>4. mv'[k] \in [DOMAIN mv'[k] -> Entries]
    BY <1>1, <1>3 DEF StoreOK
  <1>5. StoreOK'
    BY <1>1, <1>2, <1>3, <1>4 DEF StoreOK
  <1>6. SameBut(t)
    BY <1>1, <1>3 DEF SameBut
  <1> QED BY <1>1, <1>3, <1>5, <1>6

\* MvState::mark_estimate changes the flag of one entry and nothing else.
LEMMA MarkEstimateEffect ==
  ASSUME StoreOK, NEW k \in StateKey, NEW t \in Txns, mv' = MarkEstimate(k, t)
  PROVE  /\ StoreOK' /\ SameBut(t)
         /\ \A j \in StateKey : DOMAIN mv'[j] = DOMAIN mv[j]
  <1>1. CASE t \notin DOMAIN mv[k]
    BY <1>1 DEF MarkEstimate, StoreOK, SameBut
  <1>2. CASE t \in DOMAIN mv[k]
    <2> DEFINE e == [mv[k][t] EXCEPT !.is_estimate = TRUE]
               f == [mv[k] EXCEPT ![t] = e]
    <2>1. e \in Entries
      BY <1>2, Zenon DEF StoreOK, Entries
    <2> HIDE DEF e
    <2>2. mv' = [mv EXCEPT ![k] = f]
      BY <1>2 DEF MarkEstimate, e
    <2>3. f \in [DOMAIN mv[k] -> Entries]
      BY <1>2, <2>1 DEF StoreOK
    <2>4. \A i \in DOMAIN mv[k] \ {t} : f[i] = mv[k][i]
      BY DEF StoreOK
    <2>5. DOMAIN f = DOMAIN mv[k]
      OBVIOUS
    <2> HIDE DEF f
    <2>6. /\ mv'[k] = f /\ \A j \in StateKey \ {k} : mv'[j] = mv[j]
          /\ mv' = [j \in StateKey |-> mv'[j]]
      BY <2>2 DEF StoreOK
    <2> QED BY <2>3, <2>4, <2>5, <2>6 DEF StoreOK, SameBut
  <1> QED BY <1>1, <1>2

\* MvState::remove_writes drops one entry of one key.
LEMMA RemoveWriteEffect ==
  ASSUME StoreOK, NEW k \in StateKey, NEW t \in Txns, mv' = RemoveWrite(k, t)
  PROVE  /\ StoreOK' /\ SameBut(t)
         /\ \A j \in StateKey \ {k} : mv'[j] = mv[j]
         /\ t \notin DOMAIN mv'[k]
  <1> DEFINE f == [i \in DOMAIN mv[k] \ {t} |-> mv[k][i]]
  <1>1. /\ mv'[k] = f /\ \A j \in StateKey \ {k} : mv'[j] = mv[j]
        /\ mv' = [j \in StateKey |-> mv'[j]]
    BY DEF StoreOK, RemoveWrite
  <1>2. f \in [DOMAIN mv[k] \ {t} -> Entries] /\ DOMAIN f = DOMAIN mv[k] \ {t}
    BY DEF StoreOK
  <1>3. \A i \in DOMAIN mv[k] \ {t} : f[i] = mv[k][i]
    OBVIOUS
  <1> HIDE DEF f
  <1> QED BY <1>1, <1>2, <1>3 DEF StoreOK, SameBut

\* A step writes to the store only at the transaction of a worker that executes it or takes it back.
LEMMA StoreStep ==
  ASSUME TypeOK, NEW w \in Workers, WorkerStep(w)
  PROVE  /\ StoreOK'
         /\ mv' = mv \/ (Busy(w) /\ SameBut(worker[w].idx))
  <1>w. /\ worker[w].idx \in Txns /\ worker[w].incarnation \in Nat
        /\ worker[w].keys \subseteq StateKey /\ worker[w].old_keys \subseteq StateKey
    BY DEF TypeOK, WorkerStates
  <1>1. CASE Publish(w)
    <2>1. PICK k \in DOMAIN Step(w).writes \ worker[w].keys :
            mv' = MvWrite(k, worker[w].idx, Entry(worker[w].incarnation, Step(w).writes[k]))
      BY <1>1 DEF Publish
    <2>2. k \in StateKey /\ Entry(worker[w].incarnation, Step(w).writes[k]) \in Entries
      BY <1>1, <1>w, StepType DEF Publish, Entry, Entries
    <2> QED BY <1>1, <1>w, <2>1, <2>2, MvWriteEffect DEF TypeOK, Publish, Busy
  <1>2. CASE MarkEstimates(w)
    BY <1>2, <1>w, MarkEstimateEffect DEF TypeOK, MarkEstimates, Busy
  <1>3. CASE RemoveWrites(w)
    BY <1>3, <1>w, RemoveWriteEffect DEF TypeOK, RemoveWrites, Busy
  <1>4. CASE UNCHANGED mv
    BY <1>4, Zenon DEF TypeOK, StoreOK
  <1> QED BY <1>1, <1>2, <1>3, <1>4, Zenon
          DEF WorkerStep, NextTask, ReadState, RecordExecution, TryCommit, Validate, ValidateRead, Abort, Commit

-----------------------------------------------------------------------------
(* The coordination of the workers.                                        *)

\* A step changes one worker.
LEMMA OthersWait ==
  ASSUME TypeOK, NEW w \in Workers, WorkerStep(w)
  PROVE  \A v \in Workers \ {w} : worker'[v] = worker[v]
  <1>1. worker \in [Workers -> WorkerStates]
    BY DEF TypeOK
  <1> QED BY <1>1, Zenon DEF WorkerStep, NextTask, ReadState, Publish, RecordExecution, TryCommit, Validate, ValidateRead,
                      Abort, MarkEstimates, RemoveWrites, Commit

\* Which transaction a worker is at after its step, and in which phase.
LEMMA NextTaskPhase ==
  ASSUME TypeOK, NEW w \in Workers, NextTask(w)
  PROVE  \/ /\ sched' = sched
            /\ worker'[w].pc \in {"done", "try_commit"} /\ worker'[w].reexecuting = worker[w].reexecuting
         \/ /\ sched.next_to_execute \in Txns
            /\ sched'.next_to_execute = sched.next_to_execute + 1
            /\ sched'.txns = sched.txns /\ sched'.commit_idx = sched.commit_idx
            /\ sched'.commit_in_flight = sched.commit_in_flight
            /\ worker'[w] = Executing(sched.next_to_execute, sched.txns[sched.next_to_execute].incarnation, FALSE)
  <1>1. /\ worker \in [Workers -> WorkerStates] /\ worker[w] \in WorkerStates
        /\ sched \in SchedulerStates
    BY DEF TypeOK
  <1>2. CASE IsDone \/ ~(sched.next_to_execute < NumTxns)
    <2>1. /\ sched' = sched
          /\ \/ worker' = [worker EXCEPT ![w].pc = "done"]
             \/ worker' = [worker EXCEPT ![w].pc = "try_commit"]
      BY <1>2, Zenon DEF NextTask
    <2>2. worker'[w].pc \in {"done", "try_commit"}
      BY <1>1, <2>1 DEF WorkerStates
    <2>3. worker'[w].reexecuting = worker[w].reexecuting
      BY <1>1, <2>1 DEF WorkerStates
    <2> QED BY <2>1, <2>2, <2>3, Zenon
  <1>3. CASE ~IsDone /\ sched.next_to_execute < NumTxns
    <2>1. sched.next_to_execute \in Txns
      BY <1>1, <1>3, BlockAssumption DEF SchedulerStates, Txns
    <2> QED BY <1>1, <1>3, <2>1, Zenon DEF NextTask, SchedulerStates
  <1> QED BY <1>2, <1>3, Zenon

\* What record_execution does to the scheduler and to its worker.
LEMMA RecordPhase ==
  ASSUME TypeOK, NEW w \in Workers, RecordExecution(w)
  PROVE  /\ worker[w].idx \in Txns
         /\ \A t \in Txns \ {worker[w].idx} : sched'.txns[t] = sched.txns[t]
         /\ sched'.txns[worker[w].idx].executed
         /\ sched'.txns[worker[w].idx].reads = worker[w].reads
         /\ sched'.txns[worker[w].idx].write_keys = worker[w].keys
         /\ sched'.txns[worker[w].idx].receipt = <<Step(w).receipt>>
         /\ sched'.next_to_execute = sched.next_to_execute
         /\ sched'.commit_idx = sched.commit_idx
         /\ sched'.commit_in_flight = sched.commit_in_flight
         /\ worker[w].pc = "execute"
         /\ ~worker'[w].reexecuting
         /\ IF worker[w].reexecuting
            THEN worker'[w].pc = "commit" /\ worker'[w].idx = worker[w].idx
            ELSE worker'[w].pc = "next_task"
  <1>1. /\ worker \in [Workers -> WorkerStates] /\ worker[w] \in WorkerStates
        /\ sched \in SchedulerStates /\ worker[w].idx \in Txns
    BY DEF TypeOK, WorkerStates
  <1> QED BY <1>1 DEF RecordExecution, SchedulerStates, Ready

\* What try_commit_progress does: it claims the cursor or goes on to the next task.
LEMMA TryCommitPhase ==
  ASSUME TypeOK, NEW w \in Workers, TryCommit(w)
  PROVE  /\ worker[w].pc = "try_commit"
         /\ sched'.txns = sched.txns /\ sched'.next_to_execute = sched.next_to_execute
         /\ sched'.commit_idx = sched.commit_idx
         /\ \/ /\ ~sched.commit_in_flight /\ sched'.commit_in_flight
               /\ sched.commit_idx \in Txns /\ sched.txns[sched.commit_idx].executed
               /\ worker'[w].pc = "validate" /\ worker'[w].idx = sched.commit_idx
               /\ worker'[w].reexecuting = worker[w].reexecuting
            \/ /\ sched'.commit_in_flight = sched.commit_in_flight /\ worker'[w] = Ready
  <1>1. /\ worker \in [Workers -> WorkerStates] /\ worker[w] \in WorkerStates
        /\ sched \in SchedulerStates
    BY DEF TypeOK
  <1>2. CASE MayClaim
    <2>1. sched.commit_idx \in Txns
      BY <1>1, <1>2, BlockAssumption DEF MayClaim, IsDone, Txns, SchedulerStates
    <2> QED BY <1>1, <1>2, <2>1 DEF TryCommit, MayClaim, SchedulerStates, WorkerStates
  <1>3. CASE ~MayClaim
    BY <1>1, <1>3 DEF TryCommit
  <1> QED BY <1>2, <1>3

\* What SchedulerState::abort does: only the transaction at the cursor is reset.
LEMMA AbortPhase ==
  ASSUME TypeOK, NEW w \in Workers, Abort(w)
  PROVE  /\ worker[w].idx \in Txns /\ worker[w].pc = "abort" /\ ~Locked
         /\ \A t \in Txns \ {worker[w].idx} : sched'.txns[t] = sched.txns[t]
         /\ ~sched'.txns[worker[w].idx].executed
         /\ sched'.next_to_execute = sched.next_to_execute
         /\ sched'.commit_idx = sched.commit_idx
         /\ sched'.commit_in_flight = sched.commit_in_flight
         /\ worker'[w].idx = worker[w].idx
         /\ IF sched.txns[worker[w].idx].write_keys = {}
            THEN /\ worker'[w].pc = "execute" /\ worker'[w].reexecuting
                 /\ worker'[w].observed = << >> /\ worker'[w].reads = << >> /\ worker'[w].keys = {}
            ELSE /\ worker'[w].pc = "aborting" /\ worker'[w].reexecuting = worker[w].reexecuting
                 /\ worker'[w].keys = sched.txns[worker[w].idx].write_keys
                 /\ worker'[w].old_keys = sched.txns[worker[w].idx].write_keys
  <1> DEFINE t == worker[w].idx
  <1>1. /\ worker \in [Workers -> WorkerStates] /\ worker[w] \in WorkerStates
        /\ sched \in SchedulerStates /\ t \in Txns /\ sched.txns[t] \in TxnStates
    BY Zenon DEF TypeOK, WorkerStates, SchedulerStates
  <1>2. /\ \A i \in Txns \ {t} : sched'.txns[i] = sched.txns[i]
        /\ ~sched'.txns[t].executed
    BY <1>1, Zenon DEF Abort, SchedulerStates, TxnStates
  <1>3. /\ sched'.next_to_execute = sched.next_to_execute
        /\ sched'.commit_idx = sched.commit_idx
        /\ sched'.commit_in_flight = sched.commit_in_flight
    BY <1>1, Zenon DEF Abort, SchedulerStates
  <1>4. CASE sched.txns[t].write_keys = {}
    BY <1>1, <1>2, <1>3, <1>4, Zenon DEF Abort, Executing, Ready
  <1>5. CASE sched.txns[t].write_keys # {}
    <2> DEFINE old == sched.txns[t].write_keys
    <2>1. worker'[w] = [worker[w] EXCEPT !.pc = "aborting", !.keys = old, !.old_keys = old]
      BY <1>1, <1>5, Zenon DEF Abort
    <2> QED BY <1>1, <1>2, <1>3, <1>5, <2>1, Zenon DEF Abort, WorkerStates
  <1> QED BY <1>4, <1>5

\* What SchedulerState::commit does: the cursor moves on and the claim is released.
LEMMA CommitPhase ==
  ASSUME TypeOK, NEW w \in Workers, Commit(w)
  PROVE  /\ worker[w].pc = "commit" /\ worker'[w] = Ready /\ mv' = mv
         /\ sched'.txns = sched.txns /\ sched'.next_to_execute = sched.next_to_execute
         /\ sched'.commit_idx = sched.commit_idx + 1 /\ ~sched'.commit_in_flight
  BY DEF TypeOK, Commit, SchedulerStates

\* The steps of an execution and of a validation.
LEMMA ExecutionPhase ==
  ASSUME TypeOK, NEW w \in Workers, ReadState(w) \/ Publish(w)
  PROVE  /\ sched' = sched /\ worker[w].pc = "execute"
         /\ worker'[w].pc = worker[w].pc /\ worker'[w].idx = worker[w].idx
         /\ worker'[w].reexecuting = worker[w].reexecuting
  <1>1. worker \in [Workers -> WorkerStates] /\ worker[w] \in WorkerStates
    BY DEF TypeOK
  <1>2. CASE ReadState(w)
    BY <1>1, <1>2 DEF ReadState, WorkerStates
  <1>3. CASE Publish(w)
    BY <1>1, <1>3 DEF Publish, WorkerStates
  <1> QED BY <1>2, <1>3

\* Validation changes nothing but its worker.
LEMMA ValidationPhase ==
  ASSUME TypeOK, NEW w \in Workers, Validate(w) \/ ValidateRead(w)
  PROVE  /\ sched' = sched /\ worker'[w].idx = worker[w].idx
         /\ worker'[w].reexecuting = worker[w].reexecuting
         /\ worker[w].pc \in {"validate", "validating"}
         /\ worker'[w].pc \in {"validating", "abort", "commit"}
  <1>1. worker \in [Workers -> WorkerStates] /\ worker[w] \in WorkerStates
    BY DEF TypeOK
  <1>2. CASE Validate(w)
    BY <1>1, <1>2 DEF Validate, WorkerStates
  <1>3. CASE ValidateRead(w)
    BY <1>1, <1>3 DEF ValidateRead, WorkerStates
  <1> QED BY <1>2, <1>3

\* Marking and removing the old writes leaves the scheduler alone.
LEMMA TakeBackPhase ==
  ASSUME TypeOK, NEW w \in Workers, MarkEstimates(w) \/ RemoveWrites(w)
  PROVE  /\ sched' = sched /\ worker[w].pc = "aborting" /\ worker'[w].idx = worker[w].idx
         /\ \/ worker'[w].pc = "aborting" /\ worker'[w].reexecuting = worker[w].reexecuting
            \/ worker'[w].pc = "execute" /\ worker'[w].reexecuting /\ worker'[w].reads = << >>
  <1>1. worker \in [Workers -> WorkerStates] /\ worker[w] \in WorkerStates
    BY DEF TypeOK
  <1>2. CASE MarkEstimates(w)
    BY <1>1, <1>2 DEF MarkEstimates, WorkerStates
  <1>3. CASE RemoveWrites(w)
    BY <1>1, <1>3 DEF RemoveWrites, WorkerStates, Executing, Ready
  <1> QED BY <1>2, <1>3

\* A step that leaves the scheduler alone and keeps the worker in its role.
LEMMA RoleKept ==
  ASSUME PoolInv, NEW w \in Workers,
         \A v \in Workers \ {w} : worker'[v] = worker[v], sched' = sched,
         worker'[w].idx = worker[w].idx,
         Busy(w)' => Busy(w), Holds(w)' <=> Holds(w),
         worker'[w].reexecuting => worker'[w].pc = "execute",
         worker'[w].pc \in {"validate", "validating", "abort", "commit"} => Txn(w).executed
  PROVE  CursorInv' /\ BusyInv' /\ HolderInv'
  <1>1. CursorInv'
    BY DEF PoolInv, CursorInv
  <1>2. BusyInv'
    BY DEF PoolInv, BusyInv, Busy, Txn
  <1>3. \A v \in Workers : Holds(v)' <=> Holds(v)
    BY DEF Holds
  <1>4. \A v \in Workers : worker'[v].idx = worker[v].idx
    OBVIOUS
  <1>5. ClaimHasOneHolder'
    BY <1>3, <1>4 DEF PoolInv, HolderInv, ClaimHasOneHolder
  <1>6. HolderInv'
    BY <1>5, <1>4 DEF PoolInv, HolderInv, Txn
  <1> QED BY <1>1, <1>2, <1>6

\* Every step of a worker keeps the invariant of the pool.
LEMMA PoolStep ==
  ASSUME PoolInv, NEW w \in Workers, WorkerStep(w)
  PROVE  PoolInv'
  <1> USE DEF PoolInv
  <1>t. TypeOK'
    BY SchedulerTypeStep, WorkerTypeStep, StoreStep DEF TypeOK
  <1>o. \A v \in Workers \ {w} : worker'[v] = worker[v]
    BY OthersWait
  <1>w. /\ worker[w] \in WorkerStates /\ worker'[w] \in WorkerStates
        /\ worker[w].idx \in Txns /\ sched \in SchedulerStates
    BY <1>t DEF TypeOK, WorkerStates
  <1>1. CASE NextTask(w)
    <2>p. worker[w].pc = "next_task" /\ ~worker[w].reexecuting
      BY <1>1 DEF NextTask, HolderInv
    <2>1. CASE /\ sched' = sched
               /\ worker'[w].pc \in {"done", "try_commit"} /\ ~worker'[w].reexecuting
      <3>1. CursorInv'
        BY <2>1 DEF CursorInv
      <3>2. BusyInv'
        BY <2>1, <1>o DEF BusyInv, Busy, Txn
      <3>3. \A v \in Workers : Holds(v)' <=> Holds(v)
        BY <2>1, <2>p, <1>o DEF Holds
      <3>4. HolderInv'
        BY <2>1, <2>p, <3>3, <1>o DEF HolderInv, ClaimHasOneHolder, Txn, Holds
      <3> QED BY <1>t, <3>1, <3>2, <3>4
    <2>2. CASE /\ sched.next_to_execute \in Txns
               /\ sched'.next_to_execute = sched.next_to_execute + 1
               /\ sched'.txns = sched.txns /\ sched'.commit_idx = sched.commit_idx
               /\ sched'.commit_in_flight = sched.commit_in_flight
               /\ worker'[w] = Executing(sched.next_to_execute, sched.txns[sched.next_to_execute].incarnation, FALSE)
      <3>0. /\ worker'[w].pc = "execute" /\ worker'[w].idx = sched.next_to_execute
            /\ ~worker'[w].reexecuting
        BY <2>2 DEF Executing, Ready
      <3>n. sched.next_to_execute \in Nat
        BY <1>w, BlockAssumption DEF SchedulerStates
      <3>1. CursorInv'
        BY <2>2, <3>n DEF CursorInv, Txns
      <3>2. \A v \in Workers : worker[v].idx \in Nat
        BY DEF TypeOK, WorkerStates, Txns
      <3>x. ~sched.txns[sched.next_to_execute].executed
        BY <2>2, <3>n DEF CursorInv
      <3>y. \A v \in Workers : Busy(v) => worker[v].idx < sched.next_to_execute
        BY DEF BusyInv
      <3>z. \A v \in Workers \ {w} : Busy(v)' <=> Busy(v)
        BY <1>o DEF Busy
      <3>3. BusyInv'
        <4>1. ASSUME NEW v \in Workers, Busy(v)'
              PROVE  (~Txn(v).executed)' /\ worker'[v].idx < sched'.next_to_execute
          <5>1. CASE v = w
            <6>1. Txn(w)' = sched.txns[sched.next_to_execute]
              BY <2>2, <3>0, Zenon DEF Txn
            <6>2. sched.next_to_execute < sched.next_to_execute + 1
              BY <3>n
            <6> QED BY <5>1, <6>1, <6>2, <2>2, <3>0, <3>x, Zenon
          <5>2. CASE v # w
            <6>1. Busy(v) /\ worker'[v] = worker[v]
              BY <4>1, <5>2, <3>z, <1>o
            <6>2. ~Txn(v).executed /\ worker[v].idx < sched.next_to_execute
              BY <6>1 DEF BusyInv
            <6>3. worker[v].idx < sched.next_to_execute + 1
              BY <6>2, <3>n, <3>2
            <6> QED BY <6>1, <6>2, <6>3, <2>2 DEF Txn
          <5> QED BY <5>1, <5>2
        <4>2. ASSUME NEW u \in Workers, NEW v \in Workers,
                     Busy(u)', Busy(v)', worker'[u].idx = worker'[v].idx
              PROVE  u = v
          <5>1. \A x \in Workers \ {w} : Busy(x)' => worker'[x].idx < sched.next_to_execute
            BY <3>y, <3>z, <1>o
          <5>2. CASE u = w \/ v = w
            BY <4>2, <5>1, <5>2, <3>0, <3>n, <3>2, <1>o
          <5>3. CASE u # w /\ v # w
            BY <4>2, <5>3, <3>z, <1>o DEF BusyInv
          <5> QED BY <5>2, <5>3
        <4> QED BY <4>1, <4>2 DEF BusyInv
      <3>4. \A v \in Workers : Holds(v)' <=> Holds(v)
        BY <3>0, <2>p, <1>o DEF Holds
      <3>5. HolderInv'
        BY <2>2, <3>0, <2>p, <3>4, <1>o DEF HolderInv, ClaimHasOneHolder, Txn, Holds
      <3> QED BY <1>t, <3>1, <3>3, <3>5
    <2> QED BY <1>1, <2>p, <2>1, <2>2, NextTaskPhase, Zenon
  <1>2. CASE ReadState(w) \/ Publish(w)
    <2>1. /\ sched' = sched /\ worker[w].pc = "execute"
          /\ worker'[w].pc = worker[w].pc /\ worker'[w].idx = worker[w].idx
          /\ worker'[w].reexecuting = worker[w].reexecuting
      BY <1>2, ExecutionPhase
    <2>2. (Busy(w)' => Busy(w)) /\ (Holds(w)' <=> Holds(w))
      BY <2>1 DEF Busy, Holds
    <2> QED BY <1>t, <1>o, <2>1, <2>2, RoleKept
  <1>3. CASE Validate(w) \/ ValidateRead(w)
    <2>1. /\ sched' = sched /\ worker'[w].idx = worker[w].idx
          /\ worker'[w].reexecuting = worker[w].reexecuting
          /\ worker[w].pc \in {"validate", "validating"}
          /\ worker'[w].pc \in {"validating", "abort", "commit"}
      BY <1>3, ValidationPhase
    <2>2. (Busy(w)' => Busy(w)) /\ (Holds(w)' <=> Holds(w)) /\ ~worker[w].reexecuting
      BY <2>1 DEF Busy, Holds, HolderInv
    <2>3. Txn(w).executed
      BY <2>1 DEF HolderInv
    <2> QED BY <1>t, <1>o, <2>1, <2>2, <2>3, RoleKept
  <1>4. CASE MarkEstimates(w) \/ RemoveWrites(w)
    <2>1. /\ sched' = sched /\ worker[w].pc = "aborting" /\ worker'[w].idx = worker[w].idx
          /\ \/ worker'[w].pc = "aborting" /\ worker'[w].reexecuting = worker[w].reexecuting
             \/ worker'[w].pc = "execute" /\ worker'[w].reexecuting
      BY <1>4, TakeBackPhase
    <2>2. (Busy(w)' => Busy(w)) /\ (Holds(w)' <=> Holds(w)) /\ ~worker[w].reexecuting
      BY <2>1 DEF Busy, Holds, HolderInv
    <2> QED BY <1>t, <1>o, <2>1, <2>2, RoleKept
  <1>5. CASE RecordExecution(w)
    <2> DEFINE t == worker[w].idx
    <2>1. /\ \A i \in Txns \ {t} : sched'.txns[i] = sched.txns[i]
          /\ sched'.txns[t].executed
          /\ sched'.next_to_execute = sched.next_to_execute
          /\ sched'.commit_idx = sched.commit_idx
          /\ sched'.commit_in_flight = sched.commit_in_flight
          /\ worker[w].pc = "execute" /\ ~worker'[w].reexecuting
          /\ IF worker[w].reexecuting
             THEN worker'[w].pc = "commit" /\ worker'[w].idx = worker[w].idx
             ELSE worker'[w].pc = "next_task"
      BY <1>5, RecordPhase
    <2>2. Busy(w) /\ t < sched.next_to_execute
      BY <2>1 DEF Busy, BusyInv
    <2>3. CursorInv'
      BY <2>1, <2>2, <1>w DEF CursorInv
    <2>4. \A v \in Workers : worker[v].idx \in Txns
      BY DEF TypeOK, WorkerStates
    <2>5. BusyInv'
      BY <2>1, <2>2, <2>4, <1>o DEF BusyInv, Busy, Txn
    <2>6. \A v \in Workers : Holds(v)' <=> Holds(v)
      BY <2>1, <1>o DEF Holds
    <2>7. \A v \in Workers : Holds(v) => worker'[v].idx = worker[v].idx
      BY <2>1, <1>o DEF Holds
    <2>8. ClaimHasOneHolder'
      BY <2>1, <2>6, <2>7 DEF HolderInv, ClaimHasOneHolder
    <2>9. HolderInv'
      BY <2>1, <2>4, <2>8, <1>o DEF HolderInv, Txn
    <2> QED BY <1>t, <2>3, <2>5, <2>9
  <1>6. CASE TryCommit(w)
    <2>p. /\ worker[w].pc = "try_commit" /\ ~worker[w].reexecuting
          /\ sched'.txns = sched.txns /\ sched'.next_to_execute = sched.next_to_execute
          /\ sched'.commit_idx = sched.commit_idx
      BY <1>6, TryCommitPhase DEF HolderInv
    <2>c. CursorInv'
      BY <2>p DEF CursorInv
    <2>1. CASE /\ ~sched.commit_in_flight /\ sched'.commit_in_flight
               /\ sched.commit_idx \in Txns /\ sched.txns[sched.commit_idx].executed
               /\ worker'[w].pc = "validate" /\ worker'[w].idx = sched.commit_idx
               /\ ~worker'[w].reexecuting
      <3>1. BusyInv'
        BY <2>1, <2>p, <1>o DEF BusyInv, Busy, Txn
      <3>2. \A v \in Workers : Holds(v)' <=> v = w
        BY <2>1, <1>o DEF Holds, HolderInv, ClaimHasOneHolder
      <3>3. ClaimHasOneHolder'
        BY <2>1, <2>p, <3>2 DEF ClaimHasOneHolder
      <3>4. HolderInv'
        BY <2>1, <2>p, <3>3, <1>o DEF HolderInv, Txn
      <3> QED BY <1>t, <2>c, <3>1, <3>4
    <2>2. CASE sched'.commit_in_flight = sched.commit_in_flight /\ worker'[w] = Ready
      <3>0. worker'[w].pc = "next_task" /\ ~worker'[w].reexecuting
        BY <2>2 DEF Ready
      <3>1. BusyInv'
        BY <3>0, <2>p, <1>o DEF BusyInv, Busy, Txn
      <3>2. \A v \in Workers : Holds(v)' <=> Holds(v)
        BY <3>0, <2>p, <1>o DEF Holds
      <3>3. \A v \in Workers : Holds(v) => worker'[v].idx = worker[v].idx
        BY <2>p, <1>o DEF Holds
      <3>4. ClaimHasOneHolder'
        BY <2>2, <2>p, <3>2, <3>3 DEF HolderInv, ClaimHasOneHolder
      <3>5. HolderInv'
        BY <3>0, <2>p, <3>4, <1>o DEF HolderInv, Txn
      <3> QED BY <1>t, <2>c, <3>1, <3>5
    <2> QED BY <1>6, <2>p, <2>1, <2>2, TryCommitPhase
  <1>7. CASE Abort(w)
    <2> DEFINE t == worker[w].idx
    <2>1. /\ worker[w].pc = "abort"
          /\ \A i \in Txns \ {t} : sched'.txns[i] = sched.txns[i]
          /\ ~sched'.txns[t].executed
          /\ sched'.next_to_execute = sched.next_to_execute
          /\ sched'.commit_idx = sched.commit_idx
          /\ sched'.commit_in_flight = sched.commit_in_flight
          /\ worker'[w].idx = worker[w].idx
          /\ \/ worker'[w].pc = "execute" /\ worker'[w].reexecuting
             \/ worker'[w].pc = "aborting" /\ worker'[w].reexecuting = worker[w].reexecuting
      BY <1>7, AbortPhase
    <2>2. /\ t = sched.commit_idx /\ sched.txns[t].executed /\ ~worker[w].reexecuting
          /\ Holds(w)
      BY <2>1 DEF HolderInv, ClaimHasOneHolder, Holds, Txn
    <2>n. t \in Nat /\ sched.commit_idx \in Nat
      BY <1>w DEF Txns, SchedulerStates
    <2>3. CursorInv'
      BY <2>1, <2>2, <2>n DEF CursorInv, Txns
    <2>4. \A v \in Workers : worker[v].idx \in Txns
      BY DEF TypeOK, WorkerStates
    <2>5. t < sched.next_to_execute
      BY <2>2, <1>w DEF CursorInv
    <2>6. \A v \in Workers : Busy(v) => worker[v].idx # t
      BY <2>2 DEF BusyInv, Txn
    <2>7. BusyInv'
      BY <2>1, <2>4, <2>5, <2>6, <1>o DEF BusyInv, Busy, Txn
    <2>8. \A v \in Workers : Holds(v)' <=> Holds(v)
      BY <2>1, <1>o DEF Holds
    <2>9. ClaimHasOneHolder'
      BY <2>1, <2>8, <1>o DEF HolderInv, ClaimHasOneHolder
    <2>10. \A v \in Workers \ {w} : ~Holds(v)
      BY <2>2 DEF HolderInv, ClaimHasOneHolder
    <2>11. HolderInv'
      BY <2>1, <2>2, <2>4, <2>9, <2>10, <1>o DEF HolderInv, Txn, Holds
    <2> QED BY <1>t, <2>3, <2>7, <2>11
  <1>8. CASE Commit(w)
    <2>1. /\ worker[w].pc = "commit" /\ worker'[w] = Ready
          /\ sched'.txns = sched.txns /\ sched'.next_to_execute = sched.next_to_execute
          /\ sched'.commit_idx = sched.commit_idx + 1 /\ ~sched'.commit_in_flight
      BY <1>8, CommitPhase
    <2>2. worker'[w].pc = "next_task" /\ ~worker'[w].reexecuting
      BY <2>1 DEF Ready
    <2>3. Holds(w) /\ worker[w].idx = sched.commit_idx /\ sched.txns[sched.commit_idx].executed
      BY <2>1 DEF HolderInv, ClaimHasOneHolder, Holds, Txn
    <2>n. sched.commit_idx \in Nat
      BY <1>w, BlockAssumption DEF SchedulerStates
    <2>4. CursorInv'
      BY <2>1, <2>3, <2>n DEF CursorInv, Txns
    <2>5. BusyInv'
      BY <2>1, <2>2, <1>o DEF BusyInv, Busy, Txn
    <2>6. \A v \in Workers : ~Holds(v)'
      BY <2>2, <2>3, <1>o DEF HolderInv, ClaimHasOneHolder, Holds
    <2>7. HolderInv'
      BY <2>1, <2>2, <2>6 DEF HolderInv, ClaimHasOneHolder, Holds
    <2> QED BY <1>t, <2>4, <2>5, <2>7
  <1> QED BY <1>1, <1>2, <1>3, <1>4, <1>5, <1>6, <1>7, <1>8 DEF WorkerStep

\* The invariant of the pool is inductive.
LEMMA PoolNext == PoolInv /\ [Next]_vars => PoolInv'
  <1>1. ASSUME PoolInv, UNCHANGED vars PROVE PoolInv'
    BY <1>1 DEF vars, PoolInv, TypeOK, StoreOK, CursorInv, BusyInv, Busy, Txn, HolderInv,
                ClaimHasOneHolder, Holds
  <1> QED BY <1>1, PoolStep DEF Next, Finished

\* The claim on the commit cursor has one holder, who is at the cursor, and the
\* state of pool and store keeps its type: for every number of workers and
\* every block, whatever the interleaving.
THEOREM PoolCoordinated == Spec => []WorkersCoordinated
  <1>1. PoolInv => WorkersCoordinated
    BY DEF PoolInv, HolderInv, WorkersCoordinated
  <1> QED BY InitPool, PoolNext, <1>1, PTL DEF Spec

-----------------------------------------------------------------------------
(***************************************************************************)
(* What the store holds of each transaction.  The predicates take the      *)
(* store as an argument, so that a step can compare two stores.            *)
(***************************************************************************)
\* Transaction t has entries at the keys ks, none of them an estimate.
Holding(m, t, ks) ==
  \A k \in StateKey : /\ t \in DOMAIN m[k] <=> k \in ks
                      /\ k \in ks => ~m[k][t].is_estimate

Published(m, t, o, ks) ==
  Program(t, o).op = "end" /\ \A k \in ks : m[k][t].value = Program(t, o).writes[k]

\* The transactions of the block read through views that record their reads.
ReadsCaptured ==
  \A t \in Txns, o \in Readings : Program(t, o).op = "read" => Program(t, o).captured

\* The values o are what transaction t was given by the reads rs.
Recorded(t, o, rs) ==
  /\ Len(rs) = Len(o)
  /\ \A i \in 1 .. Len(o) :
       LET step == Program(t, SubSeq(o, 1, i - 1)) IN
       step.op = "read" /\ rs[i].key = step.key /\ o[i] = Resolved(step.key, rs[i].observed)

\* An execution under way: x is the worker.
Underway(m, x) ==
  /\ Holding(m, x.idx, x.keys)
  /\ x.keys # {} => Published(m, x.idx, x.observed, x.keys)
  /\ ReadsCaptured => Recorded(x.idx, x.observed, x.reads)

\* A recorded execution: x is the scheduler's record of transaction t.
Outcome(m, t, x, o) ==
  /\ Published(m, t, o, x.write_keys) /\ x.write_keys = DOMAIN Program(t, o).writes
  /\ x.receipt = <<Program(t, o).receipt>>
  /\ ReadsCaptured => Recorded(t, o, x.reads)

Executed(m, t, x) ==
  Holding(m, t, x.write_keys) /\ \E o \in Readings : Outcome(m, t, x, o)

\* Writes being taken back: x is the worker.
TakenBack(m, x) ==
  x.keys \subseteq x.old_keys /\ \A k \in StateKey : x.idx \in DOMAIN m[k] => k \in x.old_keys

SlotInv ==
  /\ \A t \in Txns : sched.next_to_execute <= t => Holding(mv, t, {})
  /\ \A t \in Txns : sched.txns[t].executed => Executed(mv, t, sched.txns[t])
  /\ \A w \in Workers : worker[w].pc = "execute" => Underway(mv, worker[w])
  /\ \A w \in Workers : worker[w].pc = "aborting" => TakenBack(mv, worker[w])

\* A step keeps the entries of transaction t.
SlotKept(t) ==
  \A k \in StateKey : /\ t \in DOMAIN mv'[k] <=> t \in DOMAIN mv[k]
                      /\ t \in DOMAIN mv[k] => mv'[k][t] = mv[k][t]

\* A worker touches the entries of its own transaction only.
LEMMA SlotsKept ==
  ASSUME PoolInv, NEW w \in Workers, WorkerStep(w)
  PROVE  /\ \A t \in Txns : ~Busy(w) \/ t # worker[w].idx => SlotKept(t)
         /\ \A t \in Txns : sched.txns[t].executed \/ sched.next_to_execute <= t => SlotKept(t)
         /\ \A v \in Workers \ {w} : Busy(v) => SlotKept(worker[v].idx)
  <1>1. \A t \in Txns : ~Busy(w) \/ t # worker[w].idx => SlotKept(t)
    BY StoreStep DEF PoolInv, SameBut, SlotKept
  <1>2. Busy(w) => ~sched.txns[worker[w].idx].executed /\ worker[w].idx < sched.next_to_execute
    BY DEF PoolInv, BusyInv, Txn
  <1>3. worker[w].idx \in Nat /\ sched.next_to_execute \in Nat
    BY DEF PoolInv, TypeOK, WorkerStates, SchedulerStates, Txns
  <1>4. ASSUME NEW t \in Txns, sched.txns[t].executed \/ sched.next_to_execute <= t
        PROVE  ~Busy(w) \/ t # worker[w].idx
    BY <1>2, <1>3, <1>4
  <1>5. \A v \in Workers \ {w} : Busy(v) /\ Busy(w) => worker[v].idx # worker[w].idx
    BY DEF PoolInv, BusyInv
  <1>6. \A v \in Workers : worker[v].idx \in Txns
    BY DEF PoolInv, TypeOK, WorkerStates
  <1>7. \A v \in Workers \ {w} : Busy(v) => SlotKept(worker[v].idx)
    BY <1>1, <1>5, <1>6
  <1> QED BY <1>1, <1>4, <1>7

\* A committed transaction is immutable in the store: its worker is done with
\* it, and no other worker publishes, marks or removes at its index.
THEOREM CommittedStays == Spec => CommittedIsImmutable
  <1>1. ASSUME PoolInv, [Next]_vars
        PROVE  \A k \in StateKey, t \in 0 .. (sched.commit_idx - 1) :
                 /\ t \in DOMAIN mv[k] <=> t \in DOMAIN mv'[k]
                 /\ t \in DOMAIN mv[k] => mv'[k][t] = mv[k][t]
    <2>1. CASE UNCHANGED vars
      BY <2>1 DEF vars
    <2>2. ASSUME NEW w \in Workers, WorkerStep(w)
          PROVE  \A t \in Txns : t < sched.commit_idx => SlotKept(t)
      BY <1>1, <2>2, SlotsKept DEF PoolInv, CursorInv
    <2>3. \A t \in 0 .. (sched.commit_idx - 1) : t \in Txns /\ t < sched.commit_idx
      BY <1>1, BlockAssumption DEF PoolInv, TypeOK, SchedulerStates, Txns
    <2> QED BY <1>1, <2>1, <2>2, <2>3 DEF Next, Finished, SlotKept
  <1>2. PoolInv /\ [Next]_vars => PoolInv'
    BY PoolNext
  <1> QED BY <1>1, <1>2, InitPool, PTL DEF Spec, CommittedIsImmutable

\* The entries that are kept mean what they meant.
LEMMA SlotMeaning ==
  ASSUME NEW t \in Txns, SlotKept(t)
  PROVE  /\ \A ks \in SUBSET StateKey : Holding(mv, t, ks) => Holding(mv', t, ks)
         /\ \A x \in TxnStates : Executed(mv, t, x) => Executed(mv', t, x)
         /\ \A x \in WorkerStates : x.idx = t /\ Underway(mv, x) => Underway(mv', x)
         /\ \A x \in WorkerStates : x.idx = t /\ TakenBack(mv, x) => TakenBack(mv', x)
  <1>1. ASSUME NEW ks \in SUBSET StateKey, Holding(mv, t, ks)
        PROVE  Holding(mv', t, ks) /\ \A k \in ks : mv'[k][t] = mv[k][t]
    BY <1>1 DEF Holding, SlotKept
  <1>2. ASSUME NEW ks \in SUBSET StateKey, NEW o, Holding(mv, t, ks), Published(mv, t, o, ks)
        PROVE  Published(mv', t, o, ks)
    BY <1>1, <1>2 DEF Published
  <1>3. ASSUME NEW x \in TxnStates, Executed(mv, t, x)
        PROVE  Executed(mv', t, x)
    <2>1. x.write_keys \in SUBSET StateKey
      BY DEF TxnStates
    <2>2. Holding(mv, t, x.write_keys) /\ Holding(mv', t, x.write_keys)
      BY <1>1, <1>3, <2>1 DEF Executed
    <2>3. \A o : Outcome(mv, t, x, o) => Outcome(mv', t, x, o)
      BY <1>2, <2>1, <2>2 DEF Outcome
    <2> QED BY <1>3, <2>2, <2>3 DEF Executed
  <1>4. ASSUME NEW x \in WorkerStates, x.idx = t, Underway(mv, x)
        PROVE  Underway(mv', x)
    <2>1. x.keys \in SUBSET StateKey
      BY DEF WorkerStates
    <2> QED BY <1>1, <1>2, <1>4, <2>1 DEF Underway
  <1>5. ASSUME NEW x \in WorkerStates, x.idx = t, TakenBack(mv, x)
        PROVE  TakenBack(mv', x)
    BY <1>5 DEF TakenBack, SlotKept
  <1> QED BY <1>1, <1>3, <1>4, <1>5

\* A recorded read.
LEMMA ReadRecorded ==
  ASSUME NEW t \in Txns, NEW o \in Readings, NEW rs \in Seq(Reads), Recorded(t, o, rs),
         NEW v \in Values, NEW r \in Reads,
         Program(t, o).op = "read", r.key = Program(t, o).key, v = Resolved(r.key, r.observed)
  PROVE  Recorded(t, Append(o, v), rs \o <<r>>)
  <1> DEFINE p == Append(o, v)
             qs == rs \o <<r>>
             n == Len(o)
  <1>1. o \in Seq(Values) /\ n \in Nat /\ Len(rs) = n
    BY ReadingIsSeq, LenProperties DEF Recorded
  <1>2. p \in Seq(Values) /\ Len(p) = n + 1 /\ p[n + 1] = v /\ \A i \in 1 .. n : p[i] = o[i]
    BY <1>1, AppendProperties
  <1>3. Len(qs) = n + 1 /\ qs[n + 1] = r /\ \A i \in 1 .. n : qs[i] = rs[i]
    <2>1. qs = Append(rs, r)
      BY AppendIsConcat
    <2> HIDE DEF n, qs
    <2> QED BY <1>1, <2>1, AppendProperties
  <1>4. ASSUME NEW i \in 1 .. (n + 1) PROVE SubSeq(p, 1, i - 1) = SubSeq(o, 1, i - 1)
    <2> HIDE DEF p, n
    <2>1. i - 1 \in 0 .. n /\ 1 .. (i - 1) \subseteq 1 .. n
      BY <1>1
    <2>2. /\ SubSeq(p, 1, i - 1) = [j \in 1 .. (i - 1) |-> p[j]]
          /\ SubSeq(o, 1, i - 1) = [j \in 1 .. (i - 1) |-> o[j]]
      BY <1>1, <1>2, <2>1
    <2> QED BY <1>2, <2>1, <2>2
  <1>5. SubSeq(o, 1, n) = o
    BY <1>1
  <1> HIDE DEF p, qs, n
  <1>6. ASSUME NEW i \in 1 .. (n + 1)
        PROVE  LET step == Program(t, SubSeq(p, 1, i - 1)) IN
               step.op = "read" /\ qs[i].key = step.key /\ p[i] = Resolved(step.key, qs[i].observed)
    <2>1. CASE i = n + 1
      <3>1. i - 1 = n
        BY <2>1, <1>1
      <3>2. Program(t, SubSeq(p, 1, i - 1)) = Program(t, o)
        BY <1>4, <1>5, <3>1, Zenon
      <3> QED BY <2>1, <3>2, <1>2, <1>3
    <2>2. CASE i # n + 1
      <3>1. i \in 1 .. n
        BY <2>2, <1>1
      <3>2. Program(t, SubSeq(p, 1, i - 1)) = Program(t, SubSeq(o, 1, i - 1))
        BY <1>4, Zenon
      <3> QED BY <3>1, <3>2, <1>2, <1>3 DEF Recorded, n
    <2> QED BY <2>1, <2>2
  <1> QED BY <1>2, <1>3, <1>6 DEF Recorded, p, qs

\* An execution that has read nothing has nothing to record.
LEMMA NothingRecorded ==
  ASSUME NEW t
  PROVE  Recorded(t, << >>, << >>)
  BY DEF Recorded

\* The transactions and workers that a step is not about.
LEMMA SlotFrame ==
  ASSUME PoolInv, SlotInv, NEW w \in Workers, WorkerStep(w)
  PROVE  /\ \A t \in Txns : sched.next_to_execute <= t => Holding(mv', t, {})
         /\ \A t \in Txns : sched.txns[t].executed => Executed(mv', t, sched.txns[t])
         /\ \A v \in Workers \ {w} : worker'[v].pc = "execute" => Underway(mv', worker'[v])
         /\ \A v \in Workers \ {w} : worker'[v].pc = "aborting" => TakenBack(mv', worker'[v])
  <1>o. \A v \in Workers \ {w} : worker'[v] = worker[v]
    BY OthersWait DEF PoolInv
  <1>t. /\ \A t \in Txns : sched.txns[t] \in TxnStates
        /\ \A v \in Workers : worker[v] \in WorkerStates /\ worker[v].idx \in Txns
    BY DEF PoolInv, TypeOK, SchedulerStates, WorkerStates
  <1>1. ASSUME NEW t \in Txns, sched.next_to_execute <= t PROVE Holding(mv', t, {})
    BY <1>1, SlotsKept, SlotMeaning DEF SlotInv
  <1>2. ASSUME NEW t \in Txns, sched.txns[t].executed PROVE Executed(mv', t, sched.txns[t])
    BY <1>2, <1>t, SlotsKept, SlotMeaning DEF SlotInv
  <1>3. ASSUME NEW v \in Workers \ {w}, Busy(v) PROVE SlotKept(worker[v].idx)
    BY <1>3, SlotsKept
  <1>4. ASSUME NEW v \in Workers \ {w}, worker'[v].pc = "execute" PROVE Underway(mv', worker'[v])
    BY <1>3, <1>4, <1>o, <1>t, SlotMeaning DEF SlotInv, Busy
  <1>5. ASSUME NEW v \in Workers \ {w}, worker'[v].pc = "aborting" PROVE TakenBack(mv', worker'[v])
    BY <1>3, <1>5, <1>o, <1>t, SlotMeaning DEF SlotInv, Busy
  <1> QED BY <1>1, <1>2, <1>4, <1>5

\* An execution that starts on an empty slot.
LEMMA FreshExecution ==
  ASSUME NEW m, NEW t \in Txns, NEW n, NEW again, Holding(m, t, {})
  PROVE  Underway(m, Executing(t, n, again))
  <1> DEFINE x == Executing(t, n, again)
  <1>1. x.idx = t /\ x.keys = {} /\ x.observed = << >> /\ x.reads = << >>
    BY DEF Executing, Ready
  <1> HIDE DEF x
  <1>2. Underway(m, x)
    BY <1>1, NothingRecorded DEF Underway
  <1> QED BY <1>2 DEF x

\* The worker that takes the step, and the transaction it is at.
LEMMA ReadStateSlot ==
  ASSUME PoolInv, SlotInv, NEW w \in Workers, ReadState(w)
  PROVE  Underway(mv', worker'[w])
  <1> DEFINE W == worker[w]
             read == MvRead(Step(w).key, W.idx)
             v == Resolved(Step(w).key, read)
             r == [key |-> Step(w).key, observed |-> Observed(read)]
  <1>1. /\ W \in WorkerStates /\ W.idx \in Txns /\ W.observed \in Readings /\ W.reads \in Seq(Reads)
        /\ worker \in [Workers -> WorkerStates]
    BY DEF PoolInv, TypeOK, WorkerStates
  <1>2. mv' = mv /\ Underway(mv, W) /\ Step(w).op = "read"
    BY DEF ReadState, SlotInv
  <1>3. W.keys = {}
    BY <1>2 DEF Underway, Published, Step
  <1>4. /\ worker'[w].idx = W.idx /\ worker'[w].keys = {}
        /\ worker'[w].observed = Append(W.observed, v)
        /\ worker'[w].reads = W.reads \o Capture(Step(w), read)
    BY <1>1, <1>3 DEF ReadState, WorkerStates
  <1>5. Step(w).key \in StateKey
    BY <1>2, StepType DEF PoolInv
  <1>6. v \in Values /\ r \in Reads
    BY <1>1, <1>5, MvReadType DEF PoolInv, TypeOK, Reads
  <1>7. v = Resolved(r.key, r.observed)
    BY DEF Resolved, Observed, NotFound
  <1>8. ASSUME ReadsCaptured PROVE Recorded(worker'[w].idx, worker'[w].observed, worker'[w].reads)
    <2>1. Recorded(W.idx, W.observed, W.reads)
      BY <1>2, <1>8 DEF Underway
    <2>2. Step(w).captured
      BY <1>1, <1>2, <1>8 DEF ReadsCaptured, Step
    <2>3. Capture(Step(w), read) = <<r>>
      BY <2>2 DEF Capture
    <2>4. Program(W.idx, W.observed).op = "read" /\ r.key = Program(W.idx, W.observed).key
      BY <1>2 DEF Step
    <2> HIDE DEF W, v, r, read
    <2>5. Recorded(W.idx, Append(W.observed, v), W.reads \o <<r>>)
      BY <2>1, <2>4, <1>1, <1>6, <1>7, ReadRecorded
    <2> QED BY <2>3, <2>5, <1>4
  <1> QED BY <1>2, <1>3, <1>4, <1>8 DEF Underway

\* After one more write is published the store still holds what the worker says it wrote.
LEMMA PublishSlot ==
  ASSUME PoolInv, SlotInv, NEW w \in Workers, Publish(w)
  PROVE  Underway(mv', worker'[w])
  <1> DEFINE W == worker[w]
  <1>1. /\ W \in WorkerStates /\ W.idx \in Txns /\ W.keys \subseteq StateKey /\ W.incarnation \in Nat
        /\ worker \in [Workers -> WorkerStates]
    BY DEF PoolInv, TypeOK, WorkerStates
  <1>2. Underway(mv, W) /\ Step(w).op = "end"
    BY DEF Publish, SlotInv
  <1>3. PICK k \in DOMAIN Step(w).writes \ W.keys :
          /\ mv' = MvWrite(k, W.idx, Entry(W.incarnation, Step(w).writes[k]))
          /\ worker' = [worker EXCEPT ![w].keys = @ \cup {k}]
    BY Zenon DEF Publish
  <1> DEFINE e == Entry(W.incarnation, Step(w).writes[k])
  <1>4. k \in StateKey /\ Step(w).writes[k] \in Values
    BY <1>2, StepType DEF PoolInv
  <1>5. e \in Entries /\ ~e.is_estimate /\ e.value = Step(w).writes[k]
    BY <1>1, <1>4 DEF Entry, Entries
  <1>6. /\ \A j \in StateKey \ {k} : mv'[j] = mv[j]
        /\ W.idx \in DOMAIN mv'[k] /\ mv'[k][W.idx] = e
    BY <1>1, <1>3, <1>4, <1>5, MvWriteEffect DEF PoolInv, TypeOK
  <1>7. /\ worker'[w].idx = W.idx /\ worker'[w].observed = W.observed
        /\ worker'[w].reads = W.reads /\ worker'[w].keys = W.keys \cup {k}
    BY <1>1, <1>3 DEF WorkerStates
  <1> HIDE DEF e
  <1>8. Holding(mv', W.idx, W.keys \cup {k})
    BY <1>1, <1>2, <1>4, <1>5, <1>6 DEF Underway, Holding
  <1>9. \A j \in W.keys : mv'[j][W.idx].value = Step(w).writes[j]
    <2>1. \A j \in W.keys : mv[j][W.idx].value = Step(w).writes[j]
      BY <1>2 DEF Underway, Published, Step
    <2> QED BY <2>1, <1>1, <1>3, <1>6
  <1>10. Published(mv', W.idx, W.observed, W.keys \cup {k})
    BY <1>2, <1>5, <1>6, <1>9 DEF Published, Step
  <1> QED BY <1>2, <1>7, <1>8, <1>10 DEF Underway

\* A recorded execution has all its writes in the store and no others.
LEMMA RecordSlot ==
  ASSUME PoolInv, SlotInv, NEW w \in Workers, RecordExecution(w)
  PROVE  Executed(mv', worker[w].idx, sched'.txns[worker[w].idx])
  <1> DEFINE t == worker[w].idx
             o == worker[w].observed
             x == sched'.txns[t]
  <1>1. /\ x.reads = worker[w].reads /\ x.write_keys = worker[w].keys
        /\ x.receipt = <<Program(t, o).receipt>> /\ worker[w].pc = "execute"
    BY RecordPhase DEF PoolInv, Step
  <1>2. /\ mv' = mv /\ Program(t, o).op = "end" /\ worker[w].keys = DOMAIN Program(t, o).writes
        /\ Underway(mv, worker[w])
    BY <1>1 DEF RecordExecution, SlotInv, Step
  <1>3. o \in Readings
    BY DEF PoolInv, TypeOK, WorkerStates
  <1> HIDE DEF t, o, x
  <1>4. Holding(mv', t, x.write_keys)
    BY <1>1, <1>2 DEF Underway, t
  <1>5. Published(mv', t, o, x.write_keys)
    BY <1>1, <1>2 DEF Underway, Published, t, o
  <1>6. ReadsCaptured => Recorded(t, o, x.reads)
    BY <1>1, <1>2 DEF Underway, t, o
  <1>7. Outcome(mv', t, x, o)
    BY <1>1, <1>2, <1>5, <1>6 DEF Outcome
  <1>8. Executed(mv', t, x)
    BY <1>3, <1>4, <1>7 DEF Executed
  <1> QED BY <1>8 DEF t, x

\* An aborted execution leaves behind exactly the writes to be taken back.
LEMMA AbortSlot ==
  ASSUME PoolInv, SlotInv, NEW w \in Workers, Abort(w)
  PROVE  /\ worker'[w].pc = "execute" => Underway(mv', worker'[w])
         /\ worker'[w].pc = "aborting" => TakenBack(mv', worker'[w])
  <1> DEFINE t == worker[w].idx
             old == sched.txns[t].write_keys
  <1>1. /\ worker[w].pc = "abort" /\ t \in Txns /\ worker'[w].idx = t /\ mv' = mv
        /\ IF old = {}
           THEN /\ worker'[w].pc = "execute"
                /\ worker'[w].observed = << >> /\ worker'[w].reads = << >> /\ worker'[w].keys = {}
           ELSE worker'[w].pc = "aborting" /\ worker'[w].keys = old /\ worker'[w].old_keys = old
    BY AbortPhase, Zenon DEF PoolInv, Abort
  <1>2. sched.txns[t].executed
    BY <1>1 DEF PoolInv, HolderInv, Txn
  <1>3. Holding(mv, t, old)
    BY <1>1, <1>2 DEF SlotInv, Executed
  <1> HIDE DEF t, old
  <1>4. CASE old = {}
    BY <1>1, <1>3, <1>4, NothingRecorded, Zenon DEF Underway
  <1>5. CASE old # {}
    BY <1>1, <1>3, <1>5 DEF TakenBack, Holding
  <1> QED BY <1>4, <1>5, Zenon

\* Each write taken back is gone before the transaction runs again.
LEMMA TakeBackSlot ==
  ASSUME PoolInv, SlotInv, NEW w \in Workers, MarkEstimates(w) \/ RemoveWrites(w)
  PROVE  /\ worker'[w].pc = "execute" => Underway(mv', worker'[w])
         /\ worker'[w].pc = "aborting" => TakenBack(mv', worker'[w])
  <1> DEFINE W == worker[w]
  <1>1. /\ W \in WorkerStates /\ W.idx \in Txns /\ W.old_keys \subseteq StateKey
        /\ worker \in [Workers -> WorkerStates] /\ W.keys \subseteq StateKey
    BY DEF PoolInv, TypeOK, WorkerStates
  <1>2. W.pc = "aborting" /\ TakenBack(mv, W)
    BY Zenon DEF SlotInv, MarkEstimates, RemoveWrites
  <1>3. CASE MarkEstimates(w)
    <2>1. PICK k \in W.keys :
            mv' = MarkEstimate(k, W.idx) /\ worker' = [worker EXCEPT ![w].keys = @ \ {k}]
      BY <1>3, Zenon DEF MarkEstimates
    <2>2. /\ worker'[w].pc = "aborting" /\ worker'[w].idx = W.idx /\ worker'[w].old_keys = W.old_keys
          /\ worker'[w].keys = W.keys \ {k}
      BY <1>1, <1>2, <2>1 DEF WorkerStates
    <2>3. \A j \in StateKey : DOMAIN mv'[j] = DOMAIN mv[j]
      BY <1>1, <2>1, MarkEstimateEffect DEF PoolInv, TypeOK
    <2> QED BY <1>2, <2>2, <2>3 DEF TakenBack
  <1>4. CASE RemoveWrites(w)
    <2>1. PICK k \in W.old_keys :
            /\ mv' = RemoveWrite(k, W.idx)
            /\ worker' = [worker EXCEPT ![w] =
                 IF W.old_keys = {k}
                 THEN Executing(W.idx, sched.txns[W.idx].incarnation, TRUE)
                 ELSE [W EXCEPT !.old_keys = W.old_keys \ {k}]]
      BY <1>4, Zenon DEF RemoveWrites
    <2>2. /\ \A j \in StateKey \ {k} : mv'[j] = mv[j]
          /\ W.idx \notin DOMAIN mv'[k]
      BY <1>1, <2>1, RemoveWriteEffect DEF PoolInv, TypeOK
    <2>3. \A j \in StateKey : W.idx \in DOMAIN mv'[j] => j \in W.old_keys \ {k}
      BY <1>2, <2>2 DEF TakenBack
    <2>4. CASE W.old_keys = {k}
      <3>1. worker'[w] = Executing(W.idx, sched.txns[W.idx].incarnation, TRUE)
        BY <1>1, <2>1, <2>4
      <3>2. Holding(mv', W.idx, {})
        BY <2>3, <2>4 DEF Holding
      <3>3. Underway(mv', worker'[w])
        BY <1>1, <3>1, <3>2, FreshExecution, Zenon
      <3>4. worker'[w].pc = "execute"
        BY <3>1 DEF Executing, Ready
      <3> QED BY <3>3, <3>4
    <2>5. CASE W.old_keys # {k}
      <3>1. worker'[w] = [W EXCEPT !.old_keys = W.old_keys \ {k}] /\ W.keys = {}
        BY <1>1, <1>4, <2>1, <2>5, Zenon DEF RemoveWrites
      <3>2. /\ worker'[w].pc = "aborting" /\ worker'[w].idx = W.idx
            /\ worker'[w].old_keys = W.old_keys \ {k} /\ worker'[w].keys = {}
        BY <1>1, <1>2, <3>1 DEF WorkerStates
      <3> QED BY <2>3, <3>2 DEF TakenBack
    <2> QED BY <2>4, <2>5
  <1> QED BY <1>3, <1>4

\* The store is empty at first.
LEMMA InitSlots == Init => SlotInv
  <1> SUFFICES ASSUME Init PROVE SlotInv
    OBVIOUS
  <1>1. \A k \in StateKey : DOMAIN mv[k] = {}
    BY DEF Init
  <1>2. \A t \in Txns : Holding(mv, t, {})
    BY <1>1 DEF Holding
  <1>3. \A t \in Txns : ~sched.txns[t].executed
    BY DEF Init, NewScheduler, NewTxn
  <1>4. \A w \in Workers : worker[w].pc = "next_task"
    BY DEF Init, Ready
  <1> QED BY <1>2, <1>3, <1>4 DEF SlotInv

\* Every step of a worker keeps the contents of the store accounted for.
LEMMA SlotStep ==
  ASSUME PoolInv, SlotInv, NEW w \in Workers, WorkerStep(w)
  PROVE  SlotInv'
  <1> DEFINE Me == /\ worker'[w].pc = "execute" => Underway(mv', worker'[w])
                   /\ worker'[w].pc = "aborting" => TakenBack(mv', worker'[w])
  <1>p. PoolInv'
    BY PoolStep
  <1>f. /\ \A t \in Txns : sched.next_to_execute <= t => Holding(mv', t, {})
        /\ \A t \in Txns : sched.txns[t].executed => Executed(mv', t, sched.txns[t])
        /\ \A v \in Workers \ {w} : worker'[v].pc = "execute" => Underway(mv', worker'[v])
        /\ \A v \in Workers \ {w} : worker'[v].pc = "aborting" => TakenBack(mv', worker'[v])
    BY SlotFrame
  <1>n. sched.next_to_execute \in Nat
    BY BlockAssumption DEF PoolInv, TypeOK, SchedulerStates
  <1>k. ASSUME Me, sched'.txns = sched.txns,
               sched'.next_to_execute \in {sched.next_to_execute, sched.next_to_execute + 1}
        PROVE  SlotInv'
    <2>1. \A t \in Txns : sched'.next_to_execute <= t => sched.next_to_execute <= t
      BY <1>k, <1>n DEF Txns
    <2> QED BY <1>k, <1>f, <2>1 DEF SlotInv
  <1>1. CASE NextTask(w)
    <2>1. CASE sched' = sched /\ worker'[w].pc \in {"done", "try_commit"}
      BY <2>1, <1>k
    <2>2. CASE /\ sched.next_to_execute \in Txns
               /\ sched'.next_to_execute = sched.next_to_execute + 1
               /\ sched'.txns = sched.txns
               /\ worker'[w] = Executing(sched.next_to_execute, sched.txns[sched.next_to_execute].incarnation, FALSE)
      <3>1. Holding(mv', sched.next_to_execute, {})
        BY <2>2, <1>f, <1>n
      <3>2. Underway(mv', worker'[w])
        BY <2>2, <3>1, FreshExecution, Zenon
      <3>3. worker'[w].pc = "execute"
        BY <2>2 DEF Executing, Ready
      <3>4. Me
        BY <3>2, <3>3
      <3> HIDE DEF Me
      <3> QED BY <2>2, <3>4, <1>k
    <2> QED BY <1>1, <2>1, <2>2, NextTaskPhase, Zenon DEF PoolInv
  <1>2. CASE ReadState(w) \/ Publish(w)
    <2>1. sched' = sched /\ worker'[w].pc = "execute"
      BY <1>2, ExecutionPhase DEF PoolInv
    <2> QED BY <1>2, <1>k, <2>1, ReadStateSlot, PublishSlot
  <1>3. CASE Validate(w) \/ ValidateRead(w)
    <2>1. sched' = sched /\ worker'[w].pc \in {"validating", "abort", "commit"}
      BY <1>3, ValidationPhase DEF PoolInv
    <2> QED BY <1>k, <2>1
  <1>4. CASE MarkEstimates(w) \/ RemoveWrites(w)
    <2>1. sched' = sched
      BY <1>4, TakeBackPhase DEF PoolInv
    <2> QED BY <1>4, <1>k, <2>1, TakeBackSlot
  <1>5. CASE RecordExecution(w)
    <2>1. /\ \A t \in Txns \ {worker[w].idx} : sched'.txns[t] = sched.txns[t]
          /\ sched'.next_to_execute = sched.next_to_execute
          /\ worker'[w].pc \in {"commit", "next_task"}
      BY <1>5, RecordPhase DEF PoolInv
    <2>2. Executed(mv', worker[w].idx, sched'.txns[worker[w].idx])
      BY <1>5, RecordSlot
    <2> QED BY <2>1, <2>2, <1>f DEF SlotInv
  <1>6. CASE TryCommit(w)
    <2>1. /\ sched'.txns = sched.txns /\ sched'.next_to_execute = sched.next_to_execute
          /\ worker'[w].pc \in {"validate", "next_task"}
      BY <1>6, TryCommitPhase DEF PoolInv, Ready
    <2> QED BY <1>k, <2>1
  <1>7. CASE Abort(w)
    <2>1. /\ \A t \in Txns \ {worker[w].idx} : sched'.txns[t] = sched.txns[t]
          /\ ~sched'.txns[worker[w].idx].executed
          /\ sched'.next_to_execute = sched.next_to_execute
      BY <1>7, AbortPhase DEF PoolInv
    <2>2. Me
      BY <1>7, AbortSlot
    <2> QED BY <2>1, <2>2, <1>f DEF SlotInv
  <1>8. CASE Commit(w)
    <2>1. /\ sched'.txns = sched.txns /\ sched'.next_to_execute = sched.next_to_execute
          /\ worker'[w].pc = "next_task"
      BY <1>8, CommitPhase DEF PoolInv, Ready
    <2> QED BY <1>k, <2>1
  <1> QED BY <1>1, <1>2, <1>3, <1>4, <1>5, <1>6, <1>7, <1>8 DEF WorkerStep

-----------------------------------------------------------------------------
(***************************************************************************)
(* Validation.  Below the commit cursor the store no longer changes and    *)
(* holds no estimate, so what the holder of the claim has read or checked  *)
(* stays true until it commits.                                            *)
(***************************************************************************)
\* What a read of transaction t returns depends on the entries below t only.
LEMMA ReadStable ==
  ASSUME StoreOK, StoreOK', NEW k \in StateKey, NEW t \in Txns,
         \A i \in Txns : i < t => SlotKept(i)
  PROVE  MvRead(k, t)' = MvRead(k, t)
  <1> DEFINE below == {i \in DOMAIN mv[k] : i < t}
  <1>1. {i \in DOMAIN mv'[k] : i < t} = below
    BY DEF StoreOK, SlotKept
  <1>2. CASE below = {}
    BY <1>1, <1>2 DEF MvRead
  <1>3. CASE below # {}
    <2>1. below \in SUBSET Nat /\ t \in Nat
      BY DEF StoreOK, Txns
    <2>2. Max(below) \in below
      BY <2>1, <1>3, MaxBelow, Zenon
    <2>3. mv'[k][Max(below)] = mv[k][Max(below)]
      BY <2>2 DEF SlotKept, StoreOK
    <2> QED BY <1>1, <1>3, <2>3, Zenon DEF MvRead
  <1> QED BY <1>2, <1>3

\* At the commit cursor a read meets no estimate.
LEMMA NoEstimateBelow ==
  ASSUME PoolInv, SlotInv, NEW k \in StateKey, sched.commit_idx \in Txns
  PROVE  Observed(MvRead(k, sched.commit_idx)) = MvRead(k, sched.commit_idx)
  <1> DEFINE t == sched.commit_idx
             below == {i \in DOMAIN mv[k] : i < t}
  <1>1. CASE below = {}
    BY <1>1 DEF MvRead, Observed, NotFound
  <1>2. CASE below # {}
    <2>1. below \in SUBSET Nat /\ t \in Nat /\ below \subseteq Txns
      BY DEF PoolInv, TypeOK, StoreOK, Txns
    <2>2. Max(below) \in below
      BY <2>1, <1>2, MaxBelow, Zenon
    <2>3. sched.txns[Max(below)].executed
      BY <2>1, <2>2, Zenon DEF PoolInv, CursorInv
    <2>4. ~mv[k][Max(below)].is_estimate
      BY <2>1, <2>2, <2>3, Zenon DEF SlotInv, Executed, Holding
    <2> QED BY <1>2, <2>4 DEF MvRead, Observed, Value
  <1> QED BY <1>1, <1>2

Matching(t, rs) == \A i \in DOMAIN rs : ReadStillMatches(t, rs[i])

\* Every read of the transaction is known to match or still to be checked.
Checked(w) ==
  \A i \in DOMAIN Txn(w).reads :
    \/ ReadStillMatches(worker[w].idx, Txn(w).reads[i])
    \/ \E j \in DOMAIN worker[w].reads : worker[w].reads[j] = Txn(w).reads[i]

MatchInv ==
  \A w \in Workers :
    /\ worker[w].pc = "commit" => Matching(worker[w].idx, Txn(w).reads)
    /\ worker[w].pc = "validating" => Checked(w)
    /\ worker[w].reexecuting => Matching(worker[w].idx, worker[w].reads)

\* What matches at the cursor goes on matching.
LEMMA MatchStable ==
  ASSUME PoolInv, NEW w \in Workers, WorkerStep(w),
         NEW t \in Txns, t = sched.commit_idx, NEW r \in Reads
  PROVE  ReadStillMatches(t, r)' <=> ReadStillMatches(t, r)
  <1>1. \A i \in Txns : i < t => SlotKept(i)
    BY SlotsKept DEF PoolInv, CursorInv
  <1>2. StoreOK /\ StoreOK' /\ r.key \in StateKey
    BY StoreStep DEF PoolInv, TypeOK, Reads
  <1>3. MvRead(r.key, t)' = MvRead(r.key, t)
    BY <1>1, <1>2, ReadStable
  <1> QED BY <1>3 DEF ReadStillMatches

\* The elements of a sequence of recorded reads are reads.
LEMMA ReadsOfSequence ==
  ASSUME NEW rs \in Seq(Reads)
  PROVE  \A i \in DOMAIN rs : rs[i] \in Reads
  BY ElementOfSeq

\* The other workers' part of the invariant.
LEMMA MatchFrame ==
  ASSUME PoolInv, MatchInv, NEW w \in Workers, WorkerStep(w), NEW v \in Workers \ {w}
  PROVE  /\ worker'[v].pc = "commit" => Matching(worker[v].idx, Txn(v).reads)'
         /\ worker'[v].pc = "validating" => Checked(v)'
         /\ worker'[v].reexecuting => Matching(worker[v].idx, worker[v].reads)'
  <1>1. worker'[v] = worker[v]
    BY OthersWait DEF PoolInv
  <1>2. SUFFICES ASSUME worker[v].pc \in {"commit", "validating"} \/ worker[v].reexecuting
                 PROVE  /\ worker[v].pc = "commit" => Matching(worker[v].idx, Txn(v).reads)'
                        /\ worker[v].pc = "validating" => Checked(v)'
                        /\ worker[v].reexecuting => Matching(worker[v].idx, worker[v].reads)'
    BY <1>1
  <1>3. Holds(v) /\ ~Holds(w) /\ worker[v].idx = sched.commit_idx
    BY <1>2 DEF Holds, PoolInv, HolderInv, ClaimHasOneHolder
  <1>4. /\ worker[v].idx \in Txns /\ worker[v].reads \in Seq(Reads)
        /\ Txn(v).reads \in Seq(Reads)
    BY DEF PoolInv, TypeOK, WorkerStates, SchedulerStates, TxnStates, Txn
  <1>5. \A r \in Reads : ReadStillMatches(worker[v].idx, r)' <=> ReadStillMatches(worker[v].idx, r)
    <2>1. \A t \in Txns, r \in Reads : t = sched.commit_idx => (ReadStillMatches(t, r)' <=> ReadStillMatches(t, r))
      BY MatchStable
    <2> QED BY <1>1, <1>3, <1>4, <2>1, ZenonT(40) DEF ReadStillMatches, MvRead
  <1>6. CASE worker[v].pc \in {"commit", "validating"}
    <2>1. Txn(v).executed
      BY <1>6 DEF PoolInv, HolderInv
    <2>2. ~Abort(w)
      BY <1>3, Zenon DEF Abort, Holds
    <2>3. RecordExecution(w) => worker[w].idx # worker[v].idx
      BY <2>1 DEF RecordExecution, PoolInv, BusyInv, Busy, Txn
    <2>4. Txn(v)' = Txn(v)
      <3>1. CASE RecordExecution(w)
        BY <3>1, <2>3, <1>1, <1>4, RecordPhase DEF Txn, PoolInv
      <3>2. CASE sched'.txns = sched.txns
        BY <3>2, <1>1 DEF Txn
      <3> QED BY <2>2, <3>1, <3>2, NextTaskPhase, ExecutionPhase, ValidationPhase, TakeBackPhase, TryCommitPhase, CommitPhase, ZenonT(40)
              DEF WorkerStep, PoolInv
    <2>5. \A i \in DOMAIN Txn(v).reads : Txn(v).reads[i] \in Reads
      BY <1>4
    <2>6. worker[v].pc = "commit" => Matching(worker[v].idx, Txn(v).reads)'
      BY <2>4, <2>5, <1>5 DEF MatchInv, Matching
    <2>7. worker[v].pc = "validating" => Checked(v)'
      BY <2>4, <2>5, <1>1, <1>5 DEF MatchInv, Checked
    <2>8. ~worker[v].reexecuting
      BY <1>6 DEF PoolInv, HolderInv
    <2> QED BY <2>6, <2>7, <2>8
  <1>7. CASE worker[v].reexecuting
    <2>1. worker[v].pc = "execute"
      BY <1>7 DEF PoolInv, HolderInv
    <2>2. \A i \in DOMAIN worker[v].reads : worker[v].reads[i] \in Reads
      BY <1>4, ReadsOfSequence
    <2> QED BY <1>7, <2>1, <2>2, <1>1, <1>5 DEF MatchInv, Matching
  <1> QED BY <1>2, <1>6, <1>7

\* A re-execution reads at the cursor.
LEMMA ReexecutionReads ==
  ASSUME PoolInv, SlotInv, MatchInv, NEW w \in Workers, ReadState(w), worker[w].reexecuting
  PROVE  Matching(worker[w].idx, worker[w].reads)'
  <1> DEFINE W == worker[w]
             k == Step(w).key
             read == MvRead(k, W.idx)
             r == [key |-> k, observed |-> Observed(read)]
  <1>1. /\ W.idx \in Txns /\ W.reads \in Seq(Reads) /\ W.idx = sched.commit_idx
        /\ W \in WorkerStates /\ worker \in [Workers -> WorkerStates]
    BY DEF PoolInv, TypeOK, WorkerStates, HolderInv, ClaimHasOneHolder, Holds
  <1>2. k \in StateKey /\ mv' = mv
    BY StepType DEF PoolInv, ReadState
  <1>3. r \in Reads /\ Observed(read) = read
    BY <1>1, <1>2, MvReadType, NoEstimateBelow DEF PoolInv, TypeOK, Reads
  <1>4. ReadStillMatches(W.idx, r)
    BY <1>3 DEF ReadStillMatches
  <1>5. worker'[w].idx = W.idx /\ worker'[w].reads = W.reads \o Capture(Step(w), read)
    BY <1>1 DEF ReadState, WorkerStates
  <1>6. Matching(W.idx, W.reads)
    BY DEF MatchInv
  <1> HIDE DEF r, read
  <1>7. ASSUME NEW i \in DOMAIN worker'[w].reads PROVE ReadStillMatches(W.idx, worker'[w].reads[i])
    <2>1. CASE Step(w).captured
      <3>1. Capture(Step(w), read) = <<r>>
        BY <2>1 DEF Capture, r
      <3>2. \/ i \in DOMAIN W.reads /\ worker'[w].reads[i] = W.reads[i]
            \/ worker'[w].reads[i] = r
        BY <3>1, <1>1, <1>5, <1>7, ConcatProperties
      <3> QED BY <3>2, <1>4, <1>6 DEF Matching
    <2>2. CASE ~Step(w).captured
      <3>1. worker'[w].reads = W.reads
        BY <2>2, <1>1, <1>5, ConcatEmptySeq DEF Capture
      <3> QED BY <3>1, <1>6, <1>7 DEF Matching
    <2> QED BY <2>1, <2>2
  <1> QED BY <1>2, <1>5, <1>7, ZenonT(40) DEF Matching, ReadStillMatches, MvRead

\* Validation goes through the reads one by one.
LEMMA ValidationReads ==
  ASSUME PoolInv, MatchInv, NEW w \in Workers, ValidateRead(w)
  PROVE  /\ worker'[w].pc = "commit" => Matching(worker[w].idx, Txn(w).reads)'
         /\ worker'[w].pc = "validating" => Checked(w)'
  <1> DEFINE W == worker[w]
             rs == Txn(w).reads
  <1>1. W \in WorkerStates /\ worker \in [Workers -> WorkerStates] /\ W.reads \in Seq(Reads)
    BY Zenon DEF PoolInv, TypeOK, WorkerStates
  <1>2. mv' = mv /\ sched' = sched /\ worker'[w].idx = W.idx /\ W.pc = "validating"
    BY ValidationPhase, Zenon DEF ValidateRead, PoolInv
  <1>3. Txn(w)' = Txn(w) /\ \A i \in DOMAIN rs : ReadStillMatches(W.idx, rs[i])' <=> ReadStillMatches(W.idx, rs[i])
    BY <1>2 DEF Txn, ReadStillMatches, MvRead
  <1>4. Checked(w)
    BY <1>2 DEF MatchInv
  <1>5. CASE W.reads = << >>
    <2>1. worker'[w].pc = "commit"
      BY <1>1, <1>5 DEF ValidateRead, WorkerStates
    <2>2. \A i \in DOMAIN rs : ReadStillMatches(W.idx, rs[i])
      BY <1>4, <1>5 DEF Checked
    <2>3. Matching(worker[w].idx, Txn(w).reads)'
      BY <1>3, <2>2 DEF Matching
    <2> QED BY <2>1, <2>3
  <1>6. CASE W.reads # << >> /\ ReadStillMatches(W.idx, Head(W.reads))
    <2>1. worker'[w] = [W EXCEPT !.reads = Tail(W.reads)]
      BY <1>1, <1>6 DEF ValidateRead
    <2>2. worker'[w].reads = Tail(W.reads) /\ worker'[w].pc = "validating"
      BY <1>1, <1>2, <2>1 DEF WorkerStates
    <2>3. ASSUME NEW j \in DOMAIN W.reads
          PROVE  W.reads[j] = Head(W.reads) \/ \E l \in DOMAIN Tail(W.reads) : Tail(W.reads)[l] = W.reads[j]
      <3>1. CASE j = 1
        BY <1>1, <1>6, <3>1
      <3>2. CASE j # 1
        <4>1. j - 1 \in DOMAIN Tail(W.reads) /\ Tail(W.reads)[j - 1] = W.reads[j]
          BY <1>1, <1>6, <3>2, <2>3
        <4> QED BY <4>1
      <3> QED BY <3>1, <3>2
    <2>4. ASSUME NEW i \in DOMAIN rs
          PROVE  \/ ReadStillMatches(W.idx, rs[i])
                 \/ \E l \in DOMAIN Tail(W.reads) : Tail(W.reads)[l] = rs[i]
      <3>1. CASE ReadStillMatches(W.idx, rs[i])
        BY <3>1
      <3>2. CASE \E j \in DOMAIN W.reads : W.reads[j] = rs[i]
        <4>1. PICK j \in DOMAIN W.reads : W.reads[j] = rs[i]
          BY <3>2
        <4>2. CASE W.reads[j] = Head(W.reads)
          BY <4>1, <4>2, <1>6
        <4>3. CASE \E l \in DOMAIN Tail(W.reads) : Tail(W.reads)[l] = W.reads[j]
          BY <4>1, <4>3
        <4> QED BY <4>2, <4>3, <2>3
      <3> QED BY <3>1, <3>2, <1>4 DEF Checked
    <2>5. Checked(w)'
      BY <1>2, <1>3, <2>2, <2>4 DEF Checked
    <2> QED BY <2>2, <2>5
  <1>7. CASE W.reads # << >> /\ ~ReadStillMatches(W.idx, Head(W.reads))
    <2>1. worker'[w] = [W EXCEPT !.pc = "abort", !.reads = << >>]
      BY <1>1, <1>7 DEF ValidateRead
    <2>2. worker'[w].pc = "abort"
      BY <1>1, <2>1, ZenonT(40) DEF WorkerStates
    <2> QED BY <2>2
  <1> QED BY <1>5, <1>6, <1>7

\* Every step of a worker keeps what was validated, or read at the cursor, valid.
LEMMA MatchStep ==
  ASSUME PoolInv, SlotInv, MatchInv, NEW w \in Workers, WorkerStep(w)
  PROVE  MatchInv'
  <1> DEFINE Mine == /\ worker'[w].pc = "commit" => Matching(worker[w].idx, Txn(w).reads)'
                     /\ worker'[w].pc = "validating" => Checked(w)'
                     /\ worker'[w].reexecuting => Matching(worker[w].idx, worker[w].reads)'
  <1>s. SUFFICES ASSUME TRUE PROVE Mine
    BY MatchFrame DEF MatchInv
  <1>p. PoolInv /\ PoolInv' /\ TypeOK
    BY PoolStep DEF PoolInv
  <1>r. ~worker[w].reexecuting \/ worker[w].pc = "execute"
    BY <1>p DEF PoolInv, HolderInv
  <1>1. CASE NextTask(w)
    <2>1. worker'[w].pc \in {"done", "try_commit", "execute"} /\ ~worker'[w].reexecuting
      BY <1>1, <1>p, <1>r, NextTaskPhase, Zenon DEF Executing, Ready, NextTask
    <2> QED BY <2>1
  <1>2. CASE ReadState(w)
    <2>1. worker'[w].pc = "execute" /\ worker'[w].reexecuting = worker[w].reexecuting
      BY <1>2, <1>p, ExecutionPhase
    <2> QED BY <1>2, <2>1, ReexecutionReads
  <1>3. CASE Publish(w)
    <2>1. /\ worker'[w].pc = "execute" /\ worker'[w].reexecuting = worker[w].reexecuting
          /\ worker'[w].idx = worker[w].idx
      BY <1>3, <1>p, ExecutionPhase
    <2>2. worker'[w].reads = worker[w].reads /\ worker[w].reads \in Seq(Reads) /\ worker[w].idx \in Txns
      BY <1>3 DEF Publish, PoolInv, TypeOK, WorkerStates
    <2>3. ASSUME worker[w].reexecuting PROVE Matching(worker[w].idx, worker[w].reads)'
      <3>1. worker[w].idx = sched.commit_idx
        BY <2>3 DEF PoolInv, HolderInv, ClaimHasOneHolder, Holds
      <3>2. \A t \in Txns, r \in Reads : t = sched.commit_idx => (ReadStillMatches(t, r)' <=> ReadStillMatches(t, r))
        BY MatchStable
      <3>3. \A i \in DOMAIN worker[w].reads : worker[w].reads[i] \in Reads /\ ReadStillMatches(worker[w].idx, worker[w].reads[i])
        BY <2>2, <2>3 DEF MatchInv, Matching
      <3> QED BY <2>1, <2>2, <3>1, <3>2, <3>3, ZenonT(40) DEF Matching, ReadStillMatches, MvRead
    <2> QED BY <2>1, <2>3
  <1>4. CASE RecordExecution(w)
    <2>1. /\ worker'[w].pc \in {"commit", "next_task"} /\ ~worker'[w].reexecuting /\ mv' = mv
          /\ worker'[w].pc = "commit" => worker[w].reexecuting /\ worker'[w].idx = worker[w].idx
          /\ sched'.txns[worker[w].idx].reads = worker[w].reads
      BY <1>4, <1>p, RecordPhase, Zenon DEF RecordExecution
    <2>2. ASSUME worker'[w].pc = "commit" PROVE Matching(worker[w].idx, Txn(w).reads)'
      <3>1. Matching(worker[w].idx, worker[w].reads)
        BY <2>1, <2>2 DEF MatchInv
      <3>2. Txn(w)'.reads = worker[w].reads
        BY <2>1, <2>2 DEF Txn
      <3> QED BY <2>1, <2>2, <3>1, <3>2, ZenonT(40) DEF Matching, ReadStillMatches, MvRead
    <2> QED BY <2>1, <2>2
  <1>5. CASE TryCommit(w)
    <2>1. worker'[w].pc \in {"validate", "next_task"} /\ ~worker'[w].reexecuting
      BY <1>5, <1>p, <1>r, TryCommitPhase DEF Ready
    <2> QED BY <2>1
  <1>6. CASE Validate(w)
    <2>1. /\ worker'[w].pc = "validating" /\ worker'[w].reads = Txn(w).reads
          /\ worker'[w].idx = worker[w].idx /\ sched' = sched
          /\ worker'[w].reexecuting = worker[w].reexecuting
      BY <1>6 DEF Validate, PoolInv, TypeOK, WorkerStates, Txn
    <2>2. Checked(w)'
      BY <2>1 DEF Checked, Txn
    <2>3. ~worker[w].reexecuting
      BY <1>6, <1>r DEF Validate
    <2> QED BY <2>1, <2>2, <2>3
  <1>7. CASE ValidateRead(w)
    <2>1. worker'[w].reexecuting = worker[w].reexecuting /\ worker[w].pc \in {"validate", "validating"}
      BY <1>7, <1>p, ValidationPhase
    <2> QED BY <1>7, <2>1, <1>r, ValidationReads
  <1>8. CASE Abort(w)
    <2>1. \/ worker'[w].pc = "execute" /\ worker'[w].reads = << >>
          \/ worker'[w].pc = "aborting" /\ worker'[w].reexecuting = worker[w].reexecuting
      BY <1>8, <1>p, AbortPhase, Zenon
    <2>2. ~worker[w].reexecuting
      BY <1>8, <1>r, Zenon DEF Abort
    <2> QED BY <2>1, <2>2 DEF Matching
  <1>9. CASE MarkEstimates(w) \/ RemoveWrites(w)
    <2>1. /\ worker[w].pc = "aborting"
          /\ \/ worker'[w].pc = "aborting" /\ worker'[w].reexecuting = worker[w].reexecuting
             \/ worker'[w].pc = "execute" /\ worker'[w].reads = << >>
      BY <1>9, <1>p, TakeBackPhase
    <2> QED BY <2>1, <1>r DEF Matching
  <1>10. CASE Commit(w)
    <2>1. worker'[w].pc = "next_task" /\ ~worker'[w].reexecuting
      BY <1>10, <1>p, CommitPhase DEF Ready
    <2> QED BY <2>1
  <1> HIDE DEF Mine
  <1> QED BY <1>1, <1>2, <1>3, <1>4, <1>5, <1>6, <1>7, <1>8, <1>9, <1>10, Zenon DEF WorkerStep

BlockInv == PoolInv /\ SlotInv /\ MatchInv

\* The three invariants hold at first.
LEMMA InitBlock == Init => BlockInv
  <1>1. Init => MatchInv
    BY DEF Init, MatchInv, Ready
  <1> QED BY <1>1, InitPool, InitSlots DEF BlockInv

\* The three invariants together are inductive.
LEMMA BlockNext == BlockInv /\ [Next]_vars => BlockInv'
  <1>1. ASSUME BlockInv, UNCHANGED vars PROVE BlockInv'
    <2>1. PoolInv'
      BY <1>1, PoolNext DEF BlockInv
    <2>2. SlotInv'
      BY <1>1 DEF vars, BlockInv, SlotInv
    <2>3. MatchInv'
      <3>1. \A t, r : ReadStillMatches(t, r)' <=> ReadStillMatches(t, r)
        BY <1>1, Zenon DEF vars, ReadStillMatches, MvRead
      <3>2. worker' = worker /\ sched' = sched /\ MatchInv
        BY <1>1 DEF vars, BlockInv
      <3> QED BY <3>1, <3>2 DEF MatchInv, Matching, Checked, Txn
    <2> QED BY <2>1, <2>2, <2>3 DEF BlockInv
  <1> QED BY <1>1, PoolStep, SlotStep, MatchStep DEF BlockInv, Next, Finished

\* What a worker is about to commit was read from the state as it still is, for
\* every block and every number of workers; the executed flag of the
\* transaction is set.  The re-execution needs no validation of its own because
\* nothing below the cursor changes any more.
THEOREM CommitsWhatWasRead == Spec => []CommitsWhatItRead
  <1>1. BlockInv => CommitsWhatItRead
    BY DEF BlockInv, PoolInv, HolderInv, MatchInv, Matching, CommitsWhatItRead, Txn
  <1> QED BY InitBlock, BlockNext, <1>1, PTL DEF Spec

-----------------------------------------------------------------------------
(***************************************************************************)
(* The refinement.  The committed prefix is the state of SerialExec: its   *)
(* writes are what the store holds below the cursor.                       *)
(***************************************************************************)
\* The entries of the transactions below n at key k.
Below(m, k, n) == {i \in DOMAIN m[k] : i < n}

\* A snapshot holds the value of the last transaction below it for each key.
LEMMA SnapshotValue ==
  ASSUME StoreOK, NEW n \in Nat
  PROVE  /\ DOMAIN Snapshot(n) = {k \in StateKey : Below(mv, k, n) # {}}
         /\ \A k \in StateKey : Below(mv, k, n) # {} =>
              /\ Max(Below(mv, k, n)) \in Below(mv, k, n)
              /\ \A i \in Below(mv, k, n) : i <= Max(Below(mv, k, n))
              /\ Snapshot(n)[k] = mv[k][Max(Below(mv, k, n))].value
  <1>1. /\ DOMAIN Snapshot(n) = {k \in StateKey : Below(mv, k, n) # {}}
        /\ \A k \in StateKey : Below(mv, k, n) # {} => Snapshot(n)[k] = mv[k][Max(Below(mv, k, n))].value
    BY DEF Snapshot, Below
  <1>2. ASSUME NEW k \in StateKey, Below(mv, k, n) # {}
        PROVE  /\ Max(Below(mv, k, n)) \in Below(mv, k, n)
               /\ \A i \in Below(mv, k, n) : i <= Max(Below(mv, k, n))
    <2>1. Below(mv, k, n) \in SUBSET Nat /\ \A i \in Below(mv, k, n) : i < n
      BY DEF StoreOK, Below, Txns
    <2> QED BY <1>2, <2>1, MaxBelow, Zenon
  <1> QED BY <1>1, <1>2

\* A read at the commit cursor returns what the snapshot below it holds.
LEMMA SnapshotRead ==
  ASSUME PoolInv, SlotInv, NEW k \in StateKey, NEW c \in Txns, c = sched.commit_idx
  PROVE  Resolved(k, MvRead(k, c)) = Serial!ReadThrough(Snapshot(c), k)
  <1> DEFINE below == Below(mv, k, c)
  <1>0. StoreOK /\ c \in Nat
    BY DEF PoolInv, TypeOK, Txns
  <1>1. CASE below = {}
    <2>1. MvRead(k, c) = NotFound
      BY <1>1 DEF MvRead, Below
    <2>2. k \notin DOMAIN Snapshot(c)
      BY <1>0, <1>1, SnapshotValue, Zenon
    <2> QED BY <2>1, <2>2 DEF Resolved, NotFound, Serial!ReadThrough
  <1>2. CASE below # {}
    <2>1. /\ k \in DOMAIN Snapshot(c) /\ Snapshot(c)[k] = mv[k][Max(below)].value
      BY <1>0, <1>2, SnapshotValue, Zenon
    <2>2. MvRead(k, c) # Estimate
      <3>1. Observed(MvRead(k, c)) # Estimate
        BY DEF Observed, Estimate, NotFound
      <3> QED BY <3>1, NoEstimateBelow
    <2>3. MvRead(k, c) = Value(Max(below), mv[k][Max(below)])
      BY <1>2, <2>2 DEF MvRead, Below
    <2>4. Resolved(k, MvRead(k, c)) = mv[k][Max(below)].value
      BY <2>3 DEF Resolved, Value
    <2> QED BY <2>1, <2>4 DEF Serial!ReadThrough
  <1> QED BY <1>1, <1>2

\* The snapshot depends on the entries below its bound only.
LEMMA SnapshotStable ==
  ASSUME StoreOK, StoreOK', NEW n \in Nat, \A i \in Txns : i < n => SlotKept(i)
  PROVE  Snapshot(n)' = Snapshot(n)
  <1>1. ASSUME NEW k \in StateKey PROVE Below(mv', k, n) = Below(mv, k, n)
    BY DEF Below, StoreOK, SlotKept
  <1>2. ASSUME NEW k \in StateKey, Below(mv, k, n) # {}
        PROVE  mv'[k][Max(Below(mv, k, n))].value = mv[k][Max(Below(mv, k, n))].value
    <2>1. Max(Below(mv, k, n)) \in Below(mv, k, n)
      BY <1>2, SnapshotValue, Zenon
    <2> QED BY <2>1 DEF Below, StoreOK, SlotKept
  <1>3. Snapshot(n) = [k \in {j \in StateKey : Below(mv, j, n) # {}} |-> mv[k][Max(Below(mv, k, n))].value]
    BY DEF Snapshot, Below
  <1>4. Snapshot(n)' = [k \in {j \in StateKey : Below(mv', j, n) # {}} |-> mv'[k][Max(Below(mv', k, n))].value]
    BY DEF Snapshot, Below
  <1>5. {j \in StateKey : Below(mv', j, n) # {}} = {j \in StateKey : Below(mv, j, n) # {}}
    BY <1>1
  <1> QED BY <1>1, <1>2, <1>3, <1>4, <1>5

\* The next transaction's writes go on top.
LEMMA SnapshotGrows ==
  ASSUME StoreOK, NEW c \in Txns, NEW ks \in SUBSET StateKey, Holding(mv, c, ks),
         NEW ws, DOMAIN ws = ks, \A k \in ks : mv[k][c].value = ws[k]
  PROVE  Snapshot(c + 1) = Serial!Overlay(Snapshot(c), ws)
  <1>0. c \in Nat /\ c + 1 \in Nat
    BY DEF Txns
  <1>1. ASSUME NEW k \in ks
        PROVE  Below(mv, k, c + 1) # {} /\ Max(Below(mv, k, c + 1)) = c
    <2>1. c \in Below(mv, k, c + 1)
      BY <1>0, <1>1 DEF Holding, Below
    <2>2. \A i \in Below(mv, k, c + 1) : i <= c
      BY <1>0 DEF Below, StoreOK, Txns
    <2>3. Max(Below(mv, k, c + 1)) \in Below(mv, k, c + 1) /\ c <= Max(Below(mv, k, c + 1))
      BY <1>0, <2>1, SnapshotValue, Zenon
    <2>4. Max(Below(mv, k, c + 1)) \in Nat
      BY <2>3 DEF Below, StoreOK, Txns
    <2> QED BY <1>0, <2>1, <2>2, <2>3, <2>4
  <1>2. ASSUME NEW k \in StateKey \ ks PROVE Below(mv, k, c + 1) = Below(mv, k, c)
    <2>1. c \notin DOMAIN mv[k]
      BY <1>2 DEF Holding
    <2>2. DOMAIN mv[k] \subseteq Nat
      BY DEF StoreOK, Txns
    <2> QED BY <2>1, <2>2, <1>0 DEF Below
  <1> DEFINE new == Snapshot(c + 1)
             old == Snapshot(c)
             F == [k \in DOMAIN old \cup ks |-> IF k \in ks THEN ws[k] ELSE old[k]]
  <1>3. /\ DOMAIN new = {k \in StateKey : Below(mv, k, c + 1) # {}}
        /\ DOMAIN old = {k \in StateKey : Below(mv, k, c) # {}}
        /\ \A k \in DOMAIN new : new[k] = mv[k][Max(Below(mv, k, c + 1))].value
        /\ \A k \in DOMAIN old : old[k] = mv[k][Max(Below(mv, k, c))].value
    BY <1>0, SnapshotValue, Zenon
  <1>4. new = [k \in DOMAIN new |-> new[k]]
    BY DEF Snapshot
  <1>5. Serial!Overlay(old, ws) = F
    BY DEF Serial!Overlay
  <1> HIDE DEF new, old
  <1>6. DOMAIN new = DOMAIN old \cup ks
    BY <1>1, <1>2, <1>3
  <1>7. ASSUME NEW k \in DOMAIN new PROVE new[k] = F[k]
    <2>1. CASE k \in ks
      BY <2>1, <1>1, <1>3, <1>6
    <2>2. CASE k \notin ks
      BY <2>2, <1>2, <1>3, <1>6
    <2> QED BY <2>1, <2>2
  <1>8. new = F
    BY <1>4, <1>6, <1>7, Zenon
  <1> QED BY <1>5, <1>8 DEF new, old

\* What the committing worker's execution read is what the transaction reads alone.
LEMMA CommittedRunsAlone ==
  ASSUME BlockInv, ReadsCaptured, NEW w \in Workers, worker[w].pc = "commit",
         NEW c \in Txns, c = sched.commit_idx,
         NEW o \in Readings, Outcome(mv, c, sched.txns[c], o)
  PROVE  o \in Serial!ReadingsAlone(c, Snapshot(c))
  <1> DEFINE rs == sched.txns[c].reads
  <1>1. worker[w].idx = c
    BY DEF BlockInv, PoolInv, HolderInv, ClaimHasOneHolder, Holds
  <1>2. Matching(c, rs)
    BY <1>1 DEF BlockInv, MatchInv, Txn
  <1>3. Recorded(c, o, rs) /\ Program(c, o).op = "end"
    BY DEF Outcome, Published
  <1>4. rs \in Seq(Reads) /\ o \in Seq(Values)
    BY ReadingIsSeq DEF BlockInv, PoolInv, TypeOK, SchedulerStates, TxnStates
  <1> HIDE DEF rs
  <1>5. ASSUME NEW i \in DOMAIN o
        PROVE  LET step == Program(c, SubSeq(o, 1, i - 1)) IN
               step.op = "read" /\ o[i] = Serial!ReadThrough(Snapshot(c), step.key)
    <2> DEFINE step == Program(c, SubSeq(o, 1, i - 1))
    <2>1. i \in 1 .. Len(o) /\ i \in DOMAIN rs /\ rs[i] \in Reads
      BY <1>3, <1>4, <1>5 DEF Recorded
    <2>2. step.op = "read" /\ rs[i].key = step.key /\ o[i] = Resolved(step.key, rs[i].observed)
      BY <1>3, <2>1 DEF Recorded
    <2>3. rs[i].observed = MvRead(step.key, c) /\ step.key \in StateKey
      BY <1>2, <2>1, <2>2 DEF Matching, ReadStillMatches, Reads
    <2>4. Resolved(step.key, MvRead(step.key, c)) = Serial!ReadThrough(Snapshot(c), step.key)
      BY <2>3, SnapshotRead DEF BlockInv
    <2> QED BY <2>2, <2>3, <2>4
  <1>6. o \in Serial!Readings
    BY DEF Readings, Serial!Readings
  <1> QED BY <1>3, <1>5, <1>6 DEF Serial!ReadingsAlone

\* Commit is the next step of the serial schedule.
LEMMA CommitIsSerial ==
  ASSUME BlockInv, ReadsCaptured, NEW w \in Workers, Commit(w)
  PROVE  Serial!ExecuteNext
  <1> DEFINE c == sched.commit_idx
             x == sched.txns[c]
             rcs == [i \in 1 .. c |-> sched.txns[i - 1].receipt[1]]
  <1>1. /\ worker[w].pc = "commit" /\ mv' = mv /\ sched'.txns = sched.txns /\ sched'.commit_idx = c + 1
    BY CommitPhase DEF BlockInv, PoolInv
  <1>2. c \in Txns /\ x.executed /\ StoreOK
    BY <1>1 DEF BlockInv, PoolInv, TypeOK, WorkerStates, HolderInv, ClaimHasOneHolder, Holds, Txn
  <1>3. c \in Nat /\ c < NumTxns /\ x \in TxnStates
    BY <1>2, BlockAssumption DEF Txns, BlockInv, PoolInv, TypeOK, SchedulerStates
  <1>4. PICK o \in Readings : Outcome(mv, c, x, o) /\ Holding(mv, c, x.write_keys)
    BY <1>2 DEF BlockInv, SlotInv, Executed
  <1> DEFINE end == Program(c, o)
  <1>5. o \in Serial!ReadingsAlone(c, Snapshot(c))
    BY <1>1, <1>2, <1>4, CommittedRunsAlone
  <1>6. /\ x.write_keys \in SUBSET StateKey /\ DOMAIN end.writes = x.write_keys
        /\ \A k \in x.write_keys : mv[k][c].value = end.writes[k]
        /\ x.receipt = <<end.receipt>>
    BY <1>3, <1>4 DEF Outcome, Published, TxnStates
  <1>7. Snapshot(c + 1) = Serial!Overlay(Snapshot(c), end.writes)
    BY <1>2, <1>4, <1>6, SnapshotGrows
  <1>8. Snapshot(sched.commit_idx)' = Snapshot(c + 1)
    BY <1>1, Zenon DEF Snapshot
  <1>9. [i \in 1 .. sched.commit_idx |-> sched.txns[i - 1].receipt[1]]' = Append(rcs, end.receipt)
    <2> DEFINE f == [i \in 1 .. (c + 1) |-> sched.txns[i - 1].receipt[1]]
    <2>1. [i \in 1 .. sched.commit_idx |-> sched.txns[i - 1].receipt[1]]' = f
      BY <1>1
    <2>2. rcs = [i \in 1 .. c |-> f[i]]
      BY <1>3
    <2>3. f[c + 1] = end.receipt
      BY <1>3, <1>6
    <2>4. DOMAIN f = 1 .. (c + 1)
      OBVIOUS
    <2> HIDE DEF f, rcs, end
    <2>5. \A i \in 1 .. c : rcs[i] = f[i]
      BY <2>2
    <2>6. rcs \in Seq({f[i] : i \in 1 .. (c + 1)}) /\ Len(rcs) = c
      BY <1>3, <2>2
    <2>7. f = [i \in 1 .. (c + 1) |-> f[i]]
      BY DEF f
    <2> DEFINE S == {f[i] : i \in 1 .. (c + 1)}
    <2>a. c + 1 \in Nat /\ c + 1 \in 1 .. (c + 1)
      BY <1>3
    <2>b. f \in Seq(S) /\ Len(f) = c + 1 /\ end.receipt \in S
      BY <2>3, <2>7, <2>a
    <2> HIDE DEF S
    <2> DEFINE g == Append(rcs, end.receipt)
    <2>c. g \in Seq(S) /\ Len(g) = c + 1 /\ g[c + 1] = end.receipt /\ \A i \in 1 .. c : g[i] = rcs[i]
      <3>1. rcs \in Seq(S) /\ Len(rcs) = c
        BY <2>6 DEF S
      <3> QED BY <3>1, <2>b, AppendProperties
    <2>d. ASSUME NEW i \in 1 .. (c + 1) PROVE f[i] = Append(rcs, end.receipt)[i]
      <3>1. i = c + 1 \/ i \in 1 .. c
        BY <1>3
      <3> QED BY <3>1, <2>3, <2>5, <2>c
    <2>8. f = Append(rcs, end.receipt)
      BY <2>b, <2>c, <2>d, SeqEqual
    <2> QED BY <2>1, <2>8, Zenon
  <1> HIDE DEF c
  <1>10. \E p \in Serial!ReadingsAlone(c, Snapshot(c)) :
           LET e == Program(c, p) IN
           /\ Snapshot(sched.commit_idx)' = Serial!Overlay(Snapshot(c), e.writes)
           /\ [i \in 1 .. sched.commit_idx |-> sched.txns[i - 1].receipt[1]]' = Append(rcs, e.receipt)
    BY <1>5, <1>7, <1>8, <1>9, Zenon
  <1> QED BY <1>1, <1>3, <1>10 DEF Serial!ExecuteNext, c

\* Every other step leaves the committed prefix alone.
LEMMA PrefixKept ==
  ASSUME BlockInv, NEW w \in Workers, WorkerStep(w), ~Commit(w)
  PROVE  UNCHANGED Serial!vars
  <1> DEFINE c == sched.commit_idx
  <1>1. c \in Nat /\ c <= NumTxns /\ StoreOK /\ StoreOK'
    BY StoreStep, BlockAssumption DEF BlockInv, PoolInv, TypeOK, SchedulerStates
  <1>2. \A i \in Txns : i < c => SlotKept(i) /\ sched.txns[i].executed
    BY SlotsKept DEF BlockInv, PoolInv, CursorInv
  <1>4. sched'.commit_idx = c /\ \A i \in Txns : i < c => sched'.txns[i].receipt = sched.txns[i].receipt
    <2>t. TypeOK /\ worker[w].idx \in Txns
      BY DEF BlockInv, PoolInv, TypeOK, WorkerStates
    <2>1. CASE RecordExecution(w)
      <3>1. ~sched.txns[worker[w].idx].executed
        BY <2>1 DEF RecordExecution, BlockInv, PoolInv, BusyInv, Busy, Txn
      <3> QED BY <2>1, <2>t, <3>1, <1>2, RecordPhase
    <2>2. CASE Abort(w)
      <3>1. worker[w].idx = c
        BY <2>2, Zenon DEF Abort, BlockInv, PoolInv, HolderInv, ClaimHasOneHolder, Holds
      <3>2. /\ \A t \in Txns \ {worker[w].idx} : sched'.txns[t] = sched.txns[t]
            /\ sched'.commit_idx = c
        BY <2>2, <2>t, AbortPhase
      <3>3. \A i \in Txns : i < c => i \in Txns \ {worker[w].idx}
        BY <3>1, <1>1
      <3> HIDE DEF c
      <3> QED BY <3>2, <3>3
    <2>3. CASE sched'.txns = sched.txns /\ sched'.commit_idx = c
      BY <2>3
    <2> QED BY <2>t, <2>1, <2>2, <2>3, NextTaskPhase, ExecutionPhase, ValidationPhase, TakeBackPhase, TryCommitPhase, Zenon
            DEF WorkerStep
  <1>5. Snapshot(sched.commit_idx)' = Snapshot(c)
    <2>1. PICK n \in Nat : n = c
      BY <1>1
    <2>2. Snapshot(n)' = Snapshot(n)
      BY <1>1, <1>2, <2>1, SnapshotStable
    <2>3. sched'.commit_idx = n
      BY <1>4, <2>1
    <2>4. Snapshot(sched.commit_idx)' = Snapshot(n)'
      BY <2>3, Zenon DEF Snapshot
    <2> QED BY <2>1, <2>2, <2>4
  <1>6. [i \in 1 .. sched.commit_idx |-> sched.txns[i - 1].receipt[1]]'
          = [i \in 1 .. c |-> sched.txns[i - 1].receipt[1]]
    <2>1. \A i \in 1 .. c : i - 1 \in Txns /\ i - 1 < c
      BY <1>1, BlockAssumption DEF Txns
    <2> QED BY <1>4, <2>1
  <1> QED BY <1>4, <1>5, <1>6 DEF Serial!vars

\* The parallel engine implements the serial one: for every block whose reads
\* are all captured, every number of workers and every interleaving, the
\* committed prefix, its writes and its receipts are those of
\* SequentialScheduler, and nothing below the commit cursor changes any more.
THEOREM FluxIsSerial ==
  ASSUME ReadsCaptured
  PROVE  Spec => ImplementsSerial
  <1>1. Init => Serial!Init
    <2> SUFFICES ASSUME Init PROVE Serial!Init
      OBVIOUS
    <2>1. sched.commit_idx = 0
      BY DEF Init, NewScheduler
    <2>2. \A k \in StateKey : DOMAIN mv[k] = {}
      BY DEF Init
    <2>3. Snapshot(0) = << >>
      BY <2>2 DEF Snapshot
    <2> QED BY <2>1, <2>3 DEF Serial!Init
  <1>2. BlockInv /\ [Next]_vars => [Serial!ExecuteNext]_Serial!vars
    <2>1. ASSUME UNCHANGED vars PROVE UNCHANGED Serial!vars
      BY <2>1, Zenon DEF vars, Serial!vars, Snapshot
    <2>2. ASSUME BlockInv, NEW w \in Workers, WorkerStep(w)
          PROVE  Serial!ExecuteNext \/ UNCHANGED Serial!vars
      BY <2>2, CommitIsSerial, PrefixKept
    <2> QED BY <2>1, <2>2 DEF Next, Finished
  <1>3. Spec => Serial!Spec
    BY <1>1, <1>2, InitBlock, BlockNext, PTL DEF Spec, Serial!Spec
  <1> QED BY <1>3, CommittedStays DEF ImplementsSerial
=============================================================================
