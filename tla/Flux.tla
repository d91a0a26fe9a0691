-------------------------------- MODULE Flux --------------------------------
(***************************************************************************)
(* Flux (lemma-vm/src/parallel): a pool of workers executes the            *)
(* transactions of a block speculatively against a multi-version store and *)
(* commits them in block order.  A commit re-validates the reads that the  *)
(* execution captured; a stale execution is aborted and repeated by the    *)
(* committing worker.                                                      *)
(*                                                                         *)
(* One action is one critical section of the scheduler lock or one         *)
(* operation on one key of the store, whose keys are locked one by one.    *)
(* The two critical sections that walk the store (validation, and the      *)
(* removal of aborted writes) take one action per key and keep the lock.   *)
(***************************************************************************)
EXTENDS Integers, Sequences, FiniteSetsExt

CONSTANTS Workers,
          StateKey,
          Values,         \* the values of the keys
          Receipts,
          Base,           \* the committed state before the block
          NumTxns,
          MaxReads,       \* bound: reads of one execution
          Program(_, _)   \* the transactions; see SerialExec

Txns == 0 .. (NumTxns - 1)

\* What an execution has read, in order.
Readings == UNION {[1 .. n -> Values] : n \in 0 .. MaxReads}

ASSUME BlockAssumption ==
  /\ NumTxns \in Nat \ {0} /\ MaxReads \in Nat
  /\ Base \in [StateKey -> Values]

\* A transaction reads keys and ends with writes to keys and a receipt.
ASSUME ProgramAssumption ==
  \A t \in Txns, o \in Readings :
    \/ /\ Program(t, o).op = "read" /\ Len(o) < MaxReads
       /\ Program(t, o).key \in StateKey
       /\ Program(t, o).captured \in BOOLEAN
    \/ /\ Program(t, o).op = "end"
       /\ DOMAIN Program(t, o).writes \subseteq StateKey
       /\ Program(t, o).writes \in [DOMAIN Program(t, o).writes -> Values]
       /\ Program(t, o).receipt \in Receipts

VARIABLES mv,      \* MvState: key -> transaction -> Entry
          sched,   \* SchedulerState
          worker   \* the stack of each worker thread

vars == <<mv, sched, worker>>

----------------------------------------------------------------------------
(* The multi-version store: per key, the entry of each transaction that    *)
(* has written it.                                                         *)

Entry(incarnation, value) ==
  [incarnation |-> incarnation, value |-> value, is_estimate |-> FALSE]

NotFound == [kind |-> "NotFound"]
Estimate == [kind |-> "Estimate"]
Value(t, e) ==
  [kind |-> "Value", txn |-> t, incarnation |-> e.incarnation, value |-> e.value]

\* MvState::read: the highest write strictly below transaction t.
MvRead(key, t) ==
  LET below == {i \in DOMAIN mv[key] : i < t} IN
  IF below = {} THEN NotFound
  ELSE LET e == mv[key][Max(below)] IN
       IF e.is_estimate THEN Estimate ELSE Value(Max(below), e)

MvWrite(key, t, e) ==
  [mv EXCEPT ![key] =
     [i \in DOMAIN mv[key] \cup {t} |-> IF i = t THEN e ELSE mv[key][i]]]

MarkEstimate(key, t) ==
  IF t \in DOMAIN mv[key]
  THEN [mv EXCEPT ![key][t].is_estimate = TRUE] ELSE mv

RemoveWrite(key, t) ==
  [mv EXCEPT ![key] = [i \in DOMAIN mv[key] \ {t} |-> mv[key][i]]]

\* snapshot_committed_into_btreemap, over the transactions below n.
Snapshot(n) ==
  LET below(k) == {i \in DOMAIN mv[k] : i < n} IN
  [k \in {key \in StateKey : below(key) # {}} |-> mv[k][Max(below(k))].value]

----------------------------------------------------------------------------
(* MvStateView: reads resolve through the store and are captured.          *)

\* What a read captures: an estimate counts as a fall-through to the base.
Observed(read) == IF read.kind = "Value" THEN read ELSE NotFound

Resolved(key, read) == IF read.kind = "Value" THEN read.value ELSE Base[key]

\* conflict.rs read_still_matches.
ReadStillMatches(t, r) == MvRead(r.key, t) = r.observed

----------------------------------------------------------------------------
NewTxn == [incarnation |-> 0, executed |-> FALSE, write_keys |-> {},
           reads |-> << >>, receipt |-> << >>]

NewScheduler == [next_to_execute |-> 0, commit_idx |-> 0,
                 commit_in_flight |-> FALSE, txns |-> [t \in Txns |-> NewTxn]]

\* A worker between two tasks.
Ready == [pc |-> "next_task", idx |-> 0, incarnation |-> 0, observed |-> << >>,
          reads |-> << >>, keys |-> {}, old_keys |-> {}, reexecuting |-> FALSE]

\* A worker at the start of an execution.
Executing(t, incarnation, again) ==
  [Ready EXCEPT !.pc = "execute", !.idx = t, !.incarnation = incarnation,
                !.reexecuting = again]

Init ==
  /\ mv = [k \in StateKey |-> << >>]
  /\ sched = NewScheduler
  /\ worker = [w \in Workers |-> Ready]

IsDone == sched.commit_idx >= NumTxns

Locked == \E w \in Workers : worker[w].pc \in {"validating", "aborting"}

\* WorkerCtx::run: the next task.
NextTask(w) ==
  /\ worker[w].pc = "next_task" /\ ~Locked
  /\ IF IsDone
     THEN worker' = [worker EXCEPT ![w].pc = "done"] /\ UNCHANGED sched
     ELSE IF sched.next_to_execute < NumTxns
     THEN /\ sched' = [sched EXCEPT !.next_to_execute = @ + 1]
          /\ worker' = [worker EXCEPT ![w] =
               Executing(sched.next_to_execute,
                         sched.txns[sched.next_to_execute].incarnation, FALSE)]
     ELSE worker' = [worker EXCEPT ![w].pc = "try_commit"] /\ UNCHANGED sched
  /\ UNCHANGED mv

Step(w) == Program(worker[w].idx, worker[w].observed)

\* Mutant: reads are not captured.
CaptureNothing(step, read) == << >>

\* MvStateView::resolve records the read; the clone that a contract call
\* reads through records it in itself.
Capture(step, read) ==
  IF step.captured
  THEN <<[key |-> step.key, observed |-> Observed(read)]>> ELSE << >>

\* run_incarnation, the execution proper: one read of the state.
ReadState(w) ==
  /\ worker[w].pc = "execute" /\ Step(w).op = "read"
  /\ LET read == MvRead(Step(w).key, worker[w].idx) IN
     worker' = [worker EXCEPT
       ![w].observed = Append(@, Resolved(Step(w).key, read)),
       ![w].reads = @ \o Capture(Step(w), read)]
  /\ UNCHANGED <<mv, sched>>

\* run_incarnation, the buffered writes: one key is published.
Publish(w) ==
  /\ worker[w].pc = "execute" /\ Step(w).op = "end"
  /\ \E k \in DOMAIN Step(w).writes \ worker[w].keys :
       /\ mv' = MvWrite(k, worker[w].idx,
                        Entry(worker[w].incarnation, Step(w).writes[k]))
       /\ worker' = [worker EXCEPT ![w].keys = @ \cup {k}]
  /\ UNCHANGED sched

\* WorkerCtx::execute, after run_incarnation.
RecordExecution(w) ==
  /\ worker[w].pc = "execute" /\ Step(w).op = "end" /\ ~Locked
  /\ worker[w].keys = DOMAIN Step(w).writes
  /\ sched' = [sched EXCEPT !.txns[worker[w].idx] =
       [incarnation |-> @.incarnation, executed |-> TRUE,
        write_keys |-> worker[w].keys, reads |-> worker[w].reads,
        receipt |-> <<Step(w).receipt>>]]
  /\ worker' = [worker EXCEPT ![w] =
       IF worker[w].reexecuting
       THEN [Ready EXCEPT !.pc = "commit", !.idx = worker[w].idx] ELSE Ready]
  /\ UNCHANGED mv

\* Mutant: several workers may claim the same slot.
MayClaimTwice == ~IsDone /\ sched.txns[sched.commit_idx].executed

\* The conditions of claim_commit.
MayClaim ==
  ~IsDone /\ ~sched.commit_in_flight /\ sched.txns[sched.commit_idx].executed

\* try_commit_progress; a worker that cannot claim yields.
TryCommit(w) ==
  /\ worker[w].pc = "try_commit" /\ ~Locked
  /\ IF MayClaim
     THEN /\ sched' = [sched EXCEPT !.commit_in_flight = TRUE]
          /\ worker' = [worker EXCEPT ![w].pc = "validate",
                                      ![w].idx = sched.commit_idx]
     ELSE worker' = [worker EXCEPT ![w] = Ready] /\ UNCHANGED sched
  /\ UNCHANGED mv

\* commit_or_reexecute: the captured reads are checked under the lock.
Validate(w) ==
  /\ worker[w].pc = "validate" /\ ~Locked
  /\ worker' = [worker EXCEPT ![w].pc = "validating",
                              ![w].reads = sched.txns[worker[w].idx].reads]
  /\ UNCHANGED <<mv, sched>>

\* Mutant: one read that still matches is enough.
ValidateFirstRead(w) ==
  /\ worker[w].pc = "validating"
  /\ worker' = [worker EXCEPT ![w] =
       IF @.reads = << >> \/ ReadStillMatches(@.idx, Head(@.reads))
       THEN [@ EXCEPT !.pc = "commit", !.reads = << >>]
       ELSE [@ EXCEPT !.pc = "abort", !.reads = << >>]]
  /\ UNCHANGED <<mv, sched>>

ValidateRead(w) ==
  /\ worker[w].pc = "validating"
  /\ LET me == worker[w] IN
     worker' = [worker EXCEPT ![w] =
       IF me.reads = << >> THEN [me EXCEPT !.pc = "commit"]
       ELSE IF ReadStillMatches(me.idx, Head(me.reads))
       THEN [me EXCEPT !.reads = Tail(me.reads)]
       ELSE [me EXCEPT !.pc = "abort", !.reads = << >>]]
  /\ UNCHANGED <<mv, sched>>

\* commit_or_reexecute, the stale case: abort bumps the incarnation; the lock
\* is kept while the old writes are marked and then removed.
Abort(w) ==
  /\ worker[w].pc = "abort" /\ ~Locked
  /\ LET t == worker[w].idx
         old == sched.txns[t].write_keys IN
     /\ sched' = [sched EXCEPT !.txns[t].incarnation = @ + 1,
                               !.txns[t].executed = FALSE,
                               !.txns[t].write_keys = {}]
     /\ worker' = [worker EXCEPT ![w] =
          IF old = {} THEN Executing(t, sched.txns[t].incarnation + 1, TRUE)
          ELSE [@ EXCEPT !.pc = "aborting", !.keys = old, !.old_keys = old]]
  /\ UNCHANGED mv

MarkEstimates(w) ==
  /\ worker[w].pc = "aborting"
  /\ \E k \in worker[w].keys :
       /\ mv' = MarkEstimate(k, worker[w].idx)
       /\ worker' = [worker EXCEPT ![w].keys = @ \ {k}]
  /\ UNCHANGED sched

RemoveWrites(w) ==
  /\ worker[w].pc = "aborting" /\ worker[w].keys = {}
  /\ \E k \in worker[w].old_keys :
       /\ mv' = RemoveWrite(k, worker[w].idx)
       /\ LET me == worker[w] IN
          worker' = [worker EXCEPT ![w] =
            IF me.old_keys = {k}
            THEN Executing(me.idx, sched.txns[me.idx].incarnation, TRUE)
            ELSE [me EXCEPT !.old_keys = me.old_keys \ {k}]]
  /\ UNCHANGED sched

\* Mutant: the claim is not released.
CommitKeepsClaim(w) ==
  /\ worker[w].pc = "commit" /\ ~Locked
  /\ sched' = [sched EXCEPT !.commit_idx = @ + 1]
  /\ worker' = [worker EXCEPT ![w] = Ready]
  /\ UNCHANGED mv

\* SchedulerState::commit.
Commit(w) ==
  /\ worker[w].pc = "commit" /\ ~Locked
  /\ sched' = [sched EXCEPT !.commit_idx = @ + 1, !.commit_in_flight = FALSE]
  /\ worker' = [worker EXCEPT ![w] = Ready]
  /\ UNCHANGED mv

WorkerStep(w) ==
  \/ NextTask(w) \/ ReadState(w) \/ Publish(w) \/ RecordExecution(w)
  \/ TryCommit(w) \/ Validate(w) \/ ValidateRead(w)
  \/ Abort(w) \/ MarkEstimates(w) \/ RemoveWrites(w) \/ Commit(w)

AllDone == \A w \in Workers : worker[w].pc = "done"

\* The block has been executed: run_parallel returns.
Finished == AllDone /\ UNCHANGED vars

Next == (\E w \in Workers : WorkerStep(w)) \/ Finished

Spec == Init /\ [][Next]_vars

\* Every worker thread keeps running: the pool has a thread per worker, an idle
\* worker yields, and no worker waits for anything but the scheduler lock.
FairSpec == Spec /\ \A w \in Workers : WF_vars(WorkerStep(w))

----------------------------------------------------------------------------
(* Properties.                                                             *)

Entries == [incarnation : Nat, value : Values, is_estimate : BOOLEAN]

Reads == [key : StateKey,
          observed : {NotFound} \cup
            [kind : {"Value"}, txn : Txns, incarnation : Nat, value : Values]]

TxnStates == [incarnation : Nat, executed : BOOLEAN, write_keys : SUBSET StateKey,
              reads : Seq(Reads), receipt : Seq(Receipts)]

SchedulerStates == [next_to_execute : 0 .. NumTxns, commit_idx : 0 .. NumTxns,
                    commit_in_flight : BOOLEAN, txns : [Txns -> TxnStates]]

WorkerStates ==
  [pc : {"next_task", "execute", "try_commit", "validate", "validating",
         "abort", "aborting", "commit", "done"},
   idx : Txns, incarnation : Nat, observed : Readings, reads : Seq(Reads),
   keys : SUBSET StateKey, old_keys : SUBSET StateKey, reexecuting : BOOLEAN]

StoreOK ==
  /\ mv = [k \in StateKey |-> mv[k]]
  /\ \A k \in StateKey : /\ DOMAIN mv[k] \subseteq Txns
                         /\ mv[k] \in [DOMAIN mv[k] -> Entries]

\* The scheduler state and the multi-version store name transactions and keys
\* of the block only, the commit cursor never passes its end, and no execution
\* reads more than MaxReads times.
TypeOK ==
  StoreOK /\ sched \in SchedulerStates /\ worker \in [Workers -> WorkerStates]

\* The worker that has claimed the commit slot.
Holds(w) ==
  \/ worker[w].pc \in {"validate", "validating", "abort", "aborting", "commit"}
  \/ worker[w].reexecuting

\* The claim on the commit cursor has one holder, who commits the transaction
\* under the cursor: the debug_assert of SchedulerState::commit, and "only one
\* worker drives a given commit slot" of try_commit_progress.
ClaimHasOneHolder ==
  /\ sched.commit_in_flight <=> \E w \in Workers : Holds(w)
  /\ \A v, w \in Workers : Holds(v) /\ Holds(w) => v = w
  /\ \A w \in Workers : Holds(w) => worker[w].idx = sched.commit_idx

\* The workers share the scheduler without stepping on each other.
WorkersCoordinated == TypeOK /\ ClaimHasOneHolder

\* What is about to be committed was read from the state as it still is: every
\* captured read resolves as it did, also after a re-execution, which nobody
\* validates ("re-execution at commit is always final", worker.rs).
CommitsWhatItRead ==
  \A w \in Workers : worker[w].pc = "commit" =>
    LET t == sched.txns[worker[w].idx] IN
    /\ t.executed
    /\ \A i \in DOMAIN t.reads : ReadStillMatches(worker[w].idx, t.reads[i])

\* A committed transaction is immutable in the store: no worker publishes,
\* marks or removes a write at its index again.
CommittedIsImmutable ==
  [][\A k \in StateKey, t \in 0 .. (sched.commit_idx - 1) :
       /\ t \in DOMAIN mv[k] <=> t \in DOMAIN mv'[k]
       /\ t \in DOMAIN mv[k] => mv'[k][t] = mv[k][t]]_vars

\* The observable history is the serial schedule: the committed prefix, its
\* writes and its receipts are always those of SequentialScheduler, and nothing
\* below the commit cursor changes in the store any more.
Serial == INSTANCE SerialExec WITH
  executed <- sched.commit_idx,
  writes   <- Snapshot(sched.commit_idx),
  receipts <- [i \in 1 .. sched.commit_idx |-> sched.txns[i - 1].receipt[1]]

ImplementsSerial == Serial!Spec /\ CommittedIsImmutable

\* The headline property of parallel/mod.rs, "parallel result == sequential
\* result", at the return of run_parallel.
OutputIsSequential ==
  AllDone =>
    /\ Snapshot(NumTxns) = Serial!BlockOutput.writes
    /\ \A t \in Txns : sched.txns[t].receipt = <<Serial!BlockOutput.receipts[t + 1]>>

\* Every block is finished: the workers neither wait for each other nor pass an
\* aborted transaction around for ever.
BlockFinishes == <>AllDone
=============================================================================
