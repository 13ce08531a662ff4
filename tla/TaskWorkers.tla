----------------------------- MODULE TaskWorkers -----------------------------
(***************************************************************************)
(* What the workers of the two processors have in common                   *)
(* (services/schema_observation_worker.py and field_projection_worker.py   *)
(* differ in names only): they claim batches from the queue of             *)
(* ProcessingTasks, check the claim of each item, hand it to the           *)
(* processor's transaction, which the module that extends this one adds,   *)
(* and record failures in a transaction of their own.                      *)
(*                                                                         *)
(* Several workers run, one per backend process.  Stopping one cancels it  *)
(* wherever it is; a process may crash; a transaction may fail before or   *)
(* after its commit took effect.  The database is PostgreSQL.              *)
(*                                                                         *)
(* The actions say nothing of the variables of the processor: the          *)
(* extending module does.                                                  *)
(***************************************************************************)
EXTENDS ProcessingTasks

CONSTANTS
    Workers,            \* the workers, one per process
    Streams,
    StreamOf(_),        \* the stream of a task's raw observation
    MaxClock,           \* bound: the clock stops here
    MaxFaults           \* bound: crashes, stops and failed transactions

ASSUME StreamsAssumption == \A t \in Tasks : StreamOf(t) \in Streams

ASSUME BoundsAssumption == MaxClock \in Nat /\ MaxFaults \in Nat

VARIABLES
    pc,         \* where each worker is in its loop
    batch,      \* the items it has left; the first is in process
    verdict,    \* what its finalize of a failure will set
    faults

workerVars == <<pc, batch, verdict>>
queueVars == <<clock, tasks, workerVars, faults>>

-----------------------------------------------------------------------------
(* The shape of the state. *)

\* "locked": the transaction of the current item holds the lock of its stream.
Pc == {"stopped", "idle", "claimed", "working", "checked", "locked", "failing"}

Verdict == [state : {"retryable", "dead_letter"},
            available_at : Nat \cup {NoTime}, code : Code]
NoVerdict == [state |-> "retryable", available_at |-> NoTime, code |-> "none"]

QueueTypeOK ==
    /\ clock \in Nat
    /\ tasks \in [Tasks -> TaskRow]
    /\ pc \in [Workers -> Pc]
    /\ batch \in [Workers -> Seq(Item)]
    /\ verdict \in [Workers -> Verdict]
    /\ faults \in Nat

QueueInit ==
    /\ clock = 0
    /\ tasks = [t \in Tasks |-> AbsentTask]
    /\ pc = [w \in Workers |-> "stopped"]
    /\ batch = [w \in Workers |-> <<>>]
    /\ verdict = [w \in Workers |-> NoVerdict]
    /\ faults = 0

-----------------------------------------------------------------------------
(* Helpers. *)

CurrentItem(w) == Head(batch[w])
CurrentTask(w) == CurrentItem(w).task
CurrentStream(w) == StreamOf(CurrentTask(w))

\* Tasks locked by claims that are not committed, and those whose row a
\* finalize under way may have locked.
ClaimLocked ==
    UNION {{batch[w][i].task : i \in DOMAIN batch[w]} :
                w \in {v \in Workers : pc[v] = "claimed"}}
FinalizeLocked == {CurrentTask(w) : w \in {v \in Workers : pc[v] \in {"locked", "failing"}}}

StreamLocked(s) == \E w \in Workers : pc[w] = "locked" /\ CurrentStream(w) = s

\* Faulty variant: attempts are counted from zero.
FailureVerdictEarly(item, code) ==
    IF code = "terminal" \/ item.attempt_count + 1 >= MaxAttempts
    THEN [state |-> "dead_letter", available_at |-> NoTime, code |-> code]
    ELSE [state |-> "retryable", available_at |-> clock + Backoff(item.attempt_count),
          code |-> code]

\* _finalize_failure(): terminal codes and the last attempt give the task up.
FailureVerdict(item, code) ==
    IF code = "terminal" \/ item.attempt_count >= MaxAttempts
    THEN [state |-> "dead_letter", available_at |-> NoTime, code |-> code]
    ELSE [state |-> "retryable", available_at |-> clock + Backoff(item.attempt_count),
          code |-> code]

\* Worker w goes on to `to' with the items `left', its transaction over.
Continue(w, to, left) ==
    /\ pc' = [pc EXCEPT ![w] = to]
    /\ batch' = [batch EXCEPT ![w] = left]
    /\ verdict' = [verdict EXCEPT ![w] = NoVerdict]

NextItem(w) == Continue(w, "working", Tail(batch[w]))

\* Worker w turns to the finalize of a failure.
Fail(w, code) ==
    /\ pc' = [pc EXCEPT ![w] = "failing"]
    /\ verdict' = [verdict EXCEPT ![w] = FailureVerdict(CurrentItem(w), code)]
    /\ UNCHANGED batch

\* Neither completed nor given up.
IsOpen(t) == tasks[t].state \in {"pending", "processing", "retryable"}

Fault ==
    /\ faults < MaxFaults
    /\ faults' = faults + 1

-----------------------------------------------------------------------------
(* Tasks enter the queue; time passes; workers start. *)

\* Ingestion inserts the task of a raw observation received a moment ago.
CreateTask(t) ==
    /\ tasks[t].state = "absent"
    /\ \E received \in RecentTimes : tasks' = Created(t, received)
    /\ UNCHANGED <<clock, workerVars, faults>>

Tick ==
    /\ clock < MaxClock
    /\ clock' = clock + 1
    /\ UNCHANGED <<tasks, workerVars, faults>>

Start(w) ==
    /\ pc[w] = "stopped"
    /\ pc' = [pc EXCEPT ![w] = "idle"]
    /\ UNCHANGED <<clock, tasks, batch, verdict, faults>>

-----------------------------------------------------------------------------
(* run_once(): the claim. *)

SelectBatch(w) ==
    /\ pc[w] = "idle"
    /\ \E time \in RecentTimes, skipped \in SUBSET FinalizeLocked, n \in 0..BatchSize :
        \E chosen \in [1..n -> {t \in Tasks : IsEligible(t, time)}] :
            /\ IsBatch(chosen, time, ClaimLocked \cup skipped)
            /\ batch' = [batch EXCEPT ![w] = ItemsFor(chosen, time)]
    /\ pc' = [pc EXCEPT ![w] = "claimed"]
    /\ UNCHANGED <<clock, tasks, verdict, faults>>

CommitClaim(w) ==
    /\ pc[w] = "claimed"
    /\ tasks' = Claimed(batch[w])
    /\ pc' = [pc EXCEPT ![w] = "working"]
    /\ UNCHANGED <<clock, batch, verdict, faults>>

\* The transaction raises, before or after it took effect: no batch.
ClaimFails(w) ==
    /\ pc[w] = "claimed"
    /\ Fault
    /\ tasks' \in {tasks, Claimed(batch[w])}
    /\ Continue(w, "idle", <<>>)
    /\ UNCHANGED clock

EndBatch(w) ==
    /\ pc[w] = "working"
    /\ batch[w] = <<>>
    /\ pc' = [pc EXCEPT ![w] = "idle"]
    /\ UNCHANGED <<clock, tasks, batch, verdict, faults>>

-----------------------------------------------------------------------------
(* _process_item(): what does not depend on the processor. *)

\* The claim is checked, without a lock; an item that lost it is passed over.
CheckClaim(w) ==
    /\ pc[w] = "working"
    /\ batch[w] # <<>>
    /\ IF CarriesClaim(CurrentItem(w))
       THEN Continue(w, "checked", batch[w])
       ELSE NextItem(w)
    /\ UNCHANGED <<clock, tasks, faults>>

\* The finalize of the current item as completed, in the item's transaction.
Completed(w) ==
    /\ pc[w] = "locked"
    /\ CurrentTask(w) \notin ClaimLocked
    /\ CarriesClaim(CurrentItem(w))
    /\ tasks' = Finalized(CurrentItem(w), "completed", NoTime, "none")

\* That finalize updates no row: StaleProcessingClaim, everything rolls back.
LoseClaim(w) ==
    /\ pc[w] = "locked"
    /\ CurrentTask(w) \notin ClaimLocked
    /\ ~CarriesClaim(CurrentItem(w))
    /\ NextItem(w)
    /\ UNCHANGED <<clock, tasks, faults>>

\* The transaction of the current item raises without effect.
RollBack(w) ==
    /\ pc[w] \in {"working", "checked", "locked"}
    /\ batch[w] # <<>>
    /\ Fault
    /\ Fail(w, "transient")
    /\ UNCHANGED <<clock, tasks>>

-----------------------------------------------------------------------------
(* _finalize_failure(): a transaction of its own. *)

FailureFinalized(w) ==
    /\ pc[w] = "failing"
    /\ CurrentTask(w) \notin ClaimLocked
    /\ tasks' = Finalized(CurrentItem(w), verdict[w].state, verdict[w].available_at,
                          verdict[w].code)

FinalizeFailure(w) ==
    /\ FailureFinalized(w)
    /\ NextItem(w)
    /\ UNCHANGED <<clock, faults>>

\* It raises, before or after it took effect.  A SQLAlchemyError is swallowed;
\* any other exception ends run_once() and abandons the batch.
FinalizeFailureFails(w) ==
    /\ pc[w] = "failing"
    /\ Fault
    /\ UNCHANGED tasks \/ FailureFinalized(w)
    /\ NextItem(w) \/ Continue(w, "idle", <<>>)
    /\ UNCHANGED clock

\* stop() cancels the task, or the process dies: the open transaction is rolled
\* back, unless its commit took effect already.
Halt(w) ==
    /\ pc[w] # "stopped"
    /\ Fault
    /\ \/ UNCHANGED tasks
       \/ pc[w] = "claimed" /\ tasks' = Claimed(batch[w])
       \/ FailureFinalized(w)
    /\ Continue(w, "stopped", <<>>)
    /\ UNCHANGED clock

-----------------------------------------------------------------------------

\* The steps that are the same for every processor: those of a running worker
\* and those that end its transaction early.
QueueWorkerStep(w) ==
    \/ SelectBatch(w) \/ CommitClaim(w) \/ EndBatch(w) \/ CheckClaim(w)
    \/ FinalizeFailure(w)

QueueFault(w) ==
    \/ ClaimFails(w) \/ RollBack(w) \/ FinalizeFailureFails(w) \/ Halt(w)

-----------------------------------------------------------------------------
(* Properties every processor has. *)

\* Nothing changes a completed task: no reclaim, no failure a stale claim or a
\* lost commit reports for it later.
CompletedIsFinal ==
    [][\A t \in Tasks : tasks[t].state = "completed" => tasks'[t] = tasks[t]]_queueVars

-----------------------------------------------------------------------------
(* Why these and the properties of the processors hold: the part of their    *)
(* inductive invariants that is about the queue and its workers.             *)

\* A worker has items, and a verdict, only where its program does.
BatchFitsPc ==
    \A w \in Workers :
        /\ pc[w] \in {"stopped", "idle"} => batch[w] = <<>>
        /\ pc[w] \in {"checked", "locked", "failing"} => batch[w] # <<>>
        /\ pc[w] # "failing" => verdict[w] = NoVerdict

\* The rows a claim is about to mark are still open.
ClaimsHold ==
    \A w \in Workers : pc[w] = "claimed" =>
        \A i \in DOMAIN batch[w] : IsOpen(batch[w][i].task)

\* At most one transaction holds the lock of a stream.
StreamsLockedOnce ==
    \A w, v \in Workers :
        pc[w] = "locked" /\ pc[v] = "locked" /\ CurrentStream(w) = CurrentStream(v) => w = v

\* A worker is about to give a task up, or a task is given up, only with its
\* attempts used up or for a terminal failure.
VerdictsSound ==
    /\ \A w \in Workers : verdict[w].state = "dead_letter" =>
        verdict[w].code = "terminal" \/ CurrentItem(w).attempt_count >= MaxAttempts
    /\ \A t \in Tasks : tasks[t].state = "dead_letter" =>
        tasks[t].last_error_code = "terminal" \/ tasks[t].attempt_count >= MaxAttempts

QueueInv ==
    /\ QueueTypeOK
    /\ BatchFitsPc
    /\ ClaimsHold
    /\ StreamsLockedOnce
    /\ VerdictsSound

-----------------------------------------------------------------------------
(* Progress.  The event loop runs every worker and each database call ends;  *)
(* time goes on and is kind to the settings: a batch ends within its lease,  *)
(* an idle worker polls before a second has passed.  Idle time is skipped.   *)

BatchWithinLease ==
    \A w \in Workers : \A i \in DOMAIN batch[w] :
        clock < batch[w][i].processing_started_at + Lease

PollsPromptly ==
    \A w \in Workers, t \in Tasks : pc[w] = "idle" => ~IsEligible(t, clock)

TimelyTick ==
    /\ BatchWithinLease
    /\ PollsPromptly
    /\ \E t \in Tasks : IsOpen(t) /\ ~IsEligible(t, clock)
    /\ Tick

\* If some worker keeps running, every task is eventually completed or given
\* up: no fault, no lost claim and no stream lock strands it.
EventuallySettled ==
    (\E w \in Workers : <>[](pc[w] # "stopped")) =>
        \A t \in Tasks :
            IsOpen(t) ~> (tasks[t].state \in {"completed", "dead_letter"})
=============================================================================
