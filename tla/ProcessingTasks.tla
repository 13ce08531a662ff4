--------------------------- MODULE ProcessingTasks ---------------------------
(***************************************************************************)
(* The durable work queue of the backend: the table                        *)
(* observation_processing_tasks and what its repository does to it         *)
(* (services/processing_task_repository.py), for one processor type.  The  *)
(* processors that run on it extend this module.                           *)
(***************************************************************************)
EXTENDS Integers, Sequences, FiniteSets

CONSTANTS
    Tasks,          \* the tasks that may be inserted, one per raw observation
    BatchSize,      \* the worker's batch_size setting
    Lease,          \* the worker's lease_seconds setting
    MaxAttempts,    \* the worker's max_attempts setting
    BackoffBase,    \* the backoff_base_seconds setting
    BackoffMax,     \* the backoff_max_seconds setting
    MaxDelay        \* bound: time from reading the clock to using it

ASSUME TasksAssumption == IsFiniteSet(Tasks)

\* The ranges of the settings, core/config.py.
ASSUME TaskSettingsAssumption ==
    /\ BatchSize \in Nat \ {0}
    /\ Lease \in Nat \ {0}
    /\ MaxAttempts \in Nat \ {0}
    /\ BackoffBase \in Nat \ {0}
    /\ BackoffMax \in Nat \ {0}
    /\ MaxDelay \in Nat

VARIABLES
    clock,      \* the time every process reads, in seconds
    tasks       \* the committed rows of the table

NoTime == -1                \* NULL in a timestamp column

TaskState == {"absent", "pending", "processing", "completed", "retryable",
              "dead_letter"}

\* "terminal" stands for the codes that allow no retry, "transient" for the rest.
Code == {"none", "terminal", "transient"}

TaskRow == [state : TaskState, attempt_count : Nat, available_at : Nat,
            processing_started_at : Nat \cup {NoTime}, last_error_code : Code]

AbsentTask == [state |-> "absent", attempt_count |-> 0, available_at |-> 0,
               processing_started_at |-> NoTime, last_error_code |-> "none"]

\* ProcessingTaskItem
Item == [task : Tasks, attempt_count : Nat, processing_started_at : Nat]

\* The times a process may have read when it comes to use them.
RecentTimes == {t \in 0..clock : clock - t <= MaxDelay}

\* backoff(): doubled with each attempt after the first, up to the maximum.
Backoff(attempt) ==
    LET doubled == BackoffBase * 2 ^ (IF attempt > 1 THEN attempt - 1 ELSE 0)
    IN IF doubled \in 1..BackoffMax THEN doubled ELSE BackoffMax

\* The row ingestion inserts for an accepted observation.
Created(t, received) ==
    [tasks EXCEPT ![t] = [AbsentTask EXCEPT !.state = "pending",
                                            !.available_at = received]]

-----------------------------------------------------------------------------
(* claim() *)

\* Faulty variant: a stale claim is never taken over.
EligibleWithoutReclaim(t, time) ==
    /\ tasks[t].state \in {"pending", "retryable"}
    /\ tasks[t].available_at <= time

\* The condition of the SELECT, for the time it compares with.
IsEligible(t, time) ==
    \/ /\ tasks[t].state \in {"pending", "retryable"}
       /\ tasks[t].available_at <= time
    \/ /\ tasks[t].state = "processing"
       /\ tasks[t].processing_started_at < time - Lease

\* SELECT ... ORDER BY available_at LIMIT BatchSize FOR UPDATE SKIP LOCKED:
\* `batch' is a sequence of tasks, `locked' the tasks other transactions lock.
IsBatch(batch, time, locked) ==
    LET open == {t \in Tasks : IsEligible(t, time)} \ locked
        chosen == {batch[i] : i \in DOMAIN batch}
    IN /\ chosen \subseteq open
       /\ Cardinality(chosen) = Len(batch)
       /\ Len(batch) = IF Cardinality(open) < BatchSize THEN Cardinality(open)
                                                        ELSE BatchSize
       /\ \A i \in DOMAIN batch :
            /\ \A j \in i..Len(batch) :
                tasks[batch[i]].available_at <= tasks[batch[j]].available_at
            /\ \A t \in open \ chosen :
                tasks[batch[i]].available_at <= tasks[t].available_at

\* The items claim() returns for a batch it marks at `time'.
ItemsFor(batch, time) ==
    [i \in DOMAIN batch |->
        [task |-> batch[i], attempt_count |-> tasks[batch[i]].attempt_count + 1,
         processing_started_at |-> time]]

\* The table once the claim of `items' is committed.
Claimed(items) ==
    [t \in Tasks |->
        IF \E i \in DOMAIN items : items[i].task = t
        THEN LET i == CHOOSE i \in DOMAIN items : items[i].task = t
             IN [tasks[t] EXCEPT
                    !.state = "processing",
                    !.processing_started_at = items[i].processing_started_at,
                    !.attempt_count = tasks[t].attempt_count + 1]
        ELSE tasks[t]]

-----------------------------------------------------------------------------
(* finalize() *)

\* The WHERE clause: the row still carries the claim of the item.
CarriesClaim(item) ==
    /\ tasks[item.task].state = "processing"
    /\ tasks[item.task].attempt_count = item.attempt_count
    /\ tasks[item.task].processing_started_at = item.processing_started_at

\* Faulty variant: available_at is set to NULL when none is given.
FinalizedRowWithNull(row, state, available_at, code) ==
    [row EXCEPT !.state = state, !.processing_started_at = NoTime,
                !.last_error_code = IF state = "completed" THEN "none" ELSE code,
                !.available_at = available_at]

\* The values set; available_at only if one is given.
FinalizedRow(row, state, available_at, code) ==
    [row EXCEPT
        !.state = state,
        !.processing_started_at = NoTime,
        !.last_error_code = IF state = "completed" THEN "none" ELSE code,
        !.available_at = IF available_at = NoTime THEN row.available_at
                                                  ELSE available_at]

\* Faulty variant: the row is updated by its id alone.
FinalizedUnfenced(item, state, available_at, code) ==
    [tasks EXCEPT ![item.task] =
        FinalizedRow(tasks[item.task], state, available_at, code)]

\* The table once the finalize is committed.
Finalized(item, state, available_at, code) ==
    IF CarriesClaim(item)
    THEN [tasks EXCEPT ![item.task] =
            FinalizedRow(tasks[item.task], state, available_at, code)]
    ELSE tasks
=============================================================================
