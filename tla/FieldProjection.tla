--------------------------- MODULE FieldProjection ---------------------------
(***************************************************************************)
(* The field projection processor on TaskWorkers.  For each item one       *)
(* transaction (services/field_projection_service.py) checks the claim,    *)
(* extracts the scalar fields of the payload, locks the stream, inserts an *)
(* outbox row per field unless its delivery key is there already, and      *)
(* finalizes the task; it rolls back if the claim was lost meanwhile.      *)
(*                                                                         *)
(* The rows stay in the outbox, where OutboxDelivery takes them up.        *)
(***************************************************************************)
EXTENDS TaskWorkers

CONSTANTS
    FieldsOf(_),    \* the paths FieldValueExtractor.extract() finds in a task's payload
    NoFields        \* it raises FieldValueExtractionFailure

VARIABLE
    projected       \* the number of outbox rows by delivery key

vars == <<queueVars, projected>>

Extractable == {t \in Tasks : FieldsOf(t) # NoFields}

\* _delivery_key(): one key per observation and path.
DeliveryKeys(t) == {<<t, path>> : path \in FieldsOf(t)}

Keys == UNION {DeliveryKeys(t) : t \in Extractable}

TypeOK ==
    /\ QueueTypeOK
    /\ projected \in [Keys -> Nat]

Init ==
    /\ QueueInit
    /\ projected = [key \in Keys |-> 0]

-----------------------------------------------------------------------------
(* process_claim(): one transaction per item. *)

\* _persist_outbox() for every field, INSERT ... ON CONFLICT DO NOTHING.
PersistOutbox(w) ==
    projected' = [key \in Keys |->
        IF key \in DeliveryKeys(CurrentTask(w)) /\ projected[key] = 0
        THEN 1 ELSE projected[key]]

\* The payload cannot be extracted: the transaction ends, the failure is terminal.
Reject(w) ==
    /\ pc[w] = "checked"
    /\ CurrentTask(w) \notin Extractable
    /\ Fail(w, "terminal")
    /\ UNCHANGED <<clock, tasks, faults, projected>>

\* SELECT ... FOR UPDATE of the stream.
LockStream(w) ==
    /\ pc[w] = "checked"
    /\ CurrentTask(w) \in Extractable
    /\ ~StreamLocked(CurrentStream(w))
    /\ pc' = [pc EXCEPT ![w] = "locked"]
    /\ UNCHANGED <<clock, tasks, batch, verdict, faults, projected>>

\* Faulty variant: the result of finalize() is not looked at.
ProjectAnyway(w) ==
    /\ pc[w] = "locked"
    /\ CurrentTask(w) \notin ClaimLocked
    /\ tasks' = Finalized(CurrentItem(w), "completed", NoTime, "none")
    /\ PersistOutbox(w)
    /\ NextItem(w)
    /\ UNCHANGED <<clock, faults>>

Project(w) ==
    /\ Completed(w)
    /\ PersistOutbox(w)
    /\ NextItem(w)
    /\ UNCHANGED <<clock, faults>>

ProjectStale(w) ==
    /\ LoseClaim(w)
    /\ UNCHANGED projected

\* The transaction raises, or the worker ends, after the commit took effect.
ProjectUnnoticed(w) ==
    /\ Completed(w)
    /\ PersistOutbox(w)
    /\ Fault
    /\ Fail(w, "transient") \/ Continue(w, "stopped", <<>>)
    /\ UNCHANGED clock

-----------------------------------------------------------------------------

WorkerStep(w) ==
    \/ QueueWorkerStep(w) /\ UNCHANGED projected
    \/ Reject(w) \/ LockStream(w) \/ Project(w) \/ ProjectStale(w)

Next ==
    \/ Tick /\ UNCHANGED projected
    \/ \E t \in Tasks : CreateTask(t) /\ UNCHANGED projected
    \/ \E w \in Workers :
        \/ WorkerStep(w)
        \/ Start(w) /\ UNCHANGED projected
        \/ QueueFault(w) /\ UNCHANGED projected
        \/ ProjectUnnoticed(w)

Spec == Init /\ [][Next]_vars

-----------------------------------------------------------------------------
(* Properties. *)

\* A completed task has exactly one outbox row for each of its fields, any other
\* task has none: no lost claim or failed attempt leaves rows behind, no later
\* attempt adds a second one.
ProjectedOnce ==
    \A t \in Extractable : \A key \in DeliveryKeys(t) :
        projected[key] = IF tasks[t].state = "completed" THEN 1 ELSE 0

\* A payload that cannot be extracted is never taken as completed, and a task
\* is given up only for that or with its attempts used up.
GivenUpJustified ==
    \A t \in Tasks :
        /\ t \notin Extractable => tasks[t].state # "completed"
        /\ t \in Extractable /\ tasks[t].state = "dead_letter" =>
                tasks[t].attempt_count >= MaxAttempts

-----------------------------------------------------------------------------
(* Why they hold: an inductive invariant. *)

\* Only an extractable payload gets as far as the stream's lock, and a failure
\* is terminal only for one that is not.
FailuresAreJustified ==
    /\ \A w \in Workers : pc[w] = "locked" => CurrentTask(w) \in Extractable
    /\ \A w \in Workers : verdict[w].code = "terminal" => CurrentTask(w) \notin Extractable
    /\ \A t \in Tasks : tasks[t].last_error_code = "terminal" => t \notin Extractable

ProjectionInv ==
    /\ TypeOK
    /\ QueueInv
    /\ FailuresAreJustified
    /\ ProjectedOnce
    /\ GivenUpJustified
=============================================================================
