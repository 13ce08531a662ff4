-------------------------- MODULE SchemaObservation --------------------------
(***************************************************************************)
(* The schema observation processor on TaskWorkers.  For each item one     *)
(* transaction (services/schema_observation_service.py) checks the claim,  *)
(* extracts the schema, locks the stream, reads its schemas, counts the    *)
(* observation or opens a new version with its drift event, records it and *)
(* finalizes the task; it rolls back if the claim was lost meanwhile.      *)
(***************************************************************************)
EXTENDS TaskWorkers

CONSTANTS
    FingerprintOf(_),   \* what SchemaExtractor.extract() makes of a task's payload
    NoFingerprint       \* it raises SchemaExtractionFailure

VARIABLES
    seen,       \* what a worker's transaction read of the stream's schemas
    schemas,    \* observed_schemas by stream and version_number
    drifts,     \* schema_drift_events by stream: <<previous, current>> versions
    records     \* schema_observation_records by stream, in commit order

catalogVars == <<schemas, drifts, records>>
vars == <<queueVars, seen, catalogVars>>

\* The version of the fingerprint (0: none) with its observation_count, and the
\* highest version of the stream (0: none).
Seen == [version : Nat, count : Nat, highest : Nat]
NothingSeen == [version |-> 0, count |-> 0, highest |-> 0]

Fingerprints == {FingerprintOf(t) : t \in Tasks} \ {NoFingerprint}

TypeOK ==
    /\ QueueTypeOK
    /\ seen \in [Workers -> Seen]
    /\ schemas \in [Streams -> Seq([fingerprint : Fingerprints, count : Nat])]
    /\ drifts \in [Streams -> Seq(Nat \X Nat)]
    /\ records \in [Streams -> Seq([task : Tasks, version : Nat])]

Init ==
    /\ QueueInit
    /\ seen = [w \in Workers |-> NothingSeen]
    /\ schemas = [s \in Streams |-> <<>>]
    /\ drifts = [s \in Streams |-> <<>>]
    /\ records = [s \in Streams |-> <<>>]

-----------------------------------------------------------------------------
(* Helpers. *)

\* What the transaction reads for task t while it holds the stream's lock.
SchemasSeen(t) ==
    LET of == schemas[StreamOf(t)]
        known == {v \in DOMAIN of : of[v].fingerprint = FingerprintOf(t)}
        v == IF known = {} THEN 0 ELSE CHOOSE v \in known : TRUE
    IN [version |-> v, count |-> IF v = 0 THEN 0 ELSE of[v].count,
        highest |-> Len(of)]

\* The version the transaction of worker w counts or opens.
VersionFor(w) == IF seen[w].version = 0 THEN seen[w].highest + 1 ELSE seen[w].version

\* The unique constraints against which w's inserts may fail: one record for a
\* task, one schema for a version and for a fingerprint of a stream.  (A drift
\* event is unique by its current schema, which is the version it comes with.)
ViolatesConstraint(w) ==
    LET s == CurrentStream(w) IN
    \/ \E i \in DOMAIN records[s] : records[s][i].task = CurrentTask(w)
    \/ /\ seen[w].version = 0
       /\ \/ VersionFor(w) \in DOMAIN schemas[s]
          \/ \E v \in DOMAIN schemas[s] :
                schemas[s][v].fingerprint = FingerprintOf(CurrentTask(w))

\* The schemas of the stream once w's observation is in: the count is written
\* from the value read.
SchemasWith(w) ==
    IF seen[w].version = 0
    THEN Append(schemas[CurrentStream(w)],
                [fingerprint |-> FingerprintOf(CurrentTask(w)), count |-> 1])
    ELSE [schemas[CurrentStream(w)] EXCEPT ![seen[w].version].count = seen[w].count + 1]

\* Faulty variant: a known schema drifts too.
DriftsAlways(w) ==
    IF seen[w].highest > 0
    THEN Append(drifts[CurrentStream(w)], <<seen[w].highest, VersionFor(w)>>)
    ELSE drifts[CurrentStream(w)]

\* A new version drifts from the highest one before it.
DriftsWith(w) ==
    IF seen[w].version = 0 /\ seen[w].highest > 0
    THEN Append(drifts[CurrentStream(w)], <<seen[w].highest, VersionFor(w)>>)
    ELSE drifts[CurrentStream(w)]

RecordsWith(w) ==
    Append(records[CurrentStream(w)],
           [task |-> CurrentTask(w), version |-> VersionFor(w)])

\* What the transaction of worker w writes to the catalog.
CatalogUpdate(w) ==
    /\ schemas' = [schemas EXCEPT ![CurrentStream(w)] = SchemasWith(w)]
    /\ drifts' = [drifts EXCEPT ![CurrentStream(w)] = DriftsWith(w)]
    /\ records' = [records EXCEPT ![CurrentStream(w)] = RecordsWith(w)]

ForgetSeen(w) == seen' = [seen EXCEPT ![w] = NothingSeen]

-----------------------------------------------------------------------------
(* process_claim(): one transaction per item. *)

\* The payload has no schema: the transaction ends and the failure is terminal.
Reject(w) ==
    /\ pc[w] = "checked"
    /\ FingerprintOf(CurrentTask(w)) = NoFingerprint
    /\ Fail(w, "terminal")
    /\ UNCHANGED <<clock, tasks, faults, seen, catalogVars>>

\* Faulty variant: the stream is read without FOR UPDATE.
ReadStream(w) ==
    /\ pc[w] = "checked"
    /\ FingerprintOf(CurrentTask(w)) # NoFingerprint
    /\ seen' = [seen EXCEPT ![w] = SchemasSeen(CurrentTask(w))]
    /\ pc' = [pc EXCEPT ![w] = "locked"]
    /\ UNCHANGED <<clock, tasks, batch, verdict, faults, catalogVars>>

\* SELECT ... FOR UPDATE of the stream, then the reads of its schemas.
LockStream(w) ==
    /\ pc[w] = "checked"
    /\ FingerprintOf(CurrentTask(w)) # NoFingerprint
    /\ ~StreamLocked(CurrentStream(w))
    /\ seen' = [seen EXCEPT ![w] = SchemasSeen(CurrentTask(w))]
    /\ pc' = [pc EXCEPT ![w] = "locked"]
    /\ UNCHANGED <<clock, tasks, batch, verdict, faults, catalogVars>>

\* Everything the transaction of worker w writes, committed.
ObservationCommitted(w) ==
    /\ Completed(w)
    /\ ~ViolatesConstraint(w)
    /\ CatalogUpdate(w)
    /\ ForgetSeen(w)

\* Faulty variant: the result of finalize() is not looked at.
ObserveAnyway(w) ==
    /\ pc[w] = "locked"
    /\ ~ViolatesConstraint(w)
    /\ tasks' = Finalized(CurrentItem(w), "completed", NoTime, "none")
    /\ CatalogUpdate(w)
    /\ ForgetSeen(w)
    /\ NextItem(w)
    /\ UNCHANGED <<clock, faults>>

Observe(w) ==
    /\ ObservationCommitted(w)
    /\ NextItem(w)
    /\ UNCHANGED <<clock, faults>>

ObserveStale(w) ==
    /\ LoseClaim(w)
    /\ ~ViolatesConstraint(w)
    /\ ForgetSeen(w)
    /\ UNCHANGED catalogVars

\* An INSERT raises IntegrityError: the task was observed under a newer claim.
ObserveConflicts(w) ==
    /\ pc[w] = "locked"
    /\ ViolatesConstraint(w)
    /\ Fail(w, "transient")
    /\ ForgetSeen(w)
    /\ UNCHANGED <<clock, tasks, faults, catalogVars>>

\* The transaction raises, or the worker ends, after the commit took effect.
ObserveUnnoticed(w) ==
    /\ ObservationCommitted(w)
    /\ Fault
    /\ Fail(w, "transient") \/ Continue(w, "stopped", <<>>)
    /\ UNCHANGED clock

-----------------------------------------------------------------------------

WorkerStep(w) ==
    \/ QueueWorkerStep(w) /\ UNCHANGED <<seen, catalogVars>>
    \/ Reject(w) \/ LockStream(w) \/ Observe(w) \/ ObserveStale(w)
    \/ ObserveConflicts(w)

\* Everything but the passing of time.
Step ==
    \/ \E t \in Tasks : CreateTask(t) /\ UNCHANGED <<seen, catalogVars>>
    \/ \E w \in Workers :
        \/ WorkerStep(w)
        \/ Start(w) /\ UNCHANGED <<seen, catalogVars>>
        \/ QueueFault(w) /\ ForgetSeen(w) /\ UNCHANGED catalogVars
        \/ ObserveUnnoticed(w)

Next == Step \/ (Tick /\ UNCHANGED <<seen, catalogVars>>)

TimelyNext == Step \/ (TimelyTick /\ UNCHANGED <<seen, catalogVars>>)

Spec == Init /\ [][Next]_vars

TimelySpec ==
    /\ Init
    /\ [][TimelyNext]_vars
    /\ WF_vars(TimelyTick /\ UNCHANGED <<seen, catalogVars>>)
    /\ \A w \in Workers : WF_vars(WorkerStep(w))

-----------------------------------------------------------------------------
(* Properties. *)

\* A task counts as completed exactly when its observation is in the catalog,
\* once, under a version with the fingerprint of its payload: no claim that was
\* lost, no failed or repeated attempt leaves a trace or a second one.
CompletedIsRecorded ==
    \A t \in Tasks :
        LET s == StreamOf(t)
            made == {i \in DOMAIN records[s] : records[s][i].task = t}
        IN IF tasks[t].state # "completed" THEN made = {}
           ELSE \E i \in made :
                /\ made = {i}
                /\ records[s][i].version \in DOMAIN schemas[s]
                /\ schemas[s][records[s][i].version].fingerprint = FingerprintOf(t)

\* observation_count, which each transaction computes from the value it read,
\* loses no update: it is the number of observations recorded for the version.
CountsMatch ==
    \A s \in Streams : \A v \in DOMAIN schemas[s] :
        schemas[s][v].count =
            Cardinality({i \in DOMAIN records[s] : records[s][i].version = v})

\* The versions of a stream have different fingerprints, and each but the first
\* drifted, once, from the version before it.
VersionsChain ==
    \A s \in Streams :
        /\ \A v, u \in DOMAIN schemas[s] :
            schemas[s][v].fingerprint = schemas[s][u].fingerprint => v = u
        /\ Len(drifts[s]) = IF schemas[s] = <<>> THEN 0 ELSE Len(schemas[s]) - 1
        /\ \A i \in DOMAIN drifts[s] : drifts[s][i] = <<i, i + 1>>

\* A task is given up only if its payload has no schema or its attempts are
\* used up, whichever claim the failure was found under.
DeadLetterJustified ==
    \A t \in Tasks : tasks[t].state = "dead_letter" =>
        \/ FingerprintOf(t) = NoFingerprint
        \/ tasks[t].attempt_count >= MaxAttempts

\* Claims, locks and transactions implement the schema registry.
Registry == INSTANCE SchemaRegistry
RegistrySpec == Registry!Spec

-----------------------------------------------------------------------------
(* Why they hold: an inductive invariant. *)

\* What a transaction read under its stream's lock is what the stream still has.
SeenIsCurrent ==
    \A w \in Workers : pc[w] = "locked" =>
        /\ FingerprintOf(CurrentTask(w)) # NoFingerprint
        /\ seen[w] = SchemasSeen(CurrentTask(w))

\* A failure is terminal only for a payload without a schema.
TerminalHasNoSchema ==
    /\ \A w \in Workers : verdict[w].code = "terminal" =>
        FingerprintOf(CurrentTask(w)) = NoFingerprint
    /\ \A t \in Tasks : tasks[t].last_error_code = "terminal" =>
        FingerprintOf(t) = NoFingerprint

RecordsHaveVersions ==
    \A s \in Streams : \A i \in DOMAIN records[s] :
        records[s][i].version \in DOMAIN schemas[s]

SchemaInv ==
    /\ TypeOK
    /\ QueueInv
    /\ SeenIsCurrent
    /\ TerminalHasNoSchema
    /\ RecordsHaveVersions
    /\ CompletedIsRecorded
    /\ CountsMatch
    /\ VersionsChain

-----------------------------------------------------------------------------
(* A statement of the documentation that the code does not keep. *)

\* docs/evaluation/thresholds/r2.yaml: "Meaningful structural changes produce a
\* new schema version and drift evidence": whenever two successive observations
\* of a stream differ in schema, a drift event from the one to the other exists.
ChangesAreEvidenced ==
    \A s \in Streams : \A i \in 1..(Len(records[s]) - 1) :
        records[s][i].version # records[s][i + 1].version =>
            \E d \in DOMAIN drifts[s] :
                drifts[s][d] = <<records[s][i].version, records[s][i + 1].version>>
=============================================================================
