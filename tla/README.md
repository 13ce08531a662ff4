# Verification of the telemetry backend

TLA+ specifications of the backend under `src/backend/app`, the TLC
configurations that check them on small instances, and TLAPS proofs of all their
safety properties for every instance.

## 1. The system

Telemetry arrives over MQTT, is catalogued in PostgreSQL, and is delivered to
InfluxDB by a durable outbox; two processors derive schemas and field values
from the raw observations through a durable task queue. One FastAPI process
runs the MQTT adapter and the three workers as tasks of one event loop; several
such processes may share the database.

| Component | State it keeps | Operations | Interacts with |
| --- | --- | --- | --- |
| MQTT adapter (`services/mqtt_adapter.py`) | status, its task, attempts used | start, stop, connect, receive, reconnect once | calls ingestion for each message |
| Ingestion (`services/stream_catalog.py`) | `streams`, `observation_evidence`, `raw_observations` | authorize, classify, upsert the stream, store evidence and raw bytes, enqueue tasks and an outbox row, all in one transaction | inserts into the task queue and the outbox |
| Observation outbox (`services/observation_outbox_repository.py`) | `observation_outbox`: state, attempt count, available_at, processing_started_at | insert, claim, finalize, replay dead letters, status | claimed by delivery workers |
| Delivery worker (`services/observation_delivery_worker.py`) | stop event, the batch in hand | start, stop, claim a batch, write and finalize each item | outbox, InfluxDB |
| InfluxDB writer (`services/influx_observation_writer.py`) | the client | map a row to a point, write, classify failures | InfluxDB |
| Task queue (`services/processing_task_repository.py`) | `observation_processing_tasks` | insert, claim, finalize | claimed by the two processors |
| Schema observation (`services/schema_observation_*.py`, `schema_extractor.py`) | `observed_schemas`, `observed_fields`, `schema_drift_events`, `schema_observation_records` | check the claim, lock the stream, count or open a version, record, finalize | task queue, stream lock |
| Field projection (`services/field_projection_*.py`, `field_value_extractor.py`) | outbox rows with keys of their own | check the claim, lock the stream, insert rows, finalize | task queue, outbox |
| Manual classes, saved queries and their execution (`services/manual_class_service.py`, `saved_class_query_execution_service.py`, `influx_class_query_reader.py`) | classes, memberships, queries | CRUD; execute over InfluxDB | streams, InfluxDB |
| Sources, subscriptions, ingestion runs (`services/source_subscription_repository.py`) | their tables | create, finalize a run | no caller yet |
| Application life cycle (`main.py`, `core/module_registry.py`) | which parts run | start in order, undo a failed start, stop in reverse | all of the above |
| Event bus (`core/event_bus.py`) | handlers | subscribe, publish | no publisher yet |

What is hard: claims that overlap, expire and are taken over; writes that time
out and take effect later; transactions whose commit took effect although its
caller saw an error; workers cancelled or killed at any step; counters and
version numbers computed from a value read earlier; limits and boundaries.
`PROJECT.json` lists these hazards line by line, with the properties that cover
them or the reason none does yet.

What makes each component correct:

* outbox and delivery: a row is worked on by one worker within a lease; only
  the holder of the current claim settles it; what is reported delivered is in
  InfluxDB; a row is given up or retried only for the failure of its last claim,
  neither early nor late; nothing is stranded; every row is settled in the end;
* schema observation: every task is counted exactly once or given up with
  reason; no count is lost; versions and drift events form a chain;
* field projection: each field of an observation has one outbox row,
  none is left by a lost claim;
* ingestion: an observation leaves all of its rows or none; repeated
  delivery of one message, on one stream, leaves one raw observation and one outbox
  row;
* life cycle: nothing runs without what it depends on; what was started is
  stopped, also after a failed start, unless a stop raises; starting and stopping
  end;
* classes and queries: tenants are isolated; nothing is left of a deleted class;
  a saved query refers to streams that are or were members, and an execution reads
  members only; its limits hold and `truncated` tells whether they cut anything.

## 2. Modules

| Module | Role |
| --- | --- |
| `DeliveryContract` | what durable delivery promises, without workers, leases or transactions |
| `OutboxDelivery` | outbox, delivery workers and InfluxDB in detail |
| `OutboxDeliveryProofs` | theorems about `OutboxDelivery` |
| `ProcessingTasks` | the task queue: rows and the operators of its repository |
| `SchemaRegistry` | what schema observation promises about the catalog |
| `TaskWorkers` | what the workers of both processors do with the queue; extends `ProcessingTasks` |
| `TaskWorkersProofs` | theorems about `TaskWorkers`, which those of the processors rest on |
| `SchemaObservation` | the schema processor, on `TaskWorkers` |
| `SchemaObservationProofs` | theorems about `SchemaObservation` |
| `FieldProjection` | the field projection processor, on `TaskWorkers` |
| `FieldProjectionProofs` | theorems about `FieldProjection` |
| `StreamCatalog` | the catalog's tables and what one call of `record()` writes to them |
| `Ingestion` | the adapters and their handler's transactions, on `StreamCatalog` |
| `IngestionProofs` | theorems about `Ingestion` |
| `ClassQueryExecution` | what an execution of a saved query computes, as operators |
| `ClassQueryExecutionProofs` | theorems about those operators |
| `ManualClasses` | requests on classes, members and saved queries, on `ClassQueryExecution` |
| `ManualClassesProofs` | theorems about `ManualClasses` |
| `Lifespan` | starting and stopping of the application and of its module registry |
| `LifespanProofs` | theorems about `Lifespan` |
| `MCOutboxDelivery`, `MCSchemaObservation`, `MCFieldProjection`, `MCIngestion`, `MCManualClasses`, `MCLifespan` | small instances for TLC |

### OutboxDelivery

`outbox` is the committed table, a function from rows to
`[state, attempt_count, available_at, processing_started_at, last_error_code]`;
`absent` marks a row not inserted yet. A worker's place in `_run()`/`run_cycle()`
is `pc[w]`; `now[w]` is the time `claim()` read, `held[w]` the items of the batch
that are not finalized, `current[w]` the one at work, `verdict[w]` what its
finalize will set. `influx` maps a cell (point and typed field) to the row whose
value it holds; `late` holds the writes whose worker gave up on them.

| Code | Actions |
| --- | --- |
| insert by ingestion or field projection | `Enqueue` |
| `claim()` and its transaction | `BeginCycle` (the time is read), `SelectBatch` (rows locked), `CommitClaim`, `ClaimFails` |
| `write()` | `BeginWrite`, `StoreWrite`, `WriteSucceeds`, `WriteFailsRetryable`, `WriteFailsPermanently`; `StoreLateWrite` for what InfluxDB applies afterwards |
| `finalize()` and its transaction | `Finalize`, `FinalizeFails` |
| `start()`, `stop()`, the loop | `Start`, `Stop`, `Exit`, `EndCycle` |
| death of the process | `Crash` |
| `replay_dead_letters()` | `ReplayDeadLetters` |

Row locks are not variables: the rows of a claim under way are `ClaimLocked`,
those a finalize may have locked are `FinalizeLocked`, and a claim may or may not
skip the latter (`SKIP LOCKED` depends on the instant). A failed transaction
either left the table as it was or took effect with its answer lost.

Assumed: all processes read one clock, in whole seconds, that never goes back;
the database is PostgreSQL (SQLite, used in tests, has no `SKIP LOCKED`).

### ProcessingTasks, TaskWorkers and the two processors

`ProcessingTasks` declares the table and the operators of its repository.
`TaskWorkers` adds the workers: `schema_observation_worker.py` and
`field_projection_worker.py` are the same program but for names, so there is
one model of it, mapped to the former. `pc[w]` is the place of a worker, `batch[w]`
the items it has left in the order of the claim, `verdict[w]` what its failure
will set. A processor module adds what one transaction of its service does
between the stream lock and the commit:

* `SchemaObservation`: `seen[w]` is what the transaction read of the stream's
  schemas under the stream's lock; the catalog is per stream: `schemas` indexed by
  version number, `drifts`, and `records` in the order of commit;
* `FieldProjection`: `projected` counts the outbox rows by delivery key
  (observation and path).

| Code | Actions |
| --- | --- |
| the task insert of ingestion | `CreateTask` |
| `claim()` in `run_once()` | `SelectBatch`, `CommitClaim`, `ClaimFails`, `EndBatch` |
| `process_claim()`: claim check, payload, stream lock and reads | `CheckClaim`, `Reject`, `LockStream` |
| its writes, finalize and commit | `Completed` in `Observe`, `Project`; `LoseClaim` in `ObserveStale`, `ProjectStale` (finalize hit no row: roll back); `ObserveConflicts` (a unique constraint) |
| an exception in it | `RollBack` (no effect); `ObserveUnnoticed`, `ProjectUnnoticed` (the commit took effect, its answer is lost) |
| `_finalize_failure()` | `FinalizeFailure`, `FinalizeFailureFails` |
| `start()`; `stop()` and death of the process | `Start`; `Halt` |

Unlike the delivery worker's, this `stop()` cancels the task; cancelling and
dying have the same effect on the database, so `Halt` stands for both. The
reading of the time and the claim that uses it are one step here, with a delay of
at most `MaxDelay`; the write transaction is one step from the stream lock to the
commit, which the lock and the fenced finalize make atomic. The reads before
it are separate steps, since the claim can be lost between them.

### StreamCatalog and Ingestion

`StreamCatalog` declares `streams`, `evidence` (the captures behind the evidence
rows, in the order of commit), `raws`, `tasks` and `outbox`, and the operators
`record()` is made of: classification, the choice of the observation time, the two
keys, the upsert. A row of `raws` and `outbox` carries the place of the evidence it
refers to. A message is a model value; constant operators say what it is
(`FormOf`, `ContentTypeOf`, `SourceTimeOf`, ...).

`Ingestion` adds one adapter per backend process: `status[a]`, the place `pc[a]` of
its task, `attempts[a]`, the client's `inbox[a]` and the capture in `hand[a]`.

| Code | Actions |
| --- | --- |
| `start()`, `stop()`; death of the process | `Start`, `Stop`; `Crash` |
| `_run()`: connect and subscribe; wait; the connection is lost | `Connect`, `Wake`, `Disconnect` |
| `_run()`: a message | `Deliver` (the broker), `Take` |
| `record_observation()` | `UpsertStream` (from here the stream's row is locked), `Record` (the commit) |
| it raises | `RefuseEvidence` (text PostgreSQL refuses), `HandlerFails` |

The transaction is two steps: whatever it writes belongs to its stream, whose row
lock it holds from the upsert to the commit. The broker delivers any message to
any connected adapter at any time, which includes repetition, reordering and
loss. The tasks and outbox rows are where `TaskWorkers.CreateTask` and
`OutboxDelivery.Enqueue` begin.

The boundary `record_raw()` takes captures of any adapter; the MQTT adapter, so
far the only one, states no content type. `Ingestion.cfg` has adapters that
state JSON, so that all of `record()` is exercised, `IngestionMqtt.cfg` the MQTT adapter.

### ClassQueryExecution and ManualClasses

`ClassQueryExecution` has what an execution computes of the points InfluxDB holds:
`Read` is the Flux query (window, a limit per series, the union, a limit in all),
`Response` is `_normalize()` (`ItemPoints`: the points of each item in the order
requested, cut per series and in all, and `truncated`). A point is a series, a time and a type;
the values and the text of query and answer are left out. So is a second point of one
type for a series and a time, which InfluxDB may hold since the writer also tags
`timestamp_source` and `quality_status`: both sorts leave the order of such two open,
and no property depends on it. The last section states
what a response promises of the points of the window, without limits read in
advance: `IsHonest`, `IsEarliest`, `IsLimited`.

`ManualClasses` has the three tables, by id, and `requests[r]`, what a request has
read before it writes. A deleted row keeps its columns as a history.

| Code | Actions |
| --- | --- |
| `create_class()` | `CreateClass` |
| `update_class()` | `BeginUpdateClass`, `UpdateClass` |
| `delete_class()` | `BeginDeleteClass`, `ClearClass` (the two DELETEs), `DropClass` (the class, and what ON DELETE CASCADE takes with it) |
| `add_members()`, `remove_member()` | `BeginAddMembers`, `AddMembers`; `BeginRemoveMember`, `RemoveMember` |
| `create_query()`, `update_query()`, `delete_query()` | `BeginCreateQuery`, `CreateQuery`; `BeginUpdateQuery`, `UpdateQuery`; `BeginDeleteQuery`, `DeleteQuery` |
| `execute()` | `BeginExecute` (class and query), `CheckMembers`, `Answer` |
| an exception, a lost connection, the end of the process | `Abort` |

The reads of a request before its first write are one step, except in `execute()`,
where the members are read after the query; a request refused in it changes
nothing and is left out. An update writes the columns that differ from what it
read, as a flush does. The write is one step with its commit. Locks matter only
in `delete_class()`, which holds those of the rows it deleted over further steps
(`locked`); two of them that wait for each other are resolved by PostgreSQL, which
is an `Abort`. Two `add_members()` of one stream at a time both pass the check; the
later one hits the unique constraint, which the code does not catch (500 rather
than 409), and inserts nothing. A stream the MQTT adapter creates has no tenant, so
it matches no request and can be no member.

### Lifespan

`lifespan()` is a program of steps, `StartSteps` and `StopSteps`; `phase` and `step`
say where it is, `running` what runs, `started` is the registry's list, `raised` what
raised in stopping. Any subset of the settings that passes their validators may be
configured.

| Code | Actions |
| --- | --- |
| a part that starts, or is not configured | `Start`, `StartRaises` |
| `start_all()`, `stop_all()`, `unregister()` | `StartModule`, `StopModule`, `StopModulesDone`, `Unregister` |
| serving; the adapter gives up; the end | `AdapterEnds`, `Shutdown` |
| the undoing of a failed start (an exception ends its block only), and the shutdown (an exception ends it) | `StopTask`, `StopDelivery`, `Close` |

Modules are registered from `Init` on; `lifespan()` registers them once the database
is initialized, before anything reads the registry. A module whose start
raised is not stopped. The application has one module and unregisters none; three
and `Unregister` exercise the registry. Undoing a failed start only ever finds
modules and the database running: a start can raise, or be cancelled, up to InfluxDB's
`initialize()`, while the `start()` of the workers and the adapter only creates a task
and has no point where `lifespan()` could be cancelled. What the common try block of
`main.py:74` would do for several of them is therefore never exercised. The adapter's and the task workers'
`stop()` swallow a cancellation of `lifespan()`, the other waits do not.

## 3. Runs

| Run | Instance | Shows |
| --- | --- | --- |
| `OutboxRow` | 1 row, 2 workers, clock 3, 1 fault, 1 replay | types; leases exclude; delivered is stored; starting and stopping strands no row; delivered rows never change; a row is given up or put back only by the failure of its last claim, at exactly the right attempt; `OutboxDelivery` implements `DeliveryContract` |
| `OutboxBatch` | 2 rows, 2 workers, batch 2, clock 3 | the inductive invariant, which contains leases and delivered-is-stored, over two rows that share an InfluxDB cell; only the leaseholder settles |
| `OutboxLiveness` | 1 row, 2 workers, 1 fault, clock 12 | every row is settled if some worker keeps running |
| `OutboxAttempts` (violated) | 1 row, 2 workers, 3 faults | attempts exceed the maximum by reclaims |
| `SchemaFaults` | 4 tasks of two structures, 2 workers, batch 1, clock 2, 1 fault | the inductive invariant; dead letters are justified; completed means recorded exactly once, and is final; counts equal records; versions and drift events form a chain; `SchemaObservation` implements `SchemaRegistry` |
| `SchemaLiveness` | 2 tasks, 2 workers, batch 2, 1 fault | every task is settled if some worker keeps running |
| `FieldProjection` | 3 tasks (two fields, none, not extractable) of 2 streams, 2 workers, batch 2, clock 2, delay 1, 1 fault | the inductive invariant; a completed task has one outbox row per field, any other task none; nothing is given up without reason |
| `Ingestion` | 2 adapters, 1 stream, 6 kinds of message, 3 deliveries, 1 fault, clock 2 to 4 | the inductive invariant; every observation is stored once and queued once, the stream agrees with the evidence, the catalog only grows, the status is true |
| `ManualClasses` | 2 requests of 2 tenants, 2 names, 2 ids per table, a raw query of three items over two series and one that aggregates, 512 contents of InfluxDB | the inductive invariant; tenants are isolated; a deleted class leaves nothing; queries over what are or were members; an execution reads members, answers the earliest points within its limits and is honest about what it cut |
| `Lifespan` | 3 modules, all settings | the inductive invariant; no part runs without what it needs; what is left running comes after a stop that raised; the undoing of a start isolates exceptions; starting and stopping end |
| `IngestionMqtt` (violated) | 1 adapter without content types | a normalized envelope received over MQTT reaches no outbox |
| `SchemaRecurrence` (violated) | 3 tasks a, b, a, 1 worker | a returning structure leaves no drift event |

An inductive invariant (`DeliveryInv`, `SchemaInv`, `ProjectionInv`, `IngestionInv`,
`ClassesInv`, `LifeInv`) contains the type invariant but for `DeliveryInv`; TLC checks on
the instance what section 5 proves in general. The largest runs are
`OutboxBatch` (620,000 distinct states), `Ingestion` (600,000), `SchemaFaults` (590,000).

Deadlock is not checked in `ManualClasses`, whose ids run out, and `Lifespan`, which
ends.

Bounds. The lease is 1 second, so a claim can be taken over from clock 2 on
(the code compares strictly); clock 2 allows a takeover and clock 3 a retry after it. Two attempts are the fewest with a retryable and a last one; two workers are
the fewest that compete; three observations of one structure
are the fewest that can lose a count (one opens the version); one fault puts a crash or a lost answer at any step;
batches of two are the fewest with an order and a rest to abandon
(`OutboxBatch`, `FieldProjection`, `SchemaLiveness`). Two requests of two tenants,
with a class and a query to spare, are the fewest that meet at every pair of
steps; the contents of InfluxDB include points at both ends of the window, two
types at one time, and more points than each limit. A minute of three seconds with
windows of two has, from clock 2 to 4, the second, cut window of one minute and the
full one of the next; three deliveries are a first, a
repeated and a competing one. In the
liveness runs the clock stops at 12, later than any behaviour needs, so the bound
never ends an execution. `OutboxBatch` leaves out stopping (`NoStop`), which `OutboxRow` explores.

Fairness. `TimelySpec` asks that each worker's steps and the passing of time go
on: the event loop schedules every task, database calls and writes end (the
client has a timeout). It asks more of time than the code does: a cycle ends
within its lease, and an idle worker polls before a second has passed. The
first is a condition on the settings (batch size x write timeout < lease): the
defaults of 25 items, 10 s and 60 s meet it only while InfluxDB answers
quickly, and without it two workers can take rows from each other for ever. No
fairness is asked of starting, stopping, faults, or a successful write. `FairSpec`
of `Lifespan` asks that `lifespan()` goes on: what it awaits returns or raises, which
is so of the loops it cancels, of a delivery cycle (whose calls time out) and of
what the modules do in their own start and stop.

## 4. Where the code and the documents differ

* `docs/architecture/current-state.md:15` has the maximum of attempts lead to
  `dead_letter`; the maximum is only compared when a write fails, and reclaims
  count on (`OutboxAttempts`).
* `docs/evaluation/thresholds/r2.yaml:47` asks for a version and drift evidence
  on structural change; a return to an earlier structure leaves neither
  (`SchemaRecurrence`).
* `docs/architecture/current-state.md:15` has the delivery path begin with MQTT
  ingestion; the adapter states no content type, and only captures stated to be
  JSON are queued (`IngestionMqtt`).

Met on the way, and not the subject of a run:

* `docs/architecture/current-state.md:16` has exactly one typed value in a
  point; the type is no tag, so a second observation of the same metric and time
  with a value of another type adds its field to the point.
* `docs/evaluation/thresholds/r0b.yaml:25` has a shutdown dispose of the database
  after the modules stop; a module's stop that raises ends the shutdown before
  that (`LeftAfterFailureOnly` is what holds).

## 5. Proofs

Every invariant and action property of the passing runs, and both refinements, are
theorems: they hold for every value of the constants that the named assumptions
allow, where a run shows them for one small instance. In each module an inductive
invariant carries the proof; TLC checks it too, as an invariant of a run. Each
action has a lemma that it preserves the invariant, and the temporal theorems
combine the lemmas with `PTL`.

Bounds (`MaxClock`, `MaxFaults`, ...) only have to be natural numbers, so no theorem
depends on how small they are in a run. Sets of workers, adapters, streams and
requests are arbitrary; only the rows of a table are finite where the code counts
them.

### OutboxDeliveryProofs

For any finite set of rows, any set of workers, any batch size, lease, backoff and
number of attempts within the ranges of the settings (`SettingsAssumption`):
`Invariance`, and from it `LeasesAreExclusive` and `DeliveredMeansStored`; the
action properties `DeliveredStaysDelivered`, `OnlyLeaseholdersSettle` and
`FailuresSettleTheirClaim`; `RowsAreNotStranded`; and `ImplementsContract`: every step
of `OutboxDelivery` is a step of `DeliveryContract` or leaves its variables
unchanged.

`LeaseExclusive` is not inductive: that two live items of a row are ordered by
attempt and a lease apart rests on the item of an older claim having been
outlived by whatever the row became since, which is `ItemsFenced`. A new
claim needs that the rows it read have not changed before it commits
(`ClaimsLocked`). `DeliveredIsStored` and `FailureSettlesLastClaim` need what they
say of a row of a verdict that is not finalized yet (`VerdictsSound`), and all of them
that a worker holds items only where its program does (`HeldFitsPc`), one item
per row. That whoever fails a row holds the highest attempt number is the fence of
`finalize()` together with `ItemsFenced` (no item is ahead of its row) and
`LeaseExclusive` (no two are level). `RowsSound` keeps absent rows unattempted and claim times in the past.

`NoStrandedRow` is inductive relative to `DeliveryInv`: without faults only a claim
puts a row in processing, which gives the worker an item that carries the claim,
and only a finalize takes an item from a worker (`StepsWithoutFault`). An accepted
one takes the row out of processing; one that is refused held no claim.

### TaskWorkersProofs, SchemaObservationProofs, FieldProjectionProofs

`QueueInductive` is stated once for both processors, about `QueueNext`, which leaves
open what a task's transaction writes into other tables: `BatchFitsPc` (a worker has
items, and a verdict, where its program does), `ClaimsHold` (the rows a claim
selected and locked are still open when it marks them), `StreamsLockedOnce` (one
transaction at a time holds a stream's lock) and `VerdictsSound`.
The two processors prove that each of their steps is a step of the queue, and cite
it. Tasks are finite (`TasksAssumption`), each with a stream
(`StreamsAssumption`).

`SchemaObservation` adds `SeenIsCurrent`: what a transaction read under its stream's
lock is still so when it commits. `CountsMatch` and `VersionsChain` rest on it (a
count is written as the value read plus one, a version as the last one read plus
one), and it rests on `StreamsLockedOnce`. `TerminalHasNoSchema` gives
`DeadLetterJustified`, and `RecordsHaveVersions` that a record names a version that
exists. `ImplementsRegistry` proves the refinement of `SchemaRegistry`: only the
commit of a task's transaction changes the registry, by one observation.

`FieldProjection` adds `FailuresAreJustified`: only an extractable payload gets as
far as the stream's lock, and a failure is terminal only for one that is not.
`ProjectedOnce` needs that different fields have different keys (`KeysApart`).

### IngestionProofs

For any messages, streams and adapters, any future skew and any windows
(`CatalogSettingsAssumption`). `IngestionInv` has what an adapter holds
(`HandsFit`), that the status is true, that a stream's row is what its evidence
says (`StreamsFit`), that there is one raw observation for each key of accepted
evidence (`RawsFit`) and that it has its tasks and its outbox row
(`QueuedWithRaw`). A commit is the only step that touches the tables, so that the
lemmas about it (`StreamsFitCommits`, `RawsFitCommits`, `TasksAreQueuedCommits`,
`PointsAreQueuedCommits`) carry the whole, and `NothingIsTakenBack` follows.

`StoredOnce` speaks of observations, `RawsFit` of the idempotency keys that stand
for them; `KeyIsIdentity` proves that two captures have the same key exactly when
they are the same observation. Where no source time is given, the key has the window
in which the message was received, and that two times are in the same window exactly
when their window starts agree is `SameWindow`, from the division of natural
numbers.

The theorem needs three things of messages (`AgreementAssumption`), which the code
does not enforce but its only caller gives it: equal digests mean equal payloads,
unless one was cut for its size; an adapter states one content type for a topic of
a stream; equal payloads on a topic have the same broker time. The MQTT adapter
gives no content type and no broker time at all. Another adapter that states
several content types for a topic would have to be looked at again, since the
content type decides what a payload is classified as.

### ClassQueryExecutionProofs, ManualClassesProofs

`ResponsesAreLimited`, `ResponsesAreEarliest` and `ResponsesAreHonest` hold of what
an execution computes for any finite set of points in InfluxDB, any series (also
without members), and any limits of at least one. The argument: of a finite set
under a strict order, the first n are all of it or at least n, and at most n if the
order is total (`FirstInIs`, `FirstInBounded`). One record asked for beyond each limit
therefore shows whether the limit cut anything (`ReadIs`, `CutIs`). Ranks of
series need not differ, as several records may be equal for the sorts of InfluxDB and
of the service. The response limit is stated as one order over the points of all
items (`ItemPointBefore`) rather than as a total carried from item to item, which
would need an induction over the items; TLC confirmed that both are the same on
every content of the run.

`ManualClasses` cites them for `TruncationIsHonest`, `EarliestAreKept` and
`LimitsHold`, for contents that are finite (`ClassesAssumption`). Its own `ClassesInv`
has `RowsFit` (a membership or query ever inserted is of its class's tenant, and a
query's series were members once), `RequestsFit` (what a request has read is still
true of the rows' histories, though the rows may be gone since), `NoOrphans` and
`ExecutesOverMembers`. A used row never becomes unused again and keeps its class,
tenant and stream, also when it is deleted, so that what a request read remains a
fact whatever others do (`HistoryKept`). `NoOrphans` holds because a row is inserted
only for a class that is live then and goes with it, and `ExecutesOverMembers`
because a member seen may be gone only since the execution began.
`TenantsAreIsolated` and `QueriesAreOverMembers` follow.

### LifespanProofs

For any modules, registered in any order under names of their own
(`LifespanAssumption`). `StartsInOrder`, `ModulesAreNoted` (the registry has noted
every module that runs, until it gives its stopping up), `PassedIsStopped` (what the
stopping has passed is stopped, unless a stop raised) and `RaisersAreKnown` carry
`DependenciesRun`, `LeftAfterFailureOnly` and `UndoIsIsolated`; the order of
stopping as positions (`Positions`, `StopPlaces`) stands for the order of the
statements in `main.py`.

### Only model-checked

`EventuallySettled` of the outbox and of the task queue, and `LifespanGoesOn`:
liveness under fairness is out of the prover's reach. The three runs that expect
a violation are counterexamples of TLC.

## 6. Not modelled

The components marked `not_modelled` in `PROJECT.json`: the event bus and the
sources, subscriptions and ingestion runs have no caller yet (finalizing a run has
no guard on its state, so a caller has to provide one), migrations and frontend
have no behaviour of their own here. Within the modelled ones: the tool registry,
read-only status operations, the parsing of payloads and the field checks of a
point mapping (one permanent failure), first and last observation times, and
SQLite. The connection pool only delays (an execution holds its session, idle,
while it reads InfluxDB, so slow reads can use it up). The stream lock is also taken by
ingestion and field projection, which here only delays a schema worker.

## 7. Plan

1. An abstract specification of ingestion (each distinct observation is
   catalogued once) that `Ingestion` implements, and its proof.
2. The composition of `FieldProjection` with `OutboxDelivery`: from task to
   delivered fields.
3. `EventBus` (publish during subscribe and unsubscribe) and the repository of
   sources and ingestion runs, when they have callers.
