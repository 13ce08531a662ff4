--------------------------- MODULE OutboxDelivery ---------------------------
(***************************************************************************)
(* The durable delivery path: the observation_outbox table and its         *)
(* repository (services/observation_outbox_repository.py), the delivery    *)
(* workers that claim, write and finalize its rows                         *)
(* (services/observation_delivery_worker.py) and InfluxDB behind the       *)
(* writer (services/influx_observation_writer.py).                         *)
(*                                                                         *)
(* A worker claims a batch in one transaction and holds its row locks      *)
(* until the commit; writes each item with no lock held; and finalizes     *)
(* each item in a transaction of its own, with an UPDATE that applies only *)
(* while the row still carries the claim the item came from.  Several      *)
(* workers run (one per backend process); each may crash, lose its         *)
(* database connection before or after a commit took effect, or time out   *)
(* on a write that InfluxDB applies later.  All read one clock, in         *)
(* seconds.                                                                *)
(***************************************************************************)
EXTENDS Integers, FiniteSets

CONSTANTS
    Rows,           \* the outbox rows that may be inserted
    Workers,        \* the delivery workers, one per process
    NoRow,          \* no row: an empty InfluxDB cell, no current item
    PointOf(_),     \* the InfluxDB point (tags and time) a row maps to
    TypeOf(_),      \* the value type of a row, which names its field
    BatchSize,      \* outbox_worker_batch_size
    Lease,          \* outbox_processing_lease_seconds
    MaxAttempts,    \* outbox_max_attempts
    BackoffBase,    \* outbox_backoff_base_seconds
    BackoffMax,     \* outbox_backoff_max_seconds
    MaxDelay,       \* bound: time from receiving an observation to its commit
    MaxClock,       \* bound: the clock stops here
    MaxFaults,      \* bound: crashes and failed transactions
    MaxReplays      \* bound: replays of dead letters

ASSUME RowsAssumption == NoRow \notin Rows /\ IsFiniteSet(Rows)

\* The ranges of the settings, core/config.py.
ASSUME SettingsAssumption ==
    /\ BatchSize \in Nat \ {0}
    /\ Lease \in Nat \ {0}
    /\ MaxAttempts \in Nat \ {0}
    /\ BackoffBase \in Nat \ {0}
    /\ BackoffMax \in Nat \ {0}

ASSUME BoundsAssumption ==
    /\ MaxDelay \in Nat
    /\ MaxClock \in Nat
    /\ MaxFaults \in Nat
    /\ MaxReplays \in Nat

VARIABLES
    clock,      \* the time every process reads
    outbox,     \* the committed rows of observation_outbox
    pc,         \* where each worker is in its loop
    stopping,   \* each worker's _stop event
    now,        \* the time the worker's claim() read
    held,       \* the items of the batch not yet finalized
    current,    \* the item being written or finalized
    verdict,    \* the state, available_at and code the finalize will set
    late,       \* writes their worker gave up on that InfluxDB may still apply
    influx,     \* the row whose value each InfluxDB cell holds
    faults,     \* faults so far
    replays     \* replays so far

workerVars == <<pc, stopping, now, held, current, verdict>>
vars == <<clock, outbox, workerVars, late, influx, faults, replays>>

-----------------------------------------------------------------------------
(* The shape of the state. *)

Time == Nat
NoTime == -1                \* NULL in a timestamp column

RowState == {"absent", "pending", "processing", "delivered", "retryable",
             "dead_letter"}
Code == {"none", "transient", "permanent"}

Row == [state : RowState, attempt_count : Nat, available_at : Time,
        processing_started_at : Time \cup {NoTime}, last_error_code : Code]

AbsentRow == [state |-> "absent", attempt_count |-> 0, available_at |-> 0,
              processing_started_at |-> NoTime, last_error_code |-> "none"]

\* DeliveryItem; `rank' is how many rows of its batch were available earlier.
Item == [row : Rows, attempt_count : Nat, processing_started_at : Time,
         rank : Nat]
NoItem == [row |-> NoRow, attempt_count |-> 0, processing_started_at |-> 0,
           rank |-> 0]

Verdict == [state : {"delivered", "retryable", "dead_letter"},
            available_at : Time \cup {NoTime}, last_error_code : Code]
NoVerdict == [state |-> "delivered", available_at |-> NoTime,
              last_error_code |-> "none"]

Pc == {"stopped", "idle", "claiming", "claimed", "delivering", "writing",
       "stored", "finalizing"}

\* The point and the typed field of it that a row's value is written to.
CellOf(r) == <<PointOf(r), TypeOf(r)>>
Cells == {CellOf(r) : r \in Rows}

\* A write request, told apart by the claim it was sent under.
Request == [row : Rows, attempt_count : Nat]

TypeOK ==
    /\ clock \in Time
    /\ outbox \in [Rows -> Row]
    /\ pc \in [Workers -> Pc]
    /\ stopping \in [Workers -> BOOLEAN]
    /\ now \in [Workers -> Time]
    /\ held \in [Workers -> SUBSET Item]
    /\ current \in [Workers -> Item \cup {NoItem}]
    /\ verdict \in [Workers -> Verdict]
    /\ late \subseteq Request
    /\ influx \in [Cells -> Rows \cup {NoRow}]
    /\ faults \in Nat
    /\ replays \in Nat

Init ==
    /\ clock = 0
    /\ outbox = [r \in Rows |-> AbsentRow]
    /\ pc = [w \in Workers |-> "stopped"]
    /\ stopping = [w \in Workers |-> FALSE]
    /\ now = [w \in Workers |-> 0]
    /\ held = [w \in Workers |-> {}]
    /\ current = [w \in Workers |-> NoItem]
    /\ verdict = [w \in Workers |-> NoVerdict]
    /\ late = {}
    /\ influx = [c \in Cells |-> NoRow]
    /\ faults = 0
    /\ replays = 0

-----------------------------------------------------------------------------
(* Helpers. *)

\* backoff(): doubled with each attempt after the first, up to the maximum.
Backoff(attempt) ==
    LET doubled == BackoffBase * 2 ^ (IF attempt > 1 THEN attempt - 1 ELSE 0)
    IN IF doubled \in 1..BackoffMax THEN doubled ELSE BackoffMax

\* Faulty variant: a stale claim is never taken over.
EligibleWithoutReclaim(r, t) ==
    /\ outbox[r].state \in {"pending", "retryable"}
    /\ outbox[r].available_at <= t

\* The condition of the claim's SELECT, for the time t it compares with.
IsEligible(r, t) ==
    \/ /\ outbox[r].state \in {"pending", "retryable"}
       /\ outbox[r].available_at <= t
    \/ /\ outbox[r].state = "processing"
       /\ outbox[r].processing_started_at < t - Lease

\* Rows locked by claims that are not committed, and by finalizes under way.
ClaimLocked == UNION {{i.row : i \in held[w]} : w \in {v \in Workers : pc[v] = "claimed"}}
FinalizeLocked == {current[w].row : w \in {v \in Workers : pc[v] = "finalizing"}}

\* Faulty variant: the claim does not lock the rows it reads.
BatchWithoutLocks(batch, t) ==
    /\ \A r \in batch : IsEligible(r, t)
    /\ Cardinality(batch) <= BatchSize

\* SELECT ... ORDER BY available_at LIMIT BatchSize FOR UPDATE SKIP LOCKED.
\* A finalize under way may or may not hold its row lock at this moment.
IsBatch(batch, t) ==
    \E skipped \in SUBSET FinalizeLocked :
        LET open == {r \in Rows : IsEligible(r, t)} \ (ClaimLocked \cup skipped)
        IN /\ batch \subseteq open
           /\ Cardinality(batch) =
                IF Cardinality(open) < BatchSize THEN Cardinality(open) ELSE BatchSize
           /\ \A r \in batch, s \in open \ batch :
                outbox[r].available_at <= outbox[s].available_at

\* The item claim() returns for row r of the batch it marks at time t.
ItemFor(r, batch, t) ==
    [row |-> r, attempt_count |-> outbox[r].attempt_count + 1,
     processing_started_at |-> t,
     rank |-> Cardinality({s \in batch :
                             outbox[s].available_at < outbox[r].available_at})]

\* The outbox once worker w's claim is committed.
Claimed(w) ==
    [r \in Rows |->
        IF \E i \in held[w] : i.row = r
        THEN [outbox[r] EXCEPT !.state = "processing",
                               !.processing_started_at = now[w],
                               !.attempt_count = outbox[r].attempt_count + 1]
        ELSE outbox[r]]

\* Faulty variant: finalize() looks at the state only.
CarriesAnyClaim(i) == outbox[i.row].state = "processing"

\* The WHERE clause of finalize(): the row still carries the item's claim.
CarriesClaim(i) ==
    /\ outbox[i.row].state = "processing"
    /\ outbox[i.row].attempt_count = i.attempt_count
    /\ outbox[i.row].processing_started_at = i.processing_started_at

\* Faulty variant: available_at is set to NULL when the verdict has none.
FinalizedRowWithNull(row, v) ==
    [row EXCEPT !.state = v.state, !.processing_started_at = NoTime,
                !.last_error_code = v.last_error_code, !.available_at = v.available_at]

\* The values finalize() sets; available_at only if the verdict has one.
FinalizedRow(row, v) ==
    [row EXCEPT
        !.state = v.state,
        !.processing_started_at = NoTime,
        !.last_error_code = v.last_error_code,
        !.available_at = IF v.available_at = NoTime THEN row.available_at
                                                    ELSE v.available_at]

\* Faulty variant: finalize() updates the row by its id alone.
FinalizedUnfenced(i, v) ==
    [outbox EXCEPT ![i.row] = FinalizedRow(outbox[i.row], v)]

\* The outbox once the finalize of item i with verdict v is committed.
Finalized(i, v) ==
    IF CarriesClaim(i)
    THEN [outbox EXCEPT ![i.row] = FinalizedRow(outbox[i.row], v)]
    ELSE outbox

\* The verdict on a DeliveryFailure of item i.
FailureVerdict(i, code) ==
    IF code = "permanent" \/ i.attempt_count >= MaxAttempts
    THEN [state |-> "dead_letter", available_at |-> NoTime, last_error_code |-> code]
    ELSE [state |-> "retryable", available_at |-> clock + Backoff(i.attempt_count),
          last_error_code |-> code]

DeliveredVerdict ==
    [state |-> "delivered", available_at |-> NoTime, last_error_code |-> "none"]

\* A worker forgets its batch and continues at `to'.
DropBatch(w, to) ==
    /\ pc' = [pc EXCEPT ![w] = to]
    /\ now' = [now EXCEPT ![w] = 0]
    /\ held' = [held EXCEPT ![w] = {}]
    /\ current' = [current EXCEPT ![w] = NoItem]
    /\ verdict' = [verdict EXCEPT ![w] = NoVerdict]

Fault ==
    /\ faults < MaxFaults
    /\ faults' = faults + 1

RequestOf(i) == [row |-> i.row, attempt_count |-> i.attempt_count]

-----------------------------------------------------------------------------
(* Rows enter the outbox; time passes; operators replay. *)

\* An accepted observation is inserted; available_at is when it was received,
\* which is before the inserting transaction commits.
Enqueue(r) ==
    /\ outbox[r].state = "absent"
    /\ \E delay \in 0..MaxDelay :
        /\ delay <= clock
        /\ outbox' = [outbox EXCEPT ![r] =
                [AbsentRow EXCEPT !.state = "pending", !.available_at = clock - delay]]
    /\ UNCHANGED <<clock, workerVars, late, influx, faults, replays>>

Tick ==
    /\ clock < MaxClock
    /\ clock' = clock + 1
    /\ UNCHANGED <<outbox, workerVars, late, influx, faults, replays>>

\* Faulty variant: the replay does not look at the state.
ReplayAnything(ids) ==
    /\ replays < MaxReplays
    /\ replays' = replays + 1
    /\ outbox' = [r \in Rows |->
         IF r \in ids
         THEN [outbox[r] EXCEPT !.state = "pending", !.available_at = clock,
                                !.processing_started_at = NoTime]
         ELSE outbox[r]]
    /\ UNCHANGED <<clock, workerVars, late, influx, faults>>

\* replay_dead_letters(): the attempt count is kept.
ReplayDeadLetters(ids) ==
    /\ replays < MaxReplays
    /\ replays' = replays + 1
    /\ outbox' = [r \in Rows |->
         IF r \in ids /\ outbox[r].state = "dead_letter"
         THEN [outbox[r] EXCEPT !.state = "pending", !.available_at = clock,
                                !.processing_started_at = NoTime,
                                !.last_error_code = "none"]
         ELSE outbox[r]]
    /\ UNCHANGED <<clock, workerVars, late, influx, faults>>

-----------------------------------------------------------------------------
(* The worker's life cycle. *)

Start(w) ==
    /\ pc[w] = "stopped"
    /\ pc' = [pc EXCEPT ![w] = "idle"]
    /\ stopping' = [stopping EXCEPT ![w] = FALSE]
    /\ UNCHANGED <<clock, outbox, now, held, current, verdict, late, influx,
                   faults, replays>>

\* Faulty variant: stop() cancels the task wherever it is.
StopByCancelling(w) ==
    /\ pc[w] # "stopped"
    /\ DropBatch(w, "stopped")
    /\ UNCHANGED <<clock, outbox, stopping, late, influx, faults, replays>>

\* stop() sets the event and waits; a cycle that has begun runs to its end.
Stop(w) ==
    /\ pc[w] # "stopped"
    /\ ~stopping[w]
    /\ stopping' = [stopping EXCEPT ![w] = TRUE]
    /\ UNCHANGED <<clock, outbox, pc, now, held, current, verdict, late, influx,
                   faults, replays>>

\* The loop of _run() ends at its next test of the event.  (start() clears the
\* event, which nothing reads in between.)
Exit(w) ==
    /\ pc[w] = "idle"
    /\ stopping[w]
    /\ pc' = [pc EXCEPT ![w] = "stopped"]
    /\ stopping' = [stopping EXCEPT ![w] = FALSE]
    /\ UNCHANGED <<clock, outbox, now, held, current, verdict, late, influx,
                   faults, replays>>

\* The process dies: its open transaction rolls back, a write it was waiting
\* for may still reach InfluxDB.
Crash(w) ==
    /\ pc[w] # "stopped"
    /\ Fault
    /\ DropBatch(w, "stopped")
    /\ stopping' = [stopping EXCEPT ![w] = FALSE]
    /\ late' = IF pc[w] = "writing" THEN late \cup {RequestOf(current[w])} ELSE late
    /\ UNCHANGED <<clock, outbox, influx, replays>>

-----------------------------------------------------------------------------
(* run_cycle(): the claim. *)

\* claim() reads the time before it waits for a connection.
BeginCycle(w) ==
    /\ pc[w] = "idle"
    /\ ~stopping[w]
    /\ pc' = [pc EXCEPT ![w] = "claiming"]
    /\ now' = [now EXCEPT ![w] = clock]
    /\ UNCHANGED <<clock, outbox, stopping, held, current, verdict, late, influx,
                   faults, replays>>

\* The SELECT locks the batch; the UPDATEs are not visible before the commit.
SelectBatch(w) ==
    /\ pc[w] = "claiming"
    /\ \E batch \in SUBSET Rows :
        /\ IsBatch(batch, now[w])
        /\ held' = [held EXCEPT ![w] = {ItemFor(r, batch, now[w]) : r \in batch}]
    /\ pc' = [pc EXCEPT ![w] = "claimed"]
    /\ UNCHANGED <<clock, outbox, stopping, now, current, verdict, late, influx,
                   faults, replays>>

CommitClaim(w) ==
    /\ pc[w] = "claimed"
    /\ outbox' = Claimed(w)
    /\ pc' = [pc EXCEPT ![w] = "delivering"]
    /\ now' = [now EXCEPT ![w] = 0]
    /\ UNCHANGED <<clock, stopping, held, current, verdict, late, influx, faults,
                   replays>>

\* The claim's transaction raises: it was rolled back, or it was committed and
\* the answer was lost.  Either way run_cycle() ends without a batch.
ClaimFails(w) ==
    /\ pc[w] \in {"claiming", "claimed"}
    /\ Fault
    /\ outbox' \in {outbox, Claimed(w)}
    /\ DropBatch(w, "idle")
    /\ UNCHANGED <<clock, stopping, late, influx, replays>>

-----------------------------------------------------------------------------
(* run_cycle(): the items, one after the other. *)

\* Items are written in the order of the batch.
BeginWrite(w) ==
    /\ pc[w] = "delivering"
    /\ \E i \in held[w] :
        /\ \A j \in held[w] : i.rank <= j.rank
        /\ current' = [current EXCEPT ![w] = i]
    /\ pc' = [pc EXCEPT ![w] = "writing"]
    /\ UNCHANGED <<clock, outbox, stopping, now, held, verdict, late, influx,
                   faults, replays>>

\* InfluxDB applies the write its worker is waiting for.
StoreWrite(w) ==
    /\ pc[w] = "writing"
    /\ influx' = [influx EXCEPT ![CellOf(current[w].row)] = current[w].row]
    /\ pc' = [pc EXCEPT ![w] = "stored"]
    /\ UNCHANGED <<clock, outbox, stopping, now, held, current, verdict, late,
                   faults, replays>>

\* InfluxDB applies a write nobody waits for any more.
StoreLateWrite(q) ==
    /\ late' = late \ {q}
    /\ influx' = [influx EXCEPT ![CellOf(q.row)] = q.row]
    /\ UNCHANGED <<clock, outbox, workerVars, faults, replays>>

\* Faulty variant: write() returns once the request is sent.
WriteWithoutWaiting(w) ==
    /\ pc[w] \in {"writing", "stored"}
    /\ verdict' = [verdict EXCEPT ![w] = DeliveredVerdict]
    /\ pc' = [pc EXCEPT ![w] = "finalizing"]
    /\ UNCHANGED <<clock, outbox, stopping, now, held, current, late, influx,
                   faults, replays>>

\* write() returns.
WriteSucceeds(w) ==
    /\ pc[w] = "stored"
    /\ verdict' = [verdict EXCEPT ![w] = DeliveredVerdict]
    /\ pc' = [pc EXCEPT ![w] = "finalizing"]
    /\ UNCHANGED <<clock, outbox, stopping, now, held, current, late, influx,
                   faults, replays>>

\* write() raises a retryable DeliveryFailure (timeout, network error, HTTP 408,
\* 429 or 5xx): InfluxDB may have applied the write, or may still apply it.
WriteFailsRetryable(w) ==
    /\ pc[w] \in {"writing", "stored"}
    /\ verdict' = [verdict EXCEPT ![w] = FailureVerdict(current[w], "transient")]
    /\ late' = IF pc[w] = "writing" THEN late \cup {RequestOf(current[w])} ELSE late
    /\ pc' = [pc EXCEPT ![w] = "finalizing"]
    /\ UNCHANGED <<clock, outbox, stopping, now, held, current, influx, faults,
                   replays>>

\* write() raises a permanent DeliveryFailure (HTTP 400, 401 or 403, a payload
\* that maps to no point, no client): nothing was stored.
WriteFailsPermanently(w) ==
    /\ pc[w] = "writing"
    /\ verdict' = [verdict EXCEPT ![w] = FailureVerdict(current[w], "permanent")]
    /\ pc' = [pc EXCEPT ![w] = "finalizing"]
    /\ UNCHANGED <<clock, outbox, stopping, now, held, current, late, influx,
                   faults, replays>>

\* The finalize transaction commits; its UPDATE waits for an open claim's lock.
Finalize(w) ==
    /\ pc[w] = "finalizing"
    /\ current[w].row \notin ClaimLocked
    /\ outbox' = Finalized(current[w], verdict[w])
    /\ held' = [held EXCEPT ![w] = @ \ {current[w]}]
    /\ current' = [current EXCEPT ![w] = NoItem]
    /\ verdict' = [verdict EXCEPT ![w] = NoVerdict]
    /\ pc' = [pc EXCEPT ![w] = "delivering"]
    /\ UNCHANGED <<clock, stopping, now, late, influx, faults, replays>>

\* The finalize transaction raises, before or after it took effect: the
\* exception leaves run_cycle() and the rest of the batch is abandoned.
FinalizeFails(w) ==
    /\ pc[w] = "finalizing"
    /\ Fault
    /\ \/ outbox' = outbox
       \/ /\ current[w].row \notin ClaimLocked
          /\ outbox' = Finalized(current[w], verdict[w])
    /\ DropBatch(w, "idle")
    /\ UNCHANGED <<clock, stopping, late, influx, replays>>

\* The batch is done.
EndCycle(w) ==
    /\ pc[w] = "delivering"
    /\ held[w] = {}
    /\ pc' = [pc EXCEPT ![w] = "idle"]
    /\ UNCHANGED <<clock, outbox, stopping, now, held, current, verdict, late,
                   influx, faults, replays>>

-----------------------------------------------------------------------------

WorkerStep(w) ==
    \/ BeginCycle(w) \/ SelectBatch(w) \/ CommitClaim(w) \/ BeginWrite(w)
    \/ WriteSucceeds(w) \/ WriteFailsRetryable(w) \/ WriteFailsPermanently(w)
    \/ Finalize(w) \/ EndCycle(w) \/ Exit(w)

Next ==
    \/ Tick
    \/ \E r \in Rows : Enqueue(r)
    \/ \E ids \in SUBSET Rows : ReplayDeadLetters(ids)
    \/ \E q \in late : StoreLateWrite(q)
    \/ \E w \in Workers :
        \/ WorkerStep(w) \/ StoreWrite(w)
        \/ Start(w) \/ Stop(w) \/ Crash(w) \/ ClaimFails(w) \/ FinalizeFails(w)

Spec == Init /\ [][Next]_vars

-----------------------------------------------------------------------------
(* Properties. *)

Delivering == {"delivering", "writing", "stored", "finalizing"}

\* The items a worker works on under a committed claim.
LiveItems(w) == IF pc[w] \in Delivering THEN held[w] ELSE {}

\* Two workers may hold the same row, but never within one lease: the later
\* claim was made after the lease of the earlier one had run out, and carries
\* a higher attempt number.  (claim() skips locked rows, tests the lease and
\* stamps the row in one transaction.)
LeaseExclusive ==
    \A v, w \in Workers : \A i \in LiveItems(v), j \in LiveItems(w) :
        v # w /\ i.row = j.row =>
            \/ /\ i.attempt_count < j.attempt_count
               /\ i.processing_started_at + Lease < j.processing_started_at
            \/ /\ j.attempt_count < i.attempt_count
               /\ j.processing_started_at + Lease < i.processing_started_at

\* A row is reported delivered only if InfluxDB holds a value in its cell,
\* however the write, its timeout, its retries and other workers interleave.
DeliveredIsStored ==
    \A r \in Rows : outbox[r].state = "delivered" => influx[CellOf(r)] # NoRow

\* Unless a process crashed or a transaction failed, every row in processing
\* is in the hands of a worker whose finalize will still be accepted, or was
\* claimed anew: starting and stopping workers strands no row.
NoStrandedRow ==
    faults = 0 =>
        \A r \in Rows : outbox[r].state = "processing" =>
            \E w \in Workers : \E i \in LiveItems(w) : i.row = r /\ CarriesClaim(i)

\* Nothing ever changes a delivered row: no late finalize of a stale claim, no
\* reclaim, no replay.
DeliveredIsFinal ==
    [][\A r \in Rows : outbox[r].state = "delivered" => outbox'[r] = outbox[r]]_vars

\* A claim that lost its row leaves no trace in it: a row in processing changes
\* only by a new claim after its lease ran out, or by a finalize of the worker
\* whose claim it carries.
OnlyLeaseholderSettles ==
    [][\A r \in Rows :
        outbox[r].state = "processing" /\ outbox'[r] # outbox[r] =>
            \/ /\ outbox[r].processing_started_at + Lease < clock
               /\ outbox'[r].attempt_count = outbox[r].attempt_count + 1
            \/ \E w \in Workers :
                /\ current[w] \in LiveItems(w)
                /\ current[w].row = r
                /\ current[w].attempt_count = outbox[r].attempt_count]_vars

\* A failed write settles its row only for the last claim made on it: when a
\* row is given up or put back for a retry, the worker doing so holds the
\* highest attempt number, and every other worker that still works on the row
\* does so under an older claim.  The row is then given up exactly if the
\* failure is permanent or its attempts are used up, neither too early nor one
\* retry too late.  (run_cycle() compares the attempt number the claim
\* returned; finalize() lets it through only while the row carries that claim.)
FailureSettlesLastClaim ==
    [][\A r \in Rows :
        outbox'[r] # outbox[r] /\ outbox'[r].state \in {"retryable", "dead_letter"} =>
            /\ \E w \in Workers :
                /\ pc[w] = "finalizing"
                /\ current[w].row = r
                /\ current[w].attempt_count = outbox'[r].attempt_count
                /\ \A v \in Workers \ {w} : \A i \in LiveItems(v) :
                    i.row = r => i.attempt_count < current[w].attempt_count
            /\ outbox'[r].state = "dead_letter" <=>
                \/ outbox'[r].last_error_code = "permanent"
                \/ outbox'[r].attempt_count >= MaxAttempts]_vars

-----------------------------------------------------------------------------
(* The inductive invariant behind the safety properties. *)

\* What a worker holds fits where it is in its loop.
HeldFitsPc ==
    \A w \in Workers :
        /\ pc[w] \in {"stopped", "idle", "claiming"} => held[w] = {}
        /\ pc[w] \in {"writing", "stored", "finalizing"} => current[w] \in held[w]
        /\ now[w] <= clock
        /\ \A i, j \in held[w] : i.row = j.row => i = j

\* An uncommitted claim has the lock of its rows: they are still as it read
\* them, and no other claim has them.
ClaimsLocked ==
    \A w \in Workers : pc[w] = "claimed" =>
        /\ \A i \in held[w] :
            /\ i.attempt_count = outbox[i.row].attempt_count + 1
            /\ i.processing_started_at = now[w]
            /\ IsEligible(i.row, now[w])
        /\ \A v \in Workers \ {w} : pc[v] = "claimed" =>
            \A i \in held[w], j \in held[v] : i.row # j.row

\* The lease of item i ran out before the row came to where it is now.
Outlived(i) ==
    LET row == outbox[i.row]
        end == i.processing_started_at + Lease
    IN /\ row.state = "processing" => end < row.processing_started_at
       /\ row.state \in {"pending", "retryable"} => end < row.available_at
       /\ row.state = "dead_letter" => end < clock

\* A live item either carries its row's current claim or was outlived by it.
ItemsFenced ==
    \A w \in Workers : \A i \in LiveItems(w) :
        /\ i.attempt_count \in 1..outbox[i.row].attempt_count
        /\ i.processing_started_at <= clock
        /\ i.attempt_count = outbox[i.row].attempt_count => CarriesClaim(i)
        /\ i.attempt_count < outbox[i.row].attempt_count => Outlived(i)

\* A verdict follows from what happened to the write of the current item.
VerdictsSound ==
    \A w \in Workers :
        /\ pc[w] = "stored" => influx[CellOf(current[w].row)] # NoRow
        /\ pc[w] = "finalizing" =>
            /\ verdict[w].state = "retryable" =>
                verdict[w].available_at >= current[w].processing_started_at
            /\ verdict[w].state # "retryable" => verdict[w].available_at = NoTime
            /\ verdict[w].state = "delivered" => influx[CellOf(current[w].row)] # NoRow
            /\ verdict[w].state = "dead_letter" =>
                \/ verdict[w].last_error_code = "permanent"
                \/ current[w].attempt_count >= MaxAttempts
            /\ verdict[w].state = "retryable" =>
                /\ verdict[w].last_error_code # "permanent"
                /\ current[w].attempt_count < MaxAttempts

\* Rows in processing were claimed in the past; a row that does not exist was
\* never claimed; a write was sent under a claim.
RowsSound ==
    /\ \A r \in Rows :
        /\ outbox[r].state = "processing" => outbox[r].processing_started_at \in 0..clock
        /\ outbox[r].state = "absent" => outbox[r].attempt_count = 0
    /\ \A q \in late : outbox[q.row].attempt_count > 0

DeliveryInv ==
    /\ HeldFitsPc
    /\ ClaimsLocked
    /\ ItemsFenced
    /\ LeaseExclusive
    /\ VerdictsSound
    /\ RowsSound
    /\ DeliveredIsStored

-----------------------------------------------------------------------------
(* Progress.  The event loop runs every worker, each database call and each  *)
(* write ends (the client has a timeout), and time goes on.  Time is also    *)
(* taken to be kind to the settings: a cycle ends within its lease, and an   *)
(* idle worker polls before a second has passed.  Idle time is skipped.      *)

IsOpen(r) == outbox[r].state \in {"pending", "processing", "retryable"}
IsSettled(r) == outbox[r].state \in {"delivered", "dead_letter"}
IsRunning(w) == pc[w] # "stopped" /\ ~stopping[w]

CycleWithinLease ==
    \A w \in Workers :
        /\ pc[w] \in {"claiming", "claimed"} => clock < now[w] + Lease
        /\ \A i \in LiveItems(w) : clock < i.processing_started_at + Lease

PollsPromptly ==
    \A w \in Workers, r \in Rows :
        pc[w] = "idle" /\ ~stopping[w] => ~IsEligible(r, clock)

TimelyTick ==
    /\ CycleWithinLease
    /\ PollsPromptly
    /\ \E r \in Rows : IsOpen(r) /\ ~IsEligible(r, clock)
    /\ Tick

TimelySpec ==
    /\ Init
    /\ [][Next /\ (clock' # clock => TimelyTick)]_vars
    /\ WF_vars(TimelyTick)
    /\ \A w \in Workers : WF_vars(WorkerStep(w))

\* If some worker keeps running, every row in the outbox is eventually
\* delivered or given up: a crash, a lost commit, a dropped batch or a failing
\* InfluxDB delays a row but never strands it.
EventuallySettled ==
    (\E w \in Workers : <>[]IsRunning(w)) =>
        \A r \in Rows : IsOpen(r) ~> IsSettled(r)

-----------------------------------------------------------------------------
(* A statement of the documentation that the code does not keep. *)

\* docs/architecture/current-state.md: "maximum attempts ... transition to
\* dead_letter", so no row is attempted more often without a replay.
AttemptsBounded ==
    replays = 0 => \A r \in Rows : outbox[r].attempt_count <= MaxAttempts

-----------------------------------------------------------------------------
(* The delivery contract. *)

StatusOf(r) ==
    IF outbox[r].state \in {"pending", "processing", "retryable"}
    THEN "open" ELSE outbox[r].state

Contract == INSTANCE DeliveryContract WITH
    status <- [r \in Rows |-> StatusOf(r)],
    tries <- [r \in Rows |-> outbox[r].attempt_count],
    stored <- {c \in Cells : influx[c] # NoRow}

\* Workers, leases and transactions implement the contract.
ContractSpec == Contract!Spec
=============================================================================
