-------------------------- MODULE TaskWorkersProofs --------------------------
(***************************************************************************)
(* Theorems about the workers of TaskWorkers, whatever the processor does  *)
(* in its transaction: every step keeps QueueInv, none changes a completed *)
(* task.  The proofs of the processors extend this module.                 *)
(***************************************************************************)
EXTENDS TaskWorkers, SequenceTheorems, TLAPS

USE TaskSettingsAssumption, BoundsAssumption

(* Every step of a processor, as far as it is about the queue. *)

\* The payload is refused: the failure is terminal.
Refuse(w) ==
    /\ pc[w] = "checked"
    /\ Fail(w, "terminal")
    /\ UNCHANGED <<clock, tasks, faults>>

\* The transaction commits, with or without its worker noticing.
Complete(w) ==
    /\ Completed(w)
    /\ NextItem(w) \/ Fail(w, "transient") \/ Continue(w, "stopped", <<>>)
    /\ UNCHANGED faults \/ Fault
    /\ UNCHANGED clock

\* It locks the stream, raises, or finds its claim lost.
Lock(w) ==
    /\ pc[w] = "checked"
    /\ ~StreamLocked(CurrentStream(w))
    /\ pc' = [pc EXCEPT ![w] = "locked"]
    /\ UNCHANGED <<clock, tasks, batch, verdict, faults>>

Raise(w) ==
    /\ pc[w] = "locked"
    /\ Fail(w, "transient")
    /\ UNCHANGED <<clock, tasks, faults>>

\* Every step but those that complete a task or refuse a payload.
QuietStep ==
    \/ Tick
    \/ \E t \in Tasks : CreateTask(t)
    \/ \E w \in Workers :
        \/ QueueWorkerStep(w) \/ QueueFault(w) \/ Start(w)
        \/ Lock(w) \/ Raise(w) \/ LoseClaim(w)

QueueNext == QuietStep \/ \E w \in Workers : Refuse(w) \/ Complete(w)

-----------------------------------------------------------------------------
(* Types of the helpers. *)

LEMMA BackoffType == \A n \in Nat : Backoff(n) \in Nat
  <1> SUFFICES ASSUME NEW n \in Nat PROVE Backoff(n) \in Nat
    OBVIOUS
  <1> DEFINE doubled == BackoffBase * 2 ^ (IF n > 1 THEN n - 1 ELSE 0)
  <1>1. CASE doubled \in 1..BackoffMax
    BY <1>1 DEF Backoff
  <1>2. CASE doubled \notin 1..BackoffMax
    BY <1>2 DEF Backoff
  <1> QED BY <1>1, <1>2

\* A worker with items is at an item of a task.
LEMMA CurrentItemType ==
  ASSUME QueueTypeOK, NEW w \in Workers, batch[w] # <<>>
  PROVE  /\ CurrentItem(w) \in Item
         /\ CurrentTask(w) \in Tasks
         /\ CurrentItem(w) = batch[w][1]
         /\ 1 \in DOMAIN batch[w]
         /\ Tail(batch[w]) \in Seq(Item)
  <1>1. batch[w] \in Seq(Item)
    BY DEF QueueTypeOK
  <1>2. Head(batch[w]) \in Item /\ Tail(batch[w]) \in Seq(Item)
    BY <1>1, HeadTailProperties
  <1> QED BY <1>1, <1>2 DEF CurrentItem, CurrentTask, Item

LEMMA BatchItemType ==
  ASSUME QueueTypeOK, NEW w \in Workers, NEW i \in DOMAIN batch[w]
  PROVE  batch[w][i] \in Item /\ batch[w][i].task \in Tasks
  <1>1. batch[w] \in Seq(Item) /\ i \in 1..Len(batch[w])
    BY DEF QueueTypeOK
  <1>2. batch[w][i] \in Item
    BY <1>1, ElementOfSeq
  <1> QED BY <1>2 DEF Item

LEMMA FailureVerdictType ==
  ASSUME QueueTypeOK, NEW item \in Item, NEW code \in {"terminal", "transient"}
  PROVE  FailureVerdict(item, code) \in Verdict
  <1>1. clock + Backoff(item.attempt_count) \in Nat
    BY SMTT(30), BackoffType DEF QueueTypeOK, Item
  <1> QED BY <1>1 DEF FailureVerdict, Verdict, Code

LEMMA FinalizedType ==
  ASSUME QueueTypeOK, NEW item \in Item, NEW state \in TaskState,
         NEW available_at \in Nat \cup {NoTime}, NEW code \in Code
  PROVE  Finalized(item, state, available_at, code) \in [Tasks -> TaskRow]
  <1>1. tasks[item.task] \in TaskRow
    BY DEF QueueTypeOK, Item
  <1>2. FinalizedRow(tasks[item.task], state, available_at, code) \in TaskRow
    BY <1>1 DEF FinalizedRow, TaskRow, Code
  <1> QED BY <1>2 DEF Finalized, QueueTypeOK

LEMMA ClaimedType ==
  ASSUME QueueTypeOK, NEW w \in Workers
  PROVE  Claimed(batch[w]) \in [Tasks -> TaskRow]
  <1>1. ASSUME NEW t \in Tasks, NEW i \in DOMAIN batch[w]
        PROVE  [tasks[t] EXCEPT
                    !.state = "processing",
                    !.processing_started_at = batch[w][i].processing_started_at,
                    !.attempt_count = tasks[t].attempt_count + 1] \in TaskRow
    <2>1. tasks[t] \in TaskRow /\ tasks[t].attempt_count + 1 \in Nat
      BY DEF QueueTypeOK, TaskRow
    <2>2. batch[w][i].processing_started_at \in Nat
      BY BatchItemType DEF Item
    <2> QED BY <2>1, <2>2 DEF TaskRow, TaskState
  <1>2. \A t \in Tasks : tasks[t] \in TaskRow
    BY DEF QueueTypeOK
  <1> QED BY <1>1, <1>2 DEF Claimed

LEMMA ItemsForType ==
  ASSUME QueueTypeOK, NEW n \in Nat, NEW chosen \in [1..n -> Tasks], NEW time \in Nat
  PROVE  /\ ItemsFor(chosen, time) \in Seq(Item)
         /\ DOMAIN ItemsFor(chosen, time) = 1..n
         /\ \A i \in 1..n : ItemsFor(chosen, time)[i].task = chosen[i]
  <1>1. \A i \in 1..n :
          [task |-> chosen[i], attempt_count |-> tasks[chosen[i]].attempt_count + 1,
           processing_started_at |-> time] \in Item
    BY DEF QueueTypeOK, TaskRow, Item
  <1>2. ItemsFor(chosen, time) \in [1..n -> Item]
    BY <1>1 DEF ItemsFor
  <1> QED BY <1>2 DEF ItemsFor

-----------------------------------------------------------------------------
(* What a step does to a worker. *)

Stays(v) == pc'[v] = pc[v] /\ batch'[v] = batch[v] /\ verdict'[v] = verdict[v]

Selects(v) ==
    /\ pc[v] = "idle" /\ pc'[v] = "claimed"
    /\ batch'[v] \in Seq(Item)
    /\ \A i \in DOMAIN batch'[v] : batch'[v][i].task \in Tasks /\ IsOpen(batch'[v][i].task)
    /\ verdict'[v] = NoVerdict
    /\ tasks' = tasks

GoesOn(v) ==
    /\ \/ pc'[v] \in {"stopped", "idle"} /\ batch'[v] = <<>>
       \/ pc'[v] = "working" /\ batch'[v] \in Seq(Item)
       \/ pc'[v] = "checked" /\ batch'[v] = batch[v] /\ batch[v] # <<>>
    /\ verdict'[v] = NoVerdict

FailsWith(v, code) ==
    /\ batch[v] # <<>> /\ batch'[v] = batch[v]
    /\ pc'[v] = "failing"
    /\ verdict'[v] = FailureVerdict(CurrentItem(v), code)

Locks(v) ==
    /\ pc[v] = "checked" /\ pc'[v] = "locked"
    /\ batch[v] # <<>> /\ batch'[v] = batch[v]
    /\ verdict'[v] = NoVerdict
    /\ \A u \in Workers : pc[u] = "locked" => CurrentStream(u) # CurrentStream(v)
    /\ \A u \in Workers \ {v} : Stays(u)

LEMMA ContinueMoves ==
  ASSUME QueueTypeOK, NEW w \in Workers, NEW to \in Pc, NEW left \in Seq(Item),
         Continue(w, to, left)
  PROVE  /\ \A v \in Workers \ {w} : Stays(v)
         /\ pc'[w] = to /\ batch'[w] = left /\ verdict'[w] = NoVerdict
         /\ pc' \in [Workers -> Pc]
         /\ batch' \in [Workers -> Seq(Item)]
         /\ verdict' \in [Workers -> Verdict]
  BY DEF QueueTypeOK, Continue, Stays, NoVerdict, Verdict, Code

LEMMA FailMoves ==
  ASSUME QueueTypeOK, NEW w \in Workers, batch[w] # <<>>,
         NEW code \in {"terminal", "transient"}, Fail(w, code)
  PROVE  /\ \A v \in Workers \ {w} : Stays(v)
         /\ FailsWith(w, code)
         /\ pc' \in [Workers -> Pc]
         /\ batch' \in [Workers -> Seq(Item)]
         /\ verdict' \in [Workers -> Verdict]
  <1>1. FailureVerdict(CurrentItem(w), code) \in Verdict
    BY CurrentItemType, FailureVerdictType
  <1> QED BY <1>1 DEF QueueTypeOK, Fail, Stays, FailsWith, Pc

LEMMA NextItemMoves ==
  ASSUME QueueTypeOK, NEW w \in Workers, batch[w] # <<>>, NextItem(w)
  PROVE  /\ \A v \in Workers \ {w} : Stays(v)
         /\ GoesOn(w)
         /\ pc' \in [Workers -> Pc]
         /\ batch' \in [Workers -> Seq(Item)]
         /\ verdict' \in [Workers -> Verdict]
  <1>1. Tail(batch[w]) \in Seq(Item)
    BY CurrentItemType
  <1> QED BY <1>1, ContinueMoves DEF NextItem, GoesOn, Pc

\* The worker's variables, after any step of a worker.
WorkerTypes ==
    /\ pc \in [Workers -> Pc]
    /\ batch \in [Workers -> Seq(Item)]
    /\ verdict \in [Workers -> Verdict]

LEMMA SelectMoves ==
  ASSUME QueueTypeOK, BatchFitsPc, NEW w \in Workers, SelectBatch(w)
  PROVE  /\ \A v \in Workers \ {w} : Stays(v)
         /\ Selects(w)
         /\ WorkerTypes'
  <1>1. PICK time \in RecentTimes, n \in 0..BatchSize :
          \E chosen \in [1..n -> {t \in Tasks : IsEligible(t, time)}] :
            batch' = [batch EXCEPT ![w] = ItemsFor(chosen, time)]
    BY DEF SelectBatch
  <1>2. PICK chosen \in [1..n -> {t \in Tasks : IsEligible(t, time)}] :
            batch' = [batch EXCEPT ![w] = ItemsFor(chosen, time)]
    BY <1>1
  <1>3. time \in Nat /\ n \in Nat /\ chosen \in [1..n -> Tasks]
    BY <1>2 DEF RecentTimes
  <1>4. /\ ItemsFor(chosen, time) \in Seq(Item)
        /\ DOMAIN ItemsFor(chosen, time) = 1..n
        /\ \A i \in 1..n : ItemsFor(chosen, time)[i].task = chosen[i]
    BY <1>3, ItemsForType
  <1>5. batch'[w] = ItemsFor(chosen, time) /\ \A v \in Workers \ {w} : batch'[v] = batch[v]
    BY <1>2 DEF QueueTypeOK
  <1>6. \A i \in 1..n : chosen[i] \in Tasks /\ IsOpen(chosen[i])
    BY <1>2 DEF IsEligible, IsOpen
  <1>7. verdict[w] = NoVerdict
    BY DEF SelectBatch, BatchFitsPc
  <1>8. Selects(w)
    BY <1>4, <1>5, <1>6, <1>7 DEF SelectBatch, Selects, QueueTypeOK
  <1>9. batch' \in [Workers -> Seq(Item)]
    BY <1>2, <1>4 DEF QueueTypeOK
  <1> QED BY <1>5, <1>8, <1>9 DEF SelectBatch, Stays, WorkerTypes, QueueTypeOK, Pc

Moves(v) ==
    \/ Stays(v) \/ Selects(v) \/ GoesOn(v) \/ FailsWith(v, "transient") \/ Locks(v)

\* Any step but the refusal of a payload.
LEMMA WorkersMove ==
  ASSUME QueueTypeOK, BatchFitsPc, QuietStep \/ \E w \in Workers : Complete(w)
  PROVE  WorkerTypes' /\ \A v \in Workers : Moves(v)
  <1>1. CASE Tick \/ \E t \in Tasks : CreateTask(t)
    BY <1>1 DEF Tick, CreateTask, workerVars, WorkerTypes, QueueTypeOK, Moves, Stays
  <1>2. ASSUME NEW w \in Workers,
               \/ QueueWorkerStep(w) \/ QueueFault(w) \/ Start(w)
               \/ Lock(w) \/ Raise(w) \/ LoseClaim(w) \/ Complete(w)
        PROVE  /\ \A v \in Workers \ {w} : Stays(v)
               /\ Moves(w)
               /\ WorkerTypes'
    <2> USE DEF Moves, WorkerTypes
    <2>a. /\ pc[w] \in {"checked", "locked", "failing"} => batch[w] # <<>>
          /\ pc[w] # "failing" => verdict[w] = NoVerdict
          /\ pc[w] = "stopped" => batch[w] = <<>>
          /\ <<>> \in Seq(Item) /\ batch[w] \in Seq(Item)
      BY DEF BatchFitsPc, QueueTypeOK
    <2>1. CASE SelectBatch(w)
      BY <2>1, SelectMoves
    <2>2. CASE CommitClaim(w)
      BY <2>2, <2>a DEF CommitClaim, GoesOn, Stays, QueueTypeOK, Pc
    <2>3. CASE EndBatch(w)
      BY <2>3, <2>a DEF EndBatch, GoesOn, Stays, QueueTypeOK, Pc
    <2>4. CASE CheckClaim(w)
      <3>1. CASE Continue(w, "checked", batch[w])
        BY <2>4, <2>a, <3>1, ContinueMoves DEF CheckClaim, GoesOn, Pc
      <3> QED BY <2>4, <3>1, NextItemMoves DEF CheckClaim
    <2>5. CASE FinalizeFailure(w)
      BY <2>5, <2>a, NextItemMoves DEF FinalizeFailure, FailureFinalized
    <2>6. CASE ClaimFails(w)
      BY <2>6, <2>a, ContinueMoves DEF ClaimFails, GoesOn, Pc
    <2>7. CASE RollBack(w)
      BY <2>7, FailMoves DEF RollBack
    <2>8. CASE FinalizeFailureFails(w)
      <3>1. CASE Continue(w, "idle", <<>>)
        BY <2>a, <3>1, ContinueMoves DEF GoesOn, Pc
      <3> QED BY <2>8, <2>a, <3>1, NextItemMoves DEF FinalizeFailureFails
    <2>9. CASE Halt(w)
      BY <2>9, <2>a, ContinueMoves DEF Halt, GoesOn, Pc
    <2>10. CASE Start(w)
      BY <2>10, <2>a DEF Start, GoesOn, Stays, QueueTypeOK, Pc
    <2>11. CASE Lock(w)
      BY <2>11, <2>a DEF Lock, Locks, StreamLocked, Stays, QueueTypeOK, Pc
    <2>12. CASE Raise(w)
      BY <2>12, <2>a, FailMoves DEF Raise
    <2>13. CASE LoseClaim(w)
      BY <2>13, <2>a, NextItemMoves DEF LoseClaim
    <2>14. CASE Complete(w)
      <3>1. CASE Continue(w, "stopped", <<>>)
        BY <2>a, <3>1, ContinueMoves DEF GoesOn, Pc
      <3> QED BY <2>14, <2>a, <3>1, NextItemMoves, FailMoves DEF Complete, Completed
    <2> QED BY <1>2, <2>1, <2>2, <2>3, <2>4, <2>5, <2>6, <2>7, <2>8, <2>9, <2>10,
               <2>11, <2>12, <2>13, <2>14 DEF QueueWorkerStep, QueueFault
  <1> QED BY <1>1, <1>2 DEF QuietStep, Moves

LEMMA RefuseMoves ==
  ASSUME QueueTypeOK, BatchFitsPc, NEW w \in Workers, Refuse(w)
  PROVE  /\ \A v \in Workers \ {w} : Stays(v)
         /\ FailsWith(w, "terminal")
         /\ WorkerTypes'
  BY FailMoves DEF Refuse, BatchFitsPc, WorkerTypes

-----------------------------------------------------------------------------
(* What a step does to a row of the table. *)

RowKept(t) == tasks'[t] = tasks[t]

RowCreated(t) ==
    /\ tasks[t].state = "absent"
    /\ tasks'[t].state = "pending"
    /\ tasks'[t].last_error_code = "none"

RowClaimed(t) ==
    /\ IsOpen(t)
    /\ tasks'[t].state = "processing"
    /\ tasks'[t].last_error_code = tasks[t].last_error_code

\* The finalize of a failure updates the row of the item it was found with.
RowFailed(t) ==
    /\ tasks[t].state = "processing"
    /\ t \notin ClaimLocked
    /\ \E w \in Workers :
        /\ pc[w] = "failing" /\ t = CurrentTask(w)
        /\ tasks'[t].state = verdict[w].state
        /\ tasks'[t].last_error_code = verdict[w].code
        /\ tasks'[t].attempt_count = CurrentItem(w).attempt_count

RowCompleted(t) ==
    /\ tasks[t].state = "processing"
    /\ t \notin ClaimLocked
    /\ tasks'[t].state = "completed"
    /\ tasks'[t].last_error_code = "none"

TasksTyped == tasks \in [Tasks -> TaskRow]

\* A claim marks open rows only.
LEMMA ClaimedRows ==
  ASSUME QueueTypeOK, ClaimsHold, NEW w \in Workers, pc[w] = "claimed",
         tasks' = Claimed(batch[w])
  PROVE  TasksTyped' /\ \A t \in Tasks : RowKept(t) \/ RowClaimed(t)
  <1>1. TasksTyped'
    BY ClaimedType DEF TasksTyped
  <1>2. ASSUME NEW t \in Tasks PROVE RowKept(t) \/ RowClaimed(t)
    <2>1. CASE \E i \in DOMAIN batch[w] : batch[w][i].task = t
      <3>1. PICK i \in DOMAIN batch[w] :
              tasks'[t] = [tasks[t] EXCEPT
                    !.state = "processing",
                    !.processing_started_at = batch[w][i].processing_started_at,
                    !.attempt_count = tasks[t].attempt_count + 1]
        BY <2>1 DEF Claimed
      <3>2. IsOpen(t)
        BY <2>1 DEF ClaimsHold
      <3>3. tasks[t] \in TaskRow
        BY DEF QueueTypeOK
      <3> QED BY <3>1, <3>2, <3>3 DEF RowClaimed, TaskRow
    <2>2. CASE ~ \E i \in DOMAIN batch[w] : batch[w][i].task = t
      BY <2>2 DEF Claimed, RowKept
    <2> QED BY <2>1, <2>2
  <1> QED BY <1>1, <1>2

\* The finalize of a failure updates at most the row of its item.
LEMMA FailureRows ==
  ASSUME QueueTypeOK, BatchFitsPc, NEW w \in Workers, FailureFinalized(w)
  PROVE  TasksTyped' /\ \A t \in Tasks : RowKept(t) \/ RowFailed(t)
  <1> DEFINE item == CurrentItem(w)
             row == FinalizedRow(tasks[item.task], verdict[w].state,
                                 verdict[w].available_at, verdict[w].code)
  <1>1. pc[w] = "failing" /\ batch[w] # <<>>
    BY DEF FailureFinalized, BatchFitsPc
  <1>2. item \in Item /\ CurrentTask(w) \in Tasks /\ item.task = CurrentTask(w)
    BY <1>1, CurrentItemType DEF CurrentTask
  <1>3. /\ verdict[w].state \in {"retryable", "dead_letter"}
        /\ verdict[w].available_at \in Nat \cup {NoTime}
        /\ verdict[w].code \in Code
    BY DEF QueueTypeOK, Verdict
  <1>4. TasksTyped'
    BY <1>2, <1>3, FinalizedType DEF FailureFinalized, TasksTyped, TaskState
  <1>5. CASE CarriesClaim(item)
    <2>1. tasks' = [tasks EXCEPT ![item.task] = row]
      BY <1>5 DEF FailureFinalized, Finalized
    <2>2. \A t \in Tasks \ {CurrentTask(w)} : RowKept(t)
      BY <2>1, <1>2 DEF QueueTypeOK, RowKept
    <2>3. tasks'[CurrentTask(w)] = row
      BY <2>1, <1>2 DEF QueueTypeOK
    <2>4. tasks[CurrentTask(w)] \in TaskRow
      BY <1>2 DEF QueueTypeOK
    <2>5. /\ tasks[CurrentTask(w)].state = "processing"
          /\ tasks[CurrentTask(w)].attempt_count = item.attempt_count
      BY <1>5, <1>2 DEF CarriesClaim
    <2>6. /\ row.state = verdict[w].state
          /\ row.last_error_code = verdict[w].code
          /\ row.attempt_count = item.attempt_count
      BY <1>2, <1>3, <2>4, <2>5 DEF FinalizedRow, TaskRow
    <2>7. RowFailed(CurrentTask(w))
      BY <1>1, <2>3, <2>5, <2>6 DEF RowFailed, FailureFinalized
    <2> QED BY <1>4, <2>2, <2>7
  <1>6. CASE ~CarriesClaim(item)
    BY <1>4, <1>6 DEF FailureFinalized, Finalized, RowKept
  <1> QED BY <1>5, <1>6

LEMMA QuietRows ==
  ASSUME QueueTypeOK, BatchFitsPc, ClaimsHold, QuietStep
  PROVE  /\ TasksTyped'
         /\ \A t \in Tasks : RowKept(t) \/ RowCreated(t) \/ RowClaimed(t) \/ RowFailed(t)
  <1>1. ASSUME UNCHANGED tasks PROVE TasksTyped' /\ \A t \in Tasks : RowKept(t)
    BY <1>1 DEF TasksTyped, RowKept, QueueTypeOK
  <1>2. CASE Tick
    BY <1>1, <1>2 DEF Tick
  <1>3. ASSUME NEW t \in Tasks, CreateTask(t)
        PROVE  TasksTyped' /\ \A u \in Tasks : RowKept(u) \/ RowCreated(u)
    <2>1. PICK received \in RecentTimes : tasks' = Created(t, received)
      BY <1>3 DEF CreateTask
    <2>2. received \in Nat
      BY DEF RecentTimes
    <2>3. [AbsentTask EXCEPT !.state = "pending", !.available_at = received] \in TaskRow
      BY <2>2 DEF AbsentTask, TaskRow, TaskState, Code
    <2> QED BY <1>3, <2>1, <2>3
            DEF Created, CreateTask, TasksTyped, RowKept, RowCreated, QueueTypeOK, AbsentTask
  <1>4. ASSUME NEW w \in Workers,
               \/ QueueWorkerStep(w) \/ QueueFault(w) \/ Start(w)
               \/ Lock(w) \/ Raise(w) \/ LoseClaim(w)
        PROVE  \/ UNCHANGED tasks
               \/ FailureFinalized(w)
               \/ pc[w] = "claimed" /\ tasks' = Claimed(batch[w])
    BY <1>4 DEF QueueWorkerStep, QueueFault, Start, Lock, Raise, LoseClaim, SelectBatch,
         CommitClaim, EndBatch, CheckClaim, FinalizeFailure, ClaimFails, RollBack,
         FinalizeFailureFails, Halt
  <1> QED BY <1>1, <1>2, <1>3, <1>4, ClaimedRows, FailureRows DEF QuietStep

\* The commit of a transaction completes the task of its worker's item only.
LEMMA CompleteRows ==
  ASSUME QueueTypeOK, BatchFitsPc, NEW w \in Workers, Completed(w)
  PROVE  /\ TasksTyped'
         /\ CurrentTask(w) \in Tasks
         /\ RowCompleted(CurrentTask(w))
         /\ \A t \in Tasks \ {CurrentTask(w)} : RowKept(t)
  <1> DEFINE item == CurrentItem(w)
             row == FinalizedRow(tasks[item.task], "completed", NoTime, "none")
  <1>1. batch[w] # <<>>
    BY DEF Completed, BatchFitsPc
  <1>2. item \in Item /\ CurrentTask(w) \in Tasks /\ item.task = CurrentTask(w)
    BY <1>1, CurrentItemType DEF CurrentTask
  <1>3. TasksTyped'
    BY <1>2, FinalizedType DEF Completed, TasksTyped, TaskState, Code
  <1>4. tasks' = [tasks EXCEPT ![item.task] = row]
    BY DEF Completed, Finalized
  <1>5. tasks[CurrentTask(w)] \in TaskRow
    BY <1>2 DEF QueueTypeOK
  <1>6. row.state = "completed" /\ row.last_error_code = "none"
    BY <1>2, <1>5 DEF FinalizedRow, TaskRow
  <1> QED BY <1>2, <1>3, <1>4, <1>6
          DEF Completed, CarriesClaim, QueueTypeOK, RowCompleted, RowKept

LEMMA QueueRows ==
  ASSUME QueueTypeOK, BatchFitsPc, ClaimsHold, QueueNext
  PROVE  /\ TasksTyped'
         /\ \A t \in Tasks :
                \/ RowKept(t) \/ RowCreated(t) \/ RowClaimed(t) \/ RowFailed(t)
                \/ RowCompleted(t)
  <1>1. CASE QuietStep
    BY <1>1, QuietRows
  <1>2. ASSUME NEW w \in Workers, Refuse(w)
        PROVE  TasksTyped' /\ \A t \in Tasks : RowKept(t)
    BY <1>2 DEF Refuse, TasksTyped, RowKept, QueueTypeOK
  <1>3. ASSUME NEW w \in Workers, Complete(w)
        PROVE  TasksTyped' /\ \A t \in Tasks : RowKept(t) \/ RowCompleted(t)
    BY <1>3, CompleteRows DEF Complete
  <1> QED BY <1>1, <1>2, <1>3 DEF QueueNext

\* A completed row stays as it is: it is not open to a claim, and a finalize
\* finds no row in processing.
LEMMA CompletedStays ==
  ASSUME QueueTypeOK, BatchFitsPc, ClaimsHold, QueueNext
  PROVE  \A t \in Tasks : tasks[t].state = "completed" => tasks'[t] = tasks[t]
  BY QueueRows DEF RowKept, RowCreated, RowClaimed, RowFailed, RowCompleted, IsOpen

-----------------------------------------------------------------------------
(* Every step keeps QueueInv. *)

LEMMA QueueMoves ==
  ASSUME QueueTypeOK, BatchFitsPc, QueueNext
  PROVE  WorkerTypes' /\ \A v \in Workers : Moves(v) \/ FailsWith(v, "terminal")
  <1>1. CASE \E w \in Workers : Refuse(w)
    BY <1>1, RefuseMoves DEF Moves
  <1>2. CASE QuietStep \/ \E w \in Workers : Complete(w)
    BY <1>2, WorkersMove
  <1> QED BY <1>1, <1>2 DEF QueueNext

LEMMA QueueTypeInductive ==
  ASSUME QueueTypeOK, BatchFitsPc, ClaimsHold, QueueNext
  PROVE  QueueTypeOK'
  <1>1. WorkerTypes' /\ TasksTyped'
    BY QueueMoves, QueueRows
  <1>2. clock' \in Nat /\ faults' \in Nat
    BY DEF QueueNext, QuietStep, QueueTypeOK, Tick, CreateTask, QueueWorkerStep, QueueFault,
       Start, Lock, Raise, LoseClaim, SelectBatch, CommitClaim, EndBatch, CheckClaim,
       FinalizeFailure, ClaimFails, RollBack, FinalizeFailureFails, Halt, Refuse, Complete,
       Fault
  <1> QED BY <1>1, <1>2 DEF QueueTypeOK, WorkerTypes, TasksTyped

LEMMA BatchFitsPcInductive ==
  ASSUME QueueTypeOK, BatchFitsPc, QueueNext
  PROVE  BatchFitsPc'
  <1> SUFFICES ASSUME NEW v \in Workers
               PROVE  /\ pc'[v] \in {"stopped", "idle"} => batch'[v] = <<>>
                      /\ pc'[v] \in {"checked", "locked", "failing"} => batch'[v] # <<>>
                      /\ pc'[v] # "failing" => verdict'[v] = NoVerdict
    BY DEF BatchFitsPc, NoVerdict
  <1>1. CASE Stays(v)
    BY <1>1 DEF Stays, BatchFitsPc
  <1>2. CASE Selects(v) \/ GoesOn(v)
    BY <1>2 DEF Selects, GoesOn
  <1>3. CASE Locks(v) \/ \E code : FailsWith(v, code)
    BY <1>3 DEF Locks, FailsWith
  <1> QED BY <1>1, <1>2, <1>3, QueueMoves DEF Moves

\* A finalize waits for the claims that lock its row, so that the rows a claim
\* selected stay open until it commits.
LEMMA ClaimsHoldInductive ==
  ASSUME QueueTypeOK, BatchFitsPc, ClaimsHold, QueueNext
  PROVE  ClaimsHold'
  <1> SUFFICES ASSUME NEW v \in Workers, pc'[v] = "claimed", NEW i \in DOMAIN batch'[v]
               PROVE  tasks'[batch'[v][i].task].state \in {"pending", "processing", "retryable"}
    BY DEF ClaimsHold, IsOpen
  <1>1. CASE Selects(v)
    BY <1>1 DEF Selects, IsOpen
  <1>2. CASE Stays(v)
    <2> DEFINE t == batch[v][i].task
    <2>1. pc[v] = "claimed" /\ i \in DOMAIN batch[v] /\ batch'[v][i].task = t
      BY <1>2 DEF Stays
    <2>2. t \in Tasks /\ t \in ClaimLocked /\ IsOpen(t)
      BY <2>1, BatchItemType DEF ClaimLocked, ClaimsHold
    <2>3. RowKept(t) \/ RowClaimed(t)
      BY <2>2, QueueRows DEF RowCreated, RowFailed, RowCompleted, IsOpen
    <2> QED BY <2>1, <2>2, <2>3 DEF RowKept, RowClaimed, IsOpen
  <1>3. Stays(v) \/ Selects(v)
    BY QueueMoves DEF Moves, GoesOn, FailsWith, Locks
  <1> QED BY <1>1, <1>2, <1>3

LEMMA StreamsLockedOnceInductive ==
  ASSUME QueueTypeOK, BatchFitsPc, StreamsLockedOnce, QueueNext
  PROVE  StreamsLockedOnce'
  <1> DEFINE streamThen(w) == StreamOf(Head(batch'[w]).task)
  <1> SUFFICES ASSUME NEW w \in Workers, NEW v \in Workers,
                      pc'[w] = "locked", pc'[v] = "locked", streamThen(w) = streamThen(v)
               PROVE  w = v
    BY DEF StreamsLockedOnce, CurrentStream, CurrentTask, CurrentItem
  <1>1. \A u \in Workers : pc'[u] = "locked" =>
            /\ Locks(u) \/ (Stays(u) /\ pc[u] = "locked")
            /\ streamThen(u) = CurrentStream(u)
    BY QueueMoves DEF Moves, Stays, Selects, GoesOn, FailsWith, Locks,
       CurrentStream, CurrentTask, CurrentItem
  <1>2. CASE Locks(w)
    BY <1>1, <1>2 DEF Locks, Stays
  <1>3. CASE Locks(v)
    BY <1>1, <1>3 DEF Locks, Stays
  <1>4. CASE pc[w] = "locked" /\ pc[v] = "locked"
    BY <1>1, <1>4 DEF StreamsLockedOnce
  <1> QED BY <1>1, <1>2, <1>3, <1>4

\* The finalize of a failure finds the attempt_count the verdict was based on.
LEMMA VerdictsSoundInductive ==
  ASSUME QueueTypeOK, BatchFitsPc, ClaimsHold, VerdictsSound, QueueNext
  PROVE  VerdictsSound'
  <1>1. ASSUME NEW v \in Workers, verdict'[v].state = "dead_letter"
        PROVE  \/ verdict'[v].code = "terminal"
               \/ Head(batch'[v]).attempt_count >= MaxAttempts
    <2>1. CASE Stays(v)
      BY <1>1, <2>1 DEF Stays, VerdictsSound, CurrentItem
    <2>2. CASE Selects(v) \/ GoesOn(v) \/ Locks(v)
      BY <1>1, <2>2 DEF Selects, GoesOn, Locks, NoVerdict
    <2>3. ASSUME NEW code, FailsWith(v, code)
          PROVE  \/ verdict'[v].code = "terminal"
                 \/ Head(batch'[v]).attempt_count >= MaxAttempts
      BY <1>1, <2>3 DEF FailsWith, FailureVerdict, CurrentItem
    <2> QED BY <2>1, <2>2, <2>3, QueueMoves DEF Moves
  <1>2. ASSUME NEW t \in Tasks, tasks'[t].state = "dead_letter"
        PROVE  \/ tasks'[t].last_error_code = "terminal"
               \/ tasks'[t].attempt_count >= MaxAttempts
    <2>1. RowKept(t) \/ RowFailed(t)
      BY <1>2, QueueRows DEF RowCreated, RowClaimed, RowCompleted
    <2> QED BY <1>2, <2>1 DEF RowKept, RowFailed, VerdictsSound
  <1> QED BY <1>1, <1>2 DEF VerdictsSound, CurrentItem

\* Every step a processor may take keeps the part of its inductive invariant
\* that is about the queue: claims, locks, batches and verdicts.
THEOREM QueueInductive == QueueInv /\ QueueNext => QueueInv'
  <1> SUFFICES ASSUME QueueInv, QueueNext PROVE QueueInv'
    OBVIOUS
  <1> QED BY QueueTypeInductive, BatchFitsPcInductive, ClaimsHoldInductive,
             StreamsLockedOnceInductive, VerdictsSoundInductive DEF QueueInv

LEMMA QueueInitially == QueueInit => QueueInv
  <1> SUFFICES ASSUME QueueInit PROVE QueueInv
    OBVIOUS
  <1>1. QueueTypeOK
    BY DEF QueueInit, QueueTypeOK, AbsentTask, TaskRow, TaskState, Code, NoVerdict, Verdict, Pc
  <1>2. BatchFitsPc /\ ClaimsHold /\ StreamsLockedOnce /\ VerdictsSound
    BY DEF QueueInit, BatchFitsPc, ClaimsHold, StreamsLockedOnce, VerdictsSound,
       AbsentTask, NoVerdict
  <1> QED BY <1>1, <1>2 DEF QueueInv

LEMMA QueueStutters == QueueInv /\ UNCHANGED queueVars => QueueInv'
  BY DEF QueueInv, queueVars, workerVars, QueueTypeOK, BatchFitsPc, ClaimsHold, IsOpen,
     StreamsLockedOnce, VerdictsSound, CurrentStream, CurrentTask, CurrentItem
=============================================================================
