------------------------ MODULE FieldProjectionProofs ------------------------
(***************************************************************************)
(* Theorems about FieldProjection, for any number of workers and tasks:    *)
(* the outbox has the rows of the completed tasks, once each, and tasks    *)
(* are given up for a reason.                                              *)
(***************************************************************************)
EXTENDS FieldProjection, TaskWorkersProofs

-----------------------------------------------------------------------------
(* Every step is one of the queue; what it does beside it. *)

\* A step that leaves the outbox alone.
Aside == UNCHANGED projected

\* The commit of a projection.
Commit(w) == Complete(w) /\ PersistOutbox(w)

\* Only the task of an item that is extractable gets to the stream's lock.
LocksExtractable ==
    \A v \in Workers : pc'[v] = "locked" =>
        batch'[v] = batch[v] /\ (pc[v] = "locked" \/ CurrentTask(v) \in Extractable)

LEMMA StepCases ==
  ASSUME QueueTypeOK, Next
  PROVE  /\ LocksExtractable
         /\ \/ QuietStep /\ Aside
            \/ \E w \in Workers :
                \/ Refuse(w) /\ CurrentTask(w) \notin Extractable /\ Aside
                \/ Commit(w)
  <1> USE DEF Aside
  <1>1. CASE \/ Tick /\ UNCHANGED projected
             \/ \E t \in Tasks : CreateTask(t) /\ UNCHANGED projected
    BY <1>1 DEF Tick, CreateTask, workerVars, QuietStep, LocksExtractable
  <1>2. ASSUME NEW w \in Workers,
               \/ QueueWorkerStep(w) /\ UNCHANGED projected
               \/ Start(w) /\ UNCHANGED projected
               \/ QueueFault(w) /\ UNCHANGED projected
               \/ ProjectStale(w)
        PROVE  LocksExtractable /\ QuietStep /\ Aside
    <2>1. QuietStep /\ Aside
      BY <1>2 DEF QuietStep, ProjectStale
    <2>2. /\ pc'[w] # "locked"
          /\ \A v \in Workers \ {w} : pc'[v] = pc[v] /\ batch'[v] = batch[v]
      BY <1>2 DEF QueueWorkerStep, QueueFault, Start, ProjectStale, LoseClaim,
         SelectBatch, CommitClaim, EndBatch, CheckClaim, FinalizeFailure, ClaimFails, RollBack,
         FinalizeFailureFails, Halt, NextItem, Continue, Fail, QueueTypeOK
    <2> QED BY <2>1, <2>2 DEF LocksExtractable
  <1>3. ASSUME NEW w \in Workers, LockStream(w)
        PROVE  LocksExtractable /\ QuietStep /\ Aside
    <2>1. QuietStep /\ Aside
      BY <1>3 DEF LockStream, Lock, QuietStep
    <2>2. LocksExtractable
      BY <1>3 DEF LockStream, QueueTypeOK, LocksExtractable
    <2> QED BY <2>1, <2>2
  <1>4. ASSUME NEW w \in Workers, Reject(w)
        PROVE  LocksExtractable /\ Refuse(w) /\ CurrentTask(w) \notin Extractable /\ Aside
    BY <1>4 DEF Reject, Refuse, Fail, QueueTypeOK, LocksExtractable
  <1>5. ASSUME NEW w \in Workers, Project(w) \/ ProjectUnnoticed(w)
        PROVE  LocksExtractable /\ Commit(w)
    <2>1. Commit(w)
      BY <1>5 DEF Project, ProjectUnnoticed, Commit, Complete
    <2>2. LocksExtractable
      BY <2>1 DEF Commit, Complete, NextItem, Fail, Continue, QueueTypeOK, LocksExtractable
    <2> QED BY <2>1, <2>2
  <1> QED BY <1>1, <1>2, <1>3, <1>4, <1>5 DEF Next, WorkerStep

LEMMA StepOfQueue == QueueTypeOK /\ Next => QueueNext
  BY StepCases DEF QueueNext, Commit

-----------------------------------------------------------------------------
(* Every step keeps ProjectionInv. *)

LEMMA FailuresAreJustifiedInductive ==
  ASSUME ProjectionInv, Next
  PROVE  FailuresAreJustified'
  <1>a. QueueTypeOK /\ BatchFitsPc /\ ClaimsHold /\ FailuresAreJustified
    BY DEF ProjectionInv, QueueInv
  <1> DEFINE taskThen(v) == Head(batch'[v]).task
  <1>1. ASSUME NEW v \in Workers, pc'[v] = "locked"
        PROVE  taskThen(v) \in Extractable
    BY <1>1, <1>a, StepCases DEF LocksExtractable, FailuresAreJustified, CurrentTask, CurrentItem
  <1>2. ASSUME NEW v \in Workers, verdict'[v].code = "terminal"
        PROVE  taskThen(v) \notin Extractable
    <2>1. CASE Stays(v)
      BY <1>2, <2>1, <1>a DEF Stays, FailuresAreJustified, CurrentTask, CurrentItem
    <2>2. ~Selects(v) /\ ~GoesOn(v) /\ ~Locks(v) /\ ~FailsWith(v, "transient")
      BY <1>2 DEF Selects, GoesOn, Locks, FailsWith, NoVerdict, FailureVerdict
    <2>3. ASSUME NEW w \in Workers, Refuse(w), CurrentTask(w) \notin Extractable
          PROVE  taskThen(v) \notin Extractable
      <3>1. Stays(v) \/ (v = w /\ FailsWith(v, "terminal"))
        BY <2>3, <1>a, RefuseMoves
      <3> QED BY <2>1, <2>3, <3>1 DEF FailsWith, CurrentTask, CurrentItem
    <2>4. CASE QuietStep \/ \E w \in Workers : Commit(w)
      BY <2>1, <2>2, <2>4, <1>a, WorkersMove DEF Commit, Moves
    <2> QED BY <2>3, <2>4, <1>a, StepCases
  <1>3. ASSUME NEW t \in Tasks, tasks'[t].last_error_code = "terminal"
        PROVE  t \notin Extractable
    <2>1. \/ RowKept(t) \/ RowCreated(t) \/ RowClaimed(t) \/ RowFailed(t)
          \/ RowCompleted(t)
      BY <1>a, StepOfQueue, QueueRows
    <2> QED BY <1>3, <1>a, <2>1 DEF RowKept, RowCreated, RowClaimed, RowFailed, RowCompleted,
            FailuresAreJustified
  <1> QED BY <1>1, <1>2, <1>3 DEF FailuresAreJustified, CurrentTask, CurrentItem

\* The keys of different tasks are different.
LEMMA KeysApart ==
  ASSUME NEW t, NEW u, NEW key \in DeliveryKeys(t), key \in DeliveryKeys(u)
  PROVE  t = u
  BY DEF DeliveryKeys

\* Which tasks are completed changes only with the commit of a projection.
LEMMA AsideCompletesNone ==
  ASSUME ProjectionInv, QuietStep \/ \E w \in Workers : Refuse(w), NEW t \in Tasks
  PROVE  tasks'[t].state = "completed" <=> tasks[t].state = "completed"
  <1>a. QueueTypeOK /\ BatchFitsPc /\ ClaimsHold
    BY DEF ProjectionInv, QueueInv
  <1>1. CASE \E w \in Workers : Refuse(w)
    BY <1>1 DEF Refuse
  <1>2. CASE QuietStep
    <2>1. RowKept(t) \/ RowCreated(t) \/ RowClaimed(t) \/ RowFailed(t)
      BY <1>a, <1>2, QuietRows
    <2>2. \A w \in Workers : verdict[w].state # "completed"
      BY <1>a DEF QueueTypeOK, Verdict
    <2> QED BY <2>1, <2>2 DEF RowKept, RowCreated, RowClaimed, RowFailed, IsOpen
  <1> QED BY <1>1, <1>2

LEMMA CommitCompletes ==
  ASSUME ProjectionInv, NEW w \in Workers, Commit(w)
  PROVE  /\ CurrentTask(w) \in Extractable
         /\ tasks[CurrentTask(w)].state = "processing"
         /\ tasks'[CurrentTask(w)].state = "completed"
         /\ \A t \in Tasks \ {CurrentTask(w)} : tasks'[t] = tasks[t]
  <1>1. QueueTypeOK /\ BatchFitsPc /\ FailuresAreJustified
    BY DEF ProjectionInv, QueueInv
  <1>2. pc[w] = "locked"
    BY DEF Commit, Complete, Completed
  <1> QED BY <1>1, <1>2, CompleteRows
          DEF Commit, Complete, RowCompleted, RowKept, FailuresAreJustified

LEMMA ProjectedOnceInductive ==
  ASSUME ProjectionInv, Next
  PROVE  projected' \in [Keys -> Nat] /\ ProjectedOnce'
  <1>a. QueueTypeOK /\ TypeOK /\ ProjectedOnce
    BY DEF ProjectionInv, QueueInv
  <1>1. CASE Aside /\ (QuietStep \/ \E w \in Workers : Refuse(w))
    <2>1. \A t \in Tasks : tasks'[t].state = "completed" <=> tasks[t].state = "completed"
      BY <1>1, AsideCompletesNone
    <2> QED BY <1>1, <1>a, <2>1 DEF Aside, TypeOK, ProjectedOnce, Extractable
  <1>2. ASSUME NEW w \in Workers, Commit(w)
        PROVE  projected' \in [Keys -> Nat] /\ ProjectedOnce'
    <2> DEFINE done == CurrentTask(w)
    <2>1. /\ done \in Extractable
          /\ tasks[done].state = "processing"
          /\ tasks'[done].state = "completed"
          /\ \A t \in Tasks \ {done} : tasks'[t] = tasks[t]
      BY <1>2, CommitCompletes
    <2>2. projected' = [key \in Keys |->
                IF key \in DeliveryKeys(done) /\ projected[key] = 0 THEN 1 ELSE projected[key]]
      BY <1>2 DEF Commit, PersistOutbox
    <2>3. projected' \in [Keys -> Nat]
      BY <2>2, <1>a DEF TypeOK
    <2>4. ASSUME NEW t \in Extractable, NEW key \in DeliveryKeys(t)
          PROVE  projected'[key] = IF tasks'[t].state = "completed" THEN 1 ELSE 0
      <3>1. /\ key \in Keys
            /\ projected[key] = IF tasks[t].state = "completed" THEN 1 ELSE 0
        BY <1>a DEF Keys, ProjectedOnce
      <3>2. projected'[key] =
                IF key \in DeliveryKeys(done) /\ projected[key] = 0 THEN 1 ELSE projected[key]
        BY <2>2, <3>1
      <3>3. CASE t = done
        BY <2>1, <3>1, <3>2, <3>3
      <3>4. CASE t # done
        <4>1. key \notin DeliveryKeys(done)
          BY <3>4, KeysApart
        <4>2. tasks'[t] = tasks[t]
          BY <2>1, <3>4 DEF Extractable
        <4> QED BY <3>1, <3>2, <4>1, <4>2
      <3> QED BY <3>3, <3>4
    <2> QED BY <2>3, <2>4 DEF ProjectedOnce
  <1> QED BY <1>1, <1>2, <1>a, StepCases

LEMMA ProjectionStep == ProjectionInv /\ Next => ProjectionInv'
  <1> SUFFICES ASSUME ProjectionInv, Next PROVE ProjectionInv'
    OBVIOUS
  <1>a. QueueInv /\ QueueTypeOK /\ GivenUpJustified
    BY DEF ProjectionInv, QueueInv
  <1>1. QueueInv'
    BY <1>a, StepOfQueue, QueueInductive
  <1>2. FailuresAreJustified' /\ ProjectedOnce' /\ projected' \in [Keys -> Nat]
    BY FailuresAreJustifiedInductive, ProjectedOnceInductive
  <1>3. ASSUME NEW t \in Tasks, t \notin Extractable PROVE tasks'[t].state # "completed"
    <2>1. CASE QuietStep \/ \E w \in Workers : Refuse(w)
      BY <1>3, <1>a, <2>1, AsideCompletesNone DEF GivenUpJustified
    <2>2. CASE \E w \in Workers : Commit(w)
      BY <1>3, <1>a, <2>2, CommitCompletes DEF GivenUpJustified
    <2> QED BY <1>a, <2>1, <2>2, StepCases
  <1>4. GivenUpJustified'
    BY <1>1, <1>2, <1>3 DEF QueueInv, VerdictsSound, FailuresAreJustified, GivenUpJustified
  <1>5. TypeOK'
    BY <1>1, <1>2 DEF QueueInv, TypeOK
  <1> QED BY <1>1, <1>2, <1>4, <1>5 DEF ProjectionInv

LEMMA ProjectionStutters == ProjectionInv /\ UNCHANGED vars => ProjectionInv'
  <1> SUFFICES ASSUME ProjectionInv, UNCHANGED vars PROVE ProjectionInv'
    OBVIOUS
  <1>1. UNCHANGED <<queueVars, projected>>
    BY DEF vars
  <1>2. UNCHANGED <<tasks, pc, batch, verdict, projected>>
    BY <1>1 DEF queueVars, workerVars
  <1>3. QueueInv'
    BY <1>1, QueueStutters DEF ProjectionInv
  <1> QED BY <1>2, <1>3 DEF QueueInv, ProjectionInv, TypeOK, FailuresAreJustified,
          ProjectedOnce, GivenUpJustified, CurrentTask, CurrentItem

LEMMA ProjectionInitially == Init => ProjectionInv
  <1> SUFFICES ASSUME Init PROVE ProjectionInv
    OBVIOUS
  <1>1. QueueInv
    BY QueueInitially DEF Init
  <1>2. TypeOK
    BY <1>1 DEF Init, QueueInv, TypeOK
  <1>3. FailuresAreJustified /\ GivenUpJustified
    BY DEF Init, QueueInit, FailuresAreJustified, GivenUpJustified, NoVerdict, AbsentTask
  <1>4. ProjectedOnce
    <2> SUFFICES ASSUME NEW t \in Extractable, NEW key \in DeliveryKeys(t)
                 PROVE  projected[key] = IF tasks[t].state = "completed" THEN 1 ELSE 0
      BY DEF ProjectedOnce
    <2>1. key \in Keys
      BY DEF Keys
    <2>2. tasks[t].state = "absent"
      BY DEF Init, QueueInit, AbsentTask, Extractable
    <2> QED BY <2>1, <2>2 DEF Init
  <1> QED BY <1>1, <1>2, <1>3, <1>4 DEF ProjectionInv

-----------------------------------------------------------------------------
(* The theorems. *)

\* The inductive invariant the others follow from: the workers' items, claims,
\* locks and verdicts fit, and only extractable payloads get to be projected.
THEOREM ProjectionInvariance == Spec => []ProjectionInv
  <1>1. ProjectionInv /\ [Next]_vars => ProjectionInv'
    BY ProjectionStep, ProjectionStutters
  <1> QED BY <1>1, ProjectionInitially, PTL DEF Spec

\* Every variable keeps its type.
THEOREM TypeCorrect == Spec => []TypeOK
  <1>1. ProjectionInv => TypeOK
    BY DEF ProjectionInv
  <1> QED BY <1>1, ProjectionInvariance, PTL

\* Exactly the completed tasks have outbox rows, one for each field.
THEOREM FieldsAreProjectedOnce == Spec => []ProjectedOnce
  <1>1. ProjectionInv => ProjectedOnce
    BY DEF ProjectionInv
  <1> QED BY <1>1, ProjectionInvariance, PTL

\* A task that cannot be extracted is never completed, one that can is given up
\* only with its attempts used up.
THEOREM GivingUpIsJustified == Spec => []GivenUpJustified
  <1>1. ProjectionInv => GivenUpJustified
    BY DEF ProjectionInv
  <1> QED BY <1>1, ProjectionInvariance, PTL

\* Nothing changes a completed task.
THEOREM CompletedTasksAreFinal == Spec => CompletedIsFinal
  <1>1. ProjectionInv /\ [Next]_vars =>
            [\A t \in Tasks : tasks[t].state = "completed" => tasks'[t] = tasks[t]]_queueVars
    <2> SUFFICES ASSUME ProjectionInv, [Next]_vars
                 PROVE  \/ \A t \in Tasks :
                            tasks[t].state = "completed" => tasks'[t] = tasks[t]
                        \/ UNCHANGED queueVars
      OBVIOUS
    <2>1. CASE Next
      BY <2>1, StepOfQueue, CompletedStays DEF ProjectionInv, QueueInv
    <2>2. CASE UNCHANGED vars
      BY <2>2 DEF vars
    <2> QED BY <2>1, <2>2
  <1> QED BY <1>1, ProjectionInvariance, PTL DEF Spec, CompletedIsFinal
=============================================================================
