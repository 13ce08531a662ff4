------------------------ MODULE OutboxDeliveryProofs ------------------------
(***************************************************************************)
(* Theorems about OutboxDelivery for every set of rows and workers and     *)
(* every setting.                                                          *)
(***************************************************************************)
EXTENDS OutboxDelivery, FiniteSetTheorems, TLAPS

USE SettingsAssumption, BoundsAssumption

-----------------------------------------------------------------------------
(* Types of the helpers. *)

LEMMA BackoffType == \A n \in Nat : Backoff(n) \in Nat
  <1> SUFFICES ASSUME NEW n \in Nat PROVE Backoff(n) \in Nat
    OBVIOUS
  <1> DEFINE doubled == BackoffBase * 2 ^ (IF n > 1 THEN n - 1 ELSE 0)
  <1>1. CASE doubled \in 1..BackoffMax
    BY <1>1 DEF Backoff
  <1>2. CASE doubled \notin 1..BackoffMax
    BY <1>2 DEF Backoff
  <1> QED BY <1>1, <1>2

LEMMA ItemForType ==
  ASSUME TypeOK, NEW batch \in SUBSET Rows, NEW r \in batch, NEW t \in Time
  PROVE  ItemFor(r, batch, t) \in Item
  <1> DEFINE earlier == {s \in batch : outbox[s].available_at < outbox[r].available_at}
  <1>1. IsFiniteSet(earlier)
    BY FS_Subset, RowsAssumption
  <1>2. Cardinality(earlier) \in Nat
    BY <1>1, FS_CardinalityType
  <1>3. outbox[r].attempt_count + 1 \in Nat
    BY DEF TypeOK, Row
  <1> QED BY <1>2, <1>3 DEF ItemFor, Item

LEMMA FailureVerdictType ==
  ASSUME TypeOK, NEW i \in Item \cup {NoItem}, NEW code \in {"transient", "permanent"}
  PROVE  FailureVerdict(i, code) \in Verdict
  <1>1. i.attempt_count \in Nat
    BY DEF Item, NoItem
  <1>2. clock + Backoff(i.attempt_count) \in Nat
    BY <1>1, BackoffType DEF TypeOK, Time
  <1> QED BY <1>2 DEF FailureVerdict, Verdict, Code, Time

LEMMA FinalizedType ==
  ASSUME TypeOK, NEW i \in Item, NEW v \in Verdict
  PROVE  Finalized(i, v) \in [Rows -> Row]
  <1>1. /\ i.row \in Rows
        /\ outbox[i.row] \in Row
        /\ v.state \in RowState
        /\ v.last_error_code \in Code
        /\ v.available_at = NoTime \/ v.available_at \in Time
    BY DEF TypeOK, Item, Verdict, RowState
  <1>2. FinalizedRow(outbox[i.row], v) \in Row
    BY <1>1 DEF FinalizedRow, Row
  <1> QED BY <1>1, <1>2 DEF Finalized, TypeOK

LEMMA ClaimedType ==
  ASSUME TypeOK, NEW w \in Workers
  PROVE  Claimed(w) \in [Rows -> Row]
  <1>1. now[w] \in Time
    BY DEF TypeOK
  <1>2. ASSUME NEW r \in Rows
        PROVE  [outbox[r] EXCEPT !.state = "processing",
                                 !.processing_started_at = now[w],
                                 !.attempt_count = outbox[r].attempt_count + 1] \in Row
    <2>1. outbox[r] \in Row
      BY DEF TypeOK
    <2>2. outbox[r].attempt_count + 1 \in Nat
      BY <2>1 DEF Row
    <2> QED BY <1>1, <2>1, <2>2 DEF Row, RowState
  <1>3. ASSUME NEW r \in Rows PROVE outbox[r] \in Row
    BY DEF TypeOK
  <1> QED BY <1>2, <1>3 DEF Claimed

LEMMA RequestOfType ==
  ASSUME NEW i \in Item
  PROVE  RequestOf(i) \in Request
  BY DEF Item, Request, RequestOf

-----------------------------------------------------------------------------
(* Type correctness. *)

LEMMA DropBatchType ==
  ASSUME TypeOK, NEW w \in Workers, NEW to \in Pc, DropBatch(w, to)
  PROVE  /\ pc' \in [Workers -> Pc]
         /\ now' \in [Workers -> Time]
         /\ held' \in [Workers -> SUBSET Item]
         /\ current' \in [Workers -> Item \cup {NoItem}]
         /\ verdict' \in [Workers -> Verdict]
  BY DEF TypeOK, DropBatch, Time, NoVerdict, Verdict, Code

LEMMA TypeInit == Init => TypeOK
  BY DEF Init, TypeOK, Pc, Time, Row, RowState, Code, AbsentRow, NoVerdict, Verdict

\* No step leaves the types of the state.
LEMMA TypeStep == TypeOK /\ HeldFitsPc /\ [Next]_vars => TypeOK'
  <1> SUFFICES ASSUME TypeOK, HeldFitsPc, [Next]_vars PROVE TypeOK'
    OBVIOUS
  <1> USE DEF Time, Pc
  <1>1. ASSUME Tick PROVE TypeOK'
    BY <1>1 DEF TypeOK, Tick, workerVars
  <1>2. ASSUME NEW r \in Rows, Enqueue(r) PROVE TypeOK'
    <2>1. ASSUME NEW delay \in 0..MaxDelay, delay <= clock
          PROVE  [AbsentRow EXCEPT !.state = "pending", !.available_at = clock - delay] \in Row
      <3>1. clock - delay \in Nat
        BY <2>1 DEF TypeOK
      <3> QED BY <3>1 DEF Row, AbsentRow, RowState, Code
    <2>2. outbox' \in [Rows -> Row]
      BY <1>2, <2>1 DEF Enqueue, TypeOK
    <2> QED BY <1>2, <2>2 DEF TypeOK, Enqueue, workerVars
  <1>3. ASSUME NEW ids \in SUBSET Rows, ReplayDeadLetters(ids) PROVE TypeOK'
    <2>1. \A r \in Rows : outbox[r] \in Row
      BY DEF TypeOK
    <2>2. \A r \in Rows :
            [outbox[r] EXCEPT !.state = "pending", !.available_at = clock,
                              !.processing_started_at = NoTime,
                              !.last_error_code = "none"] \in Row
      <3> TAKE r \in Rows
      <3>1. outbox[r] \in Row /\ clock \in Time
        BY <2>1 DEF TypeOK
      <3> HIDE DEF Time
      <3> QED BY <3>1 DEF Row, RowState, Code
    <2>3. outbox' \in [Rows -> Row]
      BY <1>3, <2>1, <2>2 DEF ReplayDeadLetters
    <2>4. UNCHANGED <<clock, workerVars, late, influx, faults>> /\ replays' = replays + 1
      BY <1>3 DEF ReplayDeadLetters
    <2> QED BY <2>3, <2>4 DEF TypeOK, workerVars
  <1>4. ASSUME NEW q \in late, StoreLateWrite(q) PROVE TypeOK'
    <2>1. q.row \in Rows
      BY DEF TypeOK, Request
    <2> QED BY <1>4, <2>1 DEF TypeOK, StoreLateWrite, workerVars
  <1>5. ASSUME NEW w \in Workers PROVE WorkerStep(w) => TypeOK'
    <2>1. CASE BeginCycle(w)
      BY <2>1 DEF TypeOK, BeginCycle
    <2>2. CASE SelectBatch(w)
      <3>1. PICK batch \in SUBSET Rows :
              held' = [held EXCEPT ![w] = {ItemFor(r, batch, now[w]) : r \in batch}]
        BY <2>2 DEF SelectBatch
      <3>2. {ItemFor(r, batch, now[w]) : r \in batch} \subseteq Item
        <4>1. now[w] \in Time
          BY DEF TypeOK
        <4> QED BY <4>1, ItemForType
      <3>3. held' \in [Workers -> SUBSET Item]
        BY <3>1, <3>2 DEF TypeOK
      <3> QED BY <2>2, <3>3 DEF TypeOK, SelectBatch
    <2>3. CASE CommitClaim(w)
      <3>1. outbox' \in [Rows -> Row]
        BY <2>3, ClaimedType DEF CommitClaim
      <3> QED BY <2>3, <3>1 DEF TypeOK, CommitClaim
    <2>4. CASE BeginWrite(w)
      BY <2>4 DEF TypeOK, BeginWrite
    <2>5. CASE WriteSucceeds(w)
      <3>1. DeliveredVerdict \in Verdict
        BY DEF DeliveredVerdict, Verdict, Code
      <3> QED BY <2>5, <3>1 DEF TypeOK, WriteSucceeds
    <2>6. CASE WriteFailsRetryable(w)
      <3>1. FailureVerdict(current[w], "transient") \in Verdict
        <4>1. current[w] \in Item \cup {NoItem}
          BY DEF TypeOK
        <4> QED BY <4>1, FailureVerdictType
      <3>2. current[w] \in Item
        BY <2>6 DEF WriteFailsRetryable, HeldFitsPc, TypeOK
      <3>3. late' \subseteq Request
        BY <2>6, <3>2, RequestOfType DEF TypeOK, WriteFailsRetryable
      <3>4. verdict' \in [Workers -> Verdict]
        BY <2>6, <3>1 DEF TypeOK, WriteFailsRetryable
      <3> QED BY <2>6, <3>3, <3>4 DEF TypeOK, WriteFailsRetryable
    <2>7. CASE WriteFailsPermanently(w)
      <3>1. FailureVerdict(current[w], "permanent") \in Verdict
        <4>1. current[w] \in Item \cup {NoItem}
          BY DEF TypeOK
        <4> QED BY <4>1, FailureVerdictType
      <3>2. verdict' \in [Workers -> Verdict]
        BY <2>7, <3>1 DEF TypeOK, WriteFailsPermanently
      <3> QED BY <2>7, <3>2 DEF TypeOK, WriteFailsPermanently
    <2>8. CASE Finalize(w)
      <3>1. current[w] \in Item /\ verdict[w] \in Verdict
        BY <2>8 DEF Finalize, HeldFitsPc, TypeOK
      <3>2. outbox' \in [Rows -> Row]
        BY <2>8, <3>1, FinalizedType DEF Finalize
      <3>3. held' \in [Workers -> SUBSET Item]
        BY <2>8 DEF Finalize, TypeOK
      <3>4. verdict' \in [Workers -> Verdict]
        BY <2>8 DEF Finalize, TypeOK, NoVerdict, Verdict, Code
      <3> QED BY <2>8, <3>2, <3>3, <3>4 DEF TypeOK, Finalize
    <2>9. CASE EndCycle(w)
      BY <2>9 DEF TypeOK, EndCycle
    <2>10. CASE Exit(w)
      BY <2>10 DEF TypeOK, Exit
    <2> QED BY <2>1, <2>2, <2>3, <2>4, <2>5, <2>6, <2>7, <2>8, <2>9, <2>10 DEF WorkerStep
  <1>6. ASSUME NEW w \in Workers, StoreWrite(w) PROVE TypeOK'
    <2>1. current[w] \in Item
      BY <1>6 DEF StoreWrite, HeldFitsPc, TypeOK
    <2> QED BY <1>6, <2>1 DEF TypeOK, StoreWrite, Item
  <1>7. ASSUME NEW w \in Workers, Start(w) PROVE TypeOK'
    BY <1>7 DEF TypeOK, Start
  <1>8. ASSUME NEW w \in Workers, Stop(w) PROVE TypeOK'
    BY <1>8 DEF TypeOK, Stop
  <1>9. ASSUME NEW w \in Workers, Crash(w) PROVE TypeOK'
    <2>1. late' \subseteq Request
      <3>1. pc[w] = "writing" => current[w] \in Item
        BY DEF HeldFitsPc, TypeOK
      <3> QED BY <1>9, <3>1, RequestOfType DEF TypeOK, Crash
    <2>2. stopping' \in [Workers -> BOOLEAN] /\ faults' \in Nat
      BY <1>9 DEF Crash, Fault, TypeOK
    <2>3. DropBatch(w, "stopped") /\ UNCHANGED <<clock, outbox, influx, replays>>
      BY <1>9 DEF Crash
    <2> QED BY <2>1, <2>2, <2>3, DropBatchType DEF TypeOK
  <1>10. ASSUME NEW w \in Workers, ClaimFails(w) PROVE TypeOK'
    <2>1. outbox' \in [Rows -> Row] /\ faults' \in Nat
      BY <1>10, ClaimedType DEF ClaimFails, Fault, TypeOK
    <2>2. DropBatch(w, "idle") /\ UNCHANGED <<clock, stopping, late, influx, replays>>
      BY <1>10 DEF ClaimFails
    <2> QED BY <2>1, <2>2, DropBatchType DEF TypeOK
  <1>11. ASSUME NEW w \in Workers, FinalizeFails(w) PROVE TypeOK'
    <2>1. current[w] \in Item /\ verdict[w] \in Verdict
      BY <1>11 DEF FinalizeFails, HeldFitsPc, TypeOK
    <2>2. outbox' \in [Rows -> Row] /\ faults' \in Nat
      BY <1>11, <2>1, FinalizedType DEF FinalizeFails, Fault, TypeOK
    <2>3. DropBatch(w, "idle") /\ UNCHANGED <<clock, stopping, late, influx, replays>>
      BY <1>11 DEF FinalizeFails
    <2> QED BY <2>2, <2>3, DropBatchType DEF TypeOK
  <1>12. CASE UNCHANGED vars
    BY <1>12 DEF TypeOK, vars, workerVars
  <1> QED BY <1>1, <1>2, <1>3, <1>4, <1>5, <1>6, <1>7, <1>8, <1>9, <1>10, <1>11,
             <1>12 DEF Next

-----------------------------------------------------------------------------
(* Steps by what they do to claims. *)

\* Steps of one worker that leave the outbox and the clock alone, and give no
\* worker an item.
Quiet(w) ==
    \/ BeginCycle(w) \/ BeginWrite(w) \/ StoreWrite(w) \/ WriteSucceeds(w)
    \/ WriteFailsRetryable(w) \/ WriteFailsPermanently(w) \/ EndCycle(w)
    \/ Exit(w) \/ Start(w) \/ Stop(w) \/ Crash(w)

LEMMA QuietFrame ==
  ASSUME TypeOK, HeldFitsPc, NEW w \in Workers, Quiet(w)
  PROVE  /\ outbox' = outbox
         /\ clock' = clock
         /\ \A v \in Workers : LiveItems(v)' \subseteq LiveItems(v)
         /\ \A v \in Workers : pc'[v] = "claimed" =>
                pc[v] = "claimed" /\ held'[v] = held[v] /\ now'[v] = now[v]
  <1> USE DEF LiveItems, Delivering, HeldFitsPc, TypeOK
  <1>1. CASE BeginCycle(w) BY <1>1 DEF BeginCycle
  <1>2. CASE BeginWrite(w) BY <1>2 DEF BeginWrite
  <1>3. CASE StoreWrite(w) BY <1>3 DEF StoreWrite
  <1>4. CASE WriteSucceeds(w) BY <1>4 DEF WriteSucceeds
  <1>5. CASE WriteFailsRetryable(w) BY <1>5 DEF WriteFailsRetryable
  <1>6. CASE WriteFailsPermanently(w) BY <1>6 DEF WriteFailsPermanently
  <1>7. CASE EndCycle(w) BY <1>7 DEF EndCycle
  <1>8. CASE Exit(w) BY <1>8 DEF Exit
  <1>9. CASE Start(w) BY <1>9 DEF Start
  <1>10. CASE Stop(w) BY <1>10 DEF Stop
  <1>11. CASE Crash(w) BY <1>11 DEF Crash, DropBatch
  <1> QED BY <1>1, <1>2, <1>3, <1>4, <1>5, <1>6, <1>7, <1>8, <1>9, <1>10, <1>11
          DEF Quiet

\* The steps as the invariance proofs distinguish them.
LEMMA NextCases ==
  ASSUME [Next]_vars
  PROVE  \/ UNCHANGED vars
         \/ Tick
         \/ \E r \in Rows : Enqueue(r)
         \/ \E ids \in SUBSET Rows : ReplayDeadLetters(ids)
         \/ \E q \in late : StoreLateWrite(q)
         \/ \E w \in Workers : \/ Quiet(w) \/ SelectBatch(w) \/ CommitClaim(w)
                               \/ ClaimFails(w) \/ Finalize(w) \/ FinalizeFails(w)
  BY DEF Next, WorkerStep, Quiet

LEMMA HeldFitsPcStep == TypeOK /\ HeldFitsPc /\ [Next]_vars => HeldFitsPc'
  <1> SUFFICES ASSUME TypeOK, HeldFitsPc, [Next]_vars PROVE HeldFitsPc'
    OBVIOUS
  <1> USE DEF HeldFitsPc, TypeOK, Time
  <1>1. CASE UNCHANGED vars BY <1>1 DEF vars, workerVars
  <1>2. CASE Tick BY <1>2 DEF Tick, workerVars
  <1>3. CASE \E r \in Rows : Enqueue(r) BY <1>3 DEF Enqueue, workerVars
  <1>4. CASE \E ids \in SUBSET Rows : ReplayDeadLetters(ids)
    <2>1. UNCHANGED <<clock, workerVars>>
      BY <1>4 DEF ReplayDeadLetters
    <2> QED BY <2>1 DEF workerVars
  <1>5. CASE \E q \in late : StoreLateWrite(q) BY <1>5 DEF StoreLateWrite, workerVars
  <1>6. ASSUME NEW w \in Workers, Quiet(w) PROVE HeldFitsPc'
    <2>1. CASE BeginCycle(w) BY <2>1 DEF BeginCycle
    <2>2. CASE BeginWrite(w) BY <2>2 DEF BeginWrite
    <2>3. CASE StoreWrite(w) BY <2>3 DEF StoreWrite
    <2>4. CASE WriteSucceeds(w) BY <2>4 DEF WriteSucceeds
    <2>5. CASE WriteFailsRetryable(w) BY <2>5 DEF WriteFailsRetryable
    <2>6. CASE WriteFailsPermanently(w) BY <2>6 DEF WriteFailsPermanently
    <2>7. CASE EndCycle(w) BY <2>7 DEF EndCycle
    <2>8. CASE Exit(w) BY <2>8 DEF Exit
    <2>9. CASE Start(w) BY <2>9 DEF Start
    <2>10. CASE Stop(w) BY <2>10 DEF Stop
    <2>11. CASE Crash(w) BY <2>11 DEF Crash, DropBatch
    <2> QED BY <1>6, <2>1, <2>2, <2>3, <2>4, <2>5, <2>6, <2>7, <2>8, <2>9, <2>10,
               <2>11 DEF Quiet
  <1>7. ASSUME NEW w \in Workers, SelectBatch(w) PROVE HeldFitsPc'
    <2>1. PICK batch \in SUBSET Rows :
            held' = [held EXCEPT ![w] = {ItemFor(r, batch, now[w]) : r \in batch}]
      BY <1>7 DEF SelectBatch
    <2>2. \A i, j \in held'[w] : i.row = j.row => i = j
      <3>1. held'[w] = {ItemFor(r, batch, now[w]) : r \in batch}
        BY <2>1
      <3>2. \A r \in batch : ItemFor(r, batch, now[w]).row = r
        BY DEF ItemFor
      <3> QED BY <3>1, <3>2
    <2> QED BY <1>7, <2>1, <2>2 DEF SelectBatch
  <1>8. ASSUME NEW w \in Workers, CommitClaim(w) PROVE HeldFitsPc'
    BY <1>8 DEF CommitClaim
  <1>9. ASSUME NEW w \in Workers, ClaimFails(w) PROVE HeldFitsPc'
    BY <1>9 DEF ClaimFails, DropBatch
  <1>10. ASSUME NEW w \in Workers, Finalize(w) PROVE HeldFitsPc'
    BY <1>10 DEF Finalize
  <1>11. ASSUME NEW w \in Workers, FinalizeFails(w) PROVE HeldFitsPc'
    BY <1>11 DEF FinalizeFails, DropBatch
  <1> QED BY <1>1, <1>2, <1>3, <1>4, <1>5, <1>6, <1>7, <1>8, <1>9, <1>10, <1>11,
             NextCases

\* What the two kinds of claim-related writes do to a row.
LEMMA ClaimedRow ==
  ASSUME TypeOK, ClaimsLocked, NEW w \in Workers, pc[w] = "claimed", NEW r \in Rows
  PROVE  \/ /\ Claimed(w)[r] = outbox[r]
            /\ \A i \in held[w] : i.row # r
         \/ /\ IsEligible(r, now[w])
            /\ Claimed(w)[r].state = "processing"
            /\ Claimed(w)[r].processing_started_at = now[w]
            /\ Claimed(w)[r].attempt_count = outbox[r].attempt_count + 1
            /\ Claimed(w)[r].available_at = outbox[r].available_at
            /\ Claimed(w)[r].last_error_code = outbox[r].last_error_code
            /\ \E i \in held[w] : i.row = r
  <1>1. outbox[r] \in Row
    BY DEF TypeOK
  <1>2. CASE \E i \in held[w] : i.row = r
    <2>1. IsEligible(r, now[w])
      BY <1>2 DEF ClaimsLocked
    <2> QED BY <1>1, <1>2, <2>1 DEF Claimed, Row
  <1>3. CASE ~ \E i \in held[w] : i.row = r
    BY <1>3 DEF Claimed
  <1> QED BY <1>2, <1>3

LEMMA FinalizedRowEffect ==
  ASSUME TypeOK, NEW i \in Item, NEW v \in Verdict, NEW r \in Rows
  PROVE  \/ Finalized(i, v)[r] = outbox[r]
         \/ /\ r = i.row
            /\ CarriesClaim(i)
            /\ Finalized(i, v)[r].state = v.state
            /\ Finalized(i, v)[r].attempt_count = outbox[r].attempt_count
            /\ Finalized(i, v)[r].last_error_code = v.last_error_code
            /\ Finalized(i, v)[r].available_at =
                 IF v.available_at = NoTime THEN outbox[r].available_at ELSE v.available_at
  <1>1. outbox[i.row] \in Row /\ i.row \in Rows
    BY DEF TypeOK, Item
  <1>2. CASE CarriesClaim(i) /\ r = i.row
    <2>1. Finalized(i, v)[r] = FinalizedRow(outbox[r], v)
      BY <1>1, <1>2 DEF Finalized, TypeOK
    <2> QED BY <1>1, <1>2, <2>1 DEF FinalizedRow, Row
  <1>3. CASE ~CarriesClaim(i) \/ r # i.row
    BY <1>1, <1>3 DEF Finalized, TypeOK
  <1> QED BY <1>2, <1>3

LEMMA ClaimsLockedStep == TypeOK /\ HeldFitsPc /\ ClaimsLocked /\ [Next]_vars => ClaimsLocked'
  <1> SUFFICES ASSUME TypeOK, HeldFitsPc, ClaimsLocked, [Next]_vars PROVE ClaimsLocked'
    OBVIOUS
  <1>0. ASSUME \A v \in Workers : pc'[v] = "claimed" =>
                    pc[v] = "claimed" /\ held'[v] = held[v] /\ now'[v] = now[v],
               \A v \in Workers : pc'[v] = "claimed" =>
                    \A i \in held[v] : outbox'[i.row] = outbox[i.row]
        PROVE  ClaimsLocked'
    BY <1>0 DEF ClaimsLocked, IsEligible
  <1>1. CASE UNCHANGED vars BY <1>0, <1>1 DEF vars, workerVars
  <1>2. CASE Tick BY <1>0, <1>2 DEF Tick, workerVars
  <1>3. ASSUME NEW r \in Rows, Enqueue(r) PROVE ClaimsLocked'
    <2>1. \A v \in Workers : pc[v] = "claimed" => \A i \in held[v] : i.row # r
      BY <1>3 DEF Enqueue, ClaimsLocked, IsEligible
    <2>2. \A v \in Workers : pc[v] = "claimed" =>
            \A i \in held[v] : outbox'[i.row] = outbox[i.row]
      BY <1>3, <2>1 DEF Enqueue, TypeOK
    <2> QED BY <1>0, <1>3, <2>2 DEF Enqueue, workerVars
  <1>4. ASSUME NEW ids \in SUBSET Rows, ReplayDeadLetters(ids) PROVE ClaimsLocked'
    <2>1. \A v \in Workers : pc[v] = "claimed" =>
            \A i \in held[v] : i.row \in Rows /\ outbox[i.row].state # "dead_letter"
      BY DEF ClaimsLocked, IsEligible, TypeOK, Item
    <2>2. \A v \in Workers : pc[v] = "claimed" =>
            \A i \in held[v] : outbox'[i.row] = outbox[i.row]
      BY <1>4, <2>1 DEF ReplayDeadLetters
    <2> QED BY <1>0, <1>4, <2>2 DEF ReplayDeadLetters, workerVars
  <1>5. CASE \E q \in late : StoreLateWrite(q)
    BY <1>0, <1>5 DEF StoreLateWrite, workerVars
  <1>6. ASSUME NEW w \in Workers, Quiet(w) PROVE ClaimsLocked'
    BY <1>0, <1>6, QuietFrame
  <1>7. ASSUME NEW w \in Workers, SelectBatch(w) PROVE ClaimsLocked'
    <2>1. PICK batch \in SUBSET Rows :
            /\ IsBatch(batch, now[w])
            /\ held' = [held EXCEPT ![w] = {ItemFor(r, batch, now[w]) : r \in batch}]
      BY <1>7 DEF SelectBatch
    <2>2. \A r \in batch : IsEligible(r, now[w]) /\ r \notin ClaimLocked
      BY <2>1 DEF IsBatch
    <2>3. /\ held'[w] = {ItemFor(r, batch, now[w]) : r \in batch}
          /\ \A v \in Workers \ {w} : held'[v] = held[v] /\ pc'[v] = pc[v]
          /\ UNCHANGED <<outbox, now>>
      BY <1>7, <2>1 DEF SelectBatch, TypeOK
    <2>4. \A i \in held'[w] :
            /\ i.row \in batch
            /\ i.attempt_count = outbox[i.row].attempt_count + 1
            /\ i.processing_started_at = now[w]
      <3>1. \A r \in batch :
              /\ ItemFor(r, batch, now[w]).row = r
              /\ ItemFor(r, batch, now[w]).attempt_count = outbox[r].attempt_count + 1
              /\ ItemFor(r, batch, now[w]).processing_started_at = now[w]
        BY DEF ItemFor
      <3> QED BY <2>3, <3>1
    <2>5. \A v \in Workers : pc[v] = "claimed" => \A i \in held[v] : i.row \in ClaimLocked
      BY DEF ClaimLocked
    <2> QED BY <2>2, <2>3, <2>4, <2>5 DEF ClaimsLocked, IsEligible
  <1>8. ASSUME NEW w \in Workers, pc[w] = "claimed", pc' = [pc EXCEPT ![w] = pc'[w]],
               pc'[w] # "claimed", outbox' = Claimed(w),
               \A v \in Workers \ {w} : held'[v] = held[v] /\ now'[v] = now[v]
        PROVE  ClaimsLocked'
    <2>1. \A v \in Workers \ {w} : pc'[v] = pc[v]
      BY <1>8 DEF TypeOK
    <2>2. \A v \in Workers \ {w} : pc[v] = "claimed" =>
            \A i \in held[v] : outbox'[i.row] = outbox[i.row]
      BY <1>8, ClaimedRow DEF ClaimsLocked, TypeOK, Item
    <2> QED BY <1>0, <1>8, <2>1, <2>2
  <1>9. ASSUME NEW w \in Workers, CommitClaim(w) PROVE ClaimsLocked'
    BY <1>8, <1>9 DEF CommitClaim, TypeOK
  <1>10. ASSUME NEW w \in Workers, ClaimFails(w) PROVE ClaimsLocked'
    <2>1. CASE outbox' = outbox
      BY <1>0, <1>10, <2>1 DEF ClaimFails, DropBatch, TypeOK
    <2>2. CASE pc[w] = "claimed" /\ outbox' = Claimed(w)
      BY <1>8, <1>10, <2>2 DEF ClaimFails, DropBatch, TypeOK
    <2>3. CASE pc[w] = "claiming" /\ outbox' = Claimed(w)
      <3>1. held[w] = {}
        BY <2>3 DEF HeldFitsPc
      <3>2. outbox' = outbox
        BY <2>3, <3>1 DEF Claimed, TypeOK
      <3> QED BY <2>1, <3>2
    <2> QED BY <1>10, <2>1, <2>2, <2>3 DEF ClaimFails
  <1>11. ASSUME NEW w \in Workers, pc[w] = "finalizing", pc' = [pc EXCEPT ![w] = pc'[w]],
                pc'[w] # "claimed", current[w].row \notin ClaimLocked,
                outbox' = Finalized(current[w], verdict[w]),
                \A v \in Workers \ {w} : held'[v] = held[v] /\ now'[v] = now[v]
         PROVE  ClaimsLocked'
    <2>1. current[w] \in Item /\ verdict[w] \in Verdict
      BY <1>11 DEF HeldFitsPc, TypeOK
    <2>2. \A v \in Workers : pc[v] = "claimed" =>
            \A i \in held[v] : i.row \in Rows /\ i.row # current[w].row
      BY <1>11 DEF ClaimLocked, TypeOK, Item
    <2>3. \A v \in Workers : pc[v] = "claimed" =>
            \A i \in held[v] : outbox'[i.row] = outbox[i.row]
      BY <1>11, <2>1, <2>2, FinalizedRowEffect
    <2>4. \A v \in Workers \ {w} : pc'[v] = pc[v]
      BY <1>11 DEF TypeOK
    <2> QED BY <1>0, <1>11, <2>3, <2>4
  <1>12. ASSUME NEW w \in Workers, Finalize(w) PROVE ClaimsLocked'
    BY <1>11, <1>12 DEF Finalize, TypeOK
  <1>13. ASSUME NEW w \in Workers, FinalizeFails(w) PROVE ClaimsLocked'
    <2>1. CASE outbox' = outbox
      BY <1>0, <1>13, <2>1 DEF FinalizeFails, DropBatch, TypeOK
    <2>2. CASE outbox' # outbox
      BY <1>11, <1>13, <2>2 DEF FinalizeFails, DropBatch, TypeOK
    <2> QED BY <2>1, <2>2
  <1> QED BY <1>1, <1>2, <1>3, <1>4, <1>5, <1>6, <1>7, <1>9, <1>10, <1>12, <1>13,
             NextCases

-----------------------------------------------------------------------------
(* Every step, by what it does to the outbox and to the live items. *)

\* The outbox stays, and nobody gains an item.
NoClaimStep ==
    /\ outbox' = outbox
    /\ clock' \in {clock, clock + 1}
    /\ \A v \in Workers : LiveItems(v)' \subseteq LiveItems(v)

\* A claim takes effect; its worker has its items, or has lost them.
ClaimTakes(w) ==
    /\ pc[w] = "claimed"
    /\ outbox' = Claimed(w)
    /\ clock' = clock
    /\ LiveItems(w)' \subseteq held[w]
    /\ \A v \in Workers \ {w} : LiveItems(v)' \subseteq LiveItems(v)

\* A finalize takes effect; its worker no longer has the item.
FinalizeTakes(w) ==
    /\ pc[w] = "finalizing"
    /\ outbox' = Finalized(current[w], verdict[w])
    /\ clock' = clock
    /\ LiveItems(w)' \subseteq LiveItems(w) \ {current[w]}
    /\ \A v \in Workers \ {w} : LiveItems(v)' \subseteq LiveItems(v)

LEMMA StepCases ==
  ASSUME TypeOK, HeldFitsPc, [Next]_vars
  PROVE  \/ NoClaimStep
         \/ \E r \in Rows : Enqueue(r)
         \/ \E ids \in SUBSET Rows : ReplayDeadLetters(ids)
         \/ \E w \in Workers : ClaimTakes(w) \/ FinalizeTakes(w)
  <1> USE DEF LiveItems, Delivering
  <1>1. CASE UNCHANGED vars
    BY <1>1 DEF vars, workerVars, NoClaimStep
  <1>2. CASE Tick
    BY <1>2 DEF Tick, workerVars, NoClaimStep
  <1>3. CASE \E q \in late : StoreLateWrite(q)
    BY <1>3 DEF StoreLateWrite, workerVars, NoClaimStep
  <1>4. ASSUME NEW w \in Workers, Quiet(w) PROVE NoClaimStep
    BY <1>4, QuietFrame DEF NoClaimStep
  <1>5. ASSUME NEW w \in Workers, SelectBatch(w) PROVE NoClaimStep
    BY <1>5 DEF SelectBatch, NoClaimStep, TypeOK
  <1>6. ASSUME NEW w \in Workers, CommitClaim(w) PROVE ClaimTakes(w)
    BY <1>6 DEF CommitClaim, ClaimTakes, TypeOK
  <1>7. ASSUME NEW w \in Workers, ClaimFails(w) PROVE NoClaimStep \/ ClaimTakes(w)
    <2>1. CASE outbox' = outbox
      BY <1>7, <2>1 DEF ClaimFails, DropBatch, NoClaimStep, TypeOK
    <2>2. CASE pc[w] = "claimed" /\ outbox' = Claimed(w)
      BY <1>7, <2>2 DEF ClaimFails, DropBatch, ClaimTakes, TypeOK
    <2>3. CASE pc[w] = "claiming" /\ outbox' = Claimed(w)
      <3>1. held[w] = {}
        BY <2>3 DEF HeldFitsPc
      <3>2. outbox' = outbox
        BY <2>3, <3>1 DEF Claimed, TypeOK
      <3> QED BY <2>1, <3>2
    <2> QED BY <1>7, <2>1, <2>2, <2>3 DEF ClaimFails
  <1>8. ASSUME NEW w \in Workers, Finalize(w) PROVE FinalizeTakes(w)
    BY <1>8 DEF Finalize, FinalizeTakes, TypeOK
  <1>9. ASSUME NEW w \in Workers, FinalizeFails(w) PROVE NoClaimStep \/ FinalizeTakes(w)
    <2>1. CASE outbox' = outbox
      BY <1>9, <2>1 DEF FinalizeFails, DropBatch, NoClaimStep, TypeOK
    <2>2. CASE outbox' # outbox
      BY <1>9, <2>2 DEF FinalizeFails, DropBatch, FinalizeTakes, TypeOK
    <2> QED BY <2>1, <2>2
  <1> QED BY <1>1, <1>2, <1>3, <1>4, <1>5, <1>6, <1>7, <1>8, <1>9, NextCases

LEMMA LiveItemsTyped ==
  ASSUME TypeOK, NEW w \in Workers
  PROVE  LiveItems(w) \subseteq Item
  BY DEF TypeOK, LiveItems

\* What a claim overrides was outlived by it.
LEMMA ClaimOutlives ==
  ASSUME TypeOK, HeldFitsPc, ClaimsLocked, ItemsFenced,
         NEW v \in Workers, NEW i \in LiveItems(v),
         NEW w \in Workers, pc[w] = "claimed", \E j \in held[w] : j.row = i.row
  PROVE  i.processing_started_at + Lease < now[w]
  <1>1. i \in Item /\ outbox[i.row] \in Row /\ now[w] \in Nat
    BY LiveItemsTyped DEF TypeOK, Item, Time
  <1>2. IsEligible(i.row, now[w])
    BY DEF ClaimsLocked
  <1>3. i.attempt_count = outbox[i.row].attempt_count => CarriesClaim(i)
    BY DEF ItemsFenced
  <1>4. i.attempt_count # outbox[i.row].attempt_count => Outlived(i)
    BY <1>1 DEF ItemsFenced, Item, Row
  <1>5. CASE CarriesClaim(i)
    BY <1>1, <1>2, <1>5 DEF CarriesClaim, IsEligible, Item, Time
  <1>6. CASE Outlived(i)
    <2>1. CASE outbox[i.row].state = "processing"
      <3>1. /\ i.processing_started_at + Lease < outbox[i.row].processing_started_at
            /\ outbox[i.row].processing_started_at < now[w] - Lease
        BY <1>2, <1>6, <2>1 DEF Outlived, IsEligible
      <3>2. outbox[i.row].processing_started_at \in Int /\ i.processing_started_at \in Nat
        BY <1>1 DEF Row, Item, Time, NoTime
      <3> QED BY <1>1, <3>1, <3>2
    <2>2. CASE outbox[i.row].state \in {"pending", "retryable"}
      <3>1. /\ i.processing_started_at + Lease < outbox[i.row].available_at
            /\ outbox[i.row].available_at <= now[w]
        BY <1>2, <1>6, <2>2 DEF Outlived, IsEligible
      <3>2. outbox[i.row].available_at \in Nat /\ i.processing_started_at \in Nat
        BY <1>1 DEF Row, Item, Time
      <3> QED BY <1>1, <3>1, <3>2
    <2> QED BY <1>2, <2>1, <2>2 DEF IsEligible
  <1> QED BY <1>3, <1>4, <1>5, <1>6

\* The claims a finalize leaves behind were outlived before.
LEMMA OthersOutlived ==
  ASSUME TypeOK, HeldFitsPc, ItemsFenced, LeaseExclusive,
         NEW w \in Workers, pc[w] = "finalizing", CarriesClaim(current[w]),
         NEW v \in Workers, NEW i \in LiveItems(v), i # current[w],
         i.row = current[w].row
  PROVE  /\ i.attempt_count < outbox[i.row].attempt_count
         /\ i.processing_started_at + Lease < current[w].processing_started_at
  <1>1. current[w] \in LiveItems(w) /\ current[w] \in Item /\ i \in Item
    BY LiveItemsTyped DEF HeldFitsPc, LiveItems, Delivering, TypeOK
  <1>2. v # w
    BY <1>1 DEF HeldFitsPc, LiveItems
  <1>3. i.attempt_count # current[w].attempt_count
    BY <1>1, <1>2 DEF LeaseExclusive, Item
  <1>4. i.attempt_count < outbox[i.row].attempt_count
    <2>1. i.attempt_count \in 1..outbox[i.row].attempt_count
      BY DEF ItemsFenced
    <2>2. outbox[i.row].attempt_count = current[w].attempt_count
      BY DEF CarriesClaim
    <2>3. outbox[i.row].attempt_count \in Nat
      BY <1>1 DEF TypeOK, Item, Row
    <2> QED BY <1>1, <1>3, <2>1, <2>2, <2>3
  <1>5. Outlived(i)
    BY <1>4 DEF ItemsFenced
  <1> QED BY <1>4, <1>5 DEF Outlived, CarriesClaim

LEMMA ItemsFencedStep ==
  TypeOK /\ HeldFitsPc /\ ClaimsLocked /\ ItemsFenced /\ LeaseExclusive /\ VerdictsSound
    /\ RowsSound /\ [Next]_vars
  => ItemsFenced'
  <1> SUFFICES ASSUME TypeOK, HeldFitsPc, ClaimsLocked, ItemsFenced, LeaseExclusive,
                      VerdictsSound, RowsSound, [Next]_vars
               PROVE  ItemsFenced'
    OBVIOUS
  <1> DEFINE Fenced(i) ==
        /\ i.attempt_count \in 1..outbox[i.row].attempt_count
        /\ i.processing_started_at <= clock
        /\ i.attempt_count = outbox[i.row].attempt_count => CarriesClaim(i)
        /\ i.attempt_count < outbox[i.row].attempt_count => Outlived(i)
  <1>a. \A w \in Workers : \A i \in LiveItems(w) :
            /\ Fenced(i)
            /\ i \in Item
            /\ i.row \in Rows
            /\ i.attempt_count \in Nat
            /\ i.processing_started_at \in Nat
            /\ outbox[i.row] \in Row
    BY LiveItemsTyped DEF ItemsFenced, TypeOK, Item, Time
  <1>b. SUFFICES ASSUME NEW v \in Workers, NEW i \in LiveItems(v)' PROVE Fenced(i)'
    BY DEF ItemsFenced
  <1>c. ASSUME i \in LiveItems(v), outbox'[i.row] = outbox[i.row],
               clock' \in {clock, clock + 1}
        PROVE  Fenced(i)'
    BY <1>a, <1>c DEF CarriesClaim, Outlived, TypeOK, Time
  <1>1. CASE NoClaimStep
    BY <1>1, <1>c DEF NoClaimStep
  <1>2. ASSUME NEW r \in Rows, Enqueue(r) PROVE Fenced(i)'
    <2>1. i \in LiveItems(v) /\ clock' = clock
      BY <1>2 DEF Enqueue, workerVars, LiveItems
    <2>2. i.row # r
      <3>1. outbox[r].attempt_count = 0
        BY <1>2 DEF Enqueue, RowsSound
      <3> QED BY <1>a, <2>1, <3>1
    <2>3. outbox'[i.row] = outbox[i.row]
      BY <1>2, <2>2 DEF Enqueue, TypeOK
    <2> QED BY <1>c, <2>1, <2>3
  <1>3. ASSUME NEW ids \in SUBSET Rows, ReplayDeadLetters(ids) PROVE Fenced(i)'
    <2>1. i \in LiveItems(v) /\ clock' = clock
      BY <1>3 DEF ReplayDeadLetters, workerVars, LiveItems
    <2>2. CASE outbox'[i.row] = outbox[i.row]
      BY <1>c, <2>1, <2>2
    <2>3. CASE outbox'[i.row] # outbox[i.row]
      <3>1. /\ outbox[i.row].state = "dead_letter"
            /\ outbox'[i.row] = [outbox[i.row] EXCEPT
                 !.state = "pending", !.available_at = clock,
                 !.processing_started_at = NoTime, !.last_error_code = "none"]
        BY <1>a, <1>3, <2>1, <2>3 DEF ReplayDeadLetters
      <3>2. /\ outbox'[i.row].state = "pending"
            /\ outbox'[i.row].available_at = clock
            /\ outbox'[i.row].attempt_count = outbox[i.row].attempt_count
        BY <1>a, <2>1, <3>1 DEF Row
      <3>3. i.attempt_count # outbox[i.row].attempt_count
        BY <1>a, <2>1, <3>1 DEF CarriesClaim
      <3>4. i.processing_started_at + Lease < clock
        <4>1. i.attempt_count < outbox[i.row].attempt_count
          BY <1>a, <2>1, <3>3 DEF Row
        <4> QED BY <1>a, <2>1, <3>1, <4>1 DEF Outlived
      <3> QED BY <1>a, <2>1, <3>2, <3>3, <3>4 DEF Outlived
    <2> QED BY <2>2, <2>3
  <1>4. ASSUME NEW w \in Workers, ClaimTakes(w) PROVE Fenced(i)'
    <2>1. CASE v = w
      <3>1. i \in held[w] /\ i \in Item
        BY <1>4, <2>1 DEF ClaimTakes, TypeOK
      <3>2. /\ i.attempt_count = outbox[i.row].attempt_count + 1
            /\ i.processing_started_at = now[w]
            /\ now[w] <= clock
        BY <1>4, <3>1 DEF ClaimTakes, ClaimsLocked, HeldFitsPc
      <3>3. /\ outbox'[i.row].state = "processing"
            /\ outbox'[i.row].processing_started_at = now[w]
            /\ outbox'[i.row].attempt_count = outbox[i.row].attempt_count + 1
        BY <1>4, <3>1, ClaimedRow DEF ClaimTakes, Item
      <3>4. outbox[i.row].attempt_count \in Nat
        BY <3>1 DEF TypeOK, Item, Row
      <3> QED BY <1>4, <3>2, <3>3, <3>4 DEF CarriesClaim, ClaimTakes
    <2>2. CASE v # w
      <3>1. i \in LiveItems(v) /\ clock' = clock /\ pc[w] = "claimed" /\ outbox' = Claimed(w)
        BY <1>4, <2>2 DEF ClaimTakes
      <3>2. CASE outbox'[i.row] = outbox[i.row]
        BY <1>c, <3>1, <3>2
      <3>3. CASE outbox'[i.row] # outbox[i.row]
        <4>1. /\ outbox'[i.row].state = "processing"
              /\ outbox'[i.row].processing_started_at = now[w]
              /\ outbox'[i.row].attempt_count = outbox[i.row].attempt_count + 1
              /\ \E j \in held[w] : j.row = i.row
          BY <1>a, <3>1, <3>3, ClaimedRow
        <4>2. i.processing_started_at + Lease < now[w]
          BY <3>1, <4>1, ClaimOutlives
        <4>3. outbox[i.row].attempt_count \in Nat
          BY <1>a, <3>1 DEF Row
        <4> QED BY <1>a, <3>1, <4>1, <4>2, <4>3 DEF Outlived
      <3> QED BY <3>2, <3>3
    <2> QED BY <2>1, <2>2
  <1>5. ASSUME NEW w \in Workers, FinalizeTakes(w) PROVE Fenced(i)'
    <2>1. i \in LiveItems(v) /\ clock' = clock
      BY <1>5 DEF FinalizeTakes
    <2>2. current[w] \in LiveItems(w) /\ current[w] \in Item /\ verdict[w] \in Verdict
      BY <1>5, LiveItemsTyped DEF FinalizeTakes, HeldFitsPc, LiveItems, Delivering, TypeOK
    <2>3. CASE outbox'[i.row] = outbox[i.row]
      BY <1>c, <2>1, <2>3
    <2>4. CASE outbox'[i.row] # outbox[i.row]
      <3>1. /\ i.row = current[w].row
            /\ CarriesClaim(current[w])
            /\ outbox'[i.row].state = verdict[w].state
            /\ outbox'[i.row].attempt_count = outbox[i.row].attempt_count
            /\ outbox'[i.row].available_at =
                 IF verdict[w].available_at = NoTime THEN outbox[i.row].available_at
                                                     ELSE verdict[w].available_at
        BY <1>5, <1>a, <2>1, <2>2, <2>4, FinalizedRowEffect DEF FinalizeTakes
      <3>2. i # current[w]
        <4>1. v = w => i # current[w]
          BY <1>5 DEF FinalizeTakes
        <4>2. v # w => i # current[w]
          BY <2>1, <2>2 DEF LeaseExclusive, Item
        <4> QED BY <4>1, <4>2
      <3>3. /\ i.attempt_count < outbox[i.row].attempt_count
            /\ i.processing_started_at + Lease < current[w].processing_started_at
        BY <1>5, <2>1, <3>1, <3>2, OthersOutlived DEF FinalizeTakes
      <3>4. current[w].processing_started_at <= clock /\ current[w].processing_started_at \in Nat
        BY <1>a, <2>2
      <3>5. /\ verdict[w].state \in {"delivered", "retryable", "dead_letter"}
            /\ verdict[w].state = "retryable" =>
                 verdict[w].available_at >= current[w].processing_started_at
        BY <1>5, <2>2 DEF VerdictsSound, FinalizeTakes, Verdict
      <3>6. verdict[w].state = "retryable" =>
              i.processing_started_at + Lease < outbox'[i.row].available_at
        <4> SUFFICES ASSUME verdict[w].state = "retryable"
                     PROVE  i.processing_started_at + Lease < outbox'[i.row].available_at
          OBVIOUS
        <4>1. verdict[w].available_at # NoTime /\ verdict[w].available_at \in Nat
          BY <2>2, <3>4, <3>5 DEF Verdict, Time, NoTime
        <4> QED BY <1>a, <2>1, <3>1, <3>3, <3>4, <3>5, <4>1
      <3>7. i.processing_started_at + Lease < clock
        BY <1>a, <2>1, <3>3, <3>4 DEF TypeOK, Time
      <3>8. Outlived(i)'
        BY <2>1, <3>1, <3>5, <3>6, <3>7 DEF Outlived
      <3> QED BY <1>a, <2>1, <3>1, <3>3, <3>8 DEF Row
    <2> QED BY <2>3, <2>4
  <1> QED BY <1>1, <1>2, <1>3, <1>4, <1>5, StepCases

LEMMA LeaseExclusiveStep ==
  TypeOK /\ HeldFitsPc /\ ClaimsLocked /\ ItemsFenced /\ LeaseExclusive /\ [Next]_vars
  => LeaseExclusive'
  <1> SUFFICES ASSUME TypeOK, HeldFitsPc, ClaimsLocked, ItemsFenced, LeaseExclusive,
                      [Next]_vars
               PROVE  LeaseExclusive'
    OBVIOUS
  <1>1. ASSUME \A v \in Workers : LiveItems(v)' \subseteq LiveItems(v)
        PROVE  LeaseExclusive'
    BY <1>1 DEF LeaseExclusive
  <1>2. ASSUME NEW w \in Workers, ClaimTakes(w) PROVE LeaseExclusive'
    <2>1. ASSUME NEW v \in Workers \ {w}, NEW i \in LiveItems(v)', NEW j \in LiveItems(w)',
                 i.row = j.row
          PROVE  /\ i.attempt_count < j.attempt_count
                 /\ i.processing_started_at + Lease < j.processing_started_at
      <3>1. i \in LiveItems(v) /\ i \in Item /\ j \in held[w] /\ j \in Item
        BY <1>2, LiveItemsTyped DEF ClaimTakes, TypeOK
      <3>2. /\ j.attempt_count = outbox[i.row].attempt_count + 1
            /\ j.processing_started_at = now[w]
        BY <1>2, <2>1, <3>1 DEF ClaimTakes, ClaimsLocked
      <3>3. i.processing_started_at + Lease < now[w]
        BY <1>2, <2>1, <3>1, ClaimOutlives DEF ClaimTakes
      <3>4. i.attempt_count \in 1..outbox[i.row].attempt_count
        BY <3>1 DEF ItemsFenced
      <3>5. outbox[i.row].attempt_count \in Nat
        BY <3>1 DEF TypeOK, Item, Row
      <3> QED BY <3>2, <3>3, <3>4, <3>5
    <2>2. \A v \in Workers \ {w} : LiveItems(v)' \subseteq LiveItems(v)
      BY <1>2 DEF ClaimTakes
    <2> QED BY <2>1, <2>2 DEF LeaseExclusive
  <1>3. ASSUME NEW r \in Rows, Enqueue(r) PROVE LeaseExclusive'
    BY <1>1, <1>3 DEF Enqueue, workerVars, LiveItems
  <1>4. ASSUME NEW ids \in SUBSET Rows, ReplayDeadLetters(ids) PROVE LeaseExclusive'
    BY <1>1, <1>4 DEF ReplayDeadLetters, workerVars, LiveItems
  <1>5. ASSUME NEW w \in Workers, FinalizeTakes(w) PROVE LeaseExclusive'
    BY <1>1, <1>5 DEF FinalizeTakes
  <1> QED BY <1>1, <1>2, <1>3, <1>4, <1>5, StepCases DEF NoClaimStep

\* InfluxDB never empties a cell.
LEMMA CellsStayFilled ==
  ASSUME TypeOK, HeldFitsPc, [Next]_vars, NEW c \in Cells, influx[c] # NoRow
  PROVE  influx'[c] # NoRow
  <1>1. CASE influx' = influx
    BY <1>1
  <1>2. ASSUME NEW q \in late, StoreLateWrite(q) PROVE influx'[c] # NoRow
    <2>1. q.row \in Rows
      BY DEF TypeOK, Request
    <2> QED BY <1>2, <2>1, RowsAssumption DEF StoreLateWrite, TypeOK
  <1>3. ASSUME NEW w \in Workers, StoreWrite(w) PROVE influx'[c] # NoRow
    <2>1. current[w].row \in Rows
      BY <1>3 DEF StoreWrite, HeldFitsPc, TypeOK, Item
    <2> QED BY <1>3, <2>1, RowsAssumption DEF StoreWrite, TypeOK
  <1>4. \/ influx' = influx
        \/ \E q \in late : StoreLateWrite(q)
        \/ \E w \in Workers : StoreWrite(w)
    BY DEF Next, WorkerStep, Tick, Enqueue, ReplayDeadLetters, Start, Stop, Exit, Crash,
           BeginCycle, SelectBatch, CommitClaim, ClaimFails, BeginWrite, WriteSucceeds,
           WriteFailsRetryable, WriteFailsPermanently, Finalize, FinalizeFails, EndCycle,
           vars
  <1> QED BY <1>1, <1>2, <1>3, <1>4

LEMMA VerdictsSoundStep ==
  TypeOK /\ HeldFitsPc /\ ItemsFenced /\ VerdictsSound /\ [Next]_vars => VerdictsSound'
  <1> SUFFICES ASSUME TypeOK, HeldFitsPc, ItemsFenced, VerdictsSound, [Next]_vars,
                      NEW v \in Workers
               PROVE  /\ pc'[v] = "stored" => influx'[CellOf(current'[v].row)] # NoRow
                      /\ pc'[v] = "finalizing" =>
                          /\ verdict'[v].state = "retryable" =>
                               verdict'[v].available_at >= current'[v].processing_started_at
                          /\ verdict'[v].state # "retryable" => verdict'[v].available_at = NoTime
                          /\ verdict'[v].state = "delivered" =>
                               influx'[CellOf(current'[v].row)] # NoRow
                          /\ verdict'[v].state = "dead_letter" =>
                               \/ verdict'[v].last_error_code = "permanent"
                               \/ current'[v].attempt_count >= MaxAttempts
                          /\ verdict'[v].state = "retryable" =>
                               /\ verdict'[v].last_error_code # "permanent"
                               /\ current'[v].attempt_count < MaxAttempts
    BY DEF VerdictsSound
  <1> DEFINE Goal ==
        /\ pc'[v] = "stored" => influx'[CellOf(current'[v].row)] # NoRow
        /\ pc'[v] = "finalizing" =>
            /\ verdict'[v].state = "retryable" =>
                 verdict'[v].available_at >= current'[v].processing_started_at
            /\ verdict'[v].state # "retryable" => verdict'[v].available_at = NoTime
            /\ verdict'[v].state = "delivered" =>
                 influx'[CellOf(current'[v].row)] # NoRow
            /\ verdict'[v].state = "dead_letter" =>
                 \/ verdict'[v].last_error_code = "permanent"
                 \/ current'[v].attempt_count >= MaxAttempts
            /\ verdict'[v].state = "retryable" =>
                 /\ verdict'[v].last_error_code # "permanent"
                 /\ current'[v].attempt_count < MaxAttempts
  <1>a. pc[v] \in {"writing", "stored", "finalizing"} =>
            /\ current[v] \in Item
            /\ current[v] \in LiveItems(v)
            /\ CellOf(current[v].row) \in Cells
    BY DEF HeldFitsPc, TypeOK, LiveItems, Delivering, Item, Cells
  <1>b. ASSUME pc'[v] = pc[v], current'[v] = current[v], verdict'[v] = verdict[v]
        PROVE  Goal
    <2>1. pc[v] \in {"stored", "finalizing"} /\ influx[CellOf(current[v].row)] # NoRow =>
            influx'[CellOf(current[v].row)] # NoRow
      BY <1>a, CellsStayFilled
    <2> QED BY <1>b, <2>1 DEF VerdictsSound
  <1>c. ASSUME pc'[v] \notin {"stored", "finalizing"} PROVE Goal
    BY <1>c
  <1>d. ASSUME NEW code \in {"transient", "permanent"}, pc[v] \in {"writing", "stored"},
               pc'[v] = "finalizing", current'[v] = current[v],
               verdict'[v] = FailureVerdict(current[v], code)
        PROVE  Goal
    <2>1. /\ current[v].processing_started_at <= clock
          /\ current[v].processing_started_at \in Nat
          /\ clock \in Nat /\ current[v].attempt_count \in Nat
          /\ Backoff(current[v].attempt_count) \in Nat
      BY <1>a, <1>d, BackoffType DEF ItemsFenced, Item, Time, TypeOK
    <2>2. CASE code = "permanent" \/ current[v].attempt_count >= MaxAttempts
      <3>1. verdict'[v] = [state |-> "dead_letter", available_at |-> NoTime,
                           last_error_code |-> code]
        BY <1>d, <2>2 DEF FailureVerdict
      <3> QED BY <1>d, <2>2, <3>1
    <2>3. CASE ~(code = "permanent" \/ current[v].attempt_count >= MaxAttempts)
      <3>1. verdict'[v] = [state |-> "retryable",
                           available_at |-> clock + Backoff(current[v].attempt_count),
                           last_error_code |-> code]
        BY <1>d, <2>3 DEF FailureVerdict
      <3>2. /\ code # "permanent"
            /\ current[v].attempt_count < MaxAttempts
        BY <2>1, <2>3, SettingsAssumption
      <3> QED BY <1>d, <2>1, <3>1, <3>2
    <2> QED BY <2>2, <2>3
  <1>1. CASE UNCHANGED vars BY <1>1, <1>b DEF vars, workerVars
  <1>2. CASE Tick BY <1>2, <1>b DEF Tick, workerVars
  <1>3. CASE \E r \in Rows : Enqueue(r) BY <1>3, <1>b DEF Enqueue, workerVars
  <1>4. CASE \E ids \in SUBSET Rows : ReplayDeadLetters(ids)
    BY <1>4, <1>b DEF ReplayDeadLetters, workerVars
  <1>5. CASE \E q \in late : StoreLateWrite(q) BY <1>5, <1>b DEF StoreLateWrite, workerVars
  <1>6. ASSUME NEW w \in Workers, v # w,
               \/ WorkerStep(w) \/ StoreWrite(w) \/ Start(w) \/ Stop(w) \/ Crash(w)
               \/ ClaimFails(w) \/ FinalizeFails(w)
        PROVE  Goal
    <2>1. /\ pc'[v] = pc[v]
          /\ current'[v] = current[v]
          /\ verdict'[v] = verdict[v]
      BY <1>6 DEF WorkerStep, Start, Stop, Exit, Crash, BeginCycle, SelectBatch, CommitClaim,
           ClaimFails, BeginWrite, StoreWrite, WriteSucceeds, WriteFailsRetryable,
           WriteFailsPermanently, Finalize, FinalizeFails, EndCycle, DropBatch, TypeOK
    <2> QED BY <1>b, <2>1
  <1>7. CASE StoreWrite(v)
    <2>1. current[v].row \in Rows /\ CellOf(current[v].row) \in Cells
      BY <1>7, <1>a DEF StoreWrite, Item
    <2>2. influx'[CellOf(current[v].row)] = current[v].row
      BY <1>7, <2>1 DEF StoreWrite, TypeOK
    <2> QED BY <1>7, <2>1, <2>2, RowsAssumption DEF StoreWrite, TypeOK
  <1>8. CASE WriteSucceeds(v)
    <2>1. influx'[CellOf(current[v].row)] # NoRow
      BY <1>8 DEF WriteSucceeds, VerdictsSound
    <2> QED BY <1>8, <2>1 DEF WriteSucceeds, DeliveredVerdict, TypeOK
  <1>9. CASE WriteFailsRetryable(v)
    BY <1>9, <1>d DEF WriteFailsRetryable, TypeOK
  <1>10. CASE WriteFailsPermanently(v)
    BY <1>10, <1>d DEF WriteFailsPermanently, TypeOK
  <1>11. CASE Stop(v)
    BY <1>11, <1>b DEF Stop
  <1>12. CASE \/ BeginCycle(v) \/ SelectBatch(v) \/ CommitClaim(v) \/ BeginWrite(v)
              \/ Finalize(v) \/ EndCycle(v) \/ Exit(v) \/ Start(v) \/ Crash(v)
              \/ ClaimFails(v) \/ FinalizeFails(v)
    BY <1>12, <1>c DEF BeginCycle, SelectBatch, CommitClaim, BeginWrite, Finalize, EndCycle,
       Exit, Start, Crash, ClaimFails, FinalizeFails, DropBatch, TypeOK
  <1> QED BY <1>1, <1>2, <1>3, <1>4, <1>5, <1>6, <1>7, <1>8, <1>9, <1>10, <1>11, <1>12
          DEF Next, WorkerStep

\* What happens to one row in a step.
LEMMA RowCases ==
  ASSUME TypeOK, HeldFitsPc, ClaimsLocked, [Next]_vars, NEW r \in Rows
  PROVE  \/ outbox'[r] = outbox[r]
         \/ /\ outbox[r].state = "absent"
            /\ outbox'[r].state = "pending"
            /\ outbox'[r].attempt_count = 0
         \/ /\ outbox[r].state = "dead_letter"
            /\ outbox'[r].state = "pending"
            /\ outbox'[r].attempt_count = outbox[r].attempt_count
         \/ \E w \in Workers :
            /\ ClaimTakes(w)
            /\ IsEligible(r, now[w])
            /\ outbox'[r].state = "processing"
            /\ outbox'[r].processing_started_at = now[w]
            /\ outbox'[r].attempt_count = outbox[r].attempt_count + 1
            /\ \E i \in held[w] : i.row = r
         \/ \E w \in Workers :
            /\ FinalizeTakes(w)
            /\ current[w] \in LiveItems(w)
            /\ r = current[w].row
            /\ CarriesClaim(current[w])
            /\ outbox'[r].state = verdict[w].state
            /\ outbox'[r].attempt_count = outbox[r].attempt_count
            /\ outbox'[r].last_error_code = verdict[w].last_error_code
  <1>1. CASE NoClaimStep
    BY <1>1 DEF NoClaimStep
  <1>2. ASSUME NEW s \in Rows, Enqueue(s), outbox'[r] # outbox[r]
        PROVE  /\ outbox[r].state = "absent"
               /\ outbox'[r].state = "pending"
               /\ outbox'[r].attempt_count = 0
    <2>1. s = r
      BY <1>2 DEF Enqueue, TypeOK
    <2>2. PICK t : outbox'[r] = [AbsentRow EXCEPT !.state = "pending", !.available_at = t]
      BY <1>2, <2>1 DEF Enqueue, TypeOK
    <2> QED BY <1>2, <2>1, <2>2 DEF Enqueue, AbsentRow
  <1>3. ASSUME NEW ids \in SUBSET Rows, ReplayDeadLetters(ids), outbox'[r] # outbox[r]
        PROVE  /\ outbox[r].state = "dead_letter"
               /\ outbox'[r].state = "pending"
               /\ outbox'[r].attempt_count = outbox[r].attempt_count
    <2>1. /\ outbox[r].state = "dead_letter"
          /\ outbox'[r] = [outbox[r] EXCEPT
                 !.state = "pending", !.available_at = clock,
                 !.processing_started_at = NoTime, !.last_error_code = "none"]
      BY <1>3 DEF ReplayDeadLetters
    <2>2. outbox[r] \in Row
      BY DEF TypeOK
    <2> QED BY <2>1, <2>2 DEF Row
  <1>4. ASSUME NEW w \in Workers, ClaimTakes(w), outbox'[r] # outbox[r]
        PROVE  /\ IsEligible(r, now[w])
               /\ outbox'[r].state = "processing"
               /\ outbox'[r].processing_started_at = now[w]
               /\ outbox'[r].attempt_count = outbox[r].attempt_count + 1
               /\ \E i \in held[w] : i.row = r
    BY <1>4, ClaimedRow DEF ClaimTakes
  <1>5. ASSUME NEW w \in Workers, FinalizeTakes(w), outbox'[r] # outbox[r]
        PROVE  /\ current[w] \in LiveItems(w)
               /\ r = current[w].row
               /\ CarriesClaim(current[w])
               /\ outbox'[r].state = verdict[w].state
               /\ outbox'[r].attempt_count = outbox[r].attempt_count
               /\ outbox'[r].last_error_code = verdict[w].last_error_code
    <2>1. current[w] \in LiveItems(w) /\ current[w] \in Item /\ verdict[w] \in Verdict
      BY <1>5, LiveItemsTyped DEF FinalizeTakes, HeldFitsPc, LiveItems, Delivering, TypeOK
    <2> QED BY <1>5, <2>1, FinalizedRowEffect DEF FinalizeTakes
  <1> QED BY <1>1, <1>2, <1>3, <1>4, <1>5, StepCases

LEMMA RowsSoundStep ==
  TypeOK /\ HeldFitsPc /\ ClaimsLocked /\ ItemsFenced /\ RowsSound /\ [Next]_vars
  => RowsSound'
  <1> SUFFICES ASSUME TypeOK, HeldFitsPc, ClaimsLocked, ItemsFenced, RowsSound, [Next]_vars
               PROVE  RowsSound'
    OBVIOUS
  <1>1. clock \in Nat /\ clock' \in {clock, clock + 1}
    BY StepCases DEF NoClaimStep, Enqueue, ReplayDeadLetters, ClaimTakes, FinalizeTakes,
                     TypeOK, Time
  <1>2. ASSUME NEW r \in Rows
        PROVE  /\ outbox'[r].state = "processing" =>
                    outbox'[r].processing_started_at \in 0..clock'
               /\ outbox'[r].state = "absent" => outbox'[r].attempt_count = 0
    <2>1. /\ outbox[r].state = "processing" => outbox[r].processing_started_at \in 0..clock
          /\ outbox[r].state = "absent" => outbox[r].attempt_count = 0
      BY DEF RowsSound
    <2>2. CASE outbox'[r] = outbox[r]
      BY <1>1, <2>1, <2>2
    <2>3. CASE outbox'[r].state = "pending"
      BY <2>3
    <2>4. ASSUME NEW w \in Workers, outbox'[r].state = "processing",
                 outbox'[r].processing_started_at = now[w]
          PROVE  /\ outbox'[r].processing_started_at \in 0..clock'
                 /\ outbox'[r].state # "absent"
      <3>1. now[w] \in Nat /\ now[w] <= clock
        BY DEF HeldFitsPc, TypeOK, Time
      <3> QED BY <1>1, <2>4, <3>1
    <2>5. ASSUME NEW w \in Workers, outbox'[r].state = verdict[w].state
          PROVE  outbox'[r].state \notin {"processing", "absent"}
      BY <2>5 DEF TypeOK, Verdict
    <2> QED BY <2>2, <2>3, <2>4, <2>5, RowCases
  <1>3. ASSUME NEW q \in late' PROVE outbox'[q.row].attempt_count > 0
    <2>1. q.row \in Rows /\ outbox[q.row].attempt_count > 0
      <3>1. CASE q \in late
        BY <3>1 DEF RowsSound, TypeOK, Request
      <3>2. ASSUME NEW w \in Workers, pc[w] = "writing", q = RequestOf(current[w])
            PROVE  q.row \in Rows /\ outbox[q.row].attempt_count > 0
        <4>1. current[w] \in LiveItems(w) /\ current[w] \in Item
          BY <3>2, LiveItemsTyped DEF HeldFitsPc, LiveItems, Delivering
        <4>2. /\ q.row = current[w].row
              /\ outbox[q.row].attempt_count \in Nat
              /\ current[w].attempt_count \in 1..outbox[q.row].attempt_count
          BY <3>2, <4>1 DEF RequestOf, ItemsFenced, Item, TypeOK, Row
        <4> QED BY <4>1, <4>2 DEF Item
      <3>3. q \in late \/ \E w \in Workers : pc[w] = "writing" /\ q = RequestOf(current[w])
        <4>1. \/ late' \subseteq late
              \/ \E w \in Workers : /\ pc[w] = "writing"
                                    /\ late' = late \cup {RequestOf(current[w])}
          BY DEF Next, WorkerStep, Tick, Enqueue, ReplayDeadLetters, Start, Stop, Exit, Crash,
             BeginCycle, SelectBatch, CommitClaim, ClaimFails, BeginWrite, StoreWrite,
             StoreLateWrite, WriteSucceeds, WriteFailsRetryable, WriteFailsPermanently,
             Finalize, FinalizeFails, EndCycle, vars
        <4> QED BY <4>1
      <3> QED BY <3>1, <3>2, <3>3
    <2>2. outbox[q.row].attempt_count \in Nat
      BY <2>1 DEF TypeOK, Row
    <2>3. \/ outbox'[q.row].attempt_count = outbox[q.row].attempt_count
          \/ outbox'[q.row].attempt_count = outbox[q.row].attempt_count + 1
      BY <2>1, RowCases DEF RowsSound
    <2> QED BY <2>1, <2>2, <2>3
  <1> QED BY <1>2, <1>3 DEF RowsSound

LEMMA DeliveredIsStoredStep ==
  TypeOK /\ HeldFitsPc /\ ClaimsLocked /\ VerdictsSound /\ DeliveredIsStored /\ [Next]_vars
  => DeliveredIsStored'
  <1> SUFFICES ASSUME TypeOK, HeldFitsPc, ClaimsLocked, VerdictsSound, DeliveredIsStored,
                      [Next]_vars, NEW r \in Rows, outbox'[r].state = "delivered"
               PROVE  influx'[CellOf(r)] # NoRow
    BY DEF DeliveredIsStored
  <1>1. CellOf(r) \in Cells
    BY DEF Cells
  <1>2. influx[CellOf(r)] # NoRow
    <2>1. CASE outbox'[r] = outbox[r]
      BY <2>1 DEF DeliveredIsStored
    <2>2. ASSUME NEW w \in Workers, FinalizeTakes(w), r = current[w].row,
                 outbox'[r].state = verdict[w].state
          PROVE  influx[CellOf(r)] # NoRow
      BY <2>2 DEF FinalizeTakes, VerdictsSound
    <2> QED BY <2>1, <2>2, RowCases
  <1> QED BY <1>1, <1>2, CellsStayFilled

-----------------------------------------------------------------------------
(* Theorems. *)

LEMMA InvInit == Init => TypeOK /\ DeliveryInv
  <1> SUFFICES ASSUME Init PROVE TypeOK /\ DeliveryInv
    OBVIOUS
  <1>1. TypeOK
    BY TypeInit
  <1>2. \A w \in Workers : pc[w] = "stopped" /\ held[w] = {} /\ now[w] = 0 /\ LiveItems(w) = {}
    BY DEF Init, LiveItems
  <1>3. \A r \in Rows : outbox[r].state = "absent" /\ outbox[r].attempt_count = 0
    BY DEF Init, AbsentRow
  <1>4. clock = 0 /\ late = {}
    BY DEF Init
  <1>5. HeldFitsPc /\ ClaimsLocked /\ ItemsFenced /\ LeaseExclusive /\ VerdictsSound
    BY <1>2, <1>4 DEF HeldFitsPc, ClaimsLocked, ItemsFenced, LeaseExclusive, VerdictsSound
  <1>6. RowsSound /\ DeliveredIsStored
    BY <1>3, <1>4 DEF RowsSound, DeliveredIsStored
  <1> QED BY <1>1, <1>5, <1>6 DEF DeliveryInv

LEMMA InvStep == TypeOK /\ DeliveryInv /\ [Next]_vars => (TypeOK /\ DeliveryInv)'
  BY TypeStep, HeldFitsPcStep, ClaimsLockedStep, ItemsFencedStep, LeaseExclusiveStep,
     VerdictsSoundStep, RowsSoundStep, DeliveredIsStoredStep
     DEF DeliveryInv

\* TypeOK and the inductive invariant hold in every reachable state.
THEOREM Invariance == Spec => [](TypeOK /\ DeliveryInv)
  BY InvInit, InvStep, PTL DEF Spec

\* Type correctness: every column, field and counter keeps its range.
THEOREM TypeCorrect == Spec => []TypeOK
  BY Invariance, PTL

\* Two workers that hold one row were never granted it within one lease.
THEOREM LeasesAreExclusive == Spec => []LeaseExclusive
  <1>1. TypeOK /\ DeliveryInv => LeaseExclusive
    BY DEF DeliveryInv
  <1> QED BY <1>1, Invariance, PTL

\* No row is reported delivered while InfluxDB holds nothing in its cell.
THEOREM DeliveredMeansStored == Spec => []DeliveredIsStored
  <1>1. TypeOK /\ DeliveryInv => DeliveredIsStored
    BY DEF DeliveryInv
  <1> QED BY <1>1, Invariance, PTL

\* A delivered row never changes again.
THEOREM DeliveredStaysDelivered == Spec => DeliveredIsFinal
  <1>1. TypeOK /\ DeliveryInv /\ [Next]_vars =>
          [\A r \in Rows : outbox[r].state = "delivered" => outbox'[r] = outbox[r]]_vars
    <2> SUFFICES ASSUME TypeOK, DeliveryInv, [Next]_vars, NEW r \in Rows,
                        outbox[r].state = "delivered"
                 PROVE  outbox'[r] = outbox[r]
      OBVIOUS
    <2> QED BY RowCases DEF DeliveryInv, IsEligible, CarriesClaim
  <1> QED BY <1>1, Invariance, PTL DEF Spec, DeliveredIsFinal

\* A row in processing changes only by a claim after its lease ran out or by
\* the finalize of the worker whose claim it carries.
THEOREM OnlyLeaseholdersSettle == Spec => OnlyLeaseholderSettles
  <1>1. TypeOK /\ DeliveryInv /\ [Next]_vars =>
          [\A r \in Rows :
            outbox[r].state = "processing" /\ outbox'[r] # outbox[r] =>
                \/ /\ outbox[r].processing_started_at + Lease < clock
                   /\ outbox'[r].attempt_count = outbox[r].attempt_count + 1
                \/ \E w \in Workers :
                    /\ current[w] \in LiveItems(w)
                    /\ current[w].row = r
                    /\ current[w].attempt_count = outbox[r].attempt_count]_vars
    <2> SUFFICES ASSUME TypeOK, DeliveryInv, [Next]_vars, NEW r \in Rows,
                        outbox[r].state = "processing", outbox'[r] # outbox[r]
                 PROVE  \/ /\ outbox[r].processing_started_at + Lease < clock
                           /\ outbox'[r].attempt_count = outbox[r].attempt_count + 1
                        \/ \E w \in Workers :
                            /\ current[w] \in LiveItems(w)
                            /\ current[w].row = r
                            /\ current[w].attempt_count = outbox[r].attempt_count
      OBVIOUS
    <2>1. ASSUME NEW w \in Workers, IsEligible(r, now[w])
          PROVE  outbox[r].processing_started_at + Lease < clock
      <3>1. /\ outbox[r].processing_started_at \in 0..clock
            /\ now[w] \in Nat /\ clock \in Nat /\ now[w] <= clock
        BY DEF DeliveryInv, RowsSound, HeldFitsPc, TypeOK, Time
      <3>2. outbox[r].processing_started_at < now[w] - Lease
        BY <2>1 DEF IsEligible
      <3> QED BY <3>1, <3>2
    <2> QED BY <2>1, RowCases DEF DeliveryInv, CarriesClaim
  <1> QED BY <1>1, Invariance, PTL DEF Spec, OnlyLeaseholderSettles

\* A row is given up or put back only by the failure of the last claim made on
\* it, while nobody else works on it but under an older claim, and is given up
\* exactly if the failure is permanent or its attempts are used up.
THEOREM FailuresSettleTheirClaim == Spec => FailureSettlesLastClaim
  <1>1. TypeOK /\ DeliveryInv /\ [Next]_vars =>
          [\A r \in Rows :
            outbox'[r] # outbox[r] /\ outbox'[r].state \in {"retryable", "dead_letter"} =>
                /\ \E w \in Workers :
                    /\ pc[w] = "finalizing"
                    /\ current[w].row = r
                    /\ current[w].attempt_count = outbox'[r].attempt_count
                    /\ \A v \in Workers \ {w} : \A i \in LiveItems(v) :
                        i.row = r => i.attempt_count < current[w].attempt_count
                /\ outbox'[r].state = "dead_letter" <=>
                    \/ outbox'[r].last_error_code = "permanent"
                    \/ outbox'[r].attempt_count >= MaxAttempts]_vars
    <2> SUFFICES ASSUME TypeOK, DeliveryInv, [Next]_vars, NEW r \in Rows,
                        outbox'[r] # outbox[r],
                        outbox'[r].state \in {"retryable", "dead_letter"}
                 PROVE  /\ \E w \in Workers :
                            /\ pc[w] = "finalizing"
                            /\ current[w].row = r
                            /\ current[w].attempt_count = outbox'[r].attempt_count
                            /\ \A v \in Workers \ {w} : \A i \in LiveItems(v) :
                                i.row = r => i.attempt_count < current[w].attempt_count
                        /\ outbox'[r].state = "dead_letter" <=>
                            \/ outbox'[r].last_error_code = "permanent"
                            \/ outbox'[r].attempt_count >= MaxAttempts
      OBVIOUS
    <2>1. PICK w \in Workers :
            /\ FinalizeTakes(w)
            /\ current[w] \in LiveItems(w)
            /\ r = current[w].row
            /\ CarriesClaim(current[w])
            /\ outbox'[r].state = verdict[w].state
            /\ outbox'[r].attempt_count = outbox[r].attempt_count
            /\ outbox'[r].last_error_code = verdict[w].last_error_code
      BY RowCases DEF DeliveryInv
    <2>2. /\ pc[w] = "finalizing"
          /\ current[w].attempt_count = outbox'[r].attempt_count
          /\ outbox'[r].attempt_count \in Nat
      BY <2>1 DEF FinalizeTakes, CarriesClaim, TypeOK, Row
    <2>3. ASSUME NEW v \in Workers \ {w}, NEW i \in LiveItems(v), i.row = r
          PROVE  i.attempt_count < current[w].attempt_count
      <3>1. i.attempt_count \in 1..current[w].attempt_count
        BY <2>1, <2>3 DEF DeliveryInv, ItemsFenced, CarriesClaim
      <3>2. \/ i.attempt_count < current[w].attempt_count
            \/ current[w].attempt_count < i.attempt_count
        BY <2>1, <2>3 DEF DeliveryInv, LeaseExclusive
      <3> QED BY <2>2, <3>1, <3>2
    <2>4. /\ verdict[w].state = "dead_letter" =>
             \/ verdict[w].last_error_code = "permanent"
             \/ current[w].attempt_count >= MaxAttempts
          /\ verdict[w].state = "retryable" =>
             /\ verdict[w].last_error_code # "permanent"
             /\ current[w].attempt_count < MaxAttempts
      BY <2>2 DEF DeliveryInv, VerdictsSound
    <2>5. outbox'[r].state = "dead_letter" <=>
            \/ outbox'[r].last_error_code = "permanent"
            \/ outbox'[r].attempt_count >= MaxAttempts
      BY <2>1, <2>2, <2>4, SettingsAssumption
    <2> QED BY <2>1, <2>2, <2>3, <2>5
  <1> QED BY <1>1, Invariance, PTL DEF Spec, FailureSettlesLastClaim

-----------------------------------------------------------------------------
(* Rows without faults. *)

\* A step that neither claims nor finalizes puts no row in processing and, unless
\* it is a fault, takes no item from a worker.
KeepsItems ==
    /\ \A r \in Rows : outbox'[r].state = "processing" => outbox'[r] = outbox[r]
    /\ \A v \in Workers : LiveItems(v) \subseteq LiveItems(v)'

LEMMA StepsWithoutFault ==
  ASSUME TypeOK, HeldFitsPc, [Next]_vars, faults' = 0
  PROVE  /\ faults = 0
         /\ KeepsItems \/ \E w \in Workers : CommitClaim(w) \/ Finalize(w)
  <1> USE DEF LiveItems, Delivering
  <1>1. CASE UNCHANGED vars
    BY <1>1 DEF vars, workerVars, KeepsItems
  <1>2. CASE Tick
    BY <1>2 DEF Tick, workerVars, KeepsItems
  <1>3. ASSUME NEW s \in Rows, Enqueue(s)
        PROVE  faults = 0 /\ KeepsItems
    <2>1. ASSUME NEW r \in Rows, outbox'[r] # outbox[r]
          PROVE  outbox'[r].state = "pending"
      <3>1. s = r
        BY <1>3, <2>1 DEF Enqueue, TypeOK
      <3>2. PICK t : outbox'[r] = [AbsentRow EXCEPT !.state = "pending", !.available_at = t]
        BY <1>3, <3>1 DEF Enqueue, TypeOK
      <3> QED BY <3>2 DEF AbsentRow
    <2> QED BY <1>3, <2>1 DEF Enqueue, workerVars, KeepsItems
  <1>4. ASSUME NEW ids \in SUBSET Rows, ReplayDeadLetters(ids)
        PROVE  faults = 0 /\ KeepsItems
    <2>1. ASSUME NEW r \in Rows, outbox'[r] # outbox[r]
          PROVE  outbox'[r].state = "pending"
      <3>1. outbox'[r] = [outbox[r] EXCEPT
                 !.state = "pending", !.available_at = clock,
                 !.processing_started_at = NoTime, !.last_error_code = "none"]
        BY <1>4, <2>1 DEF ReplayDeadLetters
      <3>2. outbox[r] \in Row
        BY DEF TypeOK
      <3> QED BY <3>1, <3>2 DEF Row
    <2> QED BY <1>4, <2>1 DEF ReplayDeadLetters, workerVars, KeepsItems
  <1>5. CASE \E q \in late : StoreLateWrite(q)
    BY <1>5 DEF StoreLateWrite, workerVars, KeepsItems
  <1>6. ASSUME NEW w \in Workers, Quiet(w)
        PROVE  faults = 0 /\ KeepsItems
    <2> USE DEF TypeOK, KeepsItems
    <2>1. CASE BeginCycle(w) BY <2>1 DEF BeginCycle
    <2>2. CASE BeginWrite(w) BY <2>2 DEF BeginWrite
    <2>3. CASE StoreWrite(w) BY <2>3 DEF StoreWrite
    <2>4. CASE WriteSucceeds(w) BY <2>4 DEF WriteSucceeds
    <2>5. CASE WriteFailsRetryable(w) BY <2>5 DEF WriteFailsRetryable
    <2>6. CASE WriteFailsPermanently(w) BY <2>6 DEF WriteFailsPermanently
    <2>7. CASE EndCycle(w) BY <2>7 DEF EndCycle
    <2>8. CASE Exit(w) BY <2>8 DEF Exit
    <2>9. CASE Start(w) BY <2>9 DEF Start, HeldFitsPc
    <2>10. CASE Stop(w) BY <2>10 DEF Stop
    <2>11. CASE Crash(w) BY <2>11 DEF Crash, Fault
    <2> QED BY <1>6, <2>1, <2>2, <2>3, <2>4, <2>5, <2>6, <2>7, <2>8, <2>9, <2>10, <2>11
            DEF Quiet
  <1>7. ASSUME NEW w \in Workers, SelectBatch(w)
        PROVE  faults = 0 /\ KeepsItems
    BY <1>7 DEF SelectBatch, TypeOK, KeepsItems
  <1>8. ASSUME NEW w \in Workers, ClaimFails(w) \/ FinalizeFails(w)
        PROVE  FALSE
    BY <1>8 DEF ClaimFails, FinalizeFails, Fault, TypeOK
  <1>9. ASSUME NEW w \in Workers, CommitClaim(w) \/ Finalize(w)
        PROVE  faults = 0
    BY <1>9 DEF CommitClaim, Finalize
  <1> QED BY <1>1, <1>2, <1>3, <1>4, <1>5, <1>6, <1>7, <1>8, <1>9, NextCases

LEMMA NoStrandedRowStep ==
  ASSUME TypeOK, DeliveryInv, NoStrandedRow, [Next]_vars
  PROVE  NoStrandedRow'
  <1> SUFFICES ASSUME faults' = 0, NEW r \in Rows, outbox'[r].state = "processing"
               PROVE  \E v \in Workers : \E i \in LiveItems(v)' :
                        i.row = r /\ CarriesClaim(i)'
    BY DEF NoStrandedRow
  <1>a. HeldFitsPc /\ ClaimsLocked
    BY DEF DeliveryInv
  <1>b. faults = 0 /\ (KeepsItems \/ \E w \in Workers : CommitClaim(w) \/ Finalize(w))
    BY <1>a, StepsWithoutFault
  \* A row that did not change keeps its holder, if that keeps the item.
  <1>c. ASSUME outbox'[r] = outbox[r]
        PROVE  \E v \in Workers : \E i \in LiveItems(v) :
                 i.row = r /\ CarriesClaim(i) /\ CarriesClaim(i)'
    BY <1>b, <1>c DEF NoStrandedRow, CarriesClaim
  <1>1. CASE KeepsItems
    BY <1>1, <1>c DEF KeepsItems
  <1>2. ASSUME NEW w \in Workers, CommitClaim(w)
        PROVE  \E v \in Workers : \E i \in LiveItems(v)' : i.row = r /\ CarriesClaim(i)'
    <2>1. /\ pc[w] = "claimed" /\ outbox' = Claimed(w)
          /\ LiveItems(w) = {} /\ LiveItems(w)' = held[w]
          /\ \A v \in Workers \ {w} : LiveItems(v)' = LiveItems(v)
      BY <1>2 DEF CommitClaim, LiveItems, Delivering, TypeOK
    <2>2. CASE \E i \in held[w] : i.row = r
      <3>1. PICK i \in held[w] : i.row = r
        BY <2>2
      <3>2. i.attempt_count = outbox[r].attempt_count + 1 /\ i.processing_started_at = now[w]
        BY <1>a, <2>1, <3>1 DEF ClaimsLocked
      <3>3. CarriesClaim(i)'
        BY <1>a, <2>1, <3>1, <3>2, ClaimedRow DEF CarriesClaim
      <3> QED BY <2>1, <3>1, <3>3
    <2>3. CASE \A i \in held[w] : i.row # r
      <3>1. outbox'[r] = outbox[r]
        BY <1>a, <2>1, <2>3, ClaimedRow
      <3> QED BY <1>c, <2>1, <3>1
    <2> QED BY <2>2, <2>3
  <1>3. ASSUME NEW w \in Workers, Finalize(w)
        PROVE  \E v \in Workers : \E i \in LiveItems(v)' : i.row = r /\ CarriesClaim(i)'
    <2>1. /\ pc[w] = "finalizing" /\ outbox' = Finalized(current[w], verdict[w])
          /\ LiveItems(w)' = LiveItems(w) \ {current[w]}
          /\ \A v \in Workers \ {w} : LiveItems(v)' = LiveItems(v)
      BY <1>3 DEF Finalize, LiveItems, Delivering, TypeOK
    <2>2. current[w] \in Item /\ verdict[w] \in Verdict
      BY <1>a, <2>1 DEF HeldFitsPc, TypeOK
    <2>3. verdict[w].state # "processing"
      BY <2>2 DEF Verdict
    <2>4. outbox'[r] = outbox[r]
      BY <2>1, <2>2, <2>3, FinalizedRowEffect
    <2>5. ~(r = current[w].row /\ CarriesClaim(current[w]))
      <3>1. SUFFICES ASSUME r = current[w].row, CarriesClaim(current[w])
                     PROVE  FALSE
        OBVIOUS
      <3>2. outbox'[r] = FinalizedRow(outbox[r], verdict[w])
        BY <2>1, <3>1 DEF Finalized, TypeOK
      <3>3. outbox[r] \in Row
        BY DEF TypeOK
      <3>4. outbox'[r].state = verdict[w].state
        BY <3>2, <3>3 DEF FinalizedRow, Row
      <3> QED BY <2>3, <3>4
    <2> QED BY <1>c, <2>1, <2>4, <2>5
  <1> QED BY <1>b, <1>1, <1>2, <1>3

\* Without faults every row in processing is in the hands of a worker whose
\* finalize will be accepted: starts, stops and replays strand none.
THEOREM RowsAreNotStranded == Spec => []NoStrandedRow
  <1>1. Init => NoStrandedRow
    BY DEF Init, NoStrandedRow, AbsentRow
  <1> QED BY <1>1, Invariance, NoStrandedRowStep, PTL DEF Spec

-----------------------------------------------------------------------------
(* The workers implement the delivery contract. *)

LEMMA ContractInit == Init => Contract!Init
  BY DEF Init, Contract!Init, StatusOf, AbsentRow

\* Every step of the system is a step of the contract or changes nothing of it.
LEMMA ContractStep ==
  TypeOK /\ DeliveryInv /\ [Next]_vars => [Contract!Next]_(Contract!vars)
  <1> DEFINE status == [r \in Rows |-> StatusOf(r)]
             tries == [r \in Rows |-> outbox[r].attempt_count]
             stored == {c \in Cells : influx[c] # NoRow}
  <1> SUFFICES ASSUME TypeOK, DeliveryInv, [Next]_vars
               PROVE  Contract!Next \/ UNCHANGED <<status, tries, stored>>
    BY DEF Contract!vars
  <1>a. HeldFitsPc /\ ClaimsLocked /\ ItemsFenced /\ VerdictsSound /\ RowsSound
    BY DEF DeliveryInv
  <1>1. CASE outbox' = outbox /\ influx' = influx
    BY <1>1 DEF StatusOf
  <1>2. ASSUME NEW row \in Rows, outbox[row].attempt_count > 0, outbox' = outbox,
               influx' = [influx EXCEPT ![CellOf(row)] = row]
        PROVE  Contract!Store(row)
    <2>1. CellOf(row) \in Cells /\ row # NoRow
      BY RowsAssumption DEF Cells
    <2>2. stored' = stored \cup {CellOf(row)}
      BY <1>2, <2>1 DEF TypeOK
    <2>3. UNCHANGED <<status, tries>> /\ tries[row] > 0
      BY <1>2 DEF StatusOf
    <2> QED BY <2>2, <2>3 DEF Contract!Store
  <1>3. ASSUME NEW q \in late, StoreLateWrite(q) PROVE Contract!Next
    <2>1. q.row \in Rows /\ outbox[q.row].attempt_count > 0
      BY <1>a DEF RowsSound, TypeOK, Request
    <2> QED BY <1>2, <1>3, <2>1 DEF StoreLateWrite, Contract!Next
  <1>4. ASSUME NEW w \in Workers, StoreWrite(w) PROVE Contract!Next
    <2>1. current[w] \in LiveItems(w) /\ current[w] \in Item
      BY <1>4, <1>a, LiveItemsTyped DEF StoreWrite, HeldFitsPc, LiveItems, Delivering
    <2>2. current[w].row \in Rows /\ outbox[current[w].row].attempt_count \in Nat
      BY <2>1 DEF Item, TypeOK, Row
    <2>3. current[w].attempt_count \in 1..outbox[current[w].row].attempt_count
      BY <1>a, <2>1 DEF ItemsFenced
    <2>4. outbox[current[w].row].attempt_count > 0
      BY <2>1, <2>2, <2>3 DEF Item
    <2> QED BY <1>2, <1>4, <2>2, <2>4 DEF StoreWrite, Contract!Next
  <1>5. \/ influx' = influx
        \/ \E q \in late : StoreLateWrite(q)
        \/ \E w \in Workers : StoreWrite(w)
    BY DEF Next, WorkerStep, Tick, Enqueue, ReplayDeadLetters, Start, Stop, Exit, Crash,
           BeginCycle, SelectBatch, CommitClaim, ClaimFails, BeginWrite, WriteSucceeds,
           WriteFailsRetryable, WriteFailsPermanently, Finalize, FinalizeFails, EndCycle,
           vars
  <1>6. ASSUME NEW r \in Rows, Enqueue(r), influx' = influx PROVE Contract!Next
    <2>1. /\ StatusOf(r) = "absent" /\ StatusOf(r)' = "open"
          /\ outbox'[r].attempt_count = outbox[r].attempt_count
      <3>1. PICK t : outbox' = [outbox EXCEPT ![r] =
                        [AbsentRow EXCEPT !.state = "pending", !.available_at = t]]
        BY <1>6 DEF Enqueue
      <3>2. outbox'[r].state = "pending" /\ outbox'[r].attempt_count = 0
        BY <3>1 DEF TypeOK, AbsentRow
      <3> QED BY <1>6, <1>a, <3>2 DEF StatusOf, Enqueue, RowsSound
    <2>2. \A s \in Rows \ {r} : outbox'[s] = outbox[s]
      BY <1>6 DEF Enqueue, TypeOK
    <2>3. status' = [status EXCEPT ![r] = "open"]
      BY <2>1, <2>2 DEF StatusOf
    <2>4. tries' = tries
      BY <2>1, <2>2
    <2>5. stored' = stored
      BY <1>6
    <2> QED BY <2>1, <2>3, <2>4, <2>5 DEF Contract!Enqueue, Contract!Next
  <1>7. ASSUME NEW ids \in SUBSET Rows, ReplayDeadLetters(ids), influx' = influx
        PROVE  Contract!Next
    <2> DEFINE batch == {r \in ids : outbox[r].state = "dead_letter"}
    <2>1. \A r \in Rows \ batch : outbox'[r] = outbox[r]
      BY <1>7 DEF ReplayDeadLetters
    <2>2. ASSUME NEW r \in batch
          PROVE  outbox'[r].state = "pending" /\ outbox'[r].attempt_count = outbox[r].attempt_count
      <3>1. outbox'[r] = [outbox[r] EXCEPT
                 !.state = "pending", !.available_at = clock,
                 !.processing_started_at = NoTime, !.last_error_code = "none"]
        BY <1>7 DEF ReplayDeadLetters
      <3>2. outbox[r] \in Row
        BY DEF TypeOK
      <3> QED BY <3>1, <3>2 DEF Row
    <2>3. status' = [r \in Rows |-> IF r \in batch THEN "open" ELSE status[r]]
      BY <2>1, <2>2 DEF StatusOf
    <2>4. tries' = tries
      BY <2>1, <2>2
    <2>5. stored' = stored
      BY <1>7
    <2>6. \A r \in batch : status[r] = "dead_letter"
      BY DEF StatusOf
    <2>7. Contract!Replay(batch)
      BY <2>3, <2>4, <2>5, <2>6 DEF Contract!Replay
    <2> QED BY <2>7 DEF Contract!Next
  <1>8. ASSUME NEW w \in Workers, ClaimTakes(w), influx' = influx PROVE Contract!Next
    <2> DEFINE batch == {r \in Rows : \E i \in held[w] : i.row = r}
    <2>1. ASSUME NEW r \in batch
          PROVE  /\ StatusOf(r) = "open" /\ StatusOf(r)' = "open"
                 /\ outbox'[r].attempt_count = outbox[r].attempt_count + 1
      BY <1>8, <1>a, ClaimedRow DEF ClaimTakes, StatusOf, IsEligible
    <2>2. \A r \in Rows \ batch : outbox'[r] = outbox[r]
      BY <1>8 DEF ClaimTakes, Claimed
    <2>3. status' = status
      BY <2>1, <2>2 DEF StatusOf
    <2>4. tries' = [r \in Rows |-> IF r \in batch THEN tries[r] + 1 ELSE tries[r]]
      BY <2>1, <2>2
    <2>5. stored' = stored
      BY <1>8
    <2>6. \A r \in batch : r \in Rows /\ status[r] = "open"
      BY <2>1
    <2>7. batch \in SUBSET Rows
      OBVIOUS
    <2> HIDE DEF batch
    <2>8. \E b \in SUBSET Rows : Contract!Attempt(b)
      BY <2>3, <2>4, <2>5, <2>6, <2>7 DEF Contract!Attempt
    <2> QED BY <2>8 DEF Contract!Next
  <1>9. ASSUME NEW w \in Workers, FinalizeTakes(w), influx' = influx
        PROVE  Contract!Next \/ UNCHANGED <<status, tries, stored>>
    <2>1. current[w] \in LiveItems(w) /\ current[w] \in Item /\ verdict[w] \in Verdict
      BY <1>9, <1>a, LiveItemsTyped DEF FinalizeTakes, HeldFitsPc, LiveItems, Delivering, TypeOK
    <2> DEFINE row == current[w].row
    <2>2. row \in Rows /\ stored' = stored
      BY <1>9, <2>1 DEF Item
    <2>3. \A r \in Rows \ {row} : outbox'[r] = outbox[r]
      BY <1>9, <2>1, FinalizedRowEffect DEF FinalizeTakes
    <2>4. CASE outbox'[row] = outbox[row]
      BY <2>2, <2>3, <2>4 DEF StatusOf
    <2>5. CASE outbox'[row] # outbox[row]
      <3>1. /\ CarriesClaim(current[w])
            /\ outbox'[row].state = verdict[w].state
            /\ outbox'[row].attempt_count = outbox[row].attempt_count
        BY <1>9, <2>1, <2>2, <2>5, FinalizedRowEffect DEF FinalizeTakes
      <3>2. tries' = tries /\ StatusOf(row) = "open"
        BY <2>3, <3>1 DEF CarriesClaim, StatusOf
      <3>3. CASE verdict[w].state = "retryable"
        BY <2>2, <2>3, <3>1, <3>2, <3>3 DEF StatusOf
      <3>4. CASE verdict[w].state = "delivered"
        <4>1. status' = [status EXCEPT ![row] = "delivered"]
          BY <2>2, <2>3, <3>1, <3>4 DEF StatusOf
        <4>2. CellOf(row) \in stored
          BY <1>9, <1>a, <2>2, <3>4 DEF VerdictsSound, FinalizeTakes, Cells
        <4>3. Contract!Deliver(row)
          BY <2>2, <3>2, <4>1, <4>2 DEF Contract!Deliver
        <4> QED BY <2>2, <4>3 DEF Contract!Next
      <3>5. CASE verdict[w].state = "dead_letter"
        <4>1. status' = [status EXCEPT ![row] = "dead_letter"]
          BY <2>2, <2>3, <3>1, <3>5 DEF StatusOf
        <4>2. outbox[row].attempt_count > 0
          <5>1. current[w].attempt_count \in 1..outbox[row].attempt_count
            BY <1>a, <2>1 DEF ItemsFenced
          <5>2. outbox[row].attempt_count \in Nat /\ current[w].attempt_count \in Nat
            BY <2>1, <2>2 DEF TypeOK, Row, Item
          <5> QED BY <5>1, <5>2
        <4>3. Contract!GiveUp(row)
          BY <2>2, <3>2, <4>1, <4>2 DEF Contract!GiveUp
        <4> QED BY <2>2, <4>3 DEF Contract!Next
      <3> QED BY <2>1, <3>3, <3>4, <3>5 DEF Verdict
    <2> QED BY <2>4, <2>5
  <1>10. CASE influx' = influx
    <2>1. CASE NoClaimStep
      BY <1>1, <1>10, <2>1 DEF NoClaimStep
    <2> QED BY <1>6, <1>7, <1>8, <1>9, <1>10, <1>a, <2>1, StepCases
  <1> QED BY <1>3, <1>4, <1>5, <1>10

\* The delivery path implements its contract, for any number of rows and
\* workers and under every interleaving, crash and lost answer.
THEOREM ImplementsContract == Spec => ContractSpec
  BY Invariance, ContractInit, ContractStep, PTL DEF Spec, ContractSpec, Contract!Spec
=============================================================================
