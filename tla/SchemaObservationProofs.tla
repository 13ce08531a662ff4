----------------------- MODULE SchemaObservationProofs -----------------------
(***************************************************************************)
(* Theorems about SchemaObservation, for any number of workers, tasks and  *)
(* streams: its catalog is right under every claim that is lost, reclaimed *)
(* or repeated, and it implements the schema registry.                     *)
(***************************************************************************)
EXTENDS SchemaObservation, TaskWorkersProofs, FiniteSetTheorems

-----------------------------------------------------------------------------
(* Every step is one of the queue; what it does beside it. *)

\* A worker that will hold its stream's lock held it before, or has just read.
ReadsUnderLock(v) ==
    \/ Stays(v) /\ pc[v] = "locked" /\ seen'[v] = seen[v]
    \/ /\ batch'[v] = batch[v]
       /\ FingerprintOf(CurrentTask(v)) # NoFingerprint
       /\ seen'[v] = SchemasSeen(CurrentTask(v))

\* A step that leaves the catalog alone.
Aside ==
    /\ UNCHANGED catalogVars
    /\ \A v \in Workers : pc'[v] = "locked" => ReadsUnderLock(v)

\* The commit of an observation.
Commit(w) ==
    /\ Complete(w)
    /\ ~ViolatesConstraint(w)
    /\ CatalogUpdate(w)
    /\ ForgetSeen(w)

LEMMA SchemasSeenType ==
  ASSUME TypeOK, NEW t \in Tasks
  PROVE  SchemasSeen(t) \in Seen
  <1> DEFINE of == schemas[StreamOf(t)]
             known == {v \in DOMAIN of : of[v].fingerprint = FingerprintOf(t)}
             v == IF known = {} THEN 0 ELSE CHOOSE v \in known : TRUE
  <1>1. of \in Seq([fingerprint : Fingerprints, count : Nat])
    BY StreamsAssumption DEF TypeOK
  <1>2. Len(of) \in Nat /\ DOMAIN of = 1..Len(of)
    BY <1>1, LenProperties
  <1>3. v \in 0..Len(of)
    BY <1>2
  <1>4. v # 0 => of[v] \in [fingerprint : Fingerprints, count : Nat]
    BY <1>1, <1>2, <1>3, ElementOfSeq
  <1>5. (IF v = 0 THEN 0 ELSE of[v].count) \in Nat
    BY <1>4
  <1>6. SchemasSeen(t) = [version |-> v, count |-> IF v = 0 THEN 0 ELSE of[v].count,
                          highest |-> Len(of)]
    BY DEF SchemasSeen
  <1> HIDE DEF v, of
  <1> QED BY <1>2, <1>3, <1>5, <1>6 DEF Seen

LEMMA StepSeen ==
  ASSUME TypeOK, BatchFitsPc, Next
  PROVE  seen' \in [Workers -> Seen]
  <1>1. ASSUME NEW w \in Workers, ForgetSeen(w) PROVE seen' \in [Workers -> Seen]
    BY <1>1 DEF ForgetSeen, NothingSeen, Seen, TypeOK
  <1>2. ASSUME NEW w \in Workers, LockStream(w) PROVE seen' \in [Workers -> Seen]
    <2>1. CurrentTask(w) \in Tasks
      BY <1>2, CurrentItemType DEF LockStream, BatchFitsPc, TypeOK
    <2> QED BY <1>2, <2>1, SchemasSeenType DEF LockStream, TypeOK
  <1>3. ASSUME UNCHANGED seen PROVE seen' \in [Workers -> Seen]
    BY <1>3 DEF TypeOK
  <1> QED BY <1>1, <1>2, <1>3 DEF Next, Step, WorkerStep, Reject, Observe, ObserveStale,
          ObserveConflicts, ObserveUnnoticed, ObservationCommitted

LEMMA StepCases ==
  ASSUME TypeOK, BatchFitsPc, Next
  PROVE  \/ QuietStep /\ Aside
         \/ \E w \in Workers :
                \/ Refuse(w) /\ FingerprintOf(CurrentTask(w)) = NoFingerprint /\ Aside
                \/ Commit(w)
  <1> USE DEF Aside
  <1>1. ASSUME UNCHANGED <<pc, batch, verdict, seen>>
        PROVE  \A v \in Workers : pc'[v] = "locked" => ReadsUnderLock(v)
    BY <1>1 DEF ReadsUnderLock, Stays
  <1>2. ASSUME NEW w \in Workers,
               \A v \in Workers \ {w} : Stays(v) /\ seen'[v] = seen[v],
               pc'[w] # "locked"
        PROVE  \A v \in Workers : pc'[v] = "locked" => ReadsUnderLock(v)
    BY <1>2 DEF ReadsUnderLock, Stays
  <1>3. ASSUME NEW w \in Workers, ForgetSeen(w) \/ UNCHANGED seen
        PROVE  \A v \in Workers \ {w} : seen'[v] = seen[v]
    BY <1>3 DEF ForgetSeen, TypeOK
  <1>4. CASE \/ Tick /\ UNCHANGED <<seen, catalogVars>>
             \/ \E t \in Tasks : CreateTask(t) /\ UNCHANGED <<seen, catalogVars>>
    BY <1>4, <1>1 DEF Tick, CreateTask, workerVars, QuietStep
  <1>5. ASSUME NEW w \in Workers,
               \/ QueueWorkerStep(w) /\ UNCHANGED <<seen, catalogVars>>
               \/ Start(w) /\ UNCHANGED <<seen, catalogVars>>
               \/ QueueFault(w) /\ ForgetSeen(w) /\ UNCHANGED catalogVars
               \/ ObserveStale(w) \/ ObserveConflicts(w)
        PROVE  QuietStep /\ Aside
    <2>1. QuietStep
      BY <1>5 DEF QuietStep, ObserveStale, ObserveConflicts, Raise
    <2>2. /\ UNCHANGED catalogVars
          /\ ForgetSeen(w) \/ UNCHANGED seen
      BY <1>5 DEF ObserveStale, ObserveConflicts
    <2>3. /\ pc'[w] # "locked"
          /\ \A v \in Workers \ {w} : Stays(v)
      BY <1>5 DEF QueueWorkerStep, QueueFault, Start, ObserveStale, ObserveConflicts, LoseClaim,
         SelectBatch, CommitClaim, EndBatch, CheckClaim, FinalizeFailure, ClaimFails, RollBack,
         FinalizeFailureFails, Halt, NextItem, Continue, Fail, Stays, TypeOK, QueueTypeOK
    <2> QED BY <1>2, <1>3, <2>1, <2>2, <2>3
  <1>6. ASSUME NEW w \in Workers, LockStream(w) PROVE QuietStep /\ Aside
    <2>1. Lock(w)
      BY <1>6 DEF LockStream, Lock
    <2>2. /\ seen'[w] = SchemasSeen(CurrentTask(w))
          /\ \A v \in Workers \ {w} : seen'[v] = seen[v]
      BY <1>6 DEF LockStream, TypeOK
    <2>3. /\ UNCHANGED batch
          /\ \A v \in Workers \ {w} : Stays(v)
          /\ FingerprintOf(CurrentTask(w)) # NoFingerprint
      BY <1>6 DEF LockStream, Stays, TypeOK, QueueTypeOK
    <2>4. \A v \in Workers : pc'[v] = "locked" => ReadsUnderLock(v)
      BY <2>2, <2>3 DEF ReadsUnderLock, Stays
    <2> QED BY <1>6, <2>1, <2>4 DEF QuietStep, LockStream
  <1>7. ASSUME NEW w \in Workers, Reject(w)
        PROVE  Refuse(w) /\ FingerprintOf(CurrentTask(w)) = NoFingerprint /\ Aside
    <2>1. \A v \in Workers \ {w} : Stays(v) /\ seen'[v] = seen[v]
      BY <1>7 DEF Reject, Fail, Stays, TypeOK, QueueTypeOK
    <2>2. pc'[w] # "locked"
      BY <1>7 DEF Reject, Fail, TypeOK, QueueTypeOK
    <2> QED BY <1>2, <1>7, <2>1, <2>2 DEF Reject, Refuse
  <1>8. ASSUME NEW w \in Workers, Observe(w) \/ ObserveUnnoticed(w) PROVE Commit(w)
    BY <1>8 DEF Observe, ObserveUnnoticed, ObservationCommitted, Commit, Complete
  <1> QED BY <1>4, <1>5, <1>6, <1>7, <1>8 DEF Next, Step, WorkerStep

-----------------------------------------------------------------------------
(* What the commit of an observation does to the catalog is a step of the    *)
(* registry: what was read under the lock is still so.                       *)

LEMMA StreamCatalogType ==
  ASSUME TypeOK, NEW s \in Streams
  PROVE  /\ schemas[s] \in Seq([fingerprint : Fingerprints, count : Nat])
         /\ Len(schemas[s]) \in Nat /\ DOMAIN schemas[s] = 1..Len(schemas[s])
         /\ \A v \in DOMAIN schemas[s] :
                schemas[s][v] \in [fingerprint : Fingerprints, count : Nat]
         /\ records[s] \in Seq([task : Tasks, version : Nat])
         /\ Len(records[s]) \in Nat /\ DOMAIN records[s] = 1..Len(records[s])
         /\ \A i \in DOMAIN records[s] : records[s][i] \in [task : Tasks, version : Nat]
         /\ drifts[s] \in Seq(Nat \X Nat)
         /\ Len(drifts[s]) \in Nat /\ DOMAIN drifts[s] = 1..Len(drifts[s])
  <1>1. /\ schemas[s] \in Seq([fingerprint : Fingerprints, count : Nat])
        /\ records[s] \in Seq([task : Tasks, version : Nat])
        /\ drifts[s] \in Seq(Nat \X Nat)
    BY DEF TypeOK
  <1> QED BY <1>1, LenProperties, ElementOfSeq

LEMMA CommitObserves ==
  ASSUME TypeOK, BatchFitsPc, SeenIsCurrent, NEW w \in Workers, Commit(w)
  PROVE  /\ CurrentTask(w) \in Tasks
         /\ FingerprintOf(CurrentTask(w)) \in Fingerprints
         /\ Registry!ObserveKnown(CurrentTask(w)) \/ Registry!ObserveNew(CurrentTask(w))
  <1> DEFINE t == CurrentTask(w)
             s == StreamOf(t)
             known == {v \in DOMAIN schemas[s] : schemas[s][v].fingerprint = FingerprintOf(t)}
             new == Len(schemas[s]) + 1
  <1>1. pc[w] = "locked" /\ t \in Tasks
    BY CurrentItemType DEF Commit, Complete, Completed, BatchFitsPc, TypeOK
  <1>2. FingerprintOf(t) \in Fingerprints /\ seen[w] = SchemasSeen(t)
    BY <1>1 DEF SeenIsCurrent, Fingerprints
  <1>3. s \in Streams /\ CurrentStream(w) = s
    BY <1>1, StreamsAssumption DEF CurrentStream
  <1>4. ~Registry!IsRecorded(t)
    BY <1>3 DEF Commit, ViolatesConstraint, Registry!IsRecorded
  <1>5. /\ schemas' = [schemas EXCEPT ![s] = SchemasWith(w)]
        /\ drifts' = [drifts EXCEPT ![s] = DriftsWith(w)]
        /\ records' = [records EXCEPT ![s] = Append(records[s], [task |-> t, version |-> VersionFor(w)])]
    BY <1>3 DEF Commit, CatalogUpdate, RecordsWith
  <1>6. seen[w].highest = Len(schemas[s])
    BY <1>2 DEF SchemasSeen
  <1>7. DOMAIN schemas[s] = 1..Len(schemas[s]) /\ Len(schemas[s]) \in Nat
    BY <1>3, StreamCatalogType
  <1>8. CASE known = {}
    <2>1. seen[w].version = 0
      BY <1>2, <1>8 DEF SchemasSeen
    <2>2. SchemasWith(w) = Append(schemas[s], [fingerprint |-> FingerprintOf(t), count |-> 1])
      BY <2>1, <1>3 DEF SchemasWith
    <2>3. VersionFor(w) = new
      BY <2>1, <1>6 DEF VersionFor
    <2>4. DriftsWith(w) = IF new = 1 THEN drifts[s] ELSE Append(drifts[s], <<new - 1, new>>)
      BY <2>1, <2>3, <1>3, <1>6, <1>7 DEF DriftsWith
    <2>5. drifts' = [drifts EXCEPT ![s] =
                        IF new = 1 THEN @ ELSE Append(@, <<new - 1, new>>)]
      BY <2>4, <1>5
    <2>6. Registry!ObserveNew(t)
      BY <2>2, <2>3, <2>5, <1>4, <1>5, <1>8 DEF Registry!ObserveNew, Registry!Recorded
    <2> QED BY <1>1, <1>2, <2>6
  <1>9. CASE known # {}
    <2> DEFINE v == CHOOSE v \in known : TRUE
    <2>1. v \in known
      BY <1>9
    <2>2. v # 0
      <3>1. \A u \in known : u # 0
        BY <1>7
      <3> QED BY <2>1, <3>1
    <2>a. seen[w] = LET u == IF known = {} THEN 0 ELSE v
                    IN [version |-> u, count |-> IF u = 0 THEN 0 ELSE schemas[s][u].count,
                        highest |-> Len(schemas[s])]
      BY <1>2 DEF SchemasSeen
    <2> HIDE DEF v, known
    <2>3. seen[w].version = v
      BY <1>9, <2>a
    <2>4. seen[w].count = schemas[s][v].count
      BY <1>9, <2>2, <2>a
    <2> USE DEF known
    <2>5. SchemasWith(w) = [schemas[s] EXCEPT ![v].count = schemas[s][v].count + 1]
      BY <2>2, <2>3, <2>4, <1>3 DEF SchemasWith
    <2>6. VersionFor(w) = v
      BY <2>2, <2>3 DEF VersionFor
    <2>7. DriftsWith(w) = drifts[s]
      BY <2>2, <2>3, <1>3 DEF DriftsWith
    <2>8. drifts' = drifts
      BY <2>7, <1>3, <1>5 DEF TypeOK
    <2>9. schemas' = [schemas EXCEPT ![s][v].count = @ + 1]
      BY <2>5, <1>5
    <2>10. Registry!ObserveKnown(t)
      BY <2>1, <2>6, <2>8, <2>9, <1>4, <1>5 DEF Registry!ObserveKnown, Registry!Recorded
    <2> QED BY <1>1, <1>2, <2>10
  <1> QED BY <1>8, <1>9

-----------------------------------------------------------------------------
(* Steps of the registry keep the catalog consistent. *)

\* The record of t is added under version v, a version with its fingerprint, and
\* no version is lost or changes its fingerprint.
Adds(t, v) ==
    /\ records' = Registry!Recorded(t, v)
    /\ v \in DOMAIN schemas'[StreamOf(t)]
    /\ schemas'[StreamOf(t)][v].fingerprint = FingerprintOf(t)
    /\ \A s \in Streams : \A u \in DOMAIN schemas[s] :
        /\ u \in DOMAIN schemas'[s]
        /\ schemas'[s][u].fingerprint = schemas[s][u].fingerprint

\* A known version is counted once more.
Counts(t, v) ==
    /\ v \in DOMAIN schemas[StreamOf(t)]
    /\ schemas[StreamOf(t)][v].fingerprint = FingerprintOf(t)
    /\ schemas' = [schemas EXCEPT ![StreamOf(t)][v].count = @ + 1]
    /\ UNCHANGED drifts

CatalogTyped ==
    /\ schemas \in [Streams -> Seq([fingerprint : Fingerprints, count : Nat])]
    /\ drifts \in [Streams -> Seq(Nat \X Nat)]
    /\ records \in [Streams -> Seq([task : Tasks, version : Nat])]

LEMMA RecordedType ==
  ASSUME TypeOK, NEW t \in Tasks, NEW v \in Nat
  PROVE  /\ Registry!Recorded(t, v) \in [Streams -> Seq([task : Tasks, version : Nat])]
         /\ Registry!Recorded(t, v)[StreamOf(t)]
                = Append(records[StreamOf(t)], [task |-> t, version |-> v])
         /\ \A s \in Streams \ {StreamOf(t)} : Registry!Recorded(t, v)[s] = records[s]
  <1>1. StreamOf(t) \in Streams
    BY StreamsAssumption
  <1>2. records[StreamOf(t)] \in Seq([task : Tasks, version : Nat])
    BY <1>1 DEF TypeOK
  <1>3. Append(records[StreamOf(t)], [task |-> t, version |-> v])
            \in Seq([task : Tasks, version : Nat])
    BY <1>2
  <1> QED BY <1>1, <1>3 DEF Registry!Recorded, TypeOK

\* The two kinds of step of the registry in detail.
LEMMA KnownEffect ==
  ASSUME TypeOK, NEW t \in Tasks, NEW v \in DOMAIN schemas[StreamOf(t)],
         schemas[StreamOf(t)][v].fingerprint = FingerprintOf(t),
         schemas' = [schemas EXCEPT ![StreamOf(t)][v].count = @ + 1]
  PROVE  /\ schemas' \in [Streams -> Seq([fingerprint : Fingerprints, count : Nat])]
         /\ \A s \in Streams \ {StreamOf(t)} : schemas'[s] = schemas[s]
         /\ Len(schemas'[StreamOf(t)]) = Len(schemas[StreamOf(t)])
         /\ \A u \in DOMAIN schemas[StreamOf(t)] :
                schemas'[StreamOf(t)][u] =
                    [schemas[StreamOf(t)][u] EXCEPT !.count =
                        IF u = v THEN @ + 1 ELSE @]
         /\ v \in Nat
  <1> DEFINE s == StreamOf(t)
             Schema == [fingerprint : Fingerprints, count : Nat]
             row == [schemas[s][v] EXCEPT !.count = @ + 1]
  <1>1. s \in Streams
    BY StreamsAssumption
  <1>2. /\ schemas[s] \in Seq(Schema)
        /\ Len(schemas[s]) \in Nat /\ DOMAIN schemas[s] = 1..Len(schemas[s])
        /\ \A u \in DOMAIN schemas[s] : schemas[s][u] \in Schema
    BY <1>1, StreamCatalogType
  <1>3. row \in Schema /\ v \in Nat
    <2>1. schemas[s][v] \in Schema
      BY <1>2
    <2>2. row \in Schema
      <3> HIDE DEF s
      <3> QED BY <2>1
    <2>3. v \in Nat
      <3> HIDE DEF row
      <3>1. v \in 1..Len(schemas[s])
        BY <1>2
      <3> QED BY <1>2, <3>1
    <2> QED BY <2>2, <2>3
  <1>4. schemas' = [schemas EXCEPT ![s] = [schemas[s] EXCEPT ![v] = row]]
    OBVIOUS
  <1>5. /\ [schemas[s] EXCEPT ![v] = row] \in Seq(Schema)
        /\ Len([schemas[s] EXCEPT ![v] = row]) = Len(schemas[s])
        /\ \A u \in 1..Len(schemas[s]) :
            [schemas[s] EXCEPT ![v] = row][u] = IF u = v THEN row ELSE schemas[s][u]
    BY <1>2, <1>3, ExceptSeq
  <1>6. schemas'[s] = [schemas[s] EXCEPT ![v] = row]
    BY <1>1, <1>4 DEF TypeOK
  <1>7. schemas' \in [Streams -> Seq(Schema)]
    BY <1>1, <1>4, <1>5 DEF TypeOK
  <1>8. \A u \in DOMAIN schemas[s] : schemas'[s][u] = IF u = v THEN row ELSE schemas[s][u]
    BY <1>2, <1>5, <1>6
  <1>9. \A u \in DOMAIN schemas[s] :
            schemas'[s][u] = [schemas[s][u] EXCEPT !.count = IF u = v THEN @ + 1 ELSE @]
    BY <1>2, <1>8
  <1>10. \A u \in Streams \ {s} : schemas'[u] = schemas[u]
    BY <1>4 DEF TypeOK
  <1>11. Len(schemas'[s]) = Len(schemas[s])
    BY <1>5, <1>6
  <1> QED BY <1>3, <1>7, <1>9, <1>10, <1>11

LEMMA NewEffect ==
  ASSUME TypeOK, NEW t \in Tasks, FingerprintOf(t) \in Fingerprints,
         Registry!ObserveNew(t)
  PROVE  LET s == StreamOf(t)
             new == Len(schemas[s]) + 1
         IN  /\ CatalogTyped'
             /\ \A u \in Streams \ {s} : schemas'[u] = schemas[u] /\ drifts'[u] = drifts[u]
             /\ Len(schemas'[s]) = new
             /\ \A u \in DOMAIN schemas[s] :
                    schemas'[s][u] = schemas[s][u] /\ u # new
             /\ schemas'[s][new] = [fingerprint |-> FingerprintOf(t), count |-> 1]
             /\ drifts'[s] = IF new = 1 THEN drifts[s]
                             ELSE Append(drifts[s], <<new - 1, new>>)
             /\ new \in Nat
  <1> DEFINE s == StreamOf(t)
             Schema == [fingerprint : Fingerprints, count : Nat]
             new == Len(schemas[s]) + 1
             row == [fingerprint |-> FingerprintOf(t), count |-> 1]
  <1>1. s \in Streams
    BY StreamsAssumption
  <1>2. /\ schemas[s] \in Seq(Schema)
        /\ Len(schemas[s]) \in Nat /\ DOMAIN schemas[s] = 1..Len(schemas[s])
        /\ drifts[s] \in Seq(Nat \X Nat)
    BY <1>1, StreamCatalogType
  <1>3. /\ schemas' = [schemas EXCEPT ![s] = Append(schemas[s], row)]
        /\ drifts' = [drifts EXCEPT ![s] = IF new = 1 THEN drifts[s]
                                           ELSE Append(drifts[s], <<new - 1, new>>)]
        /\ records' = Registry!Recorded(t, new)
    BY DEF Registry!ObserveNew
  <1>4. row \in Schema
    OBVIOUS
  <1>5. /\ Append(schemas[s], row) \in Seq(Schema)
        /\ Len(Append(schemas[s], row)) = new
        /\ \A u \in 1..Len(schemas[s]) : Append(schemas[s], row)[u] = schemas[s][u]
        /\ Append(schemas[s], row)[new] = row
    BY <1>2, <1>4, AppendProperties
  <1>6. (IF new = 1 THEN drifts[s] ELSE Append(drifts[s], <<new - 1, new>>)) \in Seq(Nat \X Nat)
    <2>1. <<new - 1, new>> \in Nat \X Nat
      BY <1>2
    <2> QED BY <2>1, <1>2, AppendProperties
  <1>7. /\ schemas'[s] = Append(schemas[s], row)
        /\ \A u \in Streams \ {s} : schemas'[u] = schemas[u]
        /\ schemas' \in [Streams -> Seq(Schema)]
    BY <1>1, <1>3, <1>5 DEF TypeOK
  <1>8. /\ drifts'[s] = IF new = 1 THEN drifts[s] ELSE Append(drifts[s], <<new - 1, new>>)
        /\ \A u \in Streams \ {s} : drifts'[u] = drifts[u]
        /\ drifts' \in [Streams -> Seq(Nat \X Nat)]
    BY <1>1, <1>3, <1>6 DEF TypeOK
  <1>9. records' \in [Streams -> Seq([task : Tasks, version : Nat])] /\ new \in Nat
    <2>1. new \in Nat
      BY <1>2
    <2> QED BY <2>1, <1>3, RecordedType
  <1>10. \A u \in DOMAIN schemas[s] : schemas'[s][u] = schemas[s][u] /\ u # new
    BY <1>2, <1>5, <1>7
  <1>11. Len(schemas'[s]) = new /\ schemas'[s][new] = row
    BY <1>5, <1>7
  <1>12. CatalogTyped'
    BY <1>7, <1>8, <1>9 DEF CatalogTyped
  <1> QED BY <1>7, <1>8, <1>9, <1>10, <1>11, <1>12

LEMMA RegistryAdds ==
  ASSUME TypeOK, NEW t \in Tasks, FingerprintOf(t) \in Fingerprints,
         Registry!ObserveKnown(t) \/ Registry!ObserveNew(t)
  PROVE  /\ CatalogTyped'
         /\ ~Registry!IsRecorded(t)
         /\ \/ \E v \in Nat : Adds(t, v) /\ Counts(t, v)
            \/ Registry!ObserveNew(t) /\ Adds(t, Len(schemas[StreamOf(t)]) + 1)
  <1> DEFINE s == StreamOf(t)
  <1>1. s \in Streams /\ DOMAIN schemas[s] = 1..Len(schemas[s]) /\ Len(schemas[s]) \in Nat
    BY StreamsAssumption, StreamCatalogType
  <1>2. CASE Registry!ObserveKnown(t)
    <2>1. PICK v \in DOMAIN schemas[s] :
            /\ schemas[s][v].fingerprint = FingerprintOf(t)
            /\ schemas' = [schemas EXCEPT ![s][v].count = @ + 1]
            /\ records' = Registry!Recorded(t, v)
      BY <1>2 DEF Registry!ObserveKnown
    <2>2. /\ schemas' \in [Streams -> Seq([fingerprint : Fingerprints, count : Nat])]
          /\ \A u \in Streams \ {s} : schemas'[u] = schemas[u]
          /\ Len(schemas'[s]) = Len(schemas[s])
          /\ \A u \in DOMAIN schemas[s] :
                schemas'[s][u] = [schemas[s][u] EXCEPT !.count = IF u = v THEN @ + 1 ELSE @]
          /\ v \in Nat
      BY <2>1, KnownEffect
    <2>3. DOMAIN schemas'[s] = DOMAIN schemas[s]
      BY <2>2, <1>1, LenProperties
    <2>4. \A u \in DOMAIN schemas[s] : schemas'[s][u].fingerprint = schemas[s][u].fingerprint
      <3> TAKE u \in DOMAIN schemas[s]
      <3>1. schemas[s][u] \in [fingerprint : Fingerprints, count : Nat]
        BY <1>1, StreamCatalogType
      <3> QED BY <2>2, <3>1
    <2>5. Adds(t, v) /\ Counts(t, v)
      BY <2>1, <2>2, <2>3, <2>4, <1>2 DEF Adds, Counts, Registry!ObserveKnown
    <2>6. CatalogTyped'
      BY <2>1, <2>2, <1>2, RecordedType DEF CatalogTyped, TypeOK, Registry!ObserveKnown
    <2> QED BY <2>2, <2>5, <2>6, <1>2 DEF Registry!ObserveKnown
  <1>3. CASE Registry!ObserveNew(t)
    <2> DEFINE new == Len(schemas[s]) + 1
    <2>1. /\ CatalogTyped'
          /\ \A u \in Streams \ {s} : schemas'[u] = schemas[u]
          /\ Len(schemas'[s]) = new
          /\ \A u \in DOMAIN schemas[s] : schemas'[s][u] = schemas[s][u]
          /\ schemas'[s][new] = [fingerprint |-> FingerprintOf(t), count |-> 1]
          /\ new \in Nat
      BY <1>3, NewEffect
    <2>2. DOMAIN schemas'[s] = 1..new
      BY <2>1, <1>1, LenProperties DEF CatalogTyped
    <2>3. Adds(t, new)
      BY <2>1, <2>2, <1>1, <1>3 DEF Adds, Registry!ObserveNew
    <2> QED BY <2>1, <2>3, <1>3 DEF Registry!ObserveNew
  <1> QED BY <1>2, <1>3

\* The records of a stream after t's is added.
LEMMA AddsRecord ==
  ASSUME TypeOK, NEW t \in Tasks, NEW v \in Nat, Adds(t, v)
  PROVE  /\ StreamOf(t) \in Streams
         /\ Len(records[StreamOf(t)]) \in Nat
         /\ DOMAIN records[StreamOf(t)] = 1..Len(records[StreamOf(t)])
         /\ DOMAIN records'[StreamOf(t)] = 1..(Len(records[StreamOf(t)]) + 1)
         /\ \A i \in 1..Len(records[StreamOf(t)]) :
                records'[StreamOf(t)][i] = records[StreamOf(t)][i]
         /\ records'[StreamOf(t)][Len(records[StreamOf(t)]) + 1].task = t
         /\ records'[StreamOf(t)][Len(records[StreamOf(t)]) + 1].version = v
         /\ \A s \in Streams \ {StreamOf(t)} : records'[s] = records[s]
  <1> DEFINE s == StreamOf(t)
             n == Len(records[s])
             record == [task |-> t, version |-> v]
             Record == [task : Tasks, version : Nat]
  <1>1. s \in Streams
    BY StreamsAssumption
  <1>2. records[s] \in Seq(Record) /\ n \in Nat /\ DOMAIN records[s] = 1..n
    BY <1>1, StreamCatalogType
  <1>3. record \in Record
    OBVIOUS
  <1>4. /\ records'[s] = Append(records[s], record)
        /\ \A u \in Streams \ {s} : records'[u] = records[u]
    BY RecordedType DEF Adds
  <1>5. /\ Append(records[s], record) \in Seq(Record)
        /\ Len(Append(records[s], record)) = n + 1
        /\ \A i \in 1..n : Append(records[s], record)[i] = records[s][i]
        /\ Append(records[s], record)[n + 1] = record
    BY <1>2, <1>3, AppendProperties
  <1>6. DOMAIN records'[s] = 1..(n + 1)
    BY <1>4, <1>5, LenProperties
  <1>7. \A i \in 1..n : records'[s][i] = records[s][i]
    BY <1>4, <1>5
  <1>8. records'[s][n + 1].task = t /\ records'[s][n + 1].version = v
    BY <1>4, <1>5
  <1> QED BY <1>1, <1>2, <1>4, <1>6, <1>7, <1>8

LEMMA AddsKeepsVersions ==
  ASSUME TypeOK, RecordsHaveVersions, NEW t \in Tasks, NEW v \in Nat, Adds(t, v)
  PROVE  RecordsHaveVersions'
  <1> SUFFICES ASSUME NEW s \in Streams, NEW i \in DOMAIN records'[s]
               PROVE  records'[s][i].version \in DOMAIN schemas'[s]
    BY DEF RecordsHaveVersions
  <1>1. CASE i \in DOMAIN records[s] /\ records'[s][i] = records[s][i]
    BY <1>1 DEF RecordsHaveVersions, Adds
  <1>2. CASE s = StreamOf(t) /\ records'[s][i].version = v
    BY <1>2 DEF Adds
  <1> QED BY <1>1, <1>2, AddsRecord

\* The task of an added record is completed by the same commit.
LEMMA AddsKeepsCompleted ==
  ASSUME TypeOK, CompletedIsRecorded, NEW t \in Tasks, NEW v \in Nat, Adds(t, v),
         ~Registry!IsRecorded(t),
         tasks'[t].state = "completed",
         \A u \in Tasks \ {t} : tasks'[u] = tasks[u]
  PROVE  CompletedIsRecorded'
  <1> DEFINE n == Len(records[StreamOf(t)])
             madeThen(u) == {i \in DOMAIN records'[StreamOf(u)] :
                                records'[StreamOf(u)][i].task = u}
             made(u) == {i \in DOMAIN records[StreamOf(u)] :
                            records[StreamOf(u)][i].task = u}
             IsRight(u, i) ==
                /\ records'[StreamOf(u)][i].version \in DOMAIN schemas'[StreamOf(u)]
                /\ schemas'[StreamOf(u)][records'[StreamOf(u)][i].version].fingerprint
                        = FingerprintOf(u)
  <1> SUFFICES ASSUME NEW u \in Tasks
               PROVE  IF tasks'[u].state # "completed" THEN madeThen(u) = {}
                      ELSE \E i \in madeThen(u) : madeThen(u) = {i} /\ IsRight(u, i)
    BY DEF CompletedIsRecorded
  <1>a. /\ StreamOf(t) \in Streams /\ n \in Nat
        /\ DOMAIN records[StreamOf(t)] = 1..n /\ DOMAIN records'[StreamOf(t)] = 1..(n + 1)
        /\ \A i \in 1..n : records'[StreamOf(t)][i] = records[StreamOf(t)][i]
        /\ records'[StreamOf(t)][n + 1].task = t
        /\ records'[StreamOf(t)][n + 1].version = v
        /\ \A s \in Streams \ {StreamOf(t)} : records'[s] = records[s]
    BY AddsRecord
  <1>1. CASE u = t
    <2>1. \A i \in 1..n : records[StreamOf(t)][i].task # t
      BY <1>a DEF Registry!IsRecorded
    <2>2. madeThen(t) = {n + 1}
      <3>1. \A i \in 1..(n + 1) : records'[StreamOf(t)][i].task = t <=> i = n + 1
        BY SMTT(30), <2>1, <1>a
      <3> QED BY <3>1, <1>a
    <2>3. IsRight(t, n + 1)
      BY <1>a DEF Adds
    <2> QED BY <1>1, <2>2, <2>3
  <1>2. CASE u # t
    <2>1. madeThen(u) = made(u) /\ \A i \in made(u) :
            records'[StreamOf(u)][i] = records[StreamOf(u)][i]
      <3>1. CASE StreamOf(u) = StreamOf(t)
        <4>1. \A i \in 1..(n + 1) : records'[StreamOf(t)][i].task = u
                    <=> i \in 1..n /\ records[StreamOf(t)][i].task = u
          BY SMTT(30), <1>a, <1>2
        <4>2. madeThen(u) = made(u)
          BY <4>1, <3>1, <1>a
        <4> QED BY <4>2, <3>1, <1>a
      <3>2. CASE StreamOf(u) # StreamOf(t)
        BY <3>2, <1>a, StreamsAssumption
      <3> QED BY <3>1, <3>2
    <2>2. CASE tasks[u].state # "completed"
      BY <1>2, <2>1, <2>2 DEF CompletedIsRecorded
    <2>3. CASE tasks[u].state = "completed"
      <3>1. PICK i \in made(u) :
                /\ made(u) = {i}
                /\ records[StreamOf(u)][i].version \in DOMAIN schemas[StreamOf(u)]
                /\ schemas[StreamOf(u)][records[StreamOf(u)][i].version].fingerprint
                        = FingerprintOf(u)
        BY <2>3 DEF CompletedIsRecorded
      <3>2. IsRight(u, i)
        BY <2>1, <3>1, StreamsAssumption DEF Adds
      <3> QED BY <1>2, <2>1, <2>3, <3>1, <3>2
    <2> QED BY <2>2, <2>3
  <1> QED BY <1>1, <1>2

\* The records of stream s that are of version u.
RecordedAs(s, u) == {i \in DOMAIN records[s] : records[s][i].version = u}

\* Their number after one is added.
LEMMA AddsCounts ==
  ASSUME TypeOK, NEW t \in Tasks, NEW v \in Nat, Adds(t, v), NEW s \in Streams, NEW u
  PROVE  /\ Cardinality(RecordedAs(s, u)) \in Nat
         /\ Cardinality(RecordedAs(s, u)') =
                IF s = StreamOf(t) /\ u = v THEN Cardinality(RecordedAs(s, u)) + 1
                                            ELSE Cardinality(RecordedAs(s, u))
  <1> DEFINE n == Len(records[s])
             made == {i \in DOMAIN records[s] : records[s][i].version = u}
             madeThen == {i \in DOMAIN records'[s] : records'[s][i].version = u}
  <1>1. n \in Nat /\ DOMAIN records[s] = 1..n
    BY StreamCatalogType
  <1>2. IsFiniteSet(1..n) /\ made \subseteq 1..n
    BY <1>1, FS_Interval
  <1>3. IsFiniteSet(made)
    BY <1>2, FS_Subset
  <1>4. Cardinality(made) \in Nat
    BY <1>3, FS_CardinalityType
  <1>5. s = StreamOf(t) =>
            /\ DOMAIN records'[s] = 1..(n + 1)
            /\ \A i \in 1..n : records'[s][i] = records[s][i]
            /\ records'[s][n + 1].version = v
    BY AddsRecord
  <1>6. ASSUME s = StreamOf(t), u = v PROVE Cardinality(madeThen) = Cardinality(made) + 1
    <2>1. \A i \in 1..(n + 1) : records'[s][i].version = u
                <=> i = n + 1 \/ (i \in 1..n /\ records[s][i].version = u)
      BY <1>1, <1>5, <1>6
    <2>2. madeThen = made \cup {n + 1} /\ n + 1 \notin made
      BY SMTT(30), <2>1, <1>1, <1>5, <1>6
    <2> HIDE DEF made, madeThen
    <2> QED BY <1>3, <2>2, FS_AddElement
  <1>7. ASSUME s = StreamOf(t), u # v PROVE Cardinality(madeThen) = Cardinality(made)
    <2>1. \A i \in 1..(n + 1) : records'[s][i].version = u
                <=> i \in 1..n /\ records[s][i].version = u
      BY <1>1, <1>5, <1>7
    <2>2. madeThen = made
      BY <2>1, <1>1, <1>5, <1>7
    <2> QED BY <2>2
  <1>8. ASSUME s # StreamOf(t) PROVE Cardinality(madeThen) = Cardinality(made)
    <2>1. records'[s] = records[s]
      BY <1>8, AddsRecord
    <2> QED BY <2>1
  <1>9. Cardinality(madeThen) =
            IF s = StreamOf(t) /\ u = v THEN Cardinality(made) + 1 ELSE Cardinality(made)
    BY <1>6, <1>7, <1>8
  <1>10. RecordedAs(s, u) = made /\ RecordedAs(s, u)' = madeThen
    BY DEF RecordedAs
  <1> HIDE DEF made, madeThen
  <1> QED BY <1>4, <1>9, <1>10

\* Each count goes up with the records of its version.
LEMMA RegistryKeepsCounts ==
  ASSUME TypeOK, RecordsHaveVersions, CountsMatch,
         NEW t \in Tasks, FingerprintOf(t) \in Fingerprints,
         Registry!ObserveKnown(t) \/ Registry!ObserveNew(t)
  PROVE  CountsMatch'
  <1> DEFINE made(s, u) == RecordedAs(s, u)
             madeThen(s, u) == RecordedAs(s, u)'
             new == Len(schemas[StreamOf(t)]) + 1
  <1>1. \A s \in Streams : \A u \in DOMAIN schemas[s] :
            schemas[s][u].count = Cardinality(made(s, u))
    BY DEF CountsMatch, RecordedAs
  <1>2. ASSUME NEW v \in Nat, Adds(t, v), NEW s \in Streams, NEW u
        PROVE  Cardinality(madeThen(s, u)) =
                    IF s = StreamOf(t) /\ u = v THEN Cardinality(made(s, u)) + 1
                                                ELSE Cardinality(made(s, u))
    BY <1>2, AddsCounts
  <1>3. \A u : (\A i \in DOMAIN records[StreamOf(t)] : records[StreamOf(t)][i].version # u)
                => Cardinality(made(StreamOf(t), u)) = 0
    <2> TAKE u
    <2> HAVE \A i \in DOMAIN records[StreamOf(t)] : records[StreamOf(t)][i].version # u
    <2>1. made(StreamOf(t), u) = {}
      BY DEF RecordedAs
    <2> QED BY <2>1, FS_EmptySet
  <1>4. StreamOf(t) \in Streams /\ DOMAIN schemas[StreamOf(t)] = 1..Len(schemas[StreamOf(t)])
        /\ Len(schemas[StreamOf(t)]) \in Nat
    BY StreamsAssumption, StreamCatalogType
  <1>5. \A u \in DOMAIN schemas[StreamOf(t)] :
            schemas[StreamOf(t)][u] \in [fingerprint : Fingerprints, count : Nat]
    BY <1>4, StreamCatalogType
  <1>6. Cardinality(made(StreamOf(t), new)) = 0
    BY <1>3, <1>4 DEF RecordsHaveVersions
  <1> SUFFICES ASSUME NEW s \in Streams, NEW u \in DOMAIN schemas'[s]
               PROVE  schemas'[s][u].count = Cardinality(madeThen(s, u))
    BY DEF CountsMatch, RecordedAs
  <1> HIDE DEF made, madeThen
  <1>7. ASSUME NEW v \in Nat, Adds(t, v), Counts(t, v)
        PROVE  schemas'[s][u].count = Cardinality(madeThen(s, u))
    <2>1. /\ \A r \in Streams \ {StreamOf(t)} : schemas'[r] = schemas[r]
          /\ Len(schemas'[StreamOf(t)]) = Len(schemas[StreamOf(t)])
          /\ \A r \in DOMAIN schemas[StreamOf(t)] :
                schemas'[StreamOf(t)][r] =
                    [schemas[StreamOf(t)][r] EXCEPT !.count = IF r = v THEN @ + 1 ELSE @]
          /\ schemas' \in [Streams -> Seq([fingerprint : Fingerprints, count : Nat])]
      BY <1>7, KnownEffect DEF Counts
    <2>2. DOMAIN schemas'[StreamOf(t)] = DOMAIN schemas[StreamOf(t)]
      BY <2>1, <1>4, LenProperties
    <2>3. CASE s = StreamOf(t)
      <3>1. /\ schemas[s][u] \in [fingerprint : Fingerprints, count : Nat]
            /\ schemas'[s][u] = [schemas[s][u] EXCEPT !.count = IF u = v THEN @ + 1 ELSE @]
            /\ schemas[s][u].count = Cardinality(made(s, u))
        BY <2>1, <2>2, <2>3, <1>1, <1>5
      <3>2. schemas'[s][u].count = IF u = v THEN schemas[s][u].count + 1
                                            ELSE schemas[s][u].count
        BY <3>1
      <3> QED BY <3>1, <3>2, <2>3, <1>2, <1>7
    <2>4. CASE s # StreamOf(t)
      BY <2>1, <2>4, <1>1, <1>2, <1>7
    <2> QED BY <2>3, <2>4
  <1>8. ASSUME Registry!ObserveNew(t), Adds(t, new)
        PROVE  schemas'[s][u].count = Cardinality(madeThen(s, u))
    <2>1. /\ \A r \in Streams \ {StreamOf(t)} : schemas'[r] = schemas[r]
          /\ Len(schemas'[StreamOf(t)]) = new
          /\ \A r \in DOMAIN schemas[StreamOf(t)] :
                schemas'[StreamOf(t)][r] = schemas[StreamOf(t)][r] /\ r # new
          /\ schemas'[StreamOf(t)][new] = [fingerprint |-> FingerprintOf(t), count |-> 1]
          /\ schemas' \in [Streams -> Seq([fingerprint : Fingerprints, count : Nat])]
          /\ new \in Nat
      BY <1>8, NewEffect DEF CatalogTyped
    <2>2. DOMAIN schemas'[StreamOf(t)] = 1..new
      BY <2>1, <1>4, LenProperties
    <2>3. CASE s = StreamOf(t) /\ u = new
      <3>1. schemas'[s][u].count = 1
        BY <2>1, <2>3
      <3> QED BY <3>1, <2>1, <2>3, <1>2, <1>6, <1>8
    <2>4. CASE s = StreamOf(t) /\ u # new
      <3>1. u \in DOMAIN schemas[s]
        BY <2>2, <2>4, <1>4
      <3> QED BY <3>1, <2>1, <2>4, <1>1, <1>2, <1>8
    <2>5. CASE s # StreamOf(t)
      BY <2>1, <2>5, <1>1, <1>2, <1>8
    <2> QED BY <2>3, <2>4, <2>5
  <1> QED BY <1>7, <1>8, RegistryAdds

\* Only a new fingerprint opens a version, next to the highest one.
LEMMA RegistryKeepsChain ==
  ASSUME TypeOK, VersionsChain, NEW t \in Tasks, FingerprintOf(t) \in Fingerprints,
         Registry!ObserveKnown(t) \/ Registry!ObserveNew(t)
  PROVE  VersionsChain'
  <1> DEFINE new == Len(schemas[StreamOf(t)]) + 1
             Chain(s) ==
                /\ \A v, u \in DOMAIN schemas'[s] :
                    schemas'[s][v].fingerprint = schemas'[s][u].fingerprint => v = u
                /\ Len(drifts'[s]) = IF schemas'[s] = <<>> THEN 0 ELSE Len(schemas'[s]) - 1
                /\ \A i \in DOMAIN drifts'[s] : drifts'[s][i] = <<i, i + 1>>
  <1>a. CatalogTyped' /\ StreamOf(t) \in Streams
    BY RegistryAdds, StreamsAssumption
  <1> SUFFICES ASSUME NEW s \in Streams PROVE Chain(s)
    BY DEF VersionsChain
  <1>1. /\ \A v, u \in DOMAIN schemas[s] :
            schemas[s][v].fingerprint = schemas[s][u].fingerprint => v = u
        /\ Len(drifts[s]) = IF schemas[s] = <<>> THEN 0 ELSE Len(schemas[s]) - 1
        /\ \A i \in DOMAIN drifts[s] : drifts[s][i] = <<i, i + 1>>
    BY DEF VersionsChain
  <1>2. /\ DOMAIN schemas[s] = 1..Len(schemas[s]) /\ Len(schemas[s]) \in Nat
        /\ schemas[s] = <<>> <=> Len(schemas[s]) = 0
        /\ drifts[s] \in Seq(Nat \X Nat)
        /\ DOMAIN drifts[s] = 1..Len(drifts[s])
    BY StreamCatalogType, EmptySeq
  <1>3. /\ DOMAIN schemas'[s] = 1..Len(schemas'[s]) /\ Len(schemas'[s]) \in Nat
        /\ schemas'[s] = <<>> <=> Len(schemas'[s]) = 0
    <2>1. schemas'[s] \in Seq([fingerprint : Fingerprints, count : Nat])
      BY <1>a DEF CatalogTyped
    <2> QED BY <2>1, LenProperties, EmptySeq
  <1>4. CASE schemas'[s] = schemas[s] /\ drifts'[s] = drifts[s]
    BY <1>1, <1>4
  <1>5. ASSUME NEW v \in Nat, Counts(t, v), s = StreamOf(t)
        PROVE  Chain(s)
    <2>1. /\ Len(schemas'[s]) = Len(schemas[s])
          /\ \A r \in DOMAIN schemas[s] : schemas'[s][r] =
                [schemas[s][r] EXCEPT !.count = IF r = v THEN @ + 1 ELSE @]
          /\ drifts'[s] = drifts[s]
      BY <1>5, KnownEffect DEF Counts
    <2>2. \A r \in DOMAIN schemas[s] : schemas'[s][r].fingerprint = schemas[s][r].fingerprint
      <3> TAKE r \in DOMAIN schemas[s]
      <3>1. schemas[s][r] \in [fingerprint : Fingerprints, count : Nat]
        BY StreamCatalogType
      <3> QED BY <2>1, <3>1
    <2> QED BY <1>1, <1>2, <1>3, <2>1, <2>2
  <1>6. ASSUME Registry!ObserveNew(t), s = StreamOf(t) PROVE Chain(s)
    <2>1. /\ Len(schemas'[s]) = new
          /\ \A r \in DOMAIN schemas[s] : schemas'[s][r] = schemas[s][r] /\ r # new
          /\ schemas'[s][new] = [fingerprint |-> FingerprintOf(t), count |-> 1]
          /\ drifts'[s] = IF new = 1 THEN drifts[s] ELSE Append(drifts[s], <<new - 1, new>>)
          /\ new \in Nat
      BY <1>6, NewEffect
    <2>2. \A r \in DOMAIN schemas[s] : schemas[s][r].fingerprint # FingerprintOf(t)
      BY <1>6 DEF Registry!ObserveNew
    <2>3. \A v, u \in DOMAIN schemas'[s] :
            schemas'[s][v].fingerprint = schemas'[s][u].fingerprint => v = u
      <3>1. schemas'[s][new].fingerprint = FingerprintOf(t)
        BY <2>1
      <3>2. DOMAIN schemas'[s] = DOMAIN schemas[s] \cup {new}
        BY <1>2, <1>3, <1>6, <2>1
      <3> QED BY SMTT(30), <1>1, <2>1, <2>2, <3>1, <3>2
    <2>4. CASE new = 1
      BY <1>1, <1>2, <1>3, <1>6, <2>1, <2>3, <2>4
    <2>5. CASE new # 1
      <3>1. Len(drifts[s]) = new - 2 /\ <<new - 1, new>> \in Nat \X Nat
        BY <1>1, <1>2, <1>6, <2>1, <2>5
      <3>2. drifts'[s] = Append(drifts[s], <<new - 1, new>>)
        BY <2>1, <2>5
      <3>3. /\ Len(drifts'[s]) = new - 1
            /\ DOMAIN drifts'[s] = 1..(new - 1)
            /\ \A i \in 1..(new - 2) : drifts'[s][i] = drifts[s][i]
            /\ drifts'[s][new - 1] = <<new - 1, new>>
        <4>1. drifts'[s] \in Seq(Nat \X Nat)
          BY <1>2, <3>1, <3>2, AppendProperties
        <4>2. /\ Len(drifts'[s]) = Len(drifts[s]) + 1
              /\ \A i \in 1..Len(drifts[s]) : drifts'[s][i] = drifts[s][i]
              /\ drifts'[s][Len(drifts[s]) + 1] = <<new - 1, new>>
          BY SMTT(30), <1>2, <3>1, <3>2, AppendProperties
        <4>3. Len(drifts[s]) + 1 = new - 1 /\ Len(drifts[s]) = new - 2
          BY <3>1, <2>1
        <4> QED BY <4>1, <4>2, <4>3, LenProperties
      <3>4. \A i \in DOMAIN drifts'[s] : drifts'[s][i] = <<i, i + 1>>
        <4> TAKE i \in DOMAIN drifts'[s]
        <4>1. CASE i = new - 1
          BY <3>3, <4>1, <2>1
        <4>2. CASE i \in 1..(new - 2)
          BY <1>1, <1>2, <3>1, <3>3, <4>2
        <4> QED BY <3>3, <4>1, <4>2, <2>1
      <3> QED BY SMTT(30), <1>3, <2>1, <2>3, <2>5, <3>3, <3>4
    <2> QED BY <2>4, <2>5
  <1>7. CASE s # StreamOf(t)
    <2>1. drifts'[s] = drifts[s]
      BY <1>7, <1>a DEF Registry!ObserveKnown, Registry!ObserveNew, TypeOK
    <2>2. schemas'[s] = schemas[s]
      BY <1>7, <1>a DEF Registry!ObserveKnown, Registry!ObserveNew, TypeOK
    <2> QED BY <1>4, <2>1, <2>2
  <1> QED BY <1>5, <1>6, <1>7, RegistryAdds

-----------------------------------------------------------------------------
(* Every step keeps SchemaInv. *)

LEMMA StepOfQueue == TypeOK /\ BatchFitsPc /\ Next => QueueNext
  BY StepCases DEF QueueNext, Commit

LEMMA CommitAdds ==
  ASSUME SchemaInv, NEW w \in Workers, Commit(w)
  PROVE  LET t == CurrentTask(w)
         IN  /\ t \in Tasks /\ FingerprintOf(t) \in Fingerprints
             /\ Registry!ObserveKnown(t) \/ Registry!ObserveNew(t)
             /\ CatalogTyped'
             /\ ~Registry!IsRecorded(t)
             /\ \E v \in Nat : Adds(t, v)
  <1>1. TypeOK /\ BatchFitsPc /\ SeenIsCurrent
    BY DEF SchemaInv, QueueInv
  <1>2. StreamOf(CurrentTask(w)) \in Streams
    BY <1>1, CommitObserves, StreamsAssumption
  <1>3. Len(schemas[StreamOf(CurrentTask(w))]) + 1 \in Nat
    BY <1>1, <1>2, StreamCatalogType
  <1> QED BY <1>1, <1>3, CommitObserves, RegistryAdds

\* SchemasSeen() as a function of the schemas of the stream.
SeenOf(of, fingerprint) ==
    LET known == {v \in DOMAIN of : of[v].fingerprint = fingerprint}
        v == IF known = {} THEN 0 ELSE CHOOSE v \in known : TRUE
    IN [version |-> v, count |-> IF v = 0 THEN 0 ELSE of[v].count,
        highest |-> Len(of)]

\* Other transactions hold the locks of other streams, which a commit leaves
\* as they were read.
LEMMA SeenIsCurrentInductive ==
  ASSUME SchemaInv, Next
  PROVE  SeenIsCurrent'
  <1>a. TypeOK /\ BatchFitsPc /\ StreamsLockedOnce /\ SeenIsCurrent
    BY DEF SchemaInv, QueueInv
  <1> SUFFICES ASSUME NEW v \in Workers, pc'[v] = "locked"
               PROVE  /\ FingerprintOf(CurrentTask(v)') # NoFingerprint
                      /\ seen'[v] = SchemasSeen(CurrentTask(v))'
    BY DEF SeenIsCurrent
  <1>1. ASSUME batch'[v] = batch[v],
               schemas'[StreamOf(CurrentTask(v))] = schemas[StreamOf(CurrentTask(v))]
        PROVE  /\ CurrentTask(v)' = CurrentTask(v)
               /\ SchemasSeen(CurrentTask(v))' = SchemasSeen(CurrentTask(v))
    <2>1. CurrentTask(v)' = CurrentTask(v)
      BY <1>1 DEF CurrentTask, CurrentItem
    <2>2. schemas'[StreamOf(CurrentTask(v)')] = schemas[StreamOf(CurrentTask(v))]
      BY <1>1, <2>1
    <2>3. /\ SchemasSeen(CurrentTask(v)) =
                SeenOf(schemas[StreamOf(CurrentTask(v))], FingerprintOf(CurrentTask(v)))
          /\ SchemasSeen(CurrentTask(v))' =
                SeenOf(schemas'[StreamOf(CurrentTask(v)')], FingerprintOf(CurrentTask(v)'))
      BY DEF SchemasSeen, SeenOf
    <2> QED BY <2>1, <2>2, <2>3
  <1>2. CASE Aside
    <2>1. batch'[v] = batch[v]
      BY <1>2 DEF Aside, ReadsUnderLock, Stays
    <2>2. /\ FingerprintOf(CurrentTask(v)) # NoFingerprint
          /\ seen'[v] = SchemasSeen(CurrentTask(v))
      BY <1>2, <1>a DEF Aside, ReadsUnderLock, SeenIsCurrent
    <2>3. schemas' = schemas
      BY <1>2 DEF Aside, catalogVars
    <2> QED BY <1>1, <2>1, <2>2, <2>3
  <1>3. ASSUME NEW w \in Workers, Commit(w)
        PROVE  /\ FingerprintOf(CurrentTask(v)') # NoFingerprint
               /\ seen'[v] = SchemasSeen(CurrentTask(v))'
    <2>1. pc[w] = "locked" /\ pc'[w] # "locked"
      BY <1>3, <1>a DEF Commit, Complete, Completed, NextItem, Fail, Continue, TypeOK, QueueTypeOK
    <2>2. v # w /\ pc[v] = "locked" /\ batch'[v] = batch[v] /\ seen'[v] = seen[v]
      BY <1>3, <1>a, <2>1 DEF Commit, Complete, NextItem, Fail, Continue, ForgetSeen,
         TypeOK, QueueTypeOK
    <2>3. CurrentStream(v) # CurrentStream(w)
      BY <1>a, <2>1, <2>2 DEF StreamsLockedOnce
    <2>4. CurrentTask(v) \in Tasks
      BY <1>a, <2>2, CurrentItemType DEF BatchFitsPc, TypeOK
    <2>5. schemas'[StreamOf(CurrentTask(v))] = schemas[StreamOf(CurrentTask(v))]
      BY <1>3, <1>a, <2>3, <2>4, StreamsAssumption
         DEF Commit, CatalogUpdate, TypeOK, CurrentStream
    <2>6. /\ FingerprintOf(CurrentTask(v)) # NoFingerprint
          /\ seen[v] = SchemasSeen(CurrentTask(v))
      BY <1>a, <2>2 DEF SeenIsCurrent
    <2> QED BY <1>1, <2>2, <2>5, <2>6
  <1> QED BY <1>2, <1>3, <1>a, StepCases

LEMMA TerminalHasNoSchemaInductive ==
  ASSUME SchemaInv, Next
  PROVE  TerminalHasNoSchema'
  <1>a. TypeOK /\ QueueTypeOK /\ BatchFitsPc /\ ClaimsHold /\ TerminalHasNoSchema
    BY DEF SchemaInv, QueueInv
  <1>1. ASSUME NEW v \in Workers, verdict'[v].code = "terminal"
        PROVE  FingerprintOf(Head(batch'[v]).task) = NoFingerprint
    <2>1. CASE Stays(v)
      BY <1>1, <2>1, <1>a DEF Stays, TerminalHasNoSchema, CurrentTask, CurrentItem
    <2>2. ~Selects(v) /\ ~GoesOn(v) /\ ~Locks(v) /\ ~FailsWith(v, "transient")
      BY <1>1 DEF Selects, GoesOn, Locks, FailsWith, NoVerdict, FailureVerdict
    <2>3. ASSUME NEW w \in Workers, Refuse(w),
                 FingerprintOf(CurrentTask(w)) = NoFingerprint
          PROVE  FingerprintOf(Head(batch'[v]).task) = NoFingerprint
      <3>1. Stays(v) \/ (v = w /\ FailsWith(v, "terminal"))
        BY <2>3, <1>a, RefuseMoves
      <3> QED BY <2>1, <2>3, <3>1 DEF FailsWith, CurrentTask, CurrentItem
    <2>4. CASE QuietStep \/ \E w \in Workers : Commit(w)
      BY <2>1, <2>2, <2>4, <1>a, WorkersMove DEF Commit, Moves
    <2> QED BY <2>3, <2>4, <1>a, StepCases
  <1>2. ASSUME NEW t \in Tasks, tasks'[t].last_error_code = "terminal"
        PROVE  FingerprintOf(t) = NoFingerprint
    <2>1. \/ RowKept(t) \/ RowCreated(t) \/ RowClaimed(t) \/ RowFailed(t)
          \/ RowCompleted(t)
      BY <1>a, StepOfQueue, QueueRows
    <2> QED BY <1>2, <1>a, <2>1 DEF RowKept, RowCreated, RowClaimed, RowFailed, RowCompleted,
            TerminalHasNoSchema
  <1> QED BY <1>1, <1>2 DEF TerminalHasNoSchema, CurrentTask, CurrentItem

\* A step that leaves the catalog alone completes no task.
LEMMA AsideKeepsCompleted ==
  ASSUME SchemaInv, Aside, QuietStep \/ \E w \in Workers : Refuse(w)
  PROVE  CompletedIsRecorded'
  <1>a. QueueTypeOK /\ BatchFitsPc /\ ClaimsHold /\ CompletedIsRecorded
    BY DEF SchemaInv, QueueInv
  <1>1. ASSUME NEW t \in Tasks
        PROVE  tasks'[t].state = "completed" <=> tasks[t].state = "completed"
    <2>1. CASE \E w \in Workers : Refuse(w)
      BY <2>1 DEF Refuse
    <2>2. CASE QuietStep
      <3>1. RowKept(t) \/ RowCreated(t) \/ RowClaimed(t) \/ RowFailed(t)
        BY <1>a, <2>2, QuietRows
      <3>2. \A w \in Workers : verdict[w].state # "completed"
        BY <1>a DEF QueueTypeOK, Verdict
      <3> QED BY <3>1, <3>2 DEF RowKept, RowCreated, RowClaimed, RowFailed, IsOpen
    <2> QED BY <2>1, <2>2
  <1> QED BY <1>a, <1>1 DEF CompletedIsRecorded, Aside, catalogVars

LEMMA SchemaStep == SchemaInv /\ Next => SchemaInv'
  <1> SUFFICES ASSUME SchemaInv, Next PROVE SchemaInv'
    OBVIOUS
  <1>a. /\ TypeOK /\ QueueInv /\ QueueTypeOK /\ BatchFitsPc /\ ClaimsHold
        /\ RecordsHaveVersions /\ CompletedIsRecorded /\ CountsMatch /\ VersionsChain
    BY DEF SchemaInv, QueueInv
  <1>1. QueueNext
    BY <1>a, StepOfQueue
  <1>2. QueueInv'
    BY <1>a, <1>1, QueueInductive
  <1>3. SeenIsCurrent' /\ TerminalHasNoSchema'
    BY SeenIsCurrentInductive, TerminalHasNoSchemaInductive
  <1>4. seen' \in [Workers -> Seen]
    BY <1>a, StepSeen
  <1>5. ASSUME Aside, QuietStep \/ \E w \in Workers : Refuse(w)
        PROVE  /\ CatalogTyped' /\ RecordsHaveVersions'
               /\ CompletedIsRecorded' /\ CountsMatch' /\ VersionsChain'
    <2>1. CompletedIsRecorded'
      BY <1>5, AsideKeepsCompleted
    <2>2. schemas' = schemas /\ drifts' = drifts /\ records' = records
      BY <1>5 DEF Aside, catalogVars
    <2>3. CatalogTyped' /\ RecordsHaveVersions'
      BY <2>2, <1>a DEF TypeOK, CatalogTyped, RecordsHaveVersions
    <2>4. CountsMatch'
      BY <2>2, <1>a DEF CountsMatch
    <2>5. VersionsChain'
      BY <2>2, <1>a DEF VersionsChain
    <2> QED BY <2>1, <2>3, <2>4, <2>5
  <1>6. ASSUME NEW w \in Workers, Commit(w)
        PROVE  /\ CatalogTyped' /\ RecordsHaveVersions'
               /\ CompletedIsRecorded' /\ CountsMatch' /\ VersionsChain'
    <2> DEFINE t == CurrentTask(w)
    <2>1. /\ t \in Tasks /\ FingerprintOf(t) \in Fingerprints
          /\ Registry!ObserveKnown(t) \/ Registry!ObserveNew(t)
          /\ CatalogTyped'
          /\ ~Registry!IsRecorded(t)
      BY <1>6, CommitAdds
    <2>2. PICK v \in Nat : Adds(t, v)
      BY <1>6, CommitAdds
    <2>3. tasks'[t].state = "completed" /\ \A u \in Tasks \ {t} : tasks'[u] = tasks[u]
      BY <1>6, <1>a, CompleteRows DEF Commit, Complete, RowCompleted, RowKept
    <2> HIDE DEF t
    <2>4. RecordsHaveVersions'
      BY <1>a, <2>1, <2>2, AddsKeepsVersions
    <2>5. CompletedIsRecorded'
      BY <1>a, <2>1, <2>2, <2>3, AddsKeepsCompleted
    <2>6. CountsMatch' /\ VersionsChain'
      BY <1>a, <2>1, RegistryKeepsCounts, RegistryKeepsChain
    <2> QED BY <2>1, <2>4, <2>5, <2>6
  <1>7. /\ CatalogTyped' /\ RecordsHaveVersions'
        /\ CompletedIsRecorded' /\ CountsMatch' /\ VersionsChain'
    BY <1>5, <1>6, <1>a, StepCases
  <1>8. TypeOK'
    BY <1>2, <1>4, <1>7 DEF QueueInv, CatalogTyped, TypeOK
  <1> QED BY <1>2, <1>3, <1>7, <1>8 DEF SchemaInv

-----------------------------------------------------------------------------
(* The theorems. *)

LEMMA SchemaInitially == Init => SchemaInv
  <1> SUFFICES ASSUME Init PROVE SchemaInv
    OBVIOUS
  <1>1. QueueInv
    BY QueueInitially DEF Init
  <1>2. TypeOK
    BY <1>1 DEF Init, QueueInv, TypeOK, NothingSeen, Seen
  <1>3. SeenIsCurrent /\ TerminalHasNoSchema /\ CompletedIsRecorded
    BY StreamsAssumption DEF Init, QueueInit, SeenIsCurrent, TerminalHasNoSchema,
       CompletedIsRecorded, NoVerdict, AbsentTask
  <1>4. RecordsHaveVersions /\ CountsMatch /\ VersionsChain
    BY EmptySeq DEF Init, RecordsHaveVersions, CountsMatch, VersionsChain
  <1> QED BY <1>1, <1>2, <1>3, <1>4 DEF SchemaInv

LEMMA SchemaStutters == SchemaInv /\ UNCHANGED vars => SchemaInv'
  <1> SUFFICES ASSUME SchemaInv, UNCHANGED vars PROVE SchemaInv'
    OBVIOUS
  <1>1. UNCHANGED <<queueVars, seen, schemas, drifts, records>>
    BY DEF vars, catalogVars
  <1>2. QueueInv'
    BY <1>1, QueueStutters DEF SchemaInv
  <1>3. TypeOK'
    BY <1>1, <1>2 DEF QueueInv, SchemaInv, TypeOK
  <1>4. UNCHANGED <<tasks, pc, batch, verdict>>
    BY <1>1 DEF queueVars, workerVars
  <1>5. SeenIsCurrent'
    <2> SUFFICES ASSUME NEW w \in Workers, pc'[w] = "locked"
                 PROVE  /\ FingerprintOf(CurrentTask(w)') # NoFingerprint
                        /\ seen'[w] = SchemasSeen(CurrentTask(w))'
      BY DEF SeenIsCurrent
    <2>1. CurrentTask(w)' = CurrentTask(w)
      BY <1>4 DEF CurrentTask, CurrentItem
    <2>2. /\ SchemasSeen(CurrentTask(w)) =
                SeenOf(schemas[StreamOf(CurrentTask(w))], FingerprintOf(CurrentTask(w)))
          /\ SchemasSeen(CurrentTask(w))' =
                SeenOf(schemas'[StreamOf(CurrentTask(w)')], FingerprintOf(CurrentTask(w)'))
      BY DEF SchemasSeen, SeenOf
    <2> QED BY <1>1, <1>4, <2>1, <2>2 DEF SchemaInv, SeenIsCurrent
  <1>6. TerminalHasNoSchema'
    BY <1>4 DEF SchemaInv, TerminalHasNoSchema, CurrentTask, CurrentItem
  <1>7. RecordsHaveVersions' /\ CompletedIsRecorded'
    BY <1>1, <1>4 DEF SchemaInv, RecordsHaveVersions, CompletedIsRecorded
  <1>8. CountsMatch'
    BY <1>1 DEF SchemaInv, CountsMatch
  <1>9. VersionsChain'
    BY <1>1 DEF SchemaInv, VersionsChain
  <1> QED BY <1>2, <1>3, <1>5, <1>6, <1>7, <1>8, <1>9 DEF SchemaInv

\* The inductive invariant the others follow from: whatever the workers do, their
\* items, claims, locks and verdicts fit, and what a transaction read under the
\* lock of its stream is what the stream still has when it commits.
THEOREM SchemaInvariance == Spec => []SchemaInv
  <1>1. SchemaInv /\ [Next]_vars => SchemaInv'
    BY SchemaStep, SchemaStutters
  <1> QED BY <1>1, SchemaInitially, PTL DEF Spec

\* Every variable keeps its type.
THEOREM TypeCorrect == Spec => []TypeOK
  <1>1. SchemaInv => TypeOK
    BY DEF SchemaInv
  <1> QED BY <1>1, SchemaInvariance, PTL

\* A task is completed exactly when its observation is in the catalog, once.
THEOREM CompletedAreRecorded == Spec => []CompletedIsRecorded
  <1>1. SchemaInv => CompletedIsRecorded
    BY DEF SchemaInv
  <1> QED BY <1>1, SchemaInvariance, PTL

\* observation_count loses no update.
THEOREM CountsAreRight == Spec => []CountsMatch
  <1>1. SchemaInv => CountsMatch
    BY DEF SchemaInv
  <1> QED BY <1>1, SchemaInvariance, PTL

\* The versions of a stream differ, and each drifted once from the one before.
THEOREM VersionsAreChained == Spec => []VersionsChain
  <1>1. SchemaInv => VersionsChain
    BY DEF SchemaInv
  <1> QED BY <1>1, SchemaInvariance, PTL

\* A task is given up only for a payload without a schema or with its attempts
\* used up.
THEOREM GivingUpIsJustified == Spec => []DeadLetterJustified
  <1>1. SchemaInv => DeadLetterJustified
    BY DEF SchemaInv, QueueInv, VerdictsSound, TerminalHasNoSchema, DeadLetterJustified
  <1> QED BY <1>1, SchemaInvariance, PTL

\* Nothing changes a completed task.
THEOREM CompletedTasksAreFinal == Spec => CompletedIsFinal
  <1>1. SchemaInv /\ [Next]_vars =>
            [\A t \in Tasks : tasks[t].state = "completed" => tasks'[t] = tasks[t]]_queueVars
    <2> SUFFICES ASSUME SchemaInv, [Next]_vars
                 PROVE  \/ \A t \in Tasks :
                            tasks[t].state = "completed" => tasks'[t] = tasks[t]
                        \/ UNCHANGED queueVars
      OBVIOUS
    <2>1. CASE Next
      BY <2>1, StepOfQueue, CompletedStays DEF SchemaInv, QueueInv
    <2>2. CASE UNCHANGED vars
      BY <2>2 DEF vars
    <2> QED BY <2>1, <2>2
  <1> QED BY <1>1, SchemaInvariance, PTL DEF Spec, CompletedIsFinal

\* Claims, leases, locks, failures and lost commits implement the registry: each
\* commit of an observation is one of its steps, any other step changes nothing.
THEOREM ImplementsRegistry == Spec => RegistrySpec
  <1>1. Init => Registry!Init
    BY DEF Init, Registry!Init
  <1>2. SchemaInv /\ [Next]_vars => [Registry!Next]_(Registry!vars)
    <2> SUFFICES ASSUME SchemaInv, [Next]_vars
                 PROVE  Registry!Next \/ UNCHANGED Registry!vars
      OBVIOUS
    <2>1. ASSUME UNCHANGED catalogVars PROVE UNCHANGED Registry!vars
      BY <2>1 DEF catalogVars, Registry!vars
    <2>2. CASE UNCHANGED vars
      BY <2>1, <2>2 DEF vars
    <2>3. ASSUME NEW w \in Workers, Commit(w) PROVE Registry!Next
      BY <2>3, CommitAdds DEF Registry!Next
    <2>4. CASE Next
      BY <2>1, <2>3, <2>4, StepCases DEF Aside, SchemaInv, QueueInv
    <2> QED BY <2>2, <2>4
  <1> QED BY <1>1, <1>2, SchemaInvariance, PTL DEF Spec, RegistrySpec, Registry!Spec
=============================================================================
