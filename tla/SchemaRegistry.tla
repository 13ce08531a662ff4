--------------------------- MODULE SchemaRegistry ---------------------------
(***************************************************************************)
(* What schema observation promises about the catalog tables               *)
(* observed_schemas, schema_drift_events and schema_observation_records,   *)
(* with no worker, no claim and no transaction in sight: every observation *)
(* is counted at most once; the first of a fingerprint opens the next      *)
(* version of its stream and, except for version 1, records the drift from *)
(* the version before it; the later ones only count.                       *)
(***************************************************************************)
EXTENDS Naturals, Sequences, FiniteSets

CONSTANTS
    Tasks,              \* the observations to be made, one per task
    Streams,            \* the streams they belong to
    StreamOf(_),        \* the stream of a task
    FingerprintOf(_)    \* the structural fingerprint of a task's payload

VARIABLES
    schemas,    \* per stream, [fingerprint, count] by version number
    drifts,     \* per stream, the <<previous, current>> versions of each drift
    records     \* per stream, the [task, version] of each observation made

vars == <<schemas, drifts, records>>

Init ==
    /\ schemas = [s \in Streams |-> <<>>]
    /\ drifts = [s \in Streams |-> <<>>]
    /\ records = [s \in Streams |-> <<>>]

IsRecorded(t) ==
    \E i \in DOMAIN records[StreamOf(t)] : records[StreamOf(t)][i].task = t

Recorded(t, version) ==
    [records EXCEPT ![StreamOf(t)] = Append(@, [task |-> t, version |-> version])]

\* A further observation of a known fingerprint.
ObserveKnown(t) ==
    LET s == StreamOf(t) IN
    /\ ~IsRecorded(t)
    /\ \E v \in DOMAIN schemas[s] :
        /\ schemas[s][v].fingerprint = FingerprintOf(t)
        /\ schemas' = [schemas EXCEPT ![s][v].count = @ + 1]
        /\ records' = Recorded(t, v)
    /\ UNCHANGED drifts

\* The first observation of a fingerprint in its stream.
ObserveNew(t) ==
    LET s == StreamOf(t)
        new == Len(schemas[s]) + 1
    IN
    /\ ~IsRecorded(t)
    /\ \A v \in DOMAIN schemas[s] : schemas[s][v].fingerprint # FingerprintOf(t)
    /\ schemas' = [schemas EXCEPT ![s] =
                    Append(@, [fingerprint |-> FingerprintOf(t), count |-> 1])]
    /\ drifts' = [drifts EXCEPT ![s] =
                    IF new = 1 THEN @ ELSE Append(@, <<new - 1, new>>)]
    /\ records' = Recorded(t, new)

Next == \E t \in Tasks : ObserveKnown(t) \/ ObserveNew(t)

Spec == Init /\ [][Next]_vars
=============================================================================
