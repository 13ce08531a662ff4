---------------------------- MODULE StreamCatalog ----------------------------
(***************************************************************************)
(* The stream catalog in PostgreSQL and what one call of record() writes   *)
(* to it (services/stream_catalog.py): the stream, the evidence and, for   *)
(* an accepted observation, the raw observation with its processing tasks  *)
(* and outbox row.  Three unique keys keep a repeated observation from     *)
(* being stored or queued again.                                           *)
(***************************************************************************)
EXTENDS Integers, Sequences, FiniteSets

CONSTANTS
    Messages,           \* what sources send
    Streams,            \* the stream keys
    NoStream,           \* authorize() or normalize_identifier() raises
    StreamOf(_),        \* the stream of a message's normalized source and topic
    TopicOf(_),         \* external_stream_id, as the adapter gives it
    ContentOf(_),       \* the payload's digest
    FormOf(_),          \* what the payload is, see Form
    ContentTypeOf(_),   \* the content type the adapter states, see ContentType
    SourceTimeOf(_),    \* the timestamp in the payload's envelope, or NoTime
    BrokerTimeOf(_),    \* the timestamp in the transport metadata, or NoTime
    FutureSkew,         \* the observation_future_skew_seconds setting
    FallbackWindow,     \* the observation_fallback_window_seconds setting
    Minute              \* bound: seconds in a minute, 60 but for small instances

NoTime == -1

\* "point": a normalized envelope with metric and value; "json": other JSON;
\* "text": UTF-8, but not JSON; "unstorable": UTF-8 that a text column refuses.
Form == {"point", "json", "text", "unstorable", "undecodable", "oversized"}

\* "other" stands for the types classify() does not know.
ContentType == {"none", "application/json", "text/plain", "other"}

ASSUME NoStreamAssumption == NoStream \notin Streams

\* A digest stands for one payload unless it was cut, an adapter states the same
\* content type for all of a topic, and none states a time of its broker (the MQTT
\* adapter gives neither), so that the same message has the same times.
ASSUME AgreementAssumption == \A m, n \in Messages :
    /\ ContentOf(m) = ContentOf(n) /\ "oversized" \notin {FormOf(m), FormOf(n)} =>
            FormOf(m) = FormOf(n) /\ SourceTimeOf(m) = SourceTimeOf(n)
    /\ StreamOf(m) = StreamOf(n) /\ TopicOf(m) = TopicOf(n) =>
            /\ ContentTypeOf(m) = ContentTypeOf(n)
            /\ ContentOf(m) = ContentOf(n) => BrokerTimeOf(m) = BrokerTimeOf(n)

ASSUME MessagesAssumption == \A m \in Messages :
    /\ StreamOf(m) \in Streams \cup {NoStream}
    /\ FormOf(m) \in Form
    /\ ContentTypeOf(m) \in ContentType
    /\ SourceTimeOf(m) \in Nat \cup {NoTime}
    /\ BrokerTimeOf(m) \in Nat \cup {NoTime}

\* The ranges of the settings, core/config.py.
ASSUME CatalogSettingsAssumption ==
    /\ FutureSkew \in Nat
    /\ FallbackWindow \in Nat \ {0}
    /\ Minute \in Nat \ {0}

VARIABLES
    streams,        \* the rows of streams
    evidence,       \* the captures behind observation_evidence, in commit order
    raws,           \* the rows of raw_observations
    tasks,          \* the rows of observation_processing_tasks
    outbox          \* the rows ingestion inserts into observation_outbox

catalogVars == <<streams, evidence, raws, tasks, outbox>>

\* RawObservation: what the handler of an adapter is called with.  The fields are
\* those of its message; its checks are part of what kind of message it is.
Capture == [message : Messages, received_at : Nat]

StreamRow == [observation_count : Nat, first_observed_at : Nat \cup {NoTime},
              last_observed_at : Nat \cup {NoTime}, payload_format : ContentType]

AbsentStream == [observation_count |-> 0, first_observed_at |-> NoTime,
                 last_observed_at |-> NoTime, payload_format |-> "none"]

Processors == {"schema_observation", "field_projection"}

CatalogInit ==
    /\ streams = [s \in Streams |-> AbsentStream]
    /\ evidence = <<>>
    /\ raws = {}
    /\ tasks = {}
    /\ outbox = {}

-----------------------------------------------------------------------------
(* Classification, time and identity of a capture. *)

\* authorize() and the normalization of source and topic succeed.
IsAuthorized(c) == StreamOf(c.message) # NoStream

\* stream_key(): spellings of one topic share a stream.
StreamKey(c) == StreamOf(c.message)

IsJson(c) == ContentTypeOf(c.message) = "application/json"

\* classify()
Outcome(c) ==
    LET form == FormOf(c.message) IN
    CASE form = "oversized" -> "oversized"
      [] form = "undecodable" \/ ContentTypeOf(c.message) = "other" -> "unsupported_encoding"
      [] IsJson(c) /\ form \notin {"point", "json"} -> "malformed"
      [] OTHER -> "accepted"

\* The envelope is read only if the content type says it is JSON.
SourceTime(c) == IF IsJson(c) THEN SourceTimeOf(c.message) ELSE NoTime

\* select_observation_timestamp(): the first candidate not too far ahead.
IsUsable(time, c) == time # NoTime /\ time <= c.received_at + FutureSkew

TimeIsReceived(c) == ~IsUsable(SourceTime(c), c) /\ ~IsUsable(BrokerTimeOf(c.message), c)

\* The start of the window: its place in the minute, not in time, counts.
WindowStart(time) == time - ((time % Minute) % FallbackWindow)

IdentityTime(c) ==
    IF TimeIsReceived(c) THEN WindowStart(c.received_at)
    ELSE IF IsUsable(SourceTime(c), c) THEN SourceTime(c) ELSE BrokerTimeOf(c.message)

\* Faulty variant: the time is not cut to the window.
ObservationKeyExact(c) ==
    [stream |-> StreamKey(c), topic |-> TopicOf(c.message),
     time |-> IF TimeIsReceived(c) THEN c.received_at ELSE IdentityTime(c),
     content |-> ContentOf(c.message)]

\* _raw_observation(): observation_key, which has the topic as it was given.
ObservationKey(c) ==
    [stream |-> StreamKey(c), topic |-> TopicOf(c.message),
     time |-> IdentityTime(c), content |-> ContentOf(c.message)]

\* _outbox(): delivery_key; the metric is part of the content.
DeliveryKey(c) ==
    [stream |-> StreamKey(c), time |-> IdentityTime(c),
     content |-> ContentOf(c.message)]

-----------------------------------------------------------------------------
(* The rows once the transaction of capture c is committed; n is its place *)
(* in the evidence.                                                        *)

\* Faulty variant: a conflict takes the count of the row that was to be inserted.
UpsertedExcluded(row, c) ==
    [row EXCEPT
        !.observation_count = 1,
        !.first_observed_at = IF row = AbsentStream THEN c.received_at ELSE @,
        !.last_observed_at = c.received_at,
        !.payload_format = ContentTypeOf(c.message)]

\* INSERT ... ON CONFLICT DO UPDATE of the stream.
Upserted(row, c) ==
    [row EXCEPT
        !.observation_count = @ + 1,
        !.first_observed_at = IF row = AbsentStream THEN c.received_at ELSE @,
        !.last_observed_at = c.received_at,
        !.payload_format = ContentTypeOf(c.message)]

\* Faulty variant: there is no unique key.
InsertedAgain(table, key, n) == table \cup {[key |-> key, evidence |-> n]}

\* Faulty variant: a conflict replaces the row.
InsertedReplacing(table, key, n) ==
    {row \in table : row.key # key} \cup {[key |-> key, evidence |-> n]}

\* INSERT ... ON CONFLICT DO NOTHING.
Inserted(table, key, n) ==
    IF \E row \in table : row.key = key THEN table
    ELSE table \cup {[key |-> key, evidence |-> n]}

\* _enqueue_schema_observation() and _enqueue_field_projection()
WithTasks(c) ==
    tasks \cup {[key |-> ObservationKey(c), processor |-> p] : p \in Processors}

\* _normalized_point(): the envelope gives a point.
HasPoint(c) == IsJson(c) /\ FormOf(c.message) = "point"

\* record() of a capture with a stream.
Recorded(c) ==
    LET s == StreamKey(c)
        n == Len(evidence) + 1
        accepted == Outcome(c) = "accepted"
    IN /\ evidence' = Append(evidence, c)
       /\ streams' = [streams EXCEPT ![s] = Upserted(streams[s], c)]
       /\ raws' = IF accepted THEN Inserted(raws, ObservationKey(c), n) ELSE raws
       /\ tasks' = IF accepted /\ IsJson(c) THEN WithTasks(c) ELSE tasks
       /\ outbox' = IF accepted /\ HasPoint(c)
                    THEN Inserted(outbox, DeliveryKey(c), n) ELSE outbox

\* record() of a capture that is not authorized.
Rejected(c) ==
    /\ evidence' = Append(evidence, c)
    /\ UNCHANGED <<streams, raws, tasks, outbox>>
=============================================================================
