------------------------------ MODULE Ingestion ------------------------------
(***************************************************************************)
(* Ingestion: the adapters that receive messages from the broker           *)
(* (services/mqtt_adapter.py), one per backend process, and the            *)
(* transaction their handler runs for each message (record_observation()   *)
(* in main.py) on StreamCatalog.                                           *)
(*                                                                         *)
(* The broker may deliver any message at any time to any connected         *)
(* adapter, and again: the subscriptions are of QoS 0, filters may         *)
(* overlap, publishers repeat, retained messages come with each connection.*)
(* Connections break and transactions fail, before or after their commit   *)
(* took effect; adapters are stopped, and processes die.                   *)
(***************************************************************************)
EXTENDS StreamCatalog

CONSTANTS
    Adapters,
    NoCapture,
    FirstClock,         \* the clock starts here
    MaxClock,           \* bound: it stops here
    MaxDeliveries,      \* bound: messages the broker delivers
    MaxFaults           \* bound: lost connections, failed transactions, crashes

ASSUME AdapterBoundsAssumption ==
    /\ FirstClock \in Nat
    /\ MaxClock \in Nat
    /\ MaxDeliveries \in Nat
    /\ MaxFaults \in Nat

ASSUME NoCaptureAssumption == NoCapture \notin Capture

VARIABLES
    clock,          \* the time every process reads, in seconds
    status,         \* what an adapter reports
    pc,             \* where its task is; "off": there is none, or it is done
    attempts,       \* the failures its task has counted
    inbox,          \* messages its client received and it has not taken
    hand,           \* the capture its handler works on
    deliveries,
    faults

adapterVars == <<status, pc, attempts, inbox, hand>>
vars == <<clock, adapterVars, deliveries, faults, catalogVars>>

Status == {"disabled", "starting", "running", "reconnecting", "failed", "stopped"}

\* "writing": the transaction has the row lock of its stream.
Pc == {"off", "connecting", "receiving", "handling", "writing", "sleeping"}

Connected == {"receiving", "handling", "writing"}

TypeOK ==
    /\ clock \in Nat
    /\ status \in [Adapters -> Status]
    /\ pc \in [Adapters -> Pc]
    /\ attempts \in [Adapters -> 0..2]
    /\ inbox \in [Adapters -> Seq(Messages)]
    /\ hand \in [Adapters -> Capture \cup {NoCapture}]
    /\ deliveries \in Nat
    /\ faults \in Nat
    /\ streams \in [Streams -> StreamRow]
    /\ evidence \in Seq(Capture)

Init ==
    /\ clock = FirstClock
    /\ status = [a \in Adapters |-> "disabled"]
    /\ pc = [a \in Adapters |-> "off"]
    /\ attempts = [a \in Adapters |-> 0]
    /\ inbox = [a \in Adapters |-> <<>>]
    /\ hand = [a \in Adapters |-> NoCapture]
    /\ deliveries = 0
    /\ faults = 0
    /\ CatalogInit

-----------------------------------------------------------------------------
(* Helpers. *)

Fault ==
    /\ faults < MaxFaults
    /\ faults' = faults + 1

\* The insert or the update of the stream's row locks it until the commit.
StreamLocked(s) ==
    \E a \in Adapters : pc[a] = "writing" /\ StreamKey(hand[a]) = s

\* Adapter a leaves its client for `to'; what the client had is lost.
Leave(a, to, reported) ==
    /\ pc' = [pc EXCEPT ![a] = to]
    /\ status' = [status EXCEPT ![a] = reported]
    /\ inbox' = [inbox EXCEPT ![a] = <<>>]
    /\ hand' = [hand EXCEPT ![a] = NoCapture]

\* Faulty variant: the status is only set before a reconnection.
FailUnreported(a) ==
    /\ attempts' = [attempts EXCEPT ![a] = @ + 1]
    /\ IF attempts[a] + 1 = 2 THEN Leave(a, "off", status[a])
                              ELSE Leave(a, "sleeping", "reconnecting")

\* Faulty variant: there is no limit.
FailForever(a) ==
    /\ attempts' = [attempts EXCEPT ![a] = @ + 1]
    /\ Leave(a, "sleeping", "reconnecting")

\* The exception reaches _run(): the second one since start() ends the task.
Fail(a) ==
    /\ attempts' = [attempts EXCEPT ![a] = @ + 1]
    /\ IF attempts[a] + 1 = 2 THEN Leave(a, "off", "failed")
                              ELSE Leave(a, "sleeping", "reconnecting")

\* The handler returns, the adapter turns to the next message.
HandlerDone(a) ==
    /\ pc' = [pc EXCEPT ![a] = "receiving"]
    /\ hand' = [hand EXCEPT ![a] = NoCapture]
    /\ UNCHANGED <<status, attempts, inbox>>

\* The commit of the transaction of adapter a.
Committed(a) ==
    \/ pc[a] = "writing" /\ Recorded(hand[a])
    \/ /\ pc[a] = "handling"
       /\ ~IsAuthorized(hand[a])
       /\ FormOf(hand[a].message) # "unstorable"
       /\ Rejected(hand[a])

-----------------------------------------------------------------------------
(* start(), stop() and the connection. *)

Start(a) ==
    /\ pc[a] = "off"
    /\ pc' = [pc EXCEPT ![a] = "connecting"]
    /\ status' = [status EXCEPT ![a] = "starting"]
    /\ attempts' = [attempts EXCEPT ![a] = 0]
    /\ UNCHANGED <<clock, inbox, hand, deliveries, faults, catalogVars>>

\* The task is cancelled where it is: its transaction rolls back, unless the
\* commit took effect already.
Stop(a) ==
    /\ UNCHANGED catalogVars \/ Committed(a)
    /\ Leave(a, "off", "stopped")
    /\ UNCHANGED <<clock, attempts, deliveries, faults>>

\* The process dies and comes back.
Crash(a) ==
    /\ Fault
    /\ UNCHANGED catalogVars \/ Committed(a)
    /\ Leave(a, "off", "disabled")
    /\ UNCHANGED <<clock, attempts, deliveries>>

\* The client connects and subscribes to the allowlist.
Connect(a) ==
    /\ pc[a] = "connecting"
    /\ pc' = [pc EXCEPT ![a] = "receiving"]
    /\ status' = [status EXCEPT ![a] = "running"]
    /\ UNCHANGED <<clock, attempts, inbox, hand, deliveries, faults, catalogVars>>

\* Connecting fails, or the client's messages end.
Disconnect(a) ==
    /\ pc[a] \in {"connecting", "receiving"}
    /\ Fault
    /\ Fail(a)
    /\ UNCHANGED <<clock, deliveries, catalogVars>>

Wake(a) ==
    /\ pc[a] = "sleeping"
    /\ pc' = [pc EXCEPT ![a] = "connecting"]
    /\ UNCHANGED <<clock, status, attempts, inbox, hand, deliveries, faults, catalogVars>>

-----------------------------------------------------------------------------
(* Messages. *)

Tick ==
    /\ clock < MaxClock
    /\ clock' = clock + 1
    /\ UNCHANGED <<adapterVars, deliveries, faults, catalogVars>>

Deliver(a, m) ==
    /\ pc[a] \in Connected
    /\ deliveries < MaxDeliveries
    /\ deliveries' = deliveries + 1
    /\ inbox' = [inbox EXCEPT ![a] = Append(@, m)]
    /\ UNCHANGED <<clock, status, pc, attempts, hand, faults, catalogVars>>

\* The message becomes a RawObservation of this moment.
Take(a) ==
    /\ pc[a] = "receiving"
    /\ inbox[a] # <<>>
    /\ hand' = [hand EXCEPT ![a] = [message |-> Head(inbox[a]), received_at |-> clock]]
    /\ inbox' = [inbox EXCEPT ![a] = Tail(@)]
    /\ pc' = [pc EXCEPT ![a] = "handling"]
    /\ UNCHANGED <<clock, status, attempts, deliveries, faults, catalogVars>>

\* The upsert waits for other transactions on the stream.
UpsertStream(a) ==
    /\ pc[a] = "handling"
    /\ IsAuthorized(hand[a])
    /\ FormOf(hand[a].message) # "unstorable"
    /\ ~StreamLocked(StreamKey(hand[a]))
    /\ pc' = [pc EXCEPT ![a] = "writing"]
    /\ UNCHANGED <<clock, status, attempts, inbox, hand, deliveries, faults, catalogVars>>

Record(a) ==
    /\ Committed(a)
    /\ HandlerDone(a)
    /\ UNCHANGED <<clock, deliveries, faults>>

\* The insert of the evidence raises on a preview the column refuses.
RefuseEvidence(a) ==
    /\ pc[a] = "handling"
    /\ FormOf(hand[a].message) = "unstorable"
    /\ Fail(a)
    /\ UNCHANGED <<clock, deliveries, faults, catalogVars>>

\* The transaction raises, before or after it took effect.
HandlerFails(a) ==
    /\ pc[a] \in {"handling", "writing"}
    /\ Fault
    /\ UNCHANGED catalogVars \/ Committed(a)
    /\ Fail(a)
    /\ UNCHANGED <<clock, deliveries>>

-----------------------------------------------------------------------------

AdapterStep(a) ==
    \/ Connect(a) \/ Wake(a) \/ Take(a) \/ UpsertStream(a) \/ Record(a)
    \/ RefuseEvidence(a)

Next ==
    \/ Tick
    \/ \E a \in Adapters :
        \/ AdapterStep(a) \/ Start(a) \/ Stop(a) \/ Crash(a) \/ Disconnect(a)
        \/ HandlerFails(a)
        \/ \E m \in Messages : Deliver(a, m)

Spec == Init /\ [][Next]_vars

-----------------------------------------------------------------------------
(* Properties. *)

EvidenceOf(s) == {i \in DOMAIN evidence : StreamKey(evidence[i]) = s}

AcceptedEvidence ==
    {i \in DOMAIN evidence :
        IsAuthorized(evidence[i]) /\ Outcome(evidence[i]) = "accepted"}

\* When a capture was observed: at a time its source or broker states, or
\* somewhere in a window of the minute it was received in.
Observed(c) ==
    IF TimeIsReceived(c)
    THEN <<"in", c.received_at \div Minute,
           (c.received_at % Minute) \div FallbackWindow>>
    ELSE <<"at", IdentityTime(c), 0>>

SameObservation(c, d) ==
    /\ StreamKey(c) = StreamKey(d)
    /\ TopicOf(c.message) = TopicOf(d.message)
    /\ ContentOf(c.message) = ContentOf(d.message)
    /\ Observed(c) = Observed(d)

\* Whatever adapters race for a stream and whichever transactions fail, the row
\* of the stream agrees with the evidence: as many observations, the first and
\* the last of them, none counted without evidence.
StreamsMatchEvidence ==
    \A s \in Streams :
        LET of == EvidenceOf(s)
            first == CHOOSE i \in of : \A j \in of : i <= j
            last == CHOOSE i \in of : \A j \in of : i >= j
        IN /\ streams[s].observation_count = Cardinality(of)
           /\ of # {} =>
                /\ streams[s].first_observed_at = evidence[first].received_at
                /\ streams[s].last_observed_at = evidence[last].received_at

\* A message delivered again is stored once per observation, however often,
\* through whichever adapters and after whatever failures; and every accepted
\* observation is stored.
StoredOnce ==
    /\ \A r, q \in raws :
        SameObservation(evidence[r.evidence], evidence[q.evidence]) => r = q
    /\ \A i \in AcceptedEvidence : \E r \in raws :
        SameObservation(evidence[r.evidence], evidence[i])
    /\ \A r \in raws : r.evidence \in AcceptedEvidence

\* A stored JSON observation has a task for each processor; a point has an
\* outbox row, one even if it came by two spellings of its topic; nothing else
\* is queued.
QueuedWithRaw ==
    LET of(r) == evidence[r.evidence]
        points == {r \in raws : HasPoint(of(r))}
    IN /\ tasks = {[key |-> r.key, processor |-> p] :
                        r \in {q \in raws : IsJson(of(q))}, p \in Processors}
       /\ {row.key : row \in outbox} =
                {[stream |-> r.key.stream, time |-> r.key.time,
                  content |-> r.key.content] : r \in points}
       /\ \A row, other \in outbox : row.key = other.key => row = other

\* No transaction takes away or changes what another has stored or queued, the
\* evidence a raw observation refers to included.
CatalogOnlyGrows ==
    [][/\ raws \subseteq raws' /\ tasks \subseteq tasks' /\ outbox \subseteq outbox'
       /\ evidence = SubSeq(evidence', 1, Len(evidence))]_vars

\* What an adapter reports is true through reconnections, failed handlers and
\* restarts: running only while it receives, failed only for good.
StatusIsTrue ==
    \A a \in Adapters :
        /\ status[a] = "running" <=> pc[a] \in Connected
        /\ status[a] = "reconnecting" => pc[a] \in {"sleeping", "connecting"}
        /\ status[a] = "failed" => pc[a] = "off"
        /\ pc[a] = "off" => status[a] \in {"disabled", "failed", "stopped"}

-----------------------------------------------------------------------------
(* Why they hold: an inductive invariant. *)

\* A handler has a capture, a transaction that waits for its commit has a stream,
\* and a task that runs has failed once at most.
HandsFit ==
    \A a \in Adapters :
        /\ pc[a] \in {"handling", "writing"} => hand[a] \in Capture
        /\ pc[a] = "writing" => IsAuthorized(hand[a])
        /\ pc[a] # "off" => attempts[a] < 2

\* The row of a stream without evidence is absent; otherwise there is a first and a
\* last capture of it, whose times it has.
StreamsFit ==
    \A s \in Streams :
        /\ streams[s].observation_count = Cardinality(EvidenceOf(s))
        /\ EvidenceOf(s) = {} => streams[s] = AbsentStream
        /\ EvidenceOf(s) # {} =>
            \E i, k \in EvidenceOf(s) :
                /\ \A j \in EvidenceOf(s) : i <= j /\ j <= k
                /\ streams[s].first_observed_at = evidence[i].received_at
                /\ streams[s].last_observed_at = evidence[k].received_at

\* One raw observation for each key of accepted evidence, with one of that key.
RawsFit ==
    /\ \A r \in raws : /\ r.evidence \in AcceptedEvidence
                       /\ r.key = ObservationKey(evidence[r.evidence])
    /\ \A r, q \in raws : r.key = q.key => r = q
    /\ \A i \in AcceptedEvidence : \E r \in raws : r.key = ObservationKey(evidence[i])

IngestionInv == TypeOK /\ HandsFit /\ StatusIsTrue /\ StreamsFit /\ RawsFit /\ QueuedWithRaw

-----------------------------------------------------------------------------
(* A statement of the documentation that the code does not keep. *)

\* docs/architecture/current-state.md: "The delivery path is MQTT ingestion ->
\* normalized observation -> PostgreSQL observation outbox": an accepted
\* message that is a normalized envelope has an outbox row.
PointsReachOutbox ==
    \A i \in AcceptedEvidence :
        FormOf(evidence[i].message) = "point" =>
            \E row \in outbox : row.key = DeliveryKey(evidence[i])
=============================================================================
