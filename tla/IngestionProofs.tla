--------------------------- MODULE IngestionProofs ---------------------------
(***************************************************************************)
(* Theorems about Ingestion, for any messages, streams and adapters, any   *)
(* number of deliveries, failures and crashes and any length of the window *)
(* in which equal messages are one observation.                            *)
(***************************************************************************)
EXTENDS Ingestion, FiniteSetTheorems, SequenceTheorems, TLAPS

USE NoStreamAssumption, MessagesAssumption, CatalogSettingsAssumption, NoCaptureAssumption

-----------------------------------------------------------------------------
(* Division, which cuts times into windows. *)

LEMMA DivisionIs ==
  ASSUME NEW m \in Nat \ {0}, NEW t \in Nat
  PROVE  /\ t = m * (t \div m) + (t % m)
         /\ t % m \in Nat /\ t % m < m /\ t \div m \in Nat
  BY SMT

LEMMA Cancel ==
  ASSUME NEW m \in Nat \ {0}, NEW a \in Int, NEW b \in Int
  PROVE  /\ m * a < m * b => a < b
         /\ m * (a + 1) = m * a + m
         /\ m * a \in Int
  BY SMT

\* A number lies between two neighbouring multiples of m only.
LEMMA BetweenMultiples ==
  ASSUME NEW m \in Nat \ {0}, NEW a \in Int, NEW b \in Int, NEW w \in Int,
         m * a <= w, w < m * a + m, m * b <= w, w < m * b + m
  PROVE  a = b
  <1>1. m * a \in Int /\ m * b \in Int
    BY Cancel
  <1>2. m * a < m * (b + 1)
    BY <1>1, Cancel
  <1>3. m * b < m * (a + 1)
    BY <1>1, Cancel
  <1>4. b + 1 \in Int /\ a + 1 \in Int
    OBVIOUS
  <1>5. a < b + 1
    BY <1>2, <1>4, Cancel
  <1>6. b < a + 1
    BY <1>3, <1>4, Cancel
  <1> QED BY <1>5, <1>6

\* The window of a time: its minute, and its place in the minute.
LEMMA WindowStartIs ==
  ASSUME NEW t \in Nat
  PROVE  /\ WindowStart(t) = Minute * (t \div Minute)
                              + FallbackWindow * ((t % Minute) \div FallbackWindow)
         /\ WindowStart(t) \in Nat /\ WindowStart(t) <= t
         /\ Minute * (t \div Minute) <= WindowStart(t)
  <1> DEFINE u == t % Minute
             v == u % FallbackWindow
  <1>1. /\ t = Minute * (t \div Minute) + u /\ u \in Nat
        /\ t \div Minute \in Nat
    BY DivisionIs
  <1>2. /\ u = FallbackWindow * (u \div FallbackWindow) + v /\ v \in Nat
        /\ u \div FallbackWindow \in Nat
    BY <1>1, DivisionIs
  <1>3. Minute * (t \div Minute) \in Nat /\ FallbackWindow * (u \div FallbackWindow) \in Nat
    BY <1>1, <1>2
  <1>4. WindowStart(t) = t - v
    BY DEF WindowStart
  <1> HIDE DEF u, v
  <1>5. WindowStart(t) = Minute * (t \div Minute) + FallbackWindow * (u \div FallbackWindow)
    BY <1>1, <1>2, <1>3, <1>4
  <1> QED BY <1>1, <1>2, <1>3, <1>4, <1>5 DEF u

\* Two times start the same window just if minute and place agree.
LEMMA SameWindow ==
  ASSUME NEW t \in Nat, NEW q \in Nat
  PROVE  WindowStart(t) = WindowStart(q) <=>
            /\ t \div Minute = q \div Minute
            /\ (t % Minute) \div FallbackWindow = (q % Minute) \div FallbackWindow
  <1>1. ASSUME t \div Minute = q \div Minute,
               (t % Minute) \div FallbackWindow = (q % Minute) \div FallbackWindow
        PROVE  WindowStart(t) = WindowStart(q)
    BY <1>1, WindowStartIs
  <1>2. ASSUME WindowStart(t) = WindowStart(q)
        PROVE  /\ t \div Minute = q \div Minute
               /\ (t % Minute) \div FallbackWindow = (q % Minute) \div FallbackWindow
    <2> DEFINE a == t \div Minute
               b == q \div Minute
               c == (t % Minute) \div FallbackWindow
               d == (q % Minute) \div FallbackWindow
               w == WindowStart(t)
    <2>1. /\ t = Minute * a + (t % Minute) /\ t % Minute \in Nat /\ t % Minute < Minute
          /\ a \in Nat /\ c \in Nat
          /\ q = Minute * b + (q % Minute) /\ q % Minute \in Nat /\ q % Minute < Minute
          /\ b \in Nat /\ d \in Nat
      BY DivisionIs
    <2>2. /\ w \in Nat /\ w <= t /\ w <= q /\ Minute * a <= w /\ Minute * b <= w
          /\ w = Minute * a + FallbackWindow * c
          /\ w = Minute * b + FallbackWindow * d
      BY <1>2, WindowStartIs
    <2> HIDE DEF a, b, c, d, w
    <2>3. Minute * a \in Int /\ Minute * b \in Int
      BY <2>1, Cancel
    <2>4. w < Minute * a + Minute /\ w < Minute * b + Minute
      BY <2>1, <2>2, <2>3
    <2>5. a = b
      BY <2>1, <2>2, <2>4, BetweenMultiples
    <2>6. FallbackWindow * c \in Int /\ FallbackWindow * d \in Int
      BY <2>1, Cancel
    <2>7. FallbackWindow * c = FallbackWindow * d
      BY <2>2, <2>3, <2>5, <2>6
    <2>8. c = d
      <3>1. ~(FallbackWindow * c < FallbackWindow * d)
        BY <2>6, <2>7
      <3> DEFINE x == FallbackWindow * c
      <3>2. x \in Int /\ FallbackWindow \in Nat \ {0} /\ x < x + FallbackWindow
        BY <2>6
      <3> HIDE DEF x
      <3>3. c = d
        BY <2>1, <2>7, <3>2, BetweenMultiples DEF x
      <3> QED BY <3>3
    <2> QED BY <2>5, <2>8 DEF a, b, c, d
  <1> QED BY <1>1, <1>2

-----------------------------------------------------------------------------
(* The identity of captures. *)

IsAccepted(c) == IsAuthorized(c) /\ Outcome(c) = "accepted"

\* Captures of one key have one content type, one form and the same stated times.
LEMMA SameKeyAgrees ==
  ASSUME NEW c \in Capture, NEW d \in Capture,
         Outcome(c) = "accepted", Outcome(d) = "accepted",
         StreamKey(c) = StreamKey(d), TopicOf(c.message) = TopicOf(d.message),
         ContentOf(c.message) = ContentOf(d.message)
  PROVE  /\ IsJson(c) <=> IsJson(d)
         /\ HasPoint(c) <=> HasPoint(d)
         /\ SourceTime(c) = SourceTime(d)
         /\ BrokerTimeOf(c.message) = BrokerTimeOf(d.message)
  <1>1. c.message \in Messages /\ d.message \in Messages
    BY DEF Capture
  <1>2. FormOf(c.message) # "oversized" /\ FormOf(d.message) # "oversized"
    BY DEF Outcome
  <1>3. /\ FormOf(c.message) = FormOf(d.message)
        /\ SourceTimeOf(c.message) = SourceTimeOf(d.message)
    BY <1>1, <1>2, AgreementAssumption
  <1>4. /\ ContentTypeOf(c.message) = ContentTypeOf(d.message)
        /\ BrokerTimeOf(c.message) = BrokerTimeOf(d.message)
    BY <1>1, AgreementAssumption DEF StreamKey
  <1> QED BY <1>3, <1>4 DEF IsJson, HasPoint, SourceTime

\* What the time of an identity is: one that is stated and usable, or the window.
LEMMA IdentityTimeIs ==
  ASSUME NEW c \in Capture
  PROVE  /\ c.received_at \in Nat
         /\ SourceTime(c) \in Nat \cup {NoTime} /\ BrokerTimeOf(c.message) \in Nat \cup {NoTime}
         /\ TimeIsReceived(c) =>
                /\ IdentityTime(c) = WindowStart(c.received_at)
                /\ Observed(c) = <<"in", c.received_at \div Minute,
                                   (c.received_at % Minute) \div FallbackWindow>>
         /\ ~TimeIsReceived(c) =>
                /\ Observed(c) = <<"at", IdentityTime(c), 0>>
                /\ IdentityTime(c) \in {SourceTime(c), BrokerTimeOf(c.message)} \ {NoTime}
  <1>1. c.message \in Messages /\ c.received_at \in Nat
    BY DEF Capture
  <1>2. SourceTime(c) \in Nat \cup {NoTime} /\ BrokerTimeOf(c.message) \in Nat \cup {NoTime}
    BY <1>1 DEF SourceTime
  <1>3. CASE TimeIsReceived(c)
    BY <1>1, <1>2, <1>3 DEF IdentityTime, Observed
  <1>4. CASE ~TimeIsReceived(c)
    BY <1>1, <1>2, <1>4 DEF IdentityTime, Observed, TimeIsReceived, IsUsable
  <1> QED BY <1>1, <1>2, <1>3, <1>4

\* A time that one capture states, and that a like one takes to be in the future, is
\* not in the window of that one.
LEMMA StatedIsNotReceived ==
  ASSUME NEW c \in Capture, NEW d \in Capture,
         SourceTime(c) = SourceTime(d), BrokerTimeOf(c.message) = BrokerTimeOf(d.message),
         TimeIsReceived(c), ~TimeIsReceived(d)
  PROVE  IdentityTime(c) # IdentityTime(d)
  <1> DEFINE time == IdentityTime(d)
  <1>1. time \in {SourceTime(c), BrokerTimeOf(c.message)} \ {NoTime} /\ time \in Nat
    BY IdentityTimeIs
  <1>2. ~IsUsable(time, c)
    BY <1>1 DEF TimeIsReceived
  <1>3. time > c.received_at + FutureSkew
    BY <1>1, <1>2, IdentityTimeIs DEF IsUsable
  <1>4. IdentityTime(c) <= c.received_at /\ IdentityTime(c) \in Nat
    BY IdentityTimeIs, WindowStartIs
  <1> QED BY <1>1, <1>3, <1>4, IdentityTimeIs

\* The key of a raw observation tells observations apart, and nothing else does.
LEMMA KeyIsIdentity ==
  ASSUME NEW c \in Capture, NEW d \in Capture,
         Outcome(c) = "accepted", Outcome(d) = "accepted"
  PROVE  SameObservation(c, d) <=> ObservationKey(c) = ObservationKey(d)
  <1>1. ObservationKey(c) = ObservationKey(d) <=>
            /\ StreamKey(c) = StreamKey(d)
            /\ TopicOf(c.message) = TopicOf(d.message)
            /\ ContentOf(c.message) = ContentOf(d.message)
            /\ IdentityTime(c) = IdentityTime(d)
    BY DEF ObservationKey
  <1> SUFFICES ASSUME StreamKey(c) = StreamKey(d),
                      TopicOf(c.message) = TopicOf(d.message),
                      ContentOf(c.message) = ContentOf(d.message)
               PROVE  Observed(c) = Observed(d) <=> IdentityTime(c) = IdentityTime(d)
    BY <1>1 DEF SameObservation
  <1>2. SourceTime(c) = SourceTime(d) /\ BrokerTimeOf(c.message) = BrokerTimeOf(d.message)
    BY SameKeyAgrees
  <1>3. CASE TimeIsReceived(c) /\ TimeIsReceived(d)
    <2>1. Observed(c) = Observed(d) <=>
            /\ c.received_at \div Minute = d.received_at \div Minute
            /\ (c.received_at % Minute) \div FallbackWindow
                    = (d.received_at % Minute) \div FallbackWindow
      BY <1>3, IdentityTimeIs
    <2>2. IdentityTime(c) = WindowStart(c.received_at) /\ c.received_at \in Nat
          /\ IdentityTime(d) = WindowStart(d.received_at) /\ d.received_at \in Nat
      BY <1>3, IdentityTimeIs
    <2> QED BY <2>1, <2>2, SameWindow, Zenon
  <1>4. CASE ~TimeIsReceived(c) /\ ~TimeIsReceived(d)
    BY <1>4, IdentityTimeIs
  <1>5. CASE TimeIsReceived(c) /\ ~TimeIsReceived(d)
    BY <1>2, <1>5, IdentityTimeIs, StatedIsNotReceived
  <1>6. CASE ~TimeIsReceived(c) /\ TimeIsReceived(d)
    BY <1>2, <1>6, IdentityTimeIs, StatedIsNotReceived
  <1> QED BY <1>3, <1>4, <1>5, <1>6

-----------------------------------------------------------------------------
(* What a commit does to the evidence and to the rows of the streams. *)

\* The transaction of capture c takes effect.
Commits(c) ==
    \/ IsAuthorized(c) /\ Recorded(c)
    \/ ~IsAuthorized(c) /\ Rejected(c)

EvidenceTyped == evidence \in Seq(Capture)

LEMMA StreamKeyTyped ==
  ASSUME NEW c \in Capture
  PROVE  IsAuthorized(c) <=> StreamKey(c) \in Streams
  <1>1. c.message \in Messages
    BY DEF Capture
  <1> QED BY <1>1 DEF IsAuthorized, StreamKey

\* The evidence grows by the capture, at a place after all others.
LEMMA EvidenceGrows ==
  ASSUME EvidenceTyped, NEW c \in Capture, Commits(c)
  PROVE  /\ Len(evidence) \in Nat
         /\ evidence' = Append(evidence, c)
         /\ EvidenceTyped'
         /\ DOMAIN evidence = 1..Len(evidence)
         /\ DOMAIN evidence' = 1..(Len(evidence) + 1)
         /\ \A i \in 1..Len(evidence) : evidence'[i] = evidence[i] /\ evidence[i] \in Capture
         /\ evidence'[Len(evidence) + 1] = c
  <1>1. evidence' = Append(evidence, c)
    BY DEF Commits, Recorded, Rejected
  <1>2. evidence \in Seq(Capture)
    BY DEF EvidenceTyped
  <1> HIDE DEF Capture
  <1> QED BY <1>1, <1>2 DEF EvidenceTyped

LEMMA EvidenceOfGrows ==
  ASSUME EvidenceTyped, NEW c \in Capture, Commits(c), NEW s \in Streams
  PROVE  /\ StreamKey(c) = s => EvidenceOf(s)' = EvidenceOf(s) \cup {Len(evidence) + 1}
         /\ StreamKey(c) # s => EvidenceOf(s)' = EvidenceOf(s)
         /\ EvidenceOf(s) \subseteq 1..Len(evidence)
  <1>1. EvidenceOf(s) = {i \in 1..Len(evidence) : StreamKey(evidence[i]) = s}
    BY EvidenceGrows DEF EvidenceOf
  <1>2. EvidenceOf(s)' = {i \in 1..(Len(evidence) + 1) : StreamKey(evidence'[i]) = s}
    BY EvidenceGrows DEF EvidenceOf, StreamKey
  <1>3. \A i \in 1..(Len(evidence) + 1) :
            i = Len(evidence) + 1 \/ (i \in 1..Len(evidence) /\ evidence'[i] = evidence[i])
    BY EvidenceGrows
  <1>4. evidence'[Len(evidence) + 1] = c /\ Len(evidence) \in Nat
    BY EvidenceGrows
  <1>5. ASSUME NEW i
        PROVE  i \in EvidenceOf(s)' <=>
                  i \in EvidenceOf(s) \/ (i = Len(evidence) + 1 /\ StreamKey(c) = s)
    <2>1. CASE i = Len(evidence) + 1
      BY <1>1, <1>2, <1>4, <2>1
    <2>2. CASE i # Len(evidence) + 1
      BY <1>1, <1>2, <1>3, <1>4, <2>2
    <2> QED BY <2>1, <2>2
  <1> QED BY <1>1, <1>5

LEMMA EvidenceOfFinite ==
  ASSUME EvidenceTyped, NEW s \in Streams
  PROVE  IsFiniteSet(EvidenceOf(s)) /\ Cardinality(EvidenceOf(s)) \in Nat
  <1>1. Len(evidence) \in Nat /\ DOMAIN evidence = 1..Len(evidence)
    BY DEF EvidenceTyped
  <1>2. IsFiniteSet(1..Len(evidence))
    BY <1>1, FS_Interval
  <1>3. EvidenceOf(s) \in SUBSET (1..Len(evidence))
    BY <1>1 DEF EvidenceOf
  <1> QED BY <1>2, <1>3, FS_Subset, FS_CardinalityType

StreamsTyped == streams \in [Streams -> StreamRow]

LEMMA UpsertedTyped ==
  ASSUME NEW row \in StreamRow, NEW c \in Capture
  PROVE  /\ Upserted(row, c) \in StreamRow
         /\ Upserted(row, c).observation_count = row.observation_count + 1
         /\ Upserted(row, c).last_observed_at = c.received_at
         /\ row = AbsentStream => Upserted(row, c).first_observed_at = c.received_at
         /\ row # AbsentStream => Upserted(row, c).first_observed_at = row.first_observed_at
  <1>1. c.message \in Messages /\ c.received_at \in Nat
    BY DEF Capture
  <1>2. ContentTypeOf(c.message) \in ContentType
    BY <1>1
  <1> DEFINE new == Upserted(row, c)
             first == IF row = AbsentStream THEN c.received_at ELSE row.first_observed_at
  <1>3. row.observation_count + 1 \in Nat /\ row.first_observed_at \in Nat \cup {NoTime}
    BY DEF StreamRow
  <1>4. first \in Nat \cup {NoTime}
    BY <1>1, <1>3
  <1>5. new = [row EXCEPT !.observation_count = row.observation_count + 1,
                          !.first_observed_at = first,
                          !.last_observed_at = c.received_at,
                          !.payload_format = ContentTypeOf(c.message)]
    BY Zenon DEF Upserted
  <1> HIDE DEF first, new, ContentType
  <1>6. new \in StreamRow
    BY <1>1, <1>2, <1>3, <1>4, <1>5 DEF StreamRow
  <1>7. /\ new.observation_count = row.observation_count + 1
        /\ new.last_observed_at = c.received_at
        /\ new.first_observed_at = first
    BY <1>5 DEF StreamRow
  <1> QED BY <1>6, <1>7 DEF new, first

LEMMA StreamsAfter ==
  ASSUME StreamsTyped, NEW c \in Capture, Commits(c)
  PROVE  /\ StreamsTyped'
         /\ \A s \in Streams : streams'[s] = IF StreamKey(c) = s
                THEN Upserted(streams[s], c) ELSE streams[s]
  <1>1. CASE IsAuthorized(c) /\ Recorded(c)
    <2>1. streams' = [streams EXCEPT ![StreamKey(c)] = Upserted(streams[StreamKey(c)], c)]
      BY <1>1 DEF Recorded
    <2>2. StreamKey(c) \in Streams
      BY <1>1, StreamKeyTyped
    <2>3. Upserted(streams[StreamKey(c)], c) \in StreamRow
      BY <2>2, UpsertedTyped DEF StreamsTyped
    <2> QED BY <2>1, <2>2, <2>3 DEF StreamsTyped
  <1>2. CASE ~IsAuthorized(c) /\ Rejected(c)
    <2>1. streams' = streams /\ StreamKey(c) \notin Streams
      BY <1>2, StreamKeyTyped DEF Rejected
    <2> QED BY <2>1 DEF StreamsTyped
  <1> QED BY <1>1, <1>2 DEF Commits

\* The count, and the first and the last capture, follow the evidence.
LEMMA StreamsFitCommits ==
  ASSUME EvidenceTyped, StreamsTyped, StreamsFit, NEW c \in Capture, Commits(c)
  PROVE  StreamsFit'
  <1> DEFINE n == Len(evidence) + 1
  <1> SUFFICES ASSUME NEW s \in Streams
               PROVE  /\ streams'[s].observation_count = Cardinality(EvidenceOf(s)')
                      /\ EvidenceOf(s)' = {} => streams'[s] = AbsentStream
                      /\ EvidenceOf(s)' # {} =>
                          \E i, k \in EvidenceOf(s)' :
                            /\ \A j \in EvidenceOf(s)' : i <= j /\ j <= k
                            /\ streams'[s].first_observed_at = evidence'[i].received_at
                            /\ streams'[s].last_observed_at = evidence'[k].received_at
    BY DEF StreamsFit
  <1>a. /\ n \in Nat /\ evidence'[n] = c /\ EvidenceOf(s) \subseteq 1..Len(evidence)
        /\ Len(evidence) \in Nat
        /\ \A i \in EvidenceOf(s) : evidence'[i] = evidence[i] /\ i < n /\ i \in Nat
    <2>1. Len(evidence) \in Nat /\ evidence'[n] = c /\ EvidenceOf(s) \subseteq 1..Len(evidence)
      BY EvidenceGrows, EvidenceOfGrows
    <2>2. \A i \in 1..Len(evidence) : evidence'[i] = evidence[i]
      BY EvidenceGrows
    <2> QED BY <2>1, <2>2
  <1>b. streams[s] \in StreamRow
    BY DEF StreamsTyped
  <1> HIDE DEF n
  <1>1. CASE StreamKey(c) # s
    <2>1. EvidenceOf(s)' = EvidenceOf(s) /\ streams'[s] = streams[s]
      BY <1>1, EvidenceOfGrows, StreamsAfter
    <2>2. EvidenceOf(s) # {} =>
            \E i, k \in EvidenceOf(s) :
                /\ \A j \in EvidenceOf(s) : i <= j /\ j <= k
                /\ streams[s].first_observed_at = evidence'[i].received_at
                /\ streams[s].last_observed_at = evidence'[k].received_at
      BY <1>a DEF StreamsFit
    <2> QED BY <2>1, <2>2 DEF StreamsFit
  <1>2. CASE StreamKey(c) = s
    <2>1. EvidenceOf(s)' = EvidenceOf(s) \cup {n}
      BY <1>2, EvidenceOfGrows DEF n
    <2>2. streams'[s] = Upserted(streams[s], c)
      BY <1>2, StreamsAfter
    <2>3. n \notin EvidenceOf(s) /\ \A j \in EvidenceOf(s)' : j <= n
      BY <1>a, <2>1
    <2>4. streams'[s].observation_count = Cardinality(EvidenceOf(s)')
      <3>1. Cardinality(EvidenceOf(s) \cup {n}) = Cardinality(EvidenceOf(s)) + 1
        BY <2>3, EvidenceOfFinite, FS_AddElement
      <3>2. streams'[s].observation_count = streams[s].observation_count + 1
        BY <1>b, <2>2, UpsertedTyped
      <3> QED BY <2>1, <3>1, <3>2 DEF StreamsFit
    <2>5. streams'[s].last_observed_at = evidence'[n].received_at
      BY <1>a, <1>b, <2>2, UpsertedTyped
    <2>6. \E i \in EvidenceOf(s)' :
            /\ \A j \in EvidenceOf(s)' : i <= j
            /\ streams'[s].first_observed_at = evidence'[i].received_at
      <3>1. CASE EvidenceOf(s) = {}
        <4>1. streams'[s].first_observed_at = evidence'[n].received_at
          BY <1>a, <1>b, <2>2, <3>1, UpsertedTyped DEF StreamsFit
        <4>2. EvidenceOf(s)' = {n}
          BY <2>1, <3>1
        <4> QED BY <1>a, <4>1, <4>2
      <3>2. CASE EvidenceOf(s) # {}
        <4>1. PICK i \in EvidenceOf(s) :
                /\ \A j \in EvidenceOf(s) : i <= j
                /\ streams[s].first_observed_at = evidence[i].received_at
          BY <3>2 DEF StreamsFit
        <4>2. streams[s] # AbsentStream
          <5>1. Cardinality(EvidenceOf(s)) # 0
            BY <3>2, EvidenceOfFinite, FS_EmptySet
          <5> QED BY <5>1 DEF StreamsFit, AbsentStream
        <4>3. streams'[s].first_observed_at = evidence'[i].received_at
          BY <1>a, <1>b, <2>2, <4>1, <4>2, UpsertedTyped
        <4>4. \A j \in EvidenceOf(s)' : i <= j
          BY <1>a, <2>1, <4>1
        <4> QED BY <2>1, <4>1, <4>3, <4>4
      <3> QED BY <3>1, <3>2
    <2>7. n \in EvidenceOf(s)'
      BY <2>1
    <2> QED BY <2>3, <2>4, <2>5, <2>6, <2>7
  <1> QED BY <1>1, <1>2

-----------------------------------------------------------------------------
(* What a commit does to the raw observations. *)

LEMMA AcceptedGrows ==
  ASSUME EvidenceTyped, NEW c \in Capture, Commits(c)
  PROVE  /\ IsAccepted(c) => AcceptedEvidence' = AcceptedEvidence \cup {Len(evidence) + 1}
         /\ ~IsAccepted(c) => AcceptedEvidence' = AcceptedEvidence
         /\ AcceptedEvidence \subseteq 1..Len(evidence)
         /\ \A i \in AcceptedEvidence :
                evidence'[i] = evidence[i] /\ evidence[i] \in Capture /\ IsAccepted(evidence[i])
  <1>1. AcceptedEvidence = {i \in 1..Len(evidence) : IsAccepted(evidence[i])}
    BY EvidenceGrows DEF AcceptedEvidence, IsAccepted
  <1>2. AcceptedEvidence' = {i \in 1..(Len(evidence) + 1) : IsAccepted(evidence'[i])}
    BY EvidenceGrows DEF AcceptedEvidence, IsAccepted, IsAuthorized, Outcome, IsJson
  <1>3. \A i \in 1..(Len(evidence) + 1) :
            i = Len(evidence) + 1 \/ (i \in 1..Len(evidence) /\ evidence'[i] = evidence[i])
    BY EvidenceGrows
  <1>4. evidence'[Len(evidence) + 1] = c /\ Len(evidence) \in Nat
    BY EvidenceGrows
  <1>5. ASSUME NEW i
        PROVE  i \in AcceptedEvidence' <=>
                  i \in AcceptedEvidence \/ (i = Len(evidence) + 1 /\ IsAccepted(c))
    <2>1. CASE i = Len(evidence) + 1
      BY <1>1, <1>2, <1>4, <2>1
    <2>2. CASE i # Len(evidence) + 1
      BY <1>1, <1>2, <1>3, <1>4, <2>2
    <2> QED BY <2>1, <2>2
  <1>6. \A i \in AcceptedEvidence :
            evidence'[i] = evidence[i] /\ evidence[i] \in Capture /\ IsAccepted(evidence[i])
    BY <1>1, EvidenceGrows
  <1> QED BY <1>1, <1>5, <1>6

\* The row c inserts, if there is none of its key.
NewRaw(c) == [key |-> ObservationKey(c), evidence |-> Len(evidence) + 1]

HasRaw(c) == \E r \in raws : r.key = ObservationKey(c)

LEMMA RawsAfter ==
  ASSUME NEW c \in Capture, Commits(c)
  PROVE  /\ ~IsAccepted(c) \/ HasRaw(c) => raws' = raws
         /\ IsAccepted(c) /\ ~HasRaw(c) => raws' = raws \cup {NewRaw(c)}
  BY DEF Commits, Recorded, Rejected, IsAccepted, Inserted, HasRaw, NewRaw

LEMMA RawsFitCommits ==
  ASSUME EvidenceTyped, RawsFit, NEW c \in Capture, Commits(c)
  PROVE  /\ \A r \in raws' : /\ r.evidence \in AcceptedEvidence'
                             /\ r.key = ObservationKey(evidence'[r.evidence])
         /\ \A r, q \in raws' : r.key = q.key => r = q
         /\ \A i \in AcceptedEvidence' :
                \E r \in raws' : r.key = ObservationKey(evidence'[i])
  <1> DEFINE n == Len(evidence) + 1
  <1>a. /\ IsAccepted(c) => AcceptedEvidence' = AcceptedEvidence \cup {n}
        /\ ~IsAccepted(c) => AcceptedEvidence' = AcceptedEvidence
        /\ \A i \in AcceptedEvidence : evidence'[i] = evidence[i]
        /\ evidence'[n] = c
    BY AcceptedGrows, EvidenceGrows
  <1>b. /\ \A r \in raws : r.evidence \in AcceptedEvidence
                           /\ r.key = ObservationKey(evidence[r.evidence])
        /\ \A r, q \in raws : r.key = q.key => r = q
        /\ \A i \in AcceptedEvidence : \E r \in raws : r.key = ObservationKey(evidence[i])
    BY DEF RawsFit
  <1>c. NewRaw(c).key = ObservationKey(c) /\ NewRaw(c).evidence = n
    BY DEF NewRaw
  <1> HIDE DEF n
  <1>1. CASE ~IsAccepted(c)
    BY <1>1, <1>a, <1>b, RawsAfter
  <1>2. CASE IsAccepted(c) /\ HasRaw(c)
    <2>1. raws' = raws /\ \E r \in raws : r.key = ObservationKey(c)
      BY <1>2, RawsAfter DEF HasRaw
    <2> QED BY <1>2, <1>a, <1>b, <2>1
  <1>3. CASE IsAccepted(c) /\ ~HasRaw(c)
    <2>1. raws' = raws \cup {NewRaw(c)} /\ \A r \in raws : r.key # NewRaw(c).key
      BY <1>3, <1>c, RawsAfter DEF HasRaw
    <2>2. \A r \in raws' : r.evidence \in AcceptedEvidence'
                           /\ r.key = ObservationKey(evidence'[r.evidence])
      BY <1>3, <1>a, <1>b, <1>c, <2>1
    <2>3. \A r, q \in raws' : r.key = q.key => r = q
      BY <1>b, <2>1
    <2>4. \A i \in AcceptedEvidence' :
              \E r \in raws' : r.key = ObservationKey(evidence'[i])
      BY <1>3, <1>a, <1>b, <1>c, <2>1
    <2> QED BY <2>2, <2>3, <2>4
  <1> QED BY <1>1, <1>2, <1>3

\* The raw observation of c after its commit, if c is accepted: it was there with an
\* agreeing capture, or is new.
LEMMA RawOf ==
  ASSUME EvidenceTyped, RawsFit, NEW c \in Capture, Commits(c), IsAccepted(c)
  PROVE  /\ HasRaw(c) => \E r \in raws :
                /\ r.key = ObservationKey(c)
                /\ IsJson(evidence[r.evidence]) <=> IsJson(c)
                /\ HasPoint(evidence[r.evidence]) <=> HasPoint(c)
         /\ \A r \in raws' :
                \/ r \in raws /\ evidence'[r.evidence] = evidence[r.evidence]
                \/ r.key = ObservationKey(c) /\ evidence'[r.evidence] = c
  <1>1. ASSUME HasRaw(c)
        PROVE  \E r \in raws :
                /\ r.key = ObservationKey(c)
                /\ IsJson(evidence[r.evidence]) <=> IsJson(c)
                /\ HasPoint(evidence[r.evidence]) <=> HasPoint(c)
    <2>1. PICK r \in raws : r.key = ObservationKey(c)
      BY <1>1 DEF HasRaw
    <2> DEFINE d == evidence[r.evidence]
    <2>2. r.evidence \in AcceptedEvidence /\ ObservationKey(d) = ObservationKey(c)
      BY <2>1 DEF RawsFit
    <2>3. d \in Capture /\ IsAccepted(d)
      BY <2>2, AcceptedGrows
    <2> HIDE DEF d
    <2>4. /\ StreamKey(c) = StreamKey(d) /\ TopicOf(c.message) = TopicOf(d.message)
          /\ ContentOf(c.message) = ContentOf(d.message)
      BY <2>2 DEF ObservationKey
    <2>5. (IsJson(d) <=> IsJson(c)) /\ (HasPoint(d) <=> HasPoint(c))
      BY <2>3, <2>4, SameKeyAgrees DEF IsAccepted
    <2> QED BY <2>1, <2>5 DEF d
  <1>2. ASSUME NEW r \in raws', r \in raws
        PROVE  evidence'[r.evidence] = evidence[r.evidence]
    BY <1>2, AcceptedGrows DEF RawsFit
  <1>3. ASSUME NEW r \in raws', r \notin raws
        PROVE  r.key = ObservationKey(c) /\ evidence'[r.evidence] = c
    <2>1. r = NewRaw(c)
      BY <1>3, RawsAfter
    <2> QED BY <2>1, EvidenceGrows DEF NewRaw
  <1> QED BY <1>1, <1>2, <1>3

-----------------------------------------------------------------------------
(* What a commit does to the queues. *)

TaskOf(key, p) == [key |-> key, processor |-> p]

PointOf(key) == [stream |-> key.stream, time |-> key.time, content |-> key.content]

TasksAreQueued ==
    \A x : x \in tasks <=> \E r \in raws, p \in Processors :
                                IsJson(evidence[r.evidence]) /\ x = TaskOf(r.key, p)

PointsAreQueued ==
    /\ \A row \in outbox : \E r \in raws :
            HasPoint(evidence[r.evidence]) /\ row.key = PointOf(r.key)
    /\ \A r \in raws : HasPoint(evidence[r.evidence]) =>
            \E row \in outbox : row.key = PointOf(r.key)
    /\ \A row, other \in outbox : row.key = other.key => row = other

LEMMA QueuedMeans == QueuedWithRaw <=> TasksAreQueued /\ PointsAreQueued
  <1> DEFINE points == {q \in raws : HasPoint(evidence[q.evidence])}
             Due == {[key |-> r.key, processor |-> p] :
                        r \in {q \in raws : IsJson(evidence[q.evidence])}, p \in Processors}
             Keys == {[stream |-> r.key.stream, time |-> r.key.time,
                       content |-> r.key.content] : r \in points}
             Queued == {row.key : row \in outbox}
  <1>1. \A x : x \in Due <=> \E r \in raws, p \in Processors :
                                IsJson(evidence[r.evidence]) /\ x = TaskOf(r.key, p)
    BY DEF TaskOf
  <1>2. \A x : x \in Keys <=> \E r \in raws :
                                HasPoint(evidence[r.evidence]) /\ x = PointOf(r.key)
    BY DEF PointOf
  <1>3. \A x : x \in Queued <=> \E row \in outbox : x = row.key
    OBVIOUS
  <1>4. QueuedWithRaw <=>
            /\ tasks = Due
            /\ Queued = Keys
            /\ \A row, other \in outbox : row.key = other.key => row = other
    BY DEF QueuedWithRaw
  <1> HIDE DEF Due, Keys, Queued
  <1>5. tasks = Due <=> TasksAreQueued
    <2>1. tasks = Due <=> \A x : x \in tasks <=> x \in Due
      OBVIOUS
    <2> QED BY <1>1, <2>1, Zenon DEF TasksAreQueued
  <1>6. Queued = Keys <=>
            /\ \A row \in outbox : \E r \in raws :
                    HasPoint(evidence[r.evidence]) /\ row.key = PointOf(r.key)
            /\ \A r \in raws : HasPoint(evidence[r.evidence]) =>
                    \E row \in outbox : row.key = PointOf(r.key)
    <2>1. Queued = Keys <=> /\ \A x : x \in Queued => x \in Keys
                            /\ \A x : x \in Keys => x \in Queued
      OBVIOUS
    <2>2. (\A x : x \in Queued => x \in Keys) <=>
            \A row \in outbox : \E r \in raws :
                HasPoint(evidence[r.evidence]) /\ row.key = PointOf(r.key)
      <3>1. ASSUME \A x : x \in Queued => x \in Keys, NEW row \in outbox
            PROVE  \E r \in raws : HasPoint(evidence[r.evidence]) /\ row.key = PointOf(r.key)
        <4>1. row.key \in Queued
          BY <1>3
        <4>2. row.key \in Keys
          BY <3>1, <4>1
        <4> QED BY <1>2, <4>2
      <3>2. ASSUME \A row \in outbox : \E r \in raws :
                        HasPoint(evidence[r.evidence]) /\ row.key = PointOf(r.key),
                   NEW x \in Queued
            PROVE  x \in Keys
        <4>1. PICK row \in outbox : x = row.key
          BY <1>3
        <4> QED BY <1>2, <3>2, <4>1
      <3> QED BY <3>1, <3>2
    <2>3. (\A x : x \in Keys => x \in Queued) <=>
            \A r \in raws : HasPoint(evidence[r.evidence]) =>
                \E row \in outbox : row.key = PointOf(r.key)
      BY <1>2, <1>3
    <2> QED BY <2>1, <2>2, <2>3
  <1> QED BY <1>4, <1>5, <1>6 DEF PointsAreQueued

LEMMA TasksAfter ==
  ASSUME NEW c \in Capture, Commits(c)
  PROVE  tasks' = IF IsAccepted(c) /\ IsJson(c)
                  THEN tasks \cup {TaskOf(ObservationKey(c), p) : p \in Processors}
                  ELSE tasks
  BY DEF Commits, Recorded, Rejected, IsAccepted, WithTasks, TaskOf

LEMMA TasksAreQueuedCommits ==
  ASSUME EvidenceTyped, RawsFit, TasksAreQueued, NEW c \in Capture, Commits(c)
  PROVE  \A x : x \in tasks' <=> \E r \in raws', p \in Processors :
                                    IsJson(evidence'[r.evidence]) /\ x = TaskOf(r.key, p)
  <1> SUFFICES ASSUME NEW x
               PROVE  x \in tasks' <=> \E r \in raws', p \in Processors :
                                    IsJson(evidence'[r.evidence]) /\ x = TaskOf(r.key, p)
    OBVIOUS
  <1> DEFINE Before == \E r \in raws, p \in Processors :
                            IsJson(evidence[r.evidence]) /\ x = TaskOf(r.key, p)
             Now == \E p \in Processors : x = TaskOf(ObservationKey(c), p)
  <1>a. x \in tasks <=> Before
    BY DEF TasksAreQueued
  <1>b. \A r \in raws : evidence'[r.evidence] = evidence[r.evidence]
    BY AcceptedGrows DEF RawsFit
  <1>1. CASE ~IsAccepted(c)
    <2>1. raws' = raws /\ tasks' = tasks
      BY <1>1, RawsAfter, TasksAfter
    <2> QED BY <1>a, <1>b, <2>1
  <1>2. CASE IsAccepted(c) /\ HasRaw(c)
    <2>1. PICK o \in raws : /\ o.key = ObservationKey(c)
                            /\ IsJson(evidence[o.evidence]) <=> IsJson(c)
      BY <1>2, RawOf
    <2>2. raws' = raws
      BY <1>2, RawsAfter
    <2>3. x \in tasks' <=> x \in tasks \/ (IsJson(c) /\ Now)
      BY <1>2, TasksAfter
    <2>4. IsJson(c) /\ Now => Before
      BY <2>1
    <2> QED BY <1>a, <1>b, <2>2, <2>3, <2>4
  <1>3. CASE IsAccepted(c) /\ ~HasRaw(c)
    <2>1. raws' = raws \cup {NewRaw(c)}
      BY <1>3, RawsAfter
    <2>2. evidence'[NewRaw(c).evidence] = c /\ NewRaw(c).key = ObservationKey(c)
      BY EvidenceGrows DEF NewRaw
    <2>3. x \in tasks' <=> x \in tasks \/ (IsJson(c) /\ Now)
      BY <1>3, TasksAfter
    <2> QED BY <1>a, <1>b, <2>1, <2>2, <2>3
  <1> QED BY <1>1, <1>2, <1>3

LEMMA OutboxAfter ==
  ASSUME NEW c \in Capture, Commits(c)
  PROVE  /\ ~(IsAccepted(c) /\ HasPoint(c)) => outbox' = outbox
         /\ IsAccepted(c) /\ HasPoint(c) =>
                \/ /\ outbox' = outbox
                   /\ \E row \in outbox : row.key = PointOf(ObservationKey(c))
                \/ /\ \A row \in outbox : row.key # PointOf(ObservationKey(c))
                   /\ \E new : /\ new.key = PointOf(ObservationKey(c))
                               /\ outbox' = outbox \cup {new}
  <1>1. DeliveryKey(c) = PointOf(ObservationKey(c))
    BY DEF DeliveryKey, PointOf, ObservationKey
  <1> DEFINE added == [key |-> DeliveryKey(c), evidence |-> Len(evidence) + 1]
  <1>2. added.key = DeliveryKey(c)
    OBVIOUS
  <1>3. ~(IsAccepted(c) /\ HasPoint(c)) => outbox' = outbox
    BY DEF Commits, Recorded, Rejected, IsAccepted
  <1>4. IsAccepted(c) /\ HasPoint(c) =>
            outbox' = IF \E row \in outbox : row.key = DeliveryKey(c)
                      THEN outbox ELSE outbox \cup {added}
    BY DEF Commits, Recorded, IsAccepted, Inserted
  <1> HIDE DEF added
  <1> QED BY <1>1, <1>2, <1>3, <1>4

LEMMA PointsAreQueuedCommits ==
  ASSUME EvidenceTyped, RawsFit, PointsAreQueued, NEW c \in Capture, Commits(c)
  PROVE  /\ \A row \in outbox' : \E r \in raws' :
                HasPoint(evidence'[r.evidence]) /\ row.key = PointOf(r.key)
         /\ \A r \in raws' : HasPoint(evidence'[r.evidence]) =>
                \E row \in outbox' : row.key = PointOf(r.key)
         /\ \A row, other \in outbox' : row.key = other.key => row = other
  <1>a. /\ \A row \in outbox : \E r \in raws :
                HasPoint(evidence[r.evidence]) /\ row.key = PointOf(r.key)
        /\ \A r \in raws : HasPoint(evidence[r.evidence]) =>
                \E row \in outbox : row.key = PointOf(r.key)
        /\ \A row, other \in outbox : row.key = other.key => row = other
    BY DEF PointsAreQueued
  <1>b. \A r \in raws : evidence'[r.evidence] = evidence[r.evidence]
    BY AcceptedGrows DEF RawsFit
  <1>c. raws \subseteq raws' /\ outbox \subseteq outbox'
    BY RawsAfter, OutboxAfter
  <1>1. CASE ~(IsAccepted(c) /\ HasPoint(c))
    <2>1. outbox' = outbox
      BY <1>1, OutboxAfter
    <2>2. ASSUME NEW r \in raws', HasPoint(evidence'[r.evidence])
          PROVE  r \in raws
      <3>1. CASE IsAccepted(c)
        BY <1>1, <2>2, <3>1, RawOf
      <3>2. CASE ~IsAccepted(c)
        BY <3>2, RawsAfter
      <3> QED BY <3>1, <3>2
    <2> QED BY <1>a, <1>b, <1>c, <2>1, <2>2
  <1>2. CASE IsAccepted(c) /\ HasPoint(c)
    <2>1. \E r \in raws' : HasPoint(evidence'[r.evidence]) /\ r.key = ObservationKey(c)
      <3>1. CASE HasRaw(c)
        BY <1>2, <1>b, <1>c, <3>1, RawOf
      <3>2. CASE ~HasRaw(c)
        <4>1. NewRaw(c) \in raws'
          BY <1>2, <3>2, RawsAfter
        <4>2. evidence'[NewRaw(c).evidence] = c /\ NewRaw(c).key = ObservationKey(c)
          BY EvidenceGrows DEF NewRaw
        <4> QED BY <1>2, <4>1, <4>2
      <3> QED BY <3>1, <3>2
    <2>2. \A row \in outbox' : row \in outbox \/ row.key = PointOf(ObservationKey(c))
      BY <1>2, OutboxAfter
    <2>3. \E row \in outbox' : row.key = PointOf(ObservationKey(c))
      BY <1>2, OutboxAfter
    <2>4. \A row, other \in outbox' : row.key = other.key => row = other
      BY <1>2, <1>a, OutboxAfter
    <2>5. \A r \in raws' : HasPoint(evidence'[r.evidence]) =>
                \E row \in outbox' : row.key = PointOf(r.key)
      BY <1>2, <1>a, <1>c, <2>3, RawOf
    <2>6. \A row \in outbox' : \E r \in raws' :
                HasPoint(evidence'[r.evidence]) /\ row.key = PointOf(r.key)
      BY <1>a, <1>b, <1>c, <2>1, <2>2
    <2> QED BY <2>4, <2>5, <2>6
  <1> QED BY <1>1, <1>2

-----------------------------------------------------------------------------
(* The catalog as a whole. *)

CatalogOK == EvidenceTyped /\ StreamsTyped /\ StreamsFit /\ RawsFit /\ QueuedWithRaw

LEMMA CatalogCommits ==
  ASSUME CatalogOK, NEW c \in Capture, Commits(c)
  PROVE  CatalogOK'
  <1> USE DEF CatalogOK
  <1>1. EvidenceTyped' /\ StreamsTyped'
    BY EvidenceGrows, StreamsAfter
  <1>2. StreamsFit'
    BY StreamsFitCommits
  <1>3. RawsFit'
    BY RawsFitCommits DEF RawsFit, ObservationKey, StreamKey, IdentityTime, TimeIsReceived,
       IsUsable, SourceTime, IsJson
  <1>4. TasksAreQueued /\ PointsAreQueued
    BY QueuedMeans
  <1>5. TasksAreQueued'
    BY <1>4, TasksAreQueuedCommits DEF TasksAreQueued, IsJson
  <1>6. PointsAreQueued'
    BY <1>4, PointsAreQueuedCommits DEF PointsAreQueued, HasPoint, IsJson
  <1>7. (QueuedWithRaw <=> TasksAreQueued /\ PointsAreQueued)'
    BY QueuedMeans, PTL
  <1> QED BY <1>1, <1>2, <1>3, <1>5, <1>6, <1>7

LEMMA CatalogStays ==
  ASSUME CatalogOK, UNCHANGED catalogVars
  PROVE  CatalogOK'
  <1>1. /\ evidence' = evidence /\ streams' = streams /\ raws' = raws
        /\ tasks' = tasks /\ outbox' = outbox
    BY DEF catalogVars
  <1>2. EvidenceTyped' /\ StreamsTyped'
    BY <1>1 DEF CatalogOK, EvidenceTyped, StreamsTyped
  <1>3. \A s \in Streams : EvidenceOf(s)' = EvidenceOf(s)
    BY <1>1 DEF EvidenceOf, StreamKey
  <1>4. AcceptedEvidence' = AcceptedEvidence
    BY <1>1 DEF AcceptedEvidence, IsAuthorized, Outcome, IsJson
  <1>5. StreamsFit'
    BY <1>1, <1>3 DEF CatalogOK, StreamsFit
  <1>6. RawsFit'
    BY <1>1, <1>4 DEF CatalogOK, RawsFit, ObservationKey, StreamKey, IdentityTime,
       TimeIsReceived, IsUsable, SourceTime, IsJson
  <1>7. QueuedWithRaw'
    BY <1>1 DEF CatalogOK, QueuedWithRaw, HasPoint, IsJson
  <1> QED BY <1>2, <1>5, <1>6, <1>7 DEF CatalogOK

\* Nothing that is stored or queued is lost by a commit.
LEMMA CommitsGrow ==
  ASSUME CatalogOK, NEW c \in Capture, Commits(c)
  PROVE  /\ raws \subseteq raws' /\ tasks \subseteq tasks' /\ outbox \subseteq outbox'
         /\ evidence = SubSeq(evidence', 1, Len(evidence))
  <1>1. raws \subseteq raws' /\ tasks \subseteq tasks' /\ outbox \subseteq outbox'
    BY RawsAfter, TasksAfter, OutboxAfter
  <1>2. evidence \in Seq(Capture) /\ evidence' \in Seq(Capture)
        /\ Len(evidence) \in Nat /\ Len(evidence') = Len(evidence) + 1
    BY EvidenceGrows DEF CatalogOK, EvidenceTyped
  <1> DEFINE front == SubSeq(evidence', 1, Len(evidence))
  <1>3. \A i \in 1..Len(evidence) : evidence'[i] = evidence[i] /\ evidence'[i] \in Capture
    BY EvidenceGrows DEF CatalogOK
  <1>4. front \in Seq(Capture) /\ Len(front) = Len(evidence)
        /\ \A i \in 1..Len(evidence) : front[i] = evidence'[i]
    <2> HIDE DEF Capture
    <2>1. \A i \in 1..Len(evidence) : evidence'[i] \in Capture
      BY <1>3
    <2>2. Len(evidence) \in Int /\ 1 \in Int
      BY <1>2
    <2> QED BY <1>2, <2>1, <2>2
  <1> HIDE DEF front, Capture
  <1>5. front = evidence
    BY <1>2, <1>3, <1>4, SeqEqual
  <1> QED BY <1>1, <1>5 DEF front

-----------------------------------------------------------------------------
(* The adapters. *)

AdaptersOK ==
    /\ clock \in Nat /\ deliveries \in Nat /\ faults \in Nat
    /\ status \in [Adapters -> Status]
    /\ pc \in [Adapters -> Pc]
    /\ attempts \in [Adapters -> 0..2]
    /\ inbox \in [Adapters -> Seq(Messages)]
    /\ hand \in [Adapters -> Capture \cup {NoCapture}]
    /\ HandsFit
    /\ StatusIsTrue

LEMMA IngestionInvIs == IngestionInv <=> AdaptersOK /\ CatalogOK
  BY DEF IngestionInv, TypeOK, AdaptersOK, CatalogOK, EvidenceTyped, StreamsTyped

\* The commit of an adapter's transaction is that of a capture.
LEMMA CommittedIs ==
  ASSUME AdaptersOK, NEW a \in Adapters, Committed(a)
  PROVE  hand[a] \in Capture /\ Commits(hand[a])
  BY DEF AdaptersOK, HandsFit, Committed, Commits

\* An adapter that leaves its client reports why.
LEMMA LeaveKeeps ==
  ASSUME AdaptersOK, NEW a \in Adapters, NEW to, NEW reported, Leave(a, to, reported),
         \/ to = "off" /\ reported \in {"disabled", "failed", "stopped"}
         \/ to = "sleeping" /\ reported = "reconnecting" /\ attempts'[a] < 2,
         attempts' \in [Adapters -> 0..2],
         \A b \in Adapters \ {a} : attempts'[b] = attempts[b],
         clock' \in Nat, deliveries' \in Nat, faults' \in Nat
  PROVE  AdaptersOK'
  <1> HIDE DEF Capture
  <1>a. /\ pc' = [pc EXCEPT ![a] = to] /\ status' = [status EXCEPT ![a] = reported]
        /\ inbox' = [inbox EXCEPT ![a] = <<>>] /\ hand' = [hand EXCEPT ![a] = NoCapture]
    BY DEF Leave
  <1>1. /\ pc' \in [Adapters -> Pc] /\ status' \in [Adapters -> Status]
        /\ hand' \in [Adapters -> Capture \cup {NoCapture}]
    BY <1>a DEF AdaptersOK, Pc, Status
  <1>2. inbox' \in [Adapters -> Seq(Messages)]
    BY <1>a DEF AdaptersOK
  <1>3. HandsFit'
    BY <1>a DEF AdaptersOK, HandsFit, IsAuthorized
  <1>4. StatusIsTrue'
    BY <1>a DEF AdaptersOK, StatusIsTrue, Connected, Pc, Status
  <1> QED BY <1>1, <1>2, <1>3, <1>4 DEF AdaptersOK

LEMMA FailKeeps ==
  ASSUME AdaptersOK, NEW a \in Adapters, Fail(a), pc[a] # "off",
         clock' \in Nat, deliveries' \in Nat, faults' \in Nat
  PROVE  AdaptersOK'
  <1>1. attempts[a] \in 0..1
    BY DEF AdaptersOK, HandsFit
  <1>2. /\ attempts' \in [Adapters -> 0..2] /\ attempts'[a] = attempts[a] + 1
        /\ \A b \in Adapters \ {a} : attempts'[b] = attempts[b]
    BY <1>1 DEF AdaptersOK, Fail
  <1>3. CASE attempts[a] + 1 = 2
    <2>1. Leave(a, "off", "failed")
      BY <1>3 DEF Fail
    <2> QED BY <1>2, <2>1, LeaveKeeps
  <1>4. CASE attempts[a] + 1 # 2
    <2>1. Leave(a, "sleeping", "reconnecting") /\ attempts'[a] < 2
      BY <1>1, <1>2, <1>4 DEF Fail
    <2> QED BY <1>2, <2>1, LeaveKeeps
  <1> QED BY <1>3, <1>4

LEMMA FaultsTyped ==
  ASSUME AdaptersOK, Fault
  PROVE  faults' \in Nat
  BY DEF AdaptersOK, Fault

LEMMA StopsKeep ==
  ASSUME AdaptersOK, NEW a \in Adapters,
         Stop(a) \/ Crash(a) \/ Disconnect(a) \/ RefuseEvidence(a) \/ HandlerFails(a)
  PROVE  AdaptersOK'
  <1>a. clock \in Nat /\ deliveries \in Nat /\ faults \in Nat
        /\ attempts \in [Adapters -> 0..2]
    BY DEF AdaptersOK
  <1>1. CASE Stop(a)
    <2>1. /\ Leave(a, "off", "stopped") /\ attempts' = attempts
          /\ clock' = clock /\ deliveries' = deliveries /\ faults' = faults
      BY <1>1 DEF Stop
    <2> QED BY <1>a, <2>1, LeaveKeeps
  <1>2. CASE Crash(a)
    <2>1. /\ Leave(a, "off", "disabled") /\ attempts' = attempts
          /\ clock' = clock /\ deliveries' = deliveries /\ faults' \in Nat
      BY <1>2, FaultsTyped DEF Crash
    <2> QED BY <1>a, <2>1, LeaveKeeps
  <1>3. CASE Disconnect(a) \/ RefuseEvidence(a) \/ HandlerFails(a)
    <2>1. /\ Fail(a) /\ pc[a] # "off"
          /\ clock' = clock /\ deliveries' = deliveries /\ faults' \in Nat
      BY <1>3, <1>a, FaultsTyped DEF Disconnect, RefuseEvidence, HandlerFails
    <2> QED BY <1>a, <2>1, FailKeeps
  <1> QED BY <1>1, <1>2, <1>3

LEMMA ConnectionsKeep ==
  ASSUME AdaptersOK, NEW a \in Adapters,
         Start(a) \/ Connect(a) \/ Wake(a) \/ UpsertStream(a) \/ Record(a)
  PROVE  AdaptersOK'
  <1> HIDE DEF Capture
  <1>a. clock' \in Nat /\ deliveries' \in Nat /\ faults' \in Nat /\ inbox' = inbox
    BY DEF AdaptersOK, Start, Connect, Wake, UpsertStream, Record, HandlerDone
  <1>1. CASE Start(a)
    <2>1. /\ pc' = [pc EXCEPT ![a] = "connecting"] /\ hand' = hand
          /\ status' = [status EXCEPT ![a] = "starting"]
          /\ attempts' = [attempts EXCEPT ![a] = 0]
      BY <1>1 DEF Start
    <2>2. HandsFit'
      BY <2>1 DEF AdaptersOK, HandsFit, IsAuthorized
    <2>3. StatusIsTrue'
      BY <2>1 DEF AdaptersOK, StatusIsTrue, Connected, Pc, Status
    <2> QED BY <1>a, <2>1, <2>2, <2>3 DEF AdaptersOK, Pc, Status
  <1>2. CASE Connect(a)
    <2>1. /\ pc[a] = "connecting" /\ hand' = hand /\ attempts' = attempts
          /\ pc' = [pc EXCEPT ![a] = "receiving"]
          /\ status' = [status EXCEPT ![a] = "running"]
      BY <1>2 DEF Connect
    <2>2. HandsFit'
      BY <2>1 DEF AdaptersOK, HandsFit, IsAuthorized
    <2>3. StatusIsTrue'
      BY <2>1 DEF AdaptersOK, StatusIsTrue, Connected, Pc, Status
    <2> QED BY <1>a, <2>1, <2>2, <2>3 DEF AdaptersOK, Pc, Status
  <1>3. CASE Wake(a)
    <2>1. /\ pc[a] = "sleeping" /\ hand' = hand /\ attempts' = attempts /\ status' = status
          /\ pc' = [pc EXCEPT ![a] = "connecting"]
      BY <1>3 DEF Wake
    <2>2. HandsFit'
      BY <2>1 DEF AdaptersOK, HandsFit, IsAuthorized
    <2>3. StatusIsTrue'
      BY <2>1 DEF AdaptersOK, StatusIsTrue, Connected, Pc, Status
    <2> QED BY <1>a, <2>1, <2>2, <2>3 DEF AdaptersOK, Pc, Status
  <1>4. CASE UpsertStream(a)
    <2>1. /\ pc[a] = "handling" /\ hand' = hand /\ attempts' = attempts /\ status' = status
          /\ pc' = [pc EXCEPT ![a] = "writing"] /\ IsAuthorized(hand[a])
      BY <1>4 DEF UpsertStream
    <2>2. HandsFit'
      BY <2>1 DEF AdaptersOK, HandsFit, IsAuthorized
    <2>3. StatusIsTrue'
      BY <2>1 DEF AdaptersOK, StatusIsTrue, Connected, Pc, Status
    <2> QED BY <1>a, <2>1, <2>2, <2>3 DEF AdaptersOK, Pc, Status
  <1>5. CASE Record(a)
    <2>1. /\ pc[a] \in {"handling", "writing"} /\ attempts' = attempts /\ status' = status
          /\ pc' = [pc EXCEPT ![a] = "receiving"] /\ hand' = [hand EXCEPT ![a] = NoCapture]
      BY <1>5 DEF Record, Committed, HandlerDone
    <2>2. HandsFit'
      BY <2>1 DEF AdaptersOK, HandsFit, IsAuthorized
    <2>3. StatusIsTrue'
      BY <2>1 DEF AdaptersOK, StatusIsTrue, Connected, Pc, Status
    <2> QED BY <1>a, <2>1, <2>2, <2>3 DEF AdaptersOK, Pc, Status
  <1> QED BY <1>1, <1>2, <1>3, <1>4, <1>5

LEMMA MessagesKeep ==
  ASSUME AdaptersOK,
         Tick \/ \E a \in Adapters : Take(a) \/ \E m \in Messages : Deliver(a, m)
  PROVE  AdaptersOK'
  <1>1. CASE Tick
    BY <1>1 DEF Tick, AdaptersOK, adapterVars, HandsFit, StatusIsTrue, IsAuthorized
  <1>2. ASSUME NEW a \in Adapters, NEW m \in Messages, Deliver(a, m)
        PROVE  AdaptersOK'
    <2>1. /\ inbox' = [inbox EXCEPT ![a] = Append(inbox[a], m)]
          /\ deliveries' = deliveries + 1 /\ clock' = clock /\ faults' = faults
          /\ status' = status /\ pc' = pc /\ attempts' = attempts /\ hand' = hand
      BY <1>2 DEF Deliver
    <2>2. inbox[a] \in Seq(Messages)
      BY DEF AdaptersOK
    <2>3. Append(inbox[a], m) \in Seq(Messages)
      BY <2>2
    <2>4. inbox' \in [Adapters -> Seq(Messages)]
      BY <2>1, <2>3 DEF AdaptersOK
    <2> QED BY <2>1, <2>4 DEF AdaptersOK, HandsFit, StatusIsTrue, IsAuthorized
  <1>3. ASSUME NEW a \in Adapters, Take(a)
        PROVE  AdaptersOK'
    <2> DEFINE c == [message |-> Head(inbox[a]), received_at |-> clock]
    <2>1. /\ pc[a] = "receiving" /\ inbox[a] # <<>>
          /\ hand' = [hand EXCEPT ![a] = c] /\ inbox' = [inbox EXCEPT ![a] = Tail(inbox[a])]
          /\ pc' = [pc EXCEPT ![a] = "handling"]
          /\ clock' = clock /\ status' = status /\ attempts' = attempts
          /\ deliveries' = deliveries /\ faults' = faults
      BY <1>3 DEF Take
    <2>2. inbox[a] \in Seq(Messages) /\ clock \in Nat
      BY DEF AdaptersOK
    <2>3. Head(inbox[a]) \in Messages /\ Tail(inbox[a]) \in Seq(Messages)
      BY <2>1, <2>2
    <2>4. c \in Capture
      BY <2>2, <2>3 DEF Capture
    <2> HIDE DEF c, Capture
    <2>5. /\ inbox' \in [Adapters -> Seq(Messages)]
          /\ hand' \in [Adapters -> Capture \cup {NoCapture}]
          /\ pc' \in [Adapters -> Pc]
      BY <2>1, <2>3, <2>4 DEF AdaptersOK, Pc
    <2>6. HandsFit'
      BY <2>1, <2>4 DEF AdaptersOK, HandsFit, IsAuthorized
    <2>7. StatusIsTrue'
      BY <2>1 DEF AdaptersOK, StatusIsTrue, Connected, Pc, Status
    <2> QED BY <2>1, <2>5, <2>6, <2>7 DEF AdaptersOK
  <1> QED BY <1>1, <1>2, <1>3

-----------------------------------------------------------------------------
(* The theorems. *)

\* A step leaves the catalog alone or commits one capture.
LEMMA CatalogSteps ==
  ASSUME AdaptersOK, [Next]_vars
  PROVE  UNCHANGED catalogVars \/ \E c \in Capture : Commits(c)
  <1>1. ASSUME NEW a \in Adapters, Committed(a)
        PROVE  \E c \in Capture : Commits(c)
    BY <1>1, CommittedIs
  <1>2. ASSUME NEW a \in Adapters,
               AdapterStep(a) \/ Start(a) \/ Stop(a) \/ Crash(a) \/ Disconnect(a)
               \/ HandlerFails(a)
        PROVE  UNCHANGED catalogVars \/ Committed(a)
    BY <1>2 DEF AdapterStep, Start, Stop, Crash, Disconnect, HandlerFails, Connect, Wake, Take,
       UpsertStream, Record, RefuseEvidence
  <1>3. ASSUME Tick \/ UNCHANGED vars \/ \E a \in Adapters, m \in Messages : Deliver(a, m)
        PROVE  UNCHANGED catalogVars
    BY <1>3 DEF Tick, Deliver, vars
  <1> QED BY <1>1, <1>2, <1>3 DEF Next

LEMMA AdaptersKeep ==
  ASSUME AdaptersOK, [Next]_vars
  PROVE  AdaptersOK'
  <1>1. CASE UNCHANGED vars
    BY <1>1 DEF vars, adapterVars, AdaptersOK, HandsFit, StatusIsTrue, IsAuthorized
  <1>2. CASE Next
    BY <1>2, StopsKeep, ConnectionsKeep, MessagesKeep DEF Next, AdapterStep
  <1> QED BY <1>1, <1>2

LEMMA IngestionInitially == Init => IngestionInv
  <1> SUFFICES ASSUME Init
               PROVE  AdaptersOK /\ CatalogOK
    BY IngestionInvIs
  <1>1. AdaptersOK
    <2>1. \A a \in Adapters : <<>> \in Seq(Messages)
      OBVIOUS
    <2> QED BY <2>1, AdapterBoundsAssumption DEF Init, AdaptersOK, HandsFit, StatusIsTrue, Status, Pc, Connected
  <1>a. /\ streams = [s \in Streams |-> AbsentStream] /\ evidence = <<>>
        /\ raws = {} /\ tasks = {} /\ outbox = {}
    BY DEF Init, CatalogInit
  <1>2. EvidenceTyped /\ DOMAIN evidence = {}
    BY <1>a DEF EvidenceTyped
  <1>3. StreamsTyped
    BY <1>a DEF StreamsTyped, StreamRow, AbsentStream, ContentType, NoTime
  <1>4. StreamsFit
    <2>1. \A s \in Streams : EvidenceOf(s) = {}
      BY <1>2 DEF EvidenceOf
    <2>2. AbsentStream.observation_count = 0
      BY DEF AbsentStream
    <2> QED BY <1>a, <2>1, <2>2, FS_EmptySet DEF StreamsFit
  <1>5. RawsFit
    BY <1>a, <1>2 DEF RawsFit, AcceptedEvidence
  <1>6. QueuedWithRaw
    BY <1>a, QueuedMeans DEF TasksAreQueued, PointsAreQueued
  <1> QED BY <1>1, <1>2, <1>3, <1>4, <1>5, <1>6 DEF CatalogOK

\* Every step of the adapters, the broker and their failures keeps the adapters'
\* reports true and the catalog's tables in agreement.
THEOREM IngestionInductive == IngestionInv /\ [Next]_vars => IngestionInv'
  <1> SUFFICES ASSUME IngestionInv, [Next]_vars
               PROVE  IngestionInv'
    OBVIOUS
  <1>1. AdaptersOK /\ CatalogOK
    BY IngestionInvIs
  <1>2. AdaptersOK'
    BY <1>1, AdaptersKeep
  <1>3. CatalogOK'
    BY <1>1, CatalogSteps, CatalogCommits, CatalogStays
  <1>4. (IngestionInv <=> AdaptersOK /\ CatalogOK)'
    BY IngestionInvIs, PTL
  <1> QED BY <1>2, <1>3, <1>4

\* Whatever the broker delivers, how often, and whatever fails, the tables of the
\* catalog agree with each other.
THEOREM IngestionInvariance == Spec => []IngestionInv
  BY IngestionInitially, IngestionInductive, PTL DEF Spec

\* The variables have their types.
THEOREM TypeCorrect == Spec => []TypeOK
  <1>1. IngestionInv => TypeOK
    BY DEF IngestionInv
  <1> QED BY <1>1, IngestionInvariance, PTL

\* The least and the greatest of the captures are the first and the last.
LEMMA StreamsMatch == IngestionInv => StreamsMatchEvidence
  <1> SUFFICES ASSUME StreamsFit, EvidenceTyped, NEW s \in Streams
               PROVE  LET of == EvidenceOf(s)
                          first == CHOOSE i \in of : \A j \in of : i <= j
                          last == CHOOSE i \in of : \A j \in of : i >= j
                      IN /\ streams[s].observation_count = Cardinality(of)
                         /\ of # {} =>
                              /\ streams[s].first_observed_at = evidence[first].received_at
                              /\ streams[s].last_observed_at = evidence[last].received_at
    BY DEF IngestionInv, TypeOK, EvidenceTyped, StreamsMatchEvidence
  <1> DEFINE of == EvidenceOf(s)
             first == CHOOSE i \in of : \A j \in of : i <= j
             last == CHOOSE i \in of : \A j \in of : i >= j
  <1>1. of \subseteq Nat
    BY DEF EvidenceOf, EvidenceTyped
  <1>2. ASSUME of # {}
        PROVE  /\ streams[s].first_observed_at = evidence[first].received_at
               /\ streams[s].last_observed_at = evidence[last].received_at
    <2>1. PICK i, k \in of :
                /\ \A j \in of : i <= j /\ j <= k
                /\ streams[s].first_observed_at = evidence[i].received_at
                /\ streams[s].last_observed_at = evidence[k].received_at
      BY <1>2 DEF StreamsFit
    <2> HIDE DEF of
    <2>2. first \in of /\ \A j \in of : first <= j
      BY <2>1
    <2>3. last \in of /\ \A j \in of : last >= j
      BY <1>1, <2>1
    <2> HIDE DEF first, last
    <2>4. first = i /\ last = k
      BY <1>1, <2>1, <2>2, <2>3
    <2> QED BY <2>1, <2>4
  <1> QED BY <1>2 DEF StreamsFit

\* However many adapters race for a stream, its row agrees with the evidence.
THEOREM StreamsAgree == Spec => []StreamsMatchEvidence
  BY StreamsMatch, IngestionInvariance, PTL

\* The keys of the raw observations identify what their evidence observes.
LEMMA KeysStoreOnce == IngestionInv => StoredOnce
  <1> SUFFICES ASSUME RawsFit, EvidenceTyped
               PROVE  StoredOnce
    BY DEF IngestionInv, TypeOK, EvidenceTyped
  <1>1. \A i \in AcceptedEvidence :
            evidence[i] \in Capture /\ Outcome(evidence[i]) = "accepted"
    BY DEF AcceptedEvidence, EvidenceTyped
  <1>2. ASSUME NEW r \in raws, NEW q \in raws,
               SameObservation(evidence[r.evidence], evidence[q.evidence])
        PROVE  r = q
    <2>1. r.evidence \in AcceptedEvidence /\ q.evidence \in AcceptedEvidence
          /\ r.key = ObservationKey(evidence[r.evidence])
          /\ q.key = ObservationKey(evidence[q.evidence])
      BY DEF RawsFit
    <2>2. r.key = q.key
      BY <1>1, <1>2, <2>1, KeyIsIdentity
    <2> QED BY <2>2 DEF RawsFit
  <1>3. ASSUME NEW i \in AcceptedEvidence
        PROVE  \E r \in raws : SameObservation(evidence[r.evidence], evidence[i])
    <2>1. PICK r \in raws : r.key = ObservationKey(evidence[i])
      BY DEF RawsFit
    <2>2. r.evidence \in AcceptedEvidence /\ r.key = ObservationKey(evidence[r.evidence])
      BY DEF RawsFit
    <2>3. SameObservation(evidence[r.evidence], evidence[i])
      BY <1>1, <2>1, <2>2, KeyIsIdentity
    <2> QED BY <2>3
  <1>4. \A r \in raws : r.evidence \in AcceptedEvidence
    BY DEF RawsFit
  <1> QED BY <1>2, <1>3, <1>4 DEF StoredOnce

\* However often a message comes, it is stored once for each observation.
THEOREM ObservationsAreStoredOnce == Spec => []StoredOnce
  BY KeysStoreOnce, IngestionInvariance, PTL

\* What is stored is queued for the processors and, if a point, for delivery.
THEOREM StoredAreQueued == Spec => []QueuedWithRaw
  <1>1. IngestionInv => QueuedWithRaw
    BY DEF IngestionInv
  <1> QED BY <1>1, IngestionInvariance, PTL

\* What an adapter reports of itself is true.
THEOREM ReportsAreTrue == Spec => []StatusIsTrue
  <1>1. IngestionInv => StatusIsTrue
    BY DEF IngestionInv
  <1> QED BY <1>1, IngestionInvariance, PTL

\* No step, a rollback or a crash included, takes away what is stored or queued.
THEOREM NothingIsTakenBack == Spec => CatalogOnlyGrows
  <1>1. ASSUME IngestionInv, [Next]_vars
        PROVE  [/\ raws \subseteq raws' /\ tasks \subseteq tasks' /\ outbox \subseteq outbox'
                /\ evidence = SubSeq(evidence', 1, Len(evidence))]_vars
    <2>1. AdaptersOK /\ CatalogOK
      BY <1>1, IngestionInvIs
    <2>2. CASE \E c \in Capture : Commits(c)
      BY <2>1, <2>2, CommitsGrow
    <2>3. CASE UNCHANGED catalogVars
      <3>1. raws' = raws /\ tasks' = tasks /\ outbox' = outbox /\ evidence' = evidence
        BY <2>3 DEF catalogVars
      <3>2. evidence \in Seq(Capture)
        BY <2>1 DEF CatalogOK, EvidenceTyped
      <3>3. SubSeq(evidence, 1, Len(evidence)) = evidence
        BY <3>2, SubSeqFull
      <3> QED BY <3>1, <3>3
    <2> QED BY <1>1, <2>1, <2>2, <2>3, CatalogSteps
  <1> QED BY <1>1, IngestionInvariance, PTL DEF Spec, CatalogOnlyGrows

=============================================================================
