------------------------- MODULE ClassQueryExecution -------------------------
(***************************************************************************)
(* What an execution of a saved query computes from the points InfluxDB    *)
(* holds: the Flux query of services/influx_class_query_reader.py and the  *)
(* normalisation of its records in                                         *)
(* services/saved_class_query_execution_service.py.                        *)
(*                                                                         *)
(* A point is [series, time, type], and no property tells values apart.    *)
(* The writer also tags a point with timestamp_source and quality_status,  *)
(* so InfluxDB may hold two values of one type for a series and a time;    *)
(* both sorts leave the order of such two open, and they are left out      *)
(* here.  A sorted list of points is the set of its elements with the      *)
(* order it is sorted by.                                                  *)
(***************************************************************************)
EXTENDS Naturals, Integers, Sequences, FiniteSets

CONSTANTS
    Series,                 \* <<stream, field path>> pairs
    SeriesRank,             \* their rank by stream_id and field_path
    WindowStart,            \* the window [start, stop) of the execution
    WindowStop,
    MaxPointsPerSeries,
    MaxPointsPerResponse

ASSUME ExecutionAssumption ==
    /\ SeriesRank \in [Series -> Nat]
    /\ WindowStart \in Nat /\ WindowStop \in Nat
    /\ MaxPointsPerSeries \in Nat \ {0}
    /\ MaxPointsPerResponse \in Nat \ {0}

\* The rank of a type by the name of its InfluxDB field (value_boolean, ...).
FieldRank == [boolean |-> 0, float |-> 1, integer |-> 2, string |-> 3]

\* The rank of a type in the service's own order.
TypeRank == [boolean |-> 0, integer |-> 1, float |-> 2, string |-> 3]

Types == DOMAIN TypeRank

Points == [series : Series, time : Nat, type : Types]

\* The first n elements of S in the order Before.
First(n, S, Before(_, _)) ==
    {p \in S : Cardinality({q \in S : Before(q, p)}) < n}

OfSeries(points, series) == {p \in points : p.series = series}

-----------------------------------------------------------------------------
(* The Flux query. *)

\* sort(columns: ["_time", "_field"]) within a series
FluxBefore(p, q) ==
    \/ p.time < q.time
    \/ p.time = q.time /\ FieldRank[p.type] < FieldRank[q.type]

\* sort(columns: ["_time", "stream_id", "field_path", "_field"]) of all series
FluxBeforeInAll(p, q) ==
    \/ p.time < q.time
    \/ p.time = q.time /\ SeriesRank[p.series] < SeriesRank[q.series]
    \/ p.time = q.time /\ p.series = q.series /\ FieldRank[p.type] < FieldRank[q.type]

\* Faulty variant: stop is included.
WindowClosed(stored) ==
    {p \in stored : WindowStart <= p.time /\ p.time <= WindowStop}

InWindow(stored) ==
    {p \in stored : WindowStart <= p.time /\ p.time < WindowStop}

\* Faulty variant: no point beyond the limit shows that there are more.
ExactPerSeriesLimit == MaxPointsPerSeries

PerSeriesLimit == MaxPointsPerSeries + 1

TotalLimit == MaxPointsPerResponse + 1

\* The records read: the first of each series, and of those the first in all.
Read(requested, stored) ==
    LET window == InWindow(stored)
        firstOf(series) == First(PerSeriesLimit, OfSeries(window, series), FluxBefore)
    IN First(TotalLimit,
             UNION {firstOf(requested[i]) : i \in DOMAIN requested},
             FluxBeforeInAll)

-----------------------------------------------------------------------------
(* _normalize(): the response, item by item in the order requested. *)

\* _point_key(); the value that breaks ties never has to, see above.
PointBefore(p, q) ==
    \/ p.time < q.time
    \/ p.time = q.time /\ TypeRank[p.type] < TypeRank[q.type]

\* The order of a faulty variant: the latest points first.
PointAfter(p, q) == PointBefore(q, p)

\* Faulty variant: the points are sorted the other way round.
LastPoints(n, points) == First(n, points, PointAfter)

FirstPoints(n, points) == First(n, points, PointBefore)

\* Faulty variant: the items before are not counted.
TakenOfEach(requested, records) ==
    [i \in DOMAIN requested |->
        FirstPoints(IF MaxPointsPerSeries < MaxPointsPerResponse
                    THEN MaxPointsPerSeries ELSE MaxPointsPerResponse,
                    OfSeries(records, requested[i]))]

\* The points of the items, cut per series, in the order they are added to the
\* response: one item after the other.
ItemPoints(requested, records) ==
    LET cut(i) == FirstPoints(MaxPointsPerSeries, OfSeries(records, requested[i]))
    IN UNION {{i} \X cut(i) : i \in DOMAIN requested}

ItemPointBefore(e, f) ==
    \/ e[1] < f[1]
    \/ e[1] = f[1] /\ PointBefore(e[2], f[2])

\* The points of each item, cut also by what the limit of the response leaves.
Taken(requested, records) ==
    LET taken == First(MaxPointsPerResponse, ItemPoints(requested, records),
                       ItemPointBefore)
    IN [i \in DOMAIN requested |-> {p \in records : <<i, p>> \in taken}]

\* series: the points of each item; truncated: an item lost records to a limit.
Response(requested, stored) ==
    LET records == Read(requested, stored)
        taken == Taken(requested, records)
    IN [series |-> taken,
        truncated |-> \E i \in DOMAIN requested :
                        taken[i] # OfSeries(records, requested[i])]

-----------------------------------------------------------------------------
(* What a response promises about the points in the window. *)

WindowPoints(series, stored) ==
    {p \in OfSeries(stored, series) : WindowStart <= p.time /\ p.time < WindowStop}

\* truncated says exactly whether some item lacks a point of the window.
IsHonest(requested, stored) ==
    LET response == Response(requested, stored) IN
    response.truncated <=>
        \E i \in DOMAIN requested :
            ~(WindowPoints(requested[i], stored) \subseteq response.series[i])

\* An item has points of its series and window only, and none that it lacks
\* is earlier than one it has.
IsEarliest(requested, stored) ==
    LET response == Response(requested, stored) IN
    \A i \in DOMAIN requested :
        LET window == WindowPoints(requested[i], stored)
            points == response.series[i]
        IN /\ points \subseteq window
           /\ \A p \in points, q \in window \ points : p.time <= q.time

\* No item and no response has more points than it may.
IsLimited(requested, stored) ==
    LET response == Response(requested, stored)
        all == UNION {{<<i, p>> : p \in response.series[i]} : i \in DOMAIN requested}
    IN /\ \A i \in DOMAIN requested :
            Cardinality(response.series[i]) <= MaxPointsPerSeries
       /\ Cardinality(all) <= MaxPointsPerResponse
=============================================================================
