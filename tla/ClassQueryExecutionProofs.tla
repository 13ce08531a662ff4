---------------------- MODULE ClassQueryExecutionProofs ----------------------
(***************************************************************************)
(* Theorems about ClassQueryExecution: what a response promises of the     *)
(* points of its window holds for any points InfluxDB may hold, any series *)
(* asked for, in any order and however often, and any limits.              *)
(***************************************************************************)
EXTENDS ClassQueryExecution, FiniteSetTheorems, WellFoundedInduction, TLAPS

USE ExecutionAssumption

-----------------------------------------------------------------------------
(* The first elements of a finite set in a strict order. *)

IsStrictOrder(R, S) ==
    /\ \A p \in S : <<p, p>> \notin R
    /\ \A p, q, r \in S : <<p, q>> \in R /\ <<q, r>> \in R => <<p, r>> \in R

IsTotal(R, S) == \A p, q \in S : p = q \/ <<p, q>> \in R \/ <<q, p>> \in R

Lower(p, R, S) == {q \in S : <<q, p>> \in R}

\* First with its order as a set of pairs.
FirstIn(n, R, S) == {p \in S : Cardinality(Lower(p, R, S)) < n}

\* A nonempty finite set has an element with none before it.
LEMMA LeastExists ==
  ASSUME NEW S, IsFiniteSet(S), NEW R, IsStrictOrder(R, S), NEW T \in SUBSET S, T # {}
  PROVE  \E p \in T : \A q \in T : <<q, p>> \notin R
  <1> DEFINE lowers == {Lower(p, R, T) : p \in T}
  <1>1. lowers \subseteq FiniteSubsetsOf(S)
    BY FS_FiniteSubsetsOfFinite DEF Lower
  <1>2. PICK low \in lowers : \A other \in lowers : <<other, low>> \notin StrictSubsetOrdering(S)
    <2>1. lowers # {}
      OBVIOUS
    <2>2. IsWellFoundedOn(StrictSubsetOrdering(S), FiniteSubsetsOf(S))
      BY FS_StrictSubsetOrderingWellFounded
    <2> HIDE DEF lowers
    <2> QED BY <1>1, <2>1, <2>2, WFMin
  <1>3. PICK p \in T : low = Lower(p, R, T)
    BY <1>2
  <1>4. ASSUME NEW q \in T, <<q, p>> \in R
        PROVE  FALSE
    <2>1. Lower(q, R, T) \subseteq Lower(p, R, T)
      BY <1>4 DEF Lower, IsStrictOrder
    <2>2. q \in Lower(p, R, T) /\ q \notin Lower(q, R, T)
      BY <1>4 DEF Lower, IsStrictOrder
    <2>3. Lower(q, R, T) \in SUBSET S /\ Lower(p, R, T) \in SUBSET S
      BY DEF Lower
    <2>4. <<Lower(q, R, T), Lower(p, R, T)>> \in StrictSubsetOrdering(S)
      BY <2>1, <2>2, <2>3 DEF StrictSubsetOrdering
    <2> QED BY <1>2, <1>3, <2>4
  <1> QED BY <1>4

\* And one with none after it.
LEMMA GreatestExists ==
  ASSUME NEW S, IsFiniteSet(S), NEW R, IsStrictOrder(R, S), NEW T \in SUBSET S, T # {}
  PROVE  \E p \in T : \A q \in T : <<p, q>> \notin R
  <1> DEFINE reverse == {e \in S \X S : <<e[2], e[1]>> \in R}
  <1>1. \A p, q \in S : <<p, q>> \in reverse <=> <<q, p>> \in R
    OBVIOUS
  <1> HIDE DEF reverse
  <1>2. IsStrictOrder(reverse, S)
    BY <1>1 DEF IsStrictOrder
  <1>3. PICK p \in T : \A q \in T : <<q, p>> \notin reverse
    BY <1>2, LeastExists
  <1> QED BY <1>1, <1>3

\* The first n are all or n at least; none is after one left out.
LEMMA FirstInIs ==
  ASSUME NEW S, IsFiniteSet(S), NEW R, IsStrictOrder(R, S), NEW n \in Nat
  PROVE  /\ FirstIn(n, R, S) \subseteq S
         /\ IsFiniteSet(FirstIn(n, R, S))
         /\ Cardinality(FirstIn(n, R, S)) \in Nat
         /\ Cardinality(FirstIn(n, R, S)) < n => FirstIn(n, R, S) = S
         /\ \A p \in FirstIn(n, R, S), q \in S \ FirstIn(n, R, S) : <<q, p>> \notin R
  <1> DEFINE F == FirstIn(n, R, S)
  <1>1. F \subseteq S
    BY DEF FirstIn
  <1>2. IsFiniteSet(F) /\ Cardinality(F) \in Nat
    BY <1>1, FS_Subset, FS_CardinalityType
  <1>3. \A p \in S : IsFiniteSet(Lower(p, R, S)) /\ Cardinality(Lower(p, R, S)) \in Nat
    BY FS_Subset, FS_CardinalityType DEF Lower
  <1>4. ASSUME Cardinality(F) < n, F # S
        PROVE  FALSE
    <2>1. PICK p \in S \ F : \A q \in S \ F : <<q, p>> \notin R
      BY <1>1, <1>4, LeastExists
    <2>2. Lower(p, R, S) \subseteq F
      BY <2>1 DEF Lower
    <2>3. Cardinality(Lower(p, R, S)) <= Cardinality(F)
      BY <1>2, <2>2, FS_Subset
    <2>4. ~(Cardinality(Lower(p, R, S)) < n)
      BY <2>1 DEF FirstIn
    <2> QED BY <1>2, <1>3, <1>4, <2>3, <2>4
  <1>5. ASSUME NEW p \in F, NEW q \in S \ F, <<q, p>> \in R
        PROVE  FALSE
    <2>1. Lower(q, R, S) \subseteq Lower(p, R, S)
      BY <1>1, <1>5 DEF Lower, IsStrictOrder
    <2>2. Cardinality(Lower(q, R, S)) <= Cardinality(Lower(p, R, S))
      BY <1>1, <1>3, <2>1, FS_Subset
    <2>3. Cardinality(Lower(p, R, S)) < n /\ ~(Cardinality(Lower(q, R, S)) < n)
      BY DEF FirstIn
    <2> QED BY <1>1, <1>3, <2>2, <2>3
  <1> QED BY <1>1, <1>2, <1>4, <1>5

\* In a total order the first n are n at most.
LEMMA FirstInBounded ==
  ASSUME NEW S, IsFiniteSet(S), NEW R, IsStrictOrder(R, S), IsTotal(R, S), NEW n \in Nat
  PROVE  Cardinality(FirstIn(n, R, S)) <= n
  <1> DEFINE F == FirstIn(n, R, S)
  <1>1. F \subseteq S /\ IsFiniteSet(F) /\ Cardinality(F) \in Nat
    BY FirstInIs
  <1>2. CASE F = {}
    BY <1>2, FS_EmptySet
  <1>3. CASE F # {}
    <2>1. PICK p \in F : \A q \in F : <<p, q>> \notin R
      BY <1>1, <1>3, GreatestExists
    <2>2. F \ {p} \subseteq Lower(p, R, S)
      BY <1>1, <2>1 DEF Lower, IsTotal
    <2>3. IsFiniteSet(Lower(p, R, S)) /\ Cardinality(Lower(p, R, S)) \in Nat
      BY FS_Subset, FS_CardinalityType DEF Lower
    <2>4. Cardinality(F \ {p}) = Cardinality(F) - 1
      BY <1>1, <2>1, FS_RemoveElement
    <2>5. Cardinality(F \ {p}) <= Cardinality(Lower(p, R, S))
      BY <2>2, <2>3, FS_Subset
    <2>6. Cardinality(Lower(p, R, S)) < n
      BY <2>1 DEF FirstIn
    <2> QED BY <1>1, <2>3, <2>4, <2>5, <2>6
  <1> QED BY <1>2, <1>3
-----------------------------------------------------------------------------
(* The orders of the query and of the service. *)

FluxOrder(S) == {e \in S \X S : FluxBefore(e[1], e[2])}
FluxOrderInAll(S) == {e \in S \X S : FluxBeforeInAll(e[1], e[2])}
PointOrder(S) == {e \in S \X S : PointBefore(e[1], e[2])}
ItemOrder(S) == {e \in S \X S : ItemPointBefore(e[1], e[2])}

LEMMA FirstIsFirstIn ==
  ASSUME NEW S, NEW n \in Nat
  PROVE  /\ First(n, S, FluxBefore) = FirstIn(n, FluxOrder(S), S)
         /\ First(n, S, FluxBeforeInAll) = FirstIn(n, FluxOrderInAll(S), S)
         /\ FirstPoints(n, S) = FirstIn(n, PointOrder(S), S)
         /\ First(n, S, ItemPointBefore) = FirstIn(n, ItemOrder(S), S)
  <1>1. \A p \in S : Lower(p, FluxOrder(S), S) = {q \in S : FluxBefore(q, p)}
    BY DEF Lower, FluxOrder
  <1>2. \A p \in S : Lower(p, FluxOrderInAll(S), S) = {q \in S : FluxBeforeInAll(q, p)}
    BY DEF Lower, FluxOrderInAll
  <1>3. \A p \in S : Lower(p, PointOrder(S), S) = {q \in S : PointBefore(q, p)}
    BY DEF Lower, PointOrder
  <1>4. \A p \in S : Lower(p, ItemOrder(S), S) = {q \in S : ItemPointBefore(q, p)}
    BY DEF Lower, ItemOrder
  <1> QED BY <1>1, <1>2, <1>3, <1>4 DEF First, FirstIn, FirstPoints

LEMMA PointsTyped ==
  ASSUME NEW p \in Points
  PROVE  /\ p.time \in Nat /\ p.series \in Series /\ p.type \in Types
         /\ SeriesRank[p.series] \in Nat
         /\ FieldRank[p.type] \in Nat /\ TypeRank[p.type] \in Nat
         /\ p = [series |-> p.series, time |-> p.time, type |-> p.type]
  BY DEF Points, Types, FieldRank, TypeRank

\* Two types have different ranks.
LEMMA TypesRanked ==
  ASSUME NEW t \in Types, NEW u \in Types, TypeRank[t] = TypeRank[u]
  PROVE  t = u
  BY DEF Types, TypeRank

LEMMA OrdersAreStrict ==
  ASSUME NEW S \in SUBSET Points
  PROVE  /\ IsStrictOrder(FluxOrder(S), S)
         /\ IsStrictOrder(FluxOrderInAll(S), S)
         /\ IsStrictOrder(PointOrder(S), S)
  <1>1. \A p, q \in S :
            /\ <<p, q>> \in FluxOrder(S) <=> FluxBefore(p, q)
            /\ <<p, q>> \in FluxOrderInAll(S) <=> FluxBeforeInAll(p, q)
            /\ <<p, q>> \in PointOrder(S) <=> PointBefore(p, q)
    BY DEF FluxOrder, FluxOrderInAll, PointOrder
  <1>2. \A p \in S : ~FluxBefore(p, p) /\ ~FluxBeforeInAll(p, p) /\ ~PointBefore(p, p)
    BY PointsTyped DEF FluxBefore, FluxBeforeInAll, PointBefore
  <1>3. ASSUME NEW p \in S, NEW q \in S, NEW r \in S
        PROVE  /\ FluxBefore(p, q) /\ FluxBefore(q, r) => FluxBefore(p, r)
               /\ FluxBeforeInAll(p, q) /\ FluxBeforeInAll(q, r) => FluxBeforeInAll(p, r)
               /\ PointBefore(p, q) /\ PointBefore(q, r) => PointBefore(p, r)
    <2>1. p \in Points /\ q \in Points /\ r \in Points
      OBVIOUS
    <2>2. /\ p.time \in Nat /\ q.time \in Nat /\ r.time \in Nat
          /\ SeriesRank[p.series] \in Nat /\ SeriesRank[q.series] \in Nat
          /\ SeriesRank[r.series] \in Nat
          /\ FieldRank[p.type] \in Nat /\ FieldRank[q.type] \in Nat /\ FieldRank[r.type] \in Nat
          /\ TypeRank[p.type] \in Nat /\ TypeRank[q.type] \in Nat /\ TypeRank[r.type] \in Nat
      BY <2>1, PointsTyped
    <2> HIDE DEF FieldRank, TypeRank
    <2> QED BY <2>2 DEF FluxBefore, FluxBeforeInAll, PointBefore
  <1> QED BY <1>1, <1>2, <1>3 DEF IsStrictOrder

\* The points of one series are in a total order.
LEMMA PointOrderIsTotal ==
  ASSUME NEW S \in SUBSET Points, NEW series, \A p \in S : p.series = series
  PROVE  IsTotal(PointOrder(S), S)
  <1> SUFFICES ASSUME NEW p \in S, NEW q \in S, ~PointBefore(p, q), ~PointBefore(q, p)
               PROVE  p = q
    BY DEF IsTotal, PointOrder
  <1>1. p \in Points /\ q \in Points
    OBVIOUS
  <1>2. p.time = q.time /\ TypeRank[p.type] = TypeRank[q.type]
    BY <1>1, PointsTyped DEF PointBefore
  <1>3. p.type = q.type
    BY <1>1, <1>2, PointsTyped, TypesRanked
  <1> QED BY <1>1, <1>2, <1>3, PointsTyped

\* What one of the cuts of the query leaves.
LEMMA FluxFirstIs ==
  ASSUME NEW S \in SUBSET Points, IsFiniteSet(S), NEW n \in Nat
  PROVE  LET F == First(n, S, FluxBefore)
         IN /\ F \subseteq S /\ IsFiniteSet(F)
            /\ Cardinality(F) < n => F = S
            /\ \A p \in F, q \in S \ F : p.time <= q.time
  <1>1. ASSUME NEW p \in S, NEW q \in S, <<q, p>> \notin FluxOrder(S)
        PROVE  p.time <= q.time
    <2>1. p \in Points /\ q \in Points
      OBVIOUS
    <2> QED BY <1>1, <2>1, PointsTyped DEF FluxOrder, FluxBefore
  <1>2. IsStrictOrder(FluxOrder(S), S)
    BY OrdersAreStrict
  <1> DEFINE F == First(n, S, FluxBefore)
  <1>3. F = FirstIn(n, FluxOrder(S), S)
    BY FirstIsFirstIn
  <1> HIDE DEF F
  <1>4. /\ F \subseteq S /\ IsFiniteSet(F)
        /\ Cardinality(F) < n => F = S
        /\ \A p \in F, q \in S \ F : <<q, p>> \notin FluxOrder(S)
    BY <1>2, <1>3, FirstInIs
  <1> QED BY <1>1, <1>4 DEF F

LEMMA FluxFirstInAllIs ==
  ASSUME NEW S \in SUBSET Points, IsFiniteSet(S), NEW n \in Nat
  PROVE  LET F == First(n, S, FluxBeforeInAll)
         IN /\ F \subseteq S /\ IsFiniteSet(F)
            /\ Cardinality(F) < n => F = S
            /\ \A p \in F, q \in S \ F : p.time <= q.time
  <1>1. ASSUME NEW p \in S, NEW q \in S, <<q, p>> \notin FluxOrderInAll(S)
        PROVE  p.time <= q.time
    <2>1. p \in Points /\ q \in Points
      OBVIOUS
    <2> QED BY <1>1, <2>1, PointsTyped DEF FluxOrderInAll, FluxBeforeInAll
  <1>2. IsStrictOrder(FluxOrderInAll(S), S)
    BY OrdersAreStrict
  <1> DEFINE F == First(n, S, FluxBeforeInAll)
  <1>3. F = FirstIn(n, FluxOrderInAll(S), S)
    BY FirstIsFirstIn
  <1> HIDE DEF F
  <1>4. /\ F \subseteq S /\ IsFiniteSet(F)
        /\ Cardinality(F) < n => F = S
        /\ \A p \in F, q \in S \ F : <<q, p>> \notin FluxOrderInAll(S)
    BY <1>2, <1>3, FirstInIs
  <1> QED BY <1>1, <1>4 DEF F

\* What the cut of one item leaves.
LEMMA FirstPointsIs ==
  ASSUME NEW S \in SUBSET Points, IsFiniteSet(S), NEW n \in Nat,
         NEW series, \A p \in S : p.series = series
  PROVE  LET F == FirstPoints(n, S)
         IN /\ F \subseteq S /\ IsFiniteSet(F)
            /\ Cardinality(F) <= n
            /\ \A p \in F, q \in S \ F : p.time <= q.time
  <1>1. ASSUME NEW p \in S, NEW q \in S, <<q, p>> \notin PointOrder(S)
        PROVE  p.time <= q.time
    <2>1. p \in Points /\ q \in Points
      OBVIOUS
    <2> QED BY <1>1, <2>1, PointsTyped DEF PointOrder, PointBefore
  <1>2. IsStrictOrder(PointOrder(S), S) /\ IsTotal(PointOrder(S), S)
    BY OrdersAreStrict, PointOrderIsTotal
  <1> DEFINE F == FirstPoints(n, S)
  <1>3. F = FirstIn(n, PointOrder(S), S)
    BY FirstIsFirstIn
  <1> HIDE DEF F
  <1>4. /\ F \subseteq S /\ IsFiniteSet(F) /\ Cardinality(F) <= n
        /\ \A p \in F, q \in S \ F : <<q, p>> \notin PointOrder(S)
    BY <1>2, <1>3, FirstInIs, FirstInBounded
  <1> QED BY <1>1, <1>4 DEF F
-----------------------------------------------------------------------------
(* The points added to the response, item after item. *)

CutOf(requested, records, i) ==
    FirstPoints(MaxPointsPerSeries, OfSeries(records, requested[i]))

TakenItems(requested, records) ==
    First(MaxPointsPerResponse, ItemPoints(requested, records), ItemPointBefore)

LEMMA CutIs ==
  ASSUME NEW requested \in Seq(Series), NEW records \in SUBSET Points, IsFiniteSet(records),
         NEW i \in DOMAIN requested
  PROVE  LET of == OfSeries(records, requested[i])
             cut == CutOf(requested, records, i)
         IN /\ cut \subseteq of /\ IsFiniteSet(cut)
            /\ Cardinality(cut) <= MaxPointsPerSeries
            /\ \A p \in cut, q \in of \ cut : p.time <= q.time
  <1> DEFINE of == OfSeries(records, requested[i])
  <1>1. of \in SUBSET Points /\ \A p \in of : p.series = requested[i]
    BY DEF OfSeries
  <1>2. IsFiniteSet(of)
    BY FS_Subset DEF OfSeries
  <1>3. MaxPointsPerSeries \in Nat
    OBVIOUS
  <1> HIDE DEF of
  <1>4. LET F == FirstPoints(MaxPointsPerSeries, of)
        IN /\ F \subseteq of /\ IsFiniteSet(F)
           /\ Cardinality(F) <= MaxPointsPerSeries
           /\ \A p \in F, q \in of \ F : p.time <= q.time
    BY <1>1, <1>2, <1>3, FirstPointsIs
  <1> QED BY <1>4 DEF of, CutOf

LEMMA ItemPointsAre ==
  ASSUME NEW requested \in Seq(Series), NEW records \in SUBSET Points, IsFiniteSet(records)
  PROVE  /\ ItemPoints(requested, records) =
                {e \in (DOMAIN requested) \X records : e[2] \in CutOf(requested, records, e[1])}
         /\ IsFiniteSet(ItemPoints(requested, records))
         /\ IsStrictOrder(ItemOrder(ItemPoints(requested, records)),
                          ItemPoints(requested, records))
         /\ IsTotal(ItemOrder(ItemPoints(requested, records)), ItemPoints(requested, records))
  <1> DEFINE S == ItemPoints(requested, records)
             cut(i) == CutOf(requested, records, i)
  <1>1. \A i \in DOMAIN requested :
            cut(i) \subseteq records /\ \A p \in cut(i) : p.series = requested[i]
    BY CutIs DEF OfSeries
  <1>2. S = UNION {{i} \X cut(i) : i \in DOMAIN requested}
    BY DEF ItemPoints, CutOf
  <1> HIDE DEF cut, S
  <1>3. S = {e \in (DOMAIN requested) \X records : e[2] \in cut(e[1])}
    BY <1>1, <1>2
  <1>4. IsFiniteSet((DOMAIN requested) \X records)
    <2>1. DOMAIN requested = 1..Len(requested) /\ Len(requested) \in Int
      OBVIOUS
    <2>2. IsFiniteSet(DOMAIN requested)
      BY <2>1, FS_Interval
    <2> QED BY <2>2, FS_Product
  <1>5. IsFiniteSet(S)
    BY <1>3, <1>4, FS_Subset
  <1>6. \A e, f \in S : <<e, f>> \in ItemOrder(S) <=> ItemPointBefore(e, f)
    BY DEF ItemOrder
  <1>7. \A e \in S : /\ e = <<e[1], e[2]>> /\ e[1] \in Nat
                     /\ e[2] \in records /\ e[2] \in Points /\ e[2].series = requested[e[1]]
    BY <1>1, <1>3
  <1>8. \A p, q \in records : <<p, q>> \in PointOrder(records) <=> PointBefore(p, q)
    BY DEF PointOrder
  <1>9. IsStrictOrder(PointOrder(records), records)
    BY OrdersAreStrict
  <1>10. /\ \A p \in records : ~PointBefore(p, p)
         /\ \A p, q, r \in records : PointBefore(p, q) /\ PointBefore(q, r) => PointBefore(p, r)
    BY <1>8, <1>9 DEF IsStrictOrder
  <1>11. \A p, q \in records :
            p.series = q.series => p = q \/ PointBefore(p, q) \/ PointBefore(q, p)
    <2> SUFFICES ASSUME NEW p \in records, NEW q \in records, p.series = q.series
                 PROVE  p = q \/ PointBefore(p, q) \/ PointBefore(q, p)
      OBVIOUS
    <2>1. {p, q} \in SUBSET Points /\ \A r \in {p, q} : r.series = q.series
      OBVIOUS
    <2>2. IsTotal(PointOrder({p, q}), {p, q})
      BY <2>1, PointOrderIsTotal
    <2> QED BY <2>2 DEF IsTotal, PointOrder
  <1>12. IsStrictOrder(ItemOrder(S), S)
    <2>1. \A e \in S : ~ItemPointBefore(e, e)
      BY <1>7, <1>10 DEF ItemPointBefore
    <2>2. ASSUME NEW e \in S, NEW f \in S, NEW g \in S,
                 ItemPointBefore(e, f), ItemPointBefore(f, g)
          PROVE  ItemPointBefore(e, g)
      <3>1. e[1] \in Nat /\ f[1] \in Nat /\ g[1] \in Nat
            /\ e[2] \in records /\ f[2] \in records /\ g[2] \in records
        BY <1>7
      <3> QED BY <1>10, <2>2, <3>1 DEF ItemPointBefore
    <2> QED BY <1>6, <2>1, <2>2 DEF IsStrictOrder
  <1>13. IsTotal(ItemOrder(S), S)
    <2> SUFFICES ASSUME NEW e \in S, NEW f \in S
                 PROVE  e = f \/ ItemPointBefore(e, f) \/ ItemPointBefore(f, e)
      BY <1>6 DEF IsTotal
    <2>1. /\ e = <<e[1], e[2]>> /\ e[1] \in Nat /\ e[2] \in records
          /\ f = <<f[1], f[2]>> /\ f[1] \in Nat /\ f[2] \in records
          /\ e[2].series = requested[e[1]] /\ f[2].series = requested[f[1]]
      BY <1>7
    <2>2. CASE e[1] = f[1]
      <3>1. e[2] = f[2] \/ PointBefore(e[2], f[2]) \/ PointBefore(f[2], e[2])
        BY <1>11, <2>1, <2>2
      <3> QED BY <2>1, <2>2, <3>1 DEF ItemPointBefore
    <2>3. CASE e[1] # f[1]
      BY <2>1, <2>3 DEF ItemPointBefore
    <2> QED BY <2>2, <2>3
  <1> QED BY <1>3, <1>5, <1>12, <1>13 DEF S, cut

\* What the limits leave of the records.
LEMMA TakenIs ==
  ASSUME NEW requested \in Seq(Series), NEW records \in SUBSET Points, IsFiniteSet(records)
  PROVE  LET items == TakenItems(requested, records)
             taken == Taken(requested, records)
         IN /\ IsFiniteSet(items) /\ Cardinality(items) <= MaxPointsPerResponse
            /\ items = UNION {{<<i, p>> : p \in taken[i]} : i \in DOMAIN requested}
            /\ items \subseteq (DOMAIN requested) \X records
            /\ \A i \in DOMAIN requested :
                /\ \A p : p \in taken[i] <=> <<i, p>> \in items
                /\ taken[i] \subseteq CutOf(requested, records, i)
                /\ \A p \in taken[i], q \in CutOf(requested, records, i) \ taken[i] :
                        p.time <= q.time
  <1> DEFINE S == ItemPoints(requested, records)
             items == TakenItems(requested, records)
             taken == Taken(requested, records)
             cut(i) == CutOf(requested, records, i)
  <1>1. /\ S = {e \in (DOMAIN requested) \X records : e[2] \in cut(e[1])}
        /\ IsFiniteSet(S) /\ IsStrictOrder(ItemOrder(S), S) /\ IsTotal(ItemOrder(S), S)
    BY ItemPointsAre
  <1>2. items = FirstIn(MaxPointsPerResponse, ItemOrder(S), S)
    BY FirstIsFirstIn DEF TakenItems
  <1>a. taken = [i \in DOMAIN requested |-> {p \in records : <<i, p>> \in items}]
    BY DEF Taken, TakenItems
  <1> HIDE DEF S, items, taken, cut
  <1>b. MaxPointsPerResponse \in Nat
    OBVIOUS
  <1>3. /\ items \subseteq S /\ IsFiniteSet(items)
        /\ \A e \in items, f \in S \ items : <<f, e>> \notin ItemOrder(S)
    <2> DEFINE R == ItemOrder(S)
    <2>1. IsFiniteSet(S) /\ IsStrictOrder(R, S) /\ items = FirstIn(MaxPointsPerResponse, R, S)
      BY <1>1, <1>2
    <2> HIDE DEF R
    <2>2. /\ FirstIn(MaxPointsPerResponse, R, S) \subseteq S
          /\ IsFiniteSet(FirstIn(MaxPointsPerResponse, R, S))
          /\ \A e \in FirstIn(MaxPointsPerResponse, R, S),
                f \in S \ FirstIn(MaxPointsPerResponse, R, S) : <<f, e>> \notin R
      BY <1>b, <2>1, FirstInIs
    <2> QED BY <2>1, <2>2 DEF R
  <1>4. Cardinality(items) <= MaxPointsPerResponse
    BY <1>1, <1>2, <1>b, FirstInBounded
  <1>5. \A e \in S : e = <<e[1], e[2]>> /\ e[1] \in DOMAIN requested /\ e[2] \in records
                     /\ e[2] \in cut(e[1])
    BY <1>1
  <1>6. \A i \in DOMAIN requested : \A p : p \in taken[i] <=> <<i, p>> \in items
    BY <1>a, <1>3, <1>5
  <1>7. items = UNION {{<<i, p>> : p \in taken[i]} : i \in DOMAIN requested}
    BY <1>3, <1>5, <1>6
  <1>8. ASSUME NEW i \in DOMAIN requested, NEW p \in taken[i]
        PROVE  p \in cut(i)
    <2>1. <<i, p>> \in S
      BY <1>3, <1>6
    <2>2. <<i, p>>[2] \in cut(<<i, p>>[1])
      BY <1>5, <2>1
    <2> QED BY <2>2
  <1>9. ASSUME NEW i \in DOMAIN requested, NEW p \in taken[i], NEW q \in cut(i) \ taken[i]
        PROVE  p.time <= q.time
    <2>1. cut(i) \subseteq records
      BY CutIs DEF cut, OfSeries
    <2>2. <<i, p>> \in items /\ <<i, q>> \in S \ items
      BY <1>1, <1>6, <2>1
    <2>3. ~ItemPointBefore(<<i, q>>, <<i, p>>)
      BY <1>3, <2>2 DEF ItemOrder
    <2>4. ~(q.time < p.time)
      BY <2>3 DEF ItemPointBefore, PointBefore
    <2>5. p \in Points /\ q \in Points
      BY <1>8, <2>1
    <2> QED BY <2>4, <2>5, PointsTyped
  <1> QED BY <1>3, <1>4, <1>5, <1>6, <1>7, <1>8, <1>9 DEF items, taken, cut, S
-----------------------------------------------------------------------------
(* The records read. *)

\* What the query reads of the window: no record is later than a point of its series
\* it left; and if it reached none of its limits, it left none.
LEMMA ReadIs ==
  ASSUME NEW requested \in Seq(Series), NEW stored \in SUBSET Points, IsFiniteSet(stored)
  PROVE  LET records == Read(requested, stored)
             of(i) == OfSeries(records, requested[i])
             window(i) == WindowPoints(requested[i], stored)
         IN /\ records \in SUBSET Points /\ IsFiniteSet(records)
            /\ \A p \in records : \E i \in DOMAIN requested : p.series = requested[i]
            /\ \A i \in DOMAIN requested :
                /\ of(i) \subseteq window(i)
                /\ \A p \in of(i), q \in window(i) \ of(i) : p.time <= q.time
            /\ /\ Cardinality(records) < TotalLimit
               /\ \A i \in DOMAIN requested : Cardinality(of(i)) < PerSeriesLimit
               => \A i \in DOMAIN requested : of(i) = window(i)
  <1> DEFINE records == Read(requested, stored)
             of(i) == OfSeries(records, requested[i])
             window(i) == WindowPoints(requested[i], stored)
             firstOf(series) ==
                First(PerSeriesLimit, OfSeries(InWindow(stored), series), FluxBefore)
             U == UNION {firstOf(requested[i]) : i \in DOMAIN requested}
  <1>1. \A i \in DOMAIN requested : window(i) = OfSeries(InWindow(stored), requested[i])
    BY DEF WindowPoints, OfSeries, InWindow
  <1>2. PerSeriesLimit \in Nat /\ TotalLimit \in Nat
    BY DEF PerSeriesLimit, TotalLimit
  <1>3. ASSUME NEW i \in DOMAIN requested
        PROVE  /\ window(i) \in SUBSET Points /\ window(i) \subseteq stored
               /\ \A p \in window(i) : p.series = requested[i]
    BY DEF WindowPoints, OfSeries
  <1>4. ASSUME NEW i \in DOMAIN requested
        PROVE  LET F == firstOf(requested[i])
               IN /\ F \subseteq window(i)
                  /\ Cardinality(F) < PerSeriesLimit => F = window(i)
                  /\ \A p \in F, q \in window(i) \ F : p.time <= q.time
    <2>1. window(i) \in SUBSET Points /\ IsFiniteSet(window(i))
      BY <1>3, FS_Subset
    <2>2. firstOf(requested[i]) = First(PerSeriesLimit, window(i), FluxBefore)
      BY <1>1
    <2> HIDE DEF window, firstOf
    <2> QED BY <1>2, <2>1, <2>2, FluxFirstIs
  <1>5. records = First(TotalLimit, U, FluxBeforeInAll)
    BY DEF Read
  <1> HIDE DEF records, window, firstOf
  <1>6. U \subseteq stored /\ U \in SUBSET Points
    BY <1>3, <1>4
  <1>7. IsFiniteSet(U)
    BY <1>6, FS_Subset
  <1>8. \A i \in DOMAIN requested : {p \in U : p.series = requested[i]} = firstOf(requested[i])
    BY <1>3, <1>4
  <1>9. \A p \in U : \E i \in DOMAIN requested : p.series = requested[i]
    BY <1>3, <1>4
  <1> HIDE DEF U
  <1>10. /\ records \subseteq U /\ IsFiniteSet(records)
         /\ Cardinality(records) < TotalLimit => records = U
         /\ \A p \in records, q \in U \ records : p.time <= q.time
    BY <1>2, <1>5, <1>6, <1>7, FluxFirstInAllIs
  <1>11. \A i \in DOMAIN requested :
            of(i) \subseteq firstOf(requested[i]) /\ of(i) \subseteq window(i)
    BY <1>4, <1>8, <1>10 DEF OfSeries
  <1>12. ASSUME NEW i \in DOMAIN requested, NEW p \in of(i), NEW q \in window(i) \ of(i)
         PROVE  p.time <= q.time
    <2>1. p \in firstOf(requested[i]) /\ p \in records /\ q \notin records
      BY <1>3, <1>11 DEF OfSeries
    <2>2. CASE q \in firstOf(requested[i])
      BY <1>8, <1>10, <2>1, <2>2
    <2>3. CASE q \notin firstOf(requested[i])
      BY <1>4, <2>1, <2>3
    <2> QED BY <2>2, <2>3
  <1>13. ASSUME Cardinality(records) < TotalLimit,
                \A i \in DOMAIN requested : Cardinality(of(i)) < PerSeriesLimit,
                NEW i \in DOMAIN requested
         PROVE  of(i) = window(i)
    <2>1. of(i) = firstOf(requested[i])
      BY <1>8, <1>10, <1>13 DEF OfSeries
    <2> QED BY <1>4, <1>13, <2>1
  <1>14. records \in SUBSET Points /\ \A p \in records : \E i \in DOMAIN requested : p.series = requested[i]
    BY <1>6, <1>9, <1>10
  <1> QED BY <1>10, <1>11, <1>12, <1>13, <1>14 DEF records, window

-----------------------------------------------------------------------------
(* Theorems. *)

\* However often a series is asked for, no item and no response has more points
\* than the limits allow.
THEOREM ResponsesAreLimited ==
  ASSUME NEW requested \in Seq(Series), NEW stored \in SUBSET Points, IsFiniteSet(stored)
  PROVE  IsLimited(requested, stored)
  <1> DEFINE records == Read(requested, stored)
             taken == Taken(requested, records)
             items == TakenItems(requested, records)
  <1>1. Response(requested, stored).series = taken
    BY DEF Response
  <1>2. records \in SUBSET Points /\ IsFiniteSet(records)
    BY ReadIs
  <1> HIDE DEF records
  <1>3. /\ IsFiniteSet(items) /\ Cardinality(items) <= MaxPointsPerResponse
        /\ items = UNION {{<<i, p>> : p \in taken[i]} : i \in DOMAIN requested}
        /\ \A i \in DOMAIN requested : taken[i] \subseteq CutOf(requested, records, i)
    BY <1>2, TakenIs
  <1>4. ASSUME NEW i \in DOMAIN requested
        PROVE  Cardinality(taken[i]) <= MaxPointsPerSeries
    <2> DEFINE cut == CutOf(requested, records, i)
    <2>1. IsFiniteSet(cut) /\ Cardinality(cut) <= MaxPointsPerSeries
      BY <1>2, CutIs
    <2>2. taken[i] \subseteq cut
      BY <1>3
    <2> HIDE DEF cut, taken
    <2>3. /\ Cardinality(taken[i]) <= Cardinality(cut)
          /\ Cardinality(cut) \in Nat
      BY <2>1, <2>2, FS_Subset, FS_CardinalityType
    <2>4. Cardinality(taken[i]) \in Nat
      BY <2>1, <2>2, FS_Subset, FS_CardinalityType
    <2> QED BY <2>1, <2>3, <2>4
  <1> QED BY <1>1, <1>3, <1>4 DEF IsLimited

\* An item has points of its own series within the window only, and neither the
\* query nor the service cut a point that is earlier than one they kept.
THEOREM ResponsesAreEarliest ==
  ASSUME NEW requested \in Seq(Series), NEW stored \in SUBSET Points, IsFiniteSet(stored)
  PROVE  IsEarliest(requested, stored)
  <1> DEFINE records == Read(requested, stored)
             taken == Taken(requested, records)
  <1>1. Response(requested, stored).series = taken
    BY DEF Response
  <1>2. records \in SUBSET Points /\ IsFiniteSet(records)
    BY ReadIs
  <1>3. ASSUME NEW i \in DOMAIN requested
        PROVE  LET window == WindowPoints(requested[i], stored)
               IN /\ taken[i] \subseteq window
                  /\ \A p \in taken[i], q \in window \ taken[i] : p.time <= q.time
    <2> DEFINE window == WindowPoints(requested[i], stored)
               of == OfSeries(records, requested[i])
               cut == CutOf(requested, records, i)
    <2>1. /\ of \subseteq window
          /\ \A p \in of, q \in window \ of : p.time <= q.time
      BY ReadIs
    <2> HIDE DEF records
    <2>2. /\ cut \subseteq of
          /\ \A p \in cut, q \in of \ cut : p.time <= q.time
      BY <1>2, CutIs
    <2>3. /\ taken[i] \subseteq cut
          /\ \A p \in taken[i], q \in cut \ taken[i] : p.time <= q.time
      BY <1>2, TakenIs
    <2> HIDE DEF window, of, cut, taken
    <2> QED BY <2>1, <2>2, <2>3 DEF window
  <1> QED BY <1>1, <1>3 DEF IsEarliest

\* A response is marked as truncated exactly if some item lacks a point of the
\* window: reading one point more than each limit suffices to notice.
THEOREM ResponsesAreHonest ==
  ASSUME NEW requested \in Seq(Series), NEW stored \in SUBSET Points, IsFiniteSet(stored)
  PROVE  IsHonest(requested, stored)
  <1> DEFINE records == Read(requested, stored)
             taken == Taken(requested, records)
             items == TakenItems(requested, records)
             of(i) == OfSeries(records, requested[i])
             window(i) == WindowPoints(requested[i], stored)
  <1>1. /\ Response(requested, stored).series = taken
        /\ Response(requested, stored).truncated <=> \E i \in DOMAIN requested : taken[i] # of(i)
    BY DEF Response
  <1>2. /\ records \in SUBSET Points /\ IsFiniteSet(records)
        /\ \A p \in records : \E i \in DOMAIN requested : p.series = requested[i]
        /\ \A i \in DOMAIN requested : of(i) \subseteq window(i)
        /\ /\ Cardinality(records) < TotalLimit
           /\ \A i \in DOMAIN requested : Cardinality(of(i)) < PerSeriesLimit
           => \A i \in DOMAIN requested : of(i) = window(i)
    BY ReadIs
  <1> HIDE DEF records, window
  <1>3. /\ IsFiniteSet(items) /\ Cardinality(items) <= MaxPointsPerResponse
        /\ items \subseteq (DOMAIN requested) \X records
        /\ \A i \in DOMAIN requested :
            /\ \A p : p \in taken[i] <=> <<i, p>> \in items
            /\ taken[i] \subseteq CutOf(requested, records, i)
    BY <1>2, TakenIs
  <1>4. \A i \in DOMAIN requested :
            /\ CutOf(requested, records, i) \subseteq of(i)
            /\ IsFiniteSet(CutOf(requested, records, i))
            /\ Cardinality(CutOf(requested, records, i)) <= MaxPointsPerSeries
    BY <1>2, CutIs
  <1> HIDE DEF taken, items, of
  \* If nothing was cut of what was read, what was read is below both limits.
  <1>5. ASSUME \A i \in DOMAIN requested : taken[i] = of(i), NEW i \in DOMAIN requested
        PROVE  window(i) = taken[i]
    <2>1. ASSUME NEW j \in DOMAIN requested
          PROVE  Cardinality(of(j)) < PerSeriesLimit
      <3>1. of(j) = CutOf(requested, records, j)
        BY <1>3, <1>4, <1>5
      <3>2. Cardinality(of(j)) \in Nat
        BY <1>4, <3>1, FS_CardinalityType
      <3> QED BY <1>4, <3>1, <3>2 DEF PerSeriesLimit
    <2>2. Cardinality(records) < TotalLimit
      <3> DEFINE f == [e \in items |-> e[2]]
      <3>1. \A e \in items : f[e] \in records
        BY <1>3
      <3>2. ASSUME NEW p \in records
            PROVE  \E e \in items : f[e] = p
        <4>1. PICK j \in DOMAIN requested : p.series = requested[j]
          BY <1>2
        <4>2. <<j, p>> \in items
          BY <1>3, <1>5, <4>1 DEF of, OfSeries
        <4> QED BY <4>2
      <3>3. f \in Surjection(items, records)
        BY <3>1, <3>2 DEF Surjection
      <3> HIDE DEF f
      <3>4. Cardinality(records) <= Cardinality(items)
        BY <1>3, <3>3, FS_Surjection
      <3>5. Cardinality(records) \in Nat /\ Cardinality(items) \in Nat
        BY <1>2, <1>3, FS_CardinalityType
      <3> QED BY <1>3, <3>4, <3>5 DEF TotalLimit
    <2> QED BY <1>2, <1>5, <2>1, <2>2
  \* What was cut was a point of the window.
  <1>6. ASSUME NEW i \in DOMAIN requested, taken[i] # of(i)
        PROVE  ~(window(i) \subseteq taken[i])
    BY <1>2, <1>3, <1>4, <1>6
  <1>7. (\E i \in DOMAIN requested : taken[i] # of(i)) <=>
            \E i \in DOMAIN requested : ~(window(i) \subseteq taken[i])
    BY <1>5, <1>6
  <1> QED BY <1>1, <1>7 DEF IsHonest, window
=============================================================================
