-------------------------- MODULE MCManualClasses --------------------------
(***************************************************************************)
(* A small instance of ManualClasses for TLC: two tenants with a stream    *)
(* each; the series x and y are of one stream.  InfluxDB may hold any of a *)
(* few points at, before and after the ends of the window [1, 4), two of   *)
(* them of one time and different types.                                   *)
(***************************************************************************)
EXTENDS ManualClasses, TLC

CONSTANTS n, o, ta, tb, s1, s2, c1, c2, m1, m2, q1, q2, r1, r2, two, mean

MCTenantOf == s1 :> ta @@ s2 :> tb

x == <<s1, "$.x">>
y == <<s1, "$.y">>
z == <<s2, "$.x">>

MCSeries == {x, y, z}

MCSeriesRank == x :> 1 @@ y :> 0 @@ z :> 2

MCSeriesOf == two :> <<x, y, x>> @@ mean :> <<z>>

At(series, time, type) == [series |-> series, time |-> time, type |-> type]

MCContents ==
    SUBSET {At(x, 0, "float"), At(x, 1, "float"), At(x, 1, "integer"),
            At(x, 2, "float"), At(x, 3, "string"), At(x, 4, "float"),
            At(y, 1, "float"), At(y, 2, "boolean"), At(y, 3, "float")}

IdSymmetry ==
    Permutations(ClassIds) \cup Permutations(MembershipIds)
        \cup Permutations(QueryIds) \cup Permutations(Requests) \cup Permutations(Names)
=============================================================================
