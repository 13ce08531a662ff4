------------------------- MODULE ManualClassesProofs -------------------------
(***************************************************************************)
(* Theorems about ManualClasses, for any number of tenants, classes, ids   *)
(* and concurrent requests: no request leaves an orphan behind, reaches    *)
(* across tenants, or executes a query over streams that were no members;  *)
(* and what it answers then is honest, early and within its limits.        *)
(***************************************************************************)
EXTENDS ManualClasses, ClassQueryExecutionProofs

USE ClassesAssumption

tables == <<classes, memberships, queries>>

-----------------------------------------------------------------------------
(* What a step does to a row. *)

ClassSame(c) == classes'[c] = classes[c]

ClassAdded(c) == classes[c].state = "unused" /\ classes'[c].state = "live"

ClassRenamed(c) ==
    /\ classes[c].state = "live" /\ classes'[c].state = "live"
    /\ classes'[c].tenant = classes[c].tenant

ClassDropped(c) ==
    /\ classes[c].state = "live" /\ classes'[c].state = "deleted"
    /\ classes'[c].tenant = classes[c].tenant
    /\ \A m \in MembersOf(c) : memberships'[m].state = "deleted"
    /\ \A q \in QueriesOf(c) : queries'[q].state = "deleted"

MembershipSame(m) == memberships'[m] = memberships[m]

MembershipDeleted(m) ==
    /\ memberships[m].state = "live" /\ memberships'[m].state = "deleted"
    /\ memberships'[m].class = memberships[m].class
    /\ memberships'[m].stream = memberships[m].stream

MembershipAdded(m) ==
    /\ memberships[m].state = "unused" /\ memberships'[m].state = "live"
    /\ UNCHANGED classes
    /\ \E r \in Requests :
        /\ requests[r].step = "add_members"
        /\ requests[r].class \in Live(classes)
        /\ memberships'[m].class = requests[r].class
        /\ memberships'[m].stream \in requests[r].streams

QuerySame(q) == queries'[q] = queries[q]

QueryDeleted(q) ==
    /\ queries[q].state = "live" /\ queries'[q].state = "deleted"
    /\ queries'[q].class = queries[q].class
    /\ queries'[q].tenant = queries[q].tenant
    /\ queries'[q].spec = queries[q].spec

QueryAdded(q) ==
    /\ queries[q].state = "unused" /\ queries'[q].state = "live"
    /\ UNCHANGED classes
    /\ \E r \in Requests :
        /\ requests[r].step = "create_query"
        /\ requests[r].class \in Live(classes)
        /\ queries'[q].class = requests[r].class
        /\ queries'[q].tenant = requests[r].tenant
        /\ queries'[q].spec = requests[r].spec

QueryUpdated(q) ==
    /\ queries[q].state = "live" /\ queries'[q].state = "live"
    /\ queries'[q].class = queries[q].class
    /\ queries'[q].tenant = queries[q].tenant
    /\ \/ queries'[q].spec = queries[q].spec
       \/ \E r \in Requests :
            /\ requests[r].step = "update_query" /\ requests[r].row = q
            /\ requests[r].spec # None
            /\ queries'[q].spec = requests[r].spec

TablesTyped ==
    /\ classes \in [ClassIds -> ClassRow]
    /\ memberships \in [MembershipIds -> MembershipRow]
    /\ queries \in [QueryIds -> QueryRow]

TablesMove ==
    /\ TablesTyped'
    /\ \A c \in ClassIds : ClassSame(c) \/ ClassAdded(c) \/ ClassRenamed(c) \/ ClassDropped(c)
    /\ \A m \in MembershipIds : MembershipSame(m) \/ MembershipDeleted(m) \/ MembershipAdded(m)
    /\ \A q \in QueryIds :
            QuerySame(q) \/ QueryDeleted(q) \/ QueryAdded(q) \/ QueryUpdated(q)

LEMMA TablesStay ==
  ASSUME TypeOK, UNCHANGED tables
  PROVE  TablesMove
  BY DEF TypeOK, tables, TablesMove, TablesTyped, ClassSame, MembershipSame, QuerySame

\* The rows of a table that are live have their columns.
LEMMA LiveRows ==
  ASSUME TypeOK
  PROVE  /\ \A c \in Live(classes) :
                /\ c \in ClassIds
                /\ classes[c] \in [state : RowStates, tenant : Tenants, key : Names]
         /\ \A m \in Live(memberships) :
                /\ m \in MembershipIds
                /\ memberships[m] \in [state : RowStates, class : ClassIds, stream : Streams]
         /\ \A q \in Live(queries) :
                /\ q \in QueryIds
                /\ queries[q] \in [state : RowStates, class : ClassIds, tenant : Tenants,
                                   key : Names, spec : Specs]
  <1>1. \A c \in ClassIds : classes[c].state = "live" =>
            classes[c] \in [state : RowStates, tenant : Tenants, key : Names]
    BY DEF TypeOK, ClassRow, NoClass
  <1>2. \A m \in MembershipIds : memberships[m].state = "live" =>
            memberships[m] \in [state : RowStates, class : ClassIds, stream : Streams]
    BY DEF TypeOK, MembershipRow, NoMembership
  <1>3. \A q \in QueryIds : queries[q].state = "live" =>
            queries[q] \in [state : RowStates, class : ClassIds, tenant : Tenants,
                            key : Names, spec : Specs]
    BY DEF TypeOK, QueryRow, NoQuery
  <1> QED BY <1>1, <1>2, <1>3 DEF TypeOK, Live

LEMMA DeletedMemberships ==
  ASSUME TypeOK, NEW ids \in SUBSET Live(memberships), memberships' = Deleted(memberships, ids)
  PROVE  /\ memberships' \in [MembershipIds -> MembershipRow]
         /\ \A m \in MembershipIds : MembershipSame(m) \/ MembershipDeleted(m)
         /\ \A m \in ids : memberships'[m].state = "deleted"
  <1>1. ASSUME NEW m \in ids
        PROVE  /\ m \in MembershipIds
               /\ memberships[m].state = "live"
               /\ memberships[m] \in [state : RowStates, class : ClassIds, stream : Streams]
               /\ memberships'[m] = [memberships[m] EXCEPT !.state = "deleted"]
    BY LiveRows DEF Deleted, Live, TypeOK
  <1>2. ASSUME NEW m \in ids
        PROVE  memberships'[m] \in MembershipRow /\ MembershipDeleted(m)
               /\ memberships'[m].state = "deleted"
    <2>1. /\ memberships[m].state = "live"
          /\ memberships[m] \in [state : RowStates, class : ClassIds, stream : Streams]
          /\ memberships'[m] = [memberships[m] EXCEPT !.state = "deleted"]
      BY <1>1
    <2>2. memberships'[m] \in [state : RowStates, class : ClassIds, stream : Streams]
      BY <2>1 DEF RowStates
    <2> QED BY <2>1, <2>2 DEF MembershipRow, MembershipDeleted
  <1>3. ASSUME NEW m \in MembershipIds \ ids
        PROVE  memberships'[m] \in MembershipRow /\ MembershipSame(m)
    BY <1>3 DEF Deleted, TypeOK, MembershipSame
  <1>4. memberships' = [m \in MembershipIds |-> memberships'[m]]
    BY DEF Deleted, TypeOK
  <1> QED BY <1>2, <1>3, <1>4

LEMMA DeletedQueries ==
  ASSUME TypeOK, NEW ids \in SUBSET Live(queries), queries' = Deleted(queries, ids)
  PROVE  /\ queries' \in [QueryIds -> QueryRow]
         /\ \A q \in QueryIds : QuerySame(q) \/ QueryDeleted(q)
         /\ \A q \in ids : queries'[q].state = "deleted"
  <1>1. ASSUME NEW q \in ids
        PROVE  /\ q \in QueryIds
               /\ queries[q].state = "live"
               /\ queries[q] \in [state : RowStates, class : ClassIds, tenant : Tenants,
                                  key : Names, spec : Specs]
               /\ queries'[q] = [queries[q] EXCEPT !.state = "deleted"]
    BY LiveRows DEF Deleted, Live, TypeOK
  <1>2. ASSUME NEW q \in ids
        PROVE  queries'[q] \in QueryRow /\ QueryDeleted(q) /\ queries'[q].state = "deleted"
    <2>1. /\ queries[q].state = "live"
          /\ queries[q] \in [state : RowStates, class : ClassIds, tenant : Tenants,
                             key : Names, spec : Specs]
          /\ queries'[q] = [queries[q] EXCEPT !.state = "deleted"]
      BY <1>1
    <2>2. queries'[q] \in [state : RowStates, class : ClassIds, tenant : Tenants,
                           key : Names, spec : Specs]
      BY <2>1 DEF RowStates
    <2> QED BY <2>1, <2>2 DEF QueryRow, QueryDeleted
  <1>3. ASSUME NEW q \in QueryIds \ ids PROVE queries'[q] \in QueryRow /\ QuerySame(q)
    BY <1>3 DEF Deleted, TypeOK, QuerySame
  <1>4. queries' = [q \in QueryIds |-> queries'[q]]
    BY DEF Deleted, TypeOK
  <1> QED BY <1>2, <1>3, <1>4

LEMMA CreateClassMoves ==
  ASSUME TypeOK, NEW tenant \in Tenants, NEW key \in Names, CreateClass(tenant, key)
  PROVE  TablesMove
  <1>1. PICK c \in Unused(classes) :
            classes' = [classes EXCEPT ![c] = [state |-> "live", tenant |-> tenant, key |-> key]]
    BY DEF CreateClass
  <1>2. c \in ClassIds /\ classes[c].state = "unused"
    BY <1>1 DEF Unused, TypeOK
  <1>3. \A b \in ClassIds : ClassSame(b) \/ ClassAdded(b)
    BY <1>1, <1>2 DEF TypeOK, ClassSame, ClassAdded
  <1>4. classes' \in [ClassIds -> ClassRow]
    BY <1>1, <1>2 DEF TypeOK, ClassRow, RowStates
  <1> QED BY <1>3, <1>4
          DEF CreateClass, TypeOK, TablesMove, TablesTyped, MembershipSame, QuerySame

LEMMA UpdateClassMoves ==
  ASSUME TypeOK, RequestsFit, NEW r \in Requests, UpdateClass(r)
  PROVE  TablesMove
  <1> DEFINE c == requests[r].class
             key == requests[r].key
  <1>1. CASE UNCHANGED classes
    BY <1>1, TablesStay DEF UpdateClass, tables
  <1>2. CASE c \in Live(classes) /\ classes' = [classes EXCEPT ![c].key = key]
    <2>1. key \in Names
      BY DEF UpdateClass, RequestsFit, RequestFits, TypeOK, Request
    <2>2. /\ c \in ClassIds /\ classes[c].state = "live"
          /\ classes[c] \in [state : RowStates, tenant : Tenants, key : Names]
      BY <1>2, LiveRows DEF Live
    <2>3. classes'[c] = [classes[c] EXCEPT !.key = key]
      BY <1>2, <2>2 DEF TypeOK
    <2>4. classes' \in [ClassIds -> ClassRow]
      BY <1>2, <2>1, <2>2 DEF TypeOK, ClassRow
    <2>5. ClassRenamed(c)
      BY <2>2, <2>3 DEF ClassRenamed
    <2>6. \A b \in ClassIds \ {c} : ClassSame(b)
      BY <1>2 DEF TypeOK, ClassSame
    <2> QED BY <2>4, <2>5, <2>6
            DEF UpdateClass, TypeOK, TablesMove, TablesTyped, MembershipSame, QuerySame
  <1> QED BY <1>1, <1>2 DEF UpdateClass

LEMMA DropClassMoves ==
  ASSUME TypeOK, NEW r \in Requests, DropClass(r)
  PROVE  TablesMove
  <1> DEFINE c == requests[r].class
  <1>1. /\ MembersOf(c) \subseteq Live(memberships)
        /\ QueriesOf(c) \subseteq Live(queries)
    BY DEF MembersOf, QueriesOf
  <1>2. /\ memberships' = Deleted(memberships, MembersOf(c))
        /\ queries' = Deleted(queries, QueriesOf(c))
        /\ classes' = Deleted(classes, Live(classes) \cap {c})
    BY DEF DropClass, Cascade
  <1>3. /\ memberships' \in [MembershipIds -> MembershipRow]
        /\ \A m \in MembershipIds : MembershipSame(m) \/ MembershipDeleted(m)
        /\ \A m \in MembersOf(c) : memberships'[m].state = "deleted"
    BY <1>1, <1>2, DeletedMemberships
  <1>4. /\ queries' \in [QueryIds -> QueryRow]
        /\ \A q \in QueryIds : QuerySame(q) \/ QueryDeleted(q)
        /\ \A q \in QueriesOf(c) : queries'[q].state = "deleted"
    BY <1>1, <1>2, DeletedQueries
  <1>5. classes' \in [ClassIds -> ClassRow]
        /\ \A b \in ClassIds : ClassSame(b) \/ ClassDropped(b)
    <2>1. ASSUME NEW b \in ClassIds, b \notin Live(classes) \cap {c}
          PROVE  classes'[b] \in ClassRow /\ ClassSame(b)
      BY <1>2, <2>1 DEF Deleted, TypeOK, ClassSame
    <2>2. ASSUME NEW b \in ClassIds, b \in Live(classes) \cap {c}
          PROVE  classes'[b] \in ClassRow /\ ClassDropped(b)
      <3>1. b = c /\ classes[b].state = "live"
            /\ classes[b] \in [state : RowStates, tenant : Tenants, key : Names]
        BY <2>2, LiveRows DEF Live
      <3>2. classes'[b] = [classes[b] EXCEPT !.state = "deleted"]
        BY <1>2, <2>2 DEF Deleted, TypeOK
      <3> QED BY <1>3, <1>4, <3>1, <3>2 DEF ClassRow, RowStates, ClassDropped
    <2>3. classes' = [b \in ClassIds |-> classes'[b]]
      BY <1>2 DEF Deleted, TypeOK
    <2> QED BY <2>1, <2>2, <2>3
  <1> QED BY <1>3, <1>4, <1>5 DEF TablesMove, TablesTyped

LEMMA AddMembersMoves ==
  ASSUME TypeOK, NEW r \in Requests, AddMembers(r)
  PROVE  TablesMove
  <1> DEFINE c == requests[r].class
             streams == requests[r].streams
  <1>1. CASE UNCHANGED memberships
    BY <1>1, TablesStay DEF AddMembers, tables
  <1>2. CASE ~UNCHANGED memberships
    <2>1. PICK id \in [streams -> Unused(memberships)] :
            memberships' = [m \in MembershipIds |->
                IF \E s \in streams : id[s] = m
                THEN [state |-> "live", class |-> c, stream |-> CHOOSE s \in streams : id[s] = m]
                ELSE memberships[m]]
      BY <1>2 DEF AddMembers
    <2>2. c \in Live(classes) /\ c \in ClassIds /\ streams \subseteq Streams
      BY <1>2, LiveRows DEF AddMembers, TypeOK, Request
    <2>3. ASSUME NEW m \in MembershipIds, NEW s \in streams, id[s] = m
          PROVE  memberships'[m] \in MembershipRow /\ MembershipAdded(m)
      <3> DEFINE chosen == CHOOSE t \in streams : id[t] = m
      <3>1. chosen \in streams
        BY <2>3
      <3>2. memberships'[m] = [state |-> "live", class |-> c, stream |-> chosen]
        BY <2>1, <2>3
      <3>3. memberships[m].state = "unused"
        BY <2>1, <2>3 DEF Unused
      <3> HIDE DEF chosen
      <3> QED BY <2>2, <3>1, <3>2, <3>3 DEF AddMembers, MembershipAdded, MembershipRow, RowStates
    <2>4. ASSUME NEW m \in MembershipIds, ~ \E s \in streams : id[s] = m
          PROVE  memberships'[m] \in MembershipRow /\ MembershipSame(m)
      BY <2>1, <2>4 DEF TypeOK, MembershipSame
    <2>5. memberships' \in [MembershipIds -> MembershipRow]
      BY <2>1, <2>3, <2>4
    <2> QED BY <2>3, <2>4, <2>5
            DEF AddMembers, TypeOK, TablesMove, TablesTyped, ClassSame, QuerySame
  <1> QED BY <1>1, <1>2

LEMMA RemoveMemberMoves ==
  ASSUME TypeOK, NEW r \in Requests, RemoveMember(r)
  PROVE  TablesMove
  <1>1. memberships' = Deleted(memberships, Live(memberships) \cap {requests[r].row})
    BY DEF RemoveMember
  <1>2. /\ memberships' \in [MembershipIds -> MembershipRow]
        /\ \A m \in MembershipIds : MembershipSame(m) \/ MembershipDeleted(m)
    BY <1>1, DeletedMemberships
  <1> QED BY <1>2 DEF RemoveMember, TypeOK, TablesMove, TablesTyped, ClassSame, QuerySame

LEMMA CreateQueryMoves ==
  ASSUME TypeOK, RequestsFit, NEW r \in Requests, CreateQuery(r)
  PROVE  TablesMove
  <1>1. CASE UNCHANGED queries
    BY <1>1, TablesStay DEF CreateQuery, tables
  <1>2. CASE ~UNCHANGED queries
    <2> DEFINE row == [state |-> "live", class |-> requests[r].class,
                       tenant |-> requests[r].tenant, key |-> requests[r].key,
                       spec |-> requests[r].spec]
    <2>1. PICK q \in Unused(queries) : queries' = [queries EXCEPT ![q] = row]
      BY <1>2 DEF CreateQuery
    <2>2. requests[r].class \in Live(classes) /\ requests[r].class \in ClassIds
      BY <1>2, LiveRows DEF CreateQuery
    <2>3. requests[r].key \in Names /\ requests[r].spec \in Specs
      BY DEF CreateQuery, RequestsFit, RequestFits, TypeOK, Request
    <2>4. requests[r].tenant \in Tenants
      BY <2>2, LiveRows DEF CreateQuery, RequestsFit, RequestFits
    <2>5. row \in QueryRow
      BY <2>2, <2>3, <2>4 DEF QueryRow, RowStates
    <2>6. q \in QueryIds /\ queries[q].state = "unused" /\ queries'[q] = row
      BY <2>1 DEF Unused, TypeOK
    <2>7. QueryAdded(q)
      BY <2>2, <2>6 DEF CreateQuery, QueryAdded
    <2>8. \A p \in QueryIds \ {q} : QuerySame(p)
      BY <2>1 DEF TypeOK, QuerySame
    <2>9. queries' \in [QueryIds -> QueryRow]
      BY <2>1, <2>5 DEF TypeOK
    <2> QED BY <2>7, <2>8, <2>9
            DEF CreateQuery, TypeOK, TablesMove, TablesTyped, ClassSame, MembershipSame
  <1> QED BY <1>1, <1>2

LEMMA UpdateQueryMoves ==
  ASSUME TypeOK, NEW r \in Requests, UpdateQuery(r)
  PROVE  TablesMove
  <1> DEFINE q == requests[r].row
             key == requests[r].key
             spec == requests[r].spec
  <1>1. CASE UNCHANGED queries
    BY <1>1, TablesStay DEF UpdateQuery, tables
  <1>2. CASE /\ q \in Live(queries)
             /\ queries' = [queries EXCEPT ![q].key = IF key = None THEN @ ELSE key,
                                           ![q].spec = IF spec = None THEN @ ELSE spec]
    <2>1. /\ q \in QueryIds /\ queries[q].state = "live"
          /\ queries[q] \in [state : RowStates, class : ClassIds, tenant : Tenants,
                             key : Names, spec : Specs]
      BY <1>2, LiveRows DEF Live
    <2>2. key \in Names \cup {None} /\ spec \in Specs \cup {None}
      BY DEF TypeOK, Request
    <2>3. queries'[q] = [queries[q] EXCEPT !.key = IF key = None THEN @ ELSE key,
                                           !.spec = IF spec = None THEN @ ELSE spec]
      BY <1>2, <2>1 DEF TypeOK
    <2>4. queries'[q] \in QueryRow
      BY <2>1, <2>2, <2>3 DEF QueryRow
    <2>5. QueryUpdated(q)
      <3>1. /\ queries'[q].state = "live"
            /\ queries'[q].class = queries[q].class
            /\ queries'[q].tenant = queries[q].tenant
            /\ queries'[q].spec = IF spec = None THEN queries[q].spec ELSE spec
        BY <2>1, <2>3
      <3> QED BY <2>1, <3>1 DEF UpdateQuery, QueryUpdated
    <2>6. \A p \in QueryIds \ {q} : QuerySame(p)
      BY <1>2 DEF TypeOK, QuerySame
    <2>7. queries' \in [QueryIds -> QueryRow]
      BY <1>2, <2>1, <2>4 DEF TypeOK
    <2> QED BY <2>5, <2>6, <2>7
            DEF UpdateQuery, TypeOK, TablesMove, TablesTyped, ClassSame, MembershipSame
  <1> QED BY <1>1, <1>2 DEF UpdateQuery

LEMMA DeleteQueryMoves ==
  ASSUME TypeOK, NEW r \in Requests, DeleteQuery(r)
  PROVE  TablesMove
  <1>1. queries' = Deleted(queries, Live(queries) \cap {requests[r].row})
    BY DEF DeleteQuery
  <1>2. /\ queries' \in [QueryIds -> QueryRow]
        /\ \A q \in QueryIds : QuerySame(q) \/ QueryDeleted(q)
    BY <1>1, DeletedQueries
  <1> QED BY <1>2 DEF DeleteQuery, TypeOK, TablesMove, TablesTyped, ClassSame, MembershipSame

-----------------------------------------------------------------------------
(* What a step does to a request. *)

RequestSame(r) == requests'[r] = requests[r]

RequestEnds(r) == requests'[r] = Idle

\* A request is taken up with what it reads of the tables.
RequestStarts(r) ==
    /\ requests'[r].step # "read"
    /\ RequestFits(requests'[r])
    /\ UNCHANGED tables

\* A request goes on with what it has read; it reads InfluxDB only for streams
\* that are members.
RequestGoesOn(r) ==
    /\ requests[r].step # "none"
    /\ requests'[r].tenant = requests[r].tenant
    /\ requests'[r].class = requests[r].class
    /\ requests'[r].row = requests[r].row
    /\ requests'[r].streams = requests[r].streams
    /\ requests'[r].key = requests[r].key
    /\ requests'[r].spec = requests[r].spec
    /\ requests'[r].gone = requests[r].gone
    /\ \/ requests'[r].step = "drop_class"
       \/ /\ requests[r].step = "check_members" /\ requests'[r].step = "read"
          /\ OverMembers(requests[r].class, requests[r].spec)
          /\ UNCHANGED tables

RequestsMove ==
    /\ requests' \in [Requests -> Request]
    /\ \A r \in Requests :
        RequestSame(r) \/ RequestEnds(r) \/ RequestStarts(r) \/ RequestGoesOn(r)

LEMMA IdleType == Idle \in Request
  BY DEF Idle, Request, Steps

LEMMA EndMoves ==
  ASSUME TypeOK, NEW r \in Requests, End(r)
  PROVE  RequestsMove
  BY IdleType DEF End, TypeOK, RequestsMove, RequestSame, RequestEnds

\* A stream that is a member was one.
LEMMA MembersWere ==
  ASSUME TypeOK, NEW c, NEW s \in MemberStreams(c)
  PROVE  \E m \in MembersOf(c) :
            /\ m \in MembershipIds /\ memberships[m].state = "live"
            /\ memberships[m].class = c /\ memberships[m].stream = s
  BY LiveRows DEF MemberStreams, MembersOf, Live

LEMMA BeginMoves ==
  ASSUME TypeOK, NEW r \in Requests, NEW request \in Request, Begin(r, request),
         request.step # "read", RequestFits(request)
  PROVE  RequestsMove /\ UNCHANGED tables
  <1>1. requests' = [requests EXCEPT ![r] = request] /\ UNCHANGED tables
    BY DEF Begin, tables
  <1>2. requests'[r] = request
    BY <1>1 DEF TypeOK
  <1>3. RequestStarts(r)
    BY <1>1, <1>2 DEF RequestStarts
  <1>4. \A o \in Requests \ {r} : RequestSame(o)
    BY <1>1 DEF TypeOK, RequestSame
  <1>5. requests' \in [Requests -> Request]
    BY <1>1 DEF TypeOK
  <1> QED BY <1>1, <1>3, <1>4, <1>5 DEF RequestsMove

\* Whatever request is taken up, what it has read fits the tables.
LEMMA ReceiveMoves ==
  ASSUME TypeOK, RowsFit, NEW r \in Requests, Receive(r)
  PROVE  RequestsMove /\ UNCHANGED tables
  <1>1. PICK tenant \in Tenants, c \in Live(classes) :
        \/ \E key \in Names : BeginUpdateClass(r, tenant, c, key)
        \/ BeginDeleteClass(r, tenant, c)
        \/ \E streams \in SUBSET Streams \ {{}} : BeginAddMembers(r, tenant, c, streams)
        \/ \E m \in Live(memberships) : BeginRemoveMember(r, tenant, c, m)
        \/ \E key \in Names, spec \in Specs : BeginCreateQuery(r, tenant, c, key, spec)
        \/ \E q \in Live(queries) :
            \/ \E key \in Names \cup {None}, spec \in Specs \cup {None} :
                BeginUpdateQuery(r, tenant, c, q, key, spec)
            \/ BeginDeleteQuery(r, tenant, c, q)
            \/ BeginExecute(r, tenant, c, q)
    BY DEF Receive
  <1>2. c \in ClassIds /\ classes[c].state = "live"
    BY LiveRows DEF Live
  <1> USE <1>2 DEF Idle, Steps, RequestFits, FindsClass, Request
  <1>3. ASSUME NEW key \in Names, BeginUpdateClass(r, tenant, c, key)
        PROVE  RequestsMove /\ UNCHANGED tables
    <2> DEFINE request == [Idle EXCEPT !.step = "update_class", !.tenant = tenant,
                                       !.class = c, !.key = key]
    <2>1. request \in Request /\ request.step # "read" /\ Begin(r, request)
      BY <1>3 DEF BeginUpdateClass
    <2>2. RequestFits(request)
      BY <1>3 DEF BeginUpdateClass
    <2> QED BY <2>1, <2>2, BeginMoves
  <1>4. ASSUME BeginDeleteClass(r, tenant, c)
        PROVE  RequestsMove /\ UNCHANGED tables
    <2> DEFINE request == [Idle EXCEPT !.step = "clear_class", !.tenant = tenant, !.class = c]
    <2>1. request \in Request /\ request.step # "read" /\ Begin(r, request)
      BY <1>4 DEF BeginDeleteClass
    <2>2. RequestFits(request)
      BY <1>4 DEF BeginDeleteClass
    <2> QED BY <2>1, <2>2, BeginMoves
  <1>5. ASSUME NEW streams \in SUBSET Streams, BeginAddMembers(r, tenant, c, streams)
        PROVE  RequestsMove /\ UNCHANGED tables
    <2> DEFINE request == [Idle EXCEPT !.step = "add_members", !.tenant = tenant,
                                       !.class = c, !.streams = streams]
    <2>1. request \in Request /\ request.step # "read" /\ Begin(r, request)
      BY <1>5 DEF BeginAddMembers
    <2>2. RequestFits(request)
      BY <1>5 DEF BeginAddMembers
    <2> QED BY <2>1, <2>2, BeginMoves
  <1>6. ASSUME NEW m \in Live(memberships), BeginRemoveMember(r, tenant, c, m)
        PROVE  RequestsMove /\ UNCHANGED tables
    <2> DEFINE request == [Idle EXCEPT !.step = "remove_member", !.tenant = tenant,
                                       !.class = c, !.row = m]
    <2>1. m \in MembershipIds
      BY LiveRows
    <2>2. request \in Request /\ request.step # "read" /\ Begin(r, request)
      BY <1>6, <2>1 DEF BeginRemoveMember
    <2>3. RequestFits(request)
      BY <1>6 DEF BeginRemoveMember
    <2> QED BY <2>2, <2>3, BeginMoves
  <1>7. ASSUME NEW key \in Names, NEW spec \in Specs, BeginCreateQuery(r, tenant, c, key, spec)
        PROVE  RequestsMove /\ UNCHANGED tables
    <2> DEFINE request == [Idle EXCEPT !.step = "create_query", !.tenant = tenant,
                                       !.class = c, !.key = key, !.spec = spec]
    <2>1. request \in Request /\ request.step # "read" /\ Begin(r, request)
      BY <1>7 DEF BeginCreateQuery
    <2>2. \A s \in StreamsOf(spec) : WasMember(c, s)
      BY <1>7, MembersWere DEF BeginCreateQuery, OverMembers, WasMember
    <2>3. RequestFits(request)
      BY <1>7, <2>2 DEF BeginCreateQuery
    <2> QED BY <2>1, <2>3, BeginMoves
  <1>8. ASSUME NEW q \in Live(queries) PROVE q \in QueryIds /\ queries[q].state = "live"
               /\ queries[q].key \in Names /\ queries[q].spec \in Specs
    BY LiveRows DEF Live
  <1>9. ASSUME NEW q \in Live(queries), NEW key \in Names \cup {None},
               NEW spec \in Specs \cup {None}, BeginUpdateQuery(r, tenant, c, q, key, spec)
        PROVE  RequestsMove /\ UNCHANGED tables
    <2> DEFINE newKey == Changed(key, queries[q].key)
               newSpec == Changed(spec, queries[q].spec)
               request == [Idle EXCEPT !.step = "update_query", !.tenant = tenant,
                                       !.class = c, !.row = q, !.key = newKey,
                                       !.spec = newSpec]
    <2>1. newKey \in Names \cup {None} /\ newSpec \in {spec, None}
      BY DEF Changed
    <2>2. /\ FindsClass(tenant, c) /\ queries[q].class = c
          /\ spec # None => \A s \in StreamsOf(spec) : WasMember(c, s)
      BY <1>9, MembersWere
         DEF BeginUpdateQuery, MayUpdateQuery, FindsQuery, QueriesOf, OverMembers, WasMember
    <2>3. Begin(r, request)
      BY <1>9 DEF BeginUpdateQuery
    <2> HIDE DEF newKey, newSpec
    <2>4. request \in Request /\ request.step # "read"
      BY <1>8, <2>1
    <2>5. RequestFits(request)
      BY <1>8, <2>1, <2>2
    <2> HIDE DEF request
    <2> QED BY <2>3, <2>4, <2>5, BeginMoves
  <1>10. ASSUME NEW q \in Live(queries), BeginDeleteQuery(r, tenant, c, q)
         PROVE  RequestsMove /\ UNCHANGED tables
    <2> DEFINE request == [Idle EXCEPT !.step = "delete_query", !.tenant = tenant,
                                       !.class = c, !.row = q]
    <2>1. request \in Request /\ request.step # "read" /\ Begin(r, request)
      BY <1>8, <1>10 DEF BeginDeleteQuery
    <2>2. RequestFits(request)
      BY <1>10 DEF BeginDeleteQuery, FindsQuery
    <2> QED BY <2>1, <2>2, BeginMoves
  <1>11. ASSUME NEW q \in Live(queries), BeginExecute(r, tenant, c, q)
         PROVE  RequestsMove /\ UNCHANGED tables
    <2> DEFINE gone == {m \in MembershipIds : memberships[m].state = "deleted"}
               request == [Idle EXCEPT !.step = "check_members", !.tenant = tenant,
                                       !.class = c, !.spec = queries[q].spec, !.gone = gone]
    <2>1. request \in Request /\ request.step # "read" /\ Begin(r, request)
      BY <1>8, <1>11 DEF BeginExecute
    <2>2. queries[q].class = c /\ \A s \in StreamsOf(queries[q].spec) : WasMember(c, s)
      BY <1>8, <1>11 DEF BeginExecute, FindsQuery, QueriesOf, RowsFit
    <2>3. RequestFits(request)
      BY <1>8, <1>11, <2>2 DEF BeginExecute, FindsQuery
    <2> QED BY <2>1, <2>3, BeginMoves
  <1> HIDE DEF Idle, Steps, RequestFits, FindsClass, Request
  <1> QED BY <1>1, <1>3, <1>4, <1>5, <1>6, <1>7, <1>9, <1>10, <1>11

LEMMA ClearClassMoves ==
  ASSUME TypeOK, NEW r \in Requests, ClearClass(r)
  PROVE  TablesMove /\ RequestsMove
  <1> DEFINE c == requests[r].class
             rows == MembersOf(c) \cup QueriesOf(c)
             then == [requests[r] EXCEPT !.step = "drop_class", !.locked = rows]
  <1>1. rows \in SUBSET (MembershipIds \cup QueryIds)
    BY LiveRows DEF MembersOf, QueriesOf
  <1>2. requests[r] \in Request
    BY DEF TypeOK
  <1>3. requests' = [requests EXCEPT ![r] = then]
    BY DEF ClearClass
  <1>4. then \in Request
    BY <1>1, <1>2 DEF Request, Steps
  <1>5. requests'[r] = then /\ \A o \in Requests \ {r} : RequestSame(o)
    BY <1>3 DEF TypeOK, RequestSame
  <1>6. RequestGoesOn(r)
    <2>1. requests[r].step = "clear_class"
      BY DEF ClearClass
    <2>2. /\ then.step = "drop_class"
          /\ then.tenant = requests[r].tenant /\ then.class = requests[r].class
          /\ then.row = requests[r].row /\ then.streams = requests[r].streams
          /\ then.key = requests[r].key /\ then.spec = requests[r].spec
          /\ then.gone = requests[r].gone
      BY <1>2 DEF Request
    <2> HIDE DEF then
    <2> QED BY <1>5, <2>1, <2>2 DEF RequestGoesOn
  <1>7. requests' \in [Requests -> Request]
    BY <1>3, <1>4 DEF TypeOK
  <1>8. TablesMove
    BY TablesStay DEF ClearClass, tables
  <1> QED BY <1>5, <1>6, <1>7, <1>8 DEF RequestsMove

LEMMA CheckMembersMoves ==
  ASSUME TypeOK, NEW r \in Requests, CheckMembers(r)
  PROVE  TablesMove /\ RequestsMove
  <1>1. TablesMove /\ UNCHANGED tables
    BY TablesStay DEF CheckMembers, tables
  <1>2. CASE End(r)
    BY <1>1, <1>2, EndMoves
  <1>3. CASE /\ OverMembers(requests[r].class, requests[r].spec)
             /\ requests' = [requests EXCEPT ![r].step = "read"]
    <2> DEFINE then == [requests[r] EXCEPT !.step = "read"]
    <2>1. requests[r] \in Request
      BY DEF TypeOK
    <2>2. requests' = [requests EXCEPT ![r] = then]
      BY <1>3
    <2>3. then \in Request
      BY <2>1 DEF Request, Steps
    <2>4. requests'[r] = then /\ \A o \in Requests \ {r} : RequestSame(o)
      BY <2>2 DEF TypeOK, RequestSame
    <2>5. RequestGoesOn(r)
      BY <1>1, <1>3, <2>1, <2>4 DEF CheckMembers, RequestGoesOn, Request
    <2>6. requests' \in [Requests -> Request]
      BY <2>2, <2>3 DEF TypeOK
    <2> QED BY <1>1, <2>4, <2>5, <2>6 DEF RequestsMove
  <1> QED BY <1>2, <1>3 DEF CheckMembers

LEMMA StepMoves ==
  ASSUME TypeOK, RowsFit, RequestsFit, Next
  PROVE  TablesMove /\ RequestsMove
  <1>1. ASSUME NEW tenant \in Tenants, NEW key \in Names, CreateClass(tenant, key)
        PROVE  TablesMove /\ RequestsMove
    BY <1>1, CreateClassMoves DEF CreateClass, RequestsMove, RequestSame, TypeOK
  <1>2. ASSUME NEW r \in Requests, Receive(r) PROVE TablesMove /\ RequestsMove
    BY <1>2, ReceiveMoves, TablesStay
  <1>3. ASSUME NEW r \in Requests, Abort(r) \/ Answer(r) PROVE TablesMove /\ RequestsMove
    BY <1>3, EndMoves, TablesStay DEF Abort, Answer, tables
  <1>4. ASSUME NEW r \in Requests,
               \/ UpdateClass(r) \/ DropClass(r) \/ AddMembers(r) \/ RemoveMember(r)
               \/ CreateQuery(r) \/ UpdateQuery(r) \/ DeleteQuery(r)
        PROVE  TablesMove /\ RequestsMove
    <2>1. End(r)
      BY <1>4 DEF UpdateClass, DropClass, AddMembers, RemoveMember, CreateQuery, UpdateQuery,
         DeleteQuery
    <2>2. TablesMove
      BY <1>4, UpdateClassMoves, DropClassMoves, AddMembersMoves, RemoveMemberMoves,
         CreateQueryMoves, UpdateQueryMoves, DeleteQueryMoves
    <2> QED BY <2>1, <2>2, EndMoves
  <1> QED BY <1>1, <1>2, <1>3, <1>4, ClearClassMoves, CheckMembersMoves DEF Next, Serve

-----------------------------------------------------------------------------
(* Every step keeps ClassesInv. *)

ClassKept(c) ==
    classes[c].state # "unused" =>
        classes'[c].state # "unused" /\ classes'[c].tenant = classes[c].tenant

MembershipKept(m) ==
    memberships[m].state # "unused" =>
        /\ memberships'[m].state # "unused"
        /\ memberships'[m].class = memberships[m].class
        /\ memberships'[m].stream = memberships[m].stream
        /\ memberships[m].state = "deleted" => memberships'[m].state = "deleted"

QueryKept(q) ==
    queries[q].state # "unused" =>
        queries'[q].state # "unused" /\ queries'[q].class = queries[q].class

\* A used row keeps its class, tenant and stream, and a deleted one is not revived.
LEMMA HistoryKept ==
  ASSUME TablesMove
  PROVE  /\ \A c \in ClassIds : ClassKept(c)
         /\ \A m \in MembershipIds : MembershipKept(m)
         /\ \A q \in QueryIds : QueryKept(q)
  BY DEF TablesMove, ClassKept, MembershipKept, QueryKept, ClassSame, ClassAdded, ClassRenamed,
     ClassDropped, MembershipSame, MembershipDeleted, MembershipAdded, QuerySame, QueryDeleted,
     QueryAdded, QueryUpdated

\* A membership of a class has a class: it is used.
LEMMA MembershipsUsed ==
  ASSUME TypeOK, NEW m \in MembershipIds, memberships[m].class \in ClassIds
  PROVE  memberships[m].state # "unused" /\ memberships[m].stream \in Streams
  BY DEF TypeOK, MembershipRow, NoMembership, RowStates

LEMMA WereMembersStill ==
  ASSUME TypeOK, TablesMove, NEW c \in ClassIds, NEW s, WasMember(c, s)
  PROVE  WasMember(c, s)'
  BY MembershipsUsed, HistoryKept DEF WasMember, MembershipKept

\* A used row refers to a class, and a query to one of the specifications.
LEMMA UsedRows ==
  ASSUME TablesTyped
  PROVE  /\ \A m \in MembershipIds : memberships[m].state # "unused" =>
                memberships[m].class \in ClassIds
         /\ \A q \in QueryIds : queries[q].state # "unused" =>
                queries[q].class \in ClassIds /\ queries[q].spec \in Specs
  BY DEF TablesTyped, MembershipRow, QueryRow, NoMembership, NoQuery

LEMMA TypeOKTables == TypeOK => TablesTyped
  BY DEF TypeOK, TablesTyped

LEMMA RowsFitInductive ==
  ASSUME TypeOK, RowsFit, RequestsFit, TablesMove
  PROVE  RowsFit'
  <1>1. ASSUME NEW m \in MembershipIds, memberships'[m].state # "unused"
        PROVE  /\ classes'[memberships'[m].class].state # "unused"
               /\ TenantOf[memberships'[m].stream] = classes'[memberships'[m].class].tenant
    <2>1. CASE MembershipSame(m) \/ MembershipDeleted(m)
      <3>1. /\ memberships[m].state # "unused"
            /\ memberships'[m].class = memberships[m].class
            /\ memberships'[m].stream = memberships[m].stream
        BY <1>1, <2>1 DEF MembershipSame, MembershipDeleted
      <3>2. memberships[m].class \in ClassIds
        BY <3>1, UsedRows, TypeOKTables
      <3>3. ClassKept(memberships[m].class)
        BY <3>2, HistoryKept
      <3> QED BY <3>1, <3>3 DEF RowsFit, ClassKept
    <2>2. CASE MembershipAdded(m)
      BY <2>2 DEF MembershipAdded, RequestsFit, RequestFits
    <2> QED BY <2>1, <2>2 DEF TablesMove
  <1>2. ASSUME NEW q \in QueryIds, queries'[q].state # "unused"
        PROVE  /\ classes'[queries'[q].class].state # "unused"
               /\ queries'[q].tenant = classes'[queries'[q].class].tenant
               /\ \A s \in StreamsOf(queries'[q].spec) : WasMember(queries[q].class, s)'
    <2>a. queries'[q].class \in ClassIds
      BY <1>2 DEF TablesMove, TablesTyped, QueryRow, NoQuery
    <2>1. CASE QuerySame(q) \/ QueryDeleted(q) \/ QueryUpdated(q)
      <3>1. /\ queries[q].state # "unused"
            /\ queries'[q].class = queries[q].class
            /\ queries'[q].tenant = queries[q].tenant
        BY <1>2, <2>1 DEF QuerySame, QueryDeleted, QueryUpdated
      <3>2. ClassKept(queries[q].class)
        BY <2>a, <3>1, HistoryKept
      <3>3. \A s \in StreamsOf(queries'[q].spec) : WasMember(queries[q].class, s)
        <4>1. CASE queries'[q].spec = queries[q].spec
          BY <3>1, <4>1 DEF RowsFit
        <4>2. CASE \E r \in Requests :
                    /\ requests[r].step = "update_query" /\ requests[r].row = q
                    /\ requests[r].spec # None
                    /\ queries'[q].spec = requests[r].spec
          BY <4>2 DEF RequestsFit, RequestFits
        <4> QED BY <2>1, <4>1, <4>2 DEF QuerySame, QueryDeleted, QueryUpdated
      <3>4. \A s \in StreamsOf(queries'[q].spec) : WasMember(queries[q].class, s)'
        BY <2>a, <3>1, <3>3, WereMembersStill
      <3> QED BY <3>1, <3>2, <3>4 DEF RowsFit, ClassKept
    <2>2. CASE QueryAdded(q)
      <3>1. PICK r \in Requests :
                /\ requests[r].step = "create_query"
                /\ queries'[q].class = requests[r].class
                /\ queries'[q].tenant = requests[r].tenant
                /\ queries'[q].spec = requests[r].spec
        BY <2>2 DEF QueryAdded
      <3>2. RequestFits(requests[r]) /\ classes' = classes
        BY <2>2, <3>1 DEF RequestsFit, QueryAdded
      <3>3. \A s \in StreamsOf(queries'[q].spec) : WasMember(queries'[q].class, s)
        BY <3>1, <3>2 DEF RequestFits
      <3>4. \A s \in StreamsOf(queries'[q].spec) : WasMember(queries[q].class, s)'
        BY <2>a, <3>1, <3>3, WereMembersStill
      <3> QED BY <3>1, <3>2, <3>4 DEF RequestFits
    <2> QED BY <2>1, <2>2 DEF TablesMove
  <1> QED BY <1>1, <1>2 DEF RowsFit, WasMember

\* What a request has read stays true of the histories while it waits.
LEMMA RequestsFitInductive ==
  ASSUME TypeOK, RequestsFit, TablesMove, RequestsMove
  PROVE  RequestsFit'
  <1> SUFFICES ASSUME NEW r \in Requests, requests'[r].step # "none"
               PROVE  RequestFits(requests[r])'
    BY DEF RequestsFit
  <1> DEFINE old == requests[r]
             new == requests'[r]
  <1>a. new \in Request
    BY DEF RequestsMove
  <1>1. CASE RequestStarts(r)
    <2>1. RequestFits(new) /\ classes' = classes /\ memberships' = memberships
          /\ queries' = queries
      BY <1>1 DEF RequestStarts, tables
    <2> QED BY <2>1 DEF RequestFits, WasMember
  <1>2. CASE RequestSame(r) \/ RequestGoesOn(r)
    <2>1. /\ old.step # "none"
          /\ new.class = old.class /\ new.tenant = old.tenant /\ new.row = old.row
          /\ new.streams = old.streams /\ new.key = old.key /\ new.spec = old.spec
          /\ new.gone = old.gone
          /\ new.step = old.step \/ new.step = "drop_class"
                \/ (old.step = "check_members" /\ new.step = "read")
      BY <1>2 DEF RequestSame, RequestGoesOn
    <2>2. RequestFits(old)
      BY <2>1 DEF RequestsFit
    <2>3. /\ old.class \in ClassIds /\ old.gone \subseteq MembershipIds
          /\ old.class # None
      BY <2>2 DEF TypeOK, Request, RequestFits
    <2>4. ClassKept(old.class) /\ \A m \in old.gone : MembershipKept(m)
      BY <2>3, HistoryKept
    <2>4q. old.row \in QueryIds /\ queries[old.row].state # "unused" =>
            /\ queries'[old.row].state # "unused"
            /\ queries'[old.row].class = queries[old.row].class
      BY HistoryKept DEF QueryKept
    <2>5. old.spec # None => \A s \in StreamsOf(old.spec) :
                \E m \in MembershipIds :
                    memberships'[m].class = old.class /\ memberships'[m].stream = s
      <3>1. old.spec # None => \A s \in StreamsOf(old.spec) :
                \E m \in MembershipIds :
                    memberships[m].class = old.class /\ memberships[m].stream = s
        BY <2>2 DEF RequestFits, WasMember
      <3>2. ASSUME NEW m \in MembershipIds, memberships[m].class = old.class
            PROVE  /\ memberships'[m].class = memberships[m].class
                   /\ memberships'[m].stream = memberships[m].stream
        BY <2>3, <3>2, MembershipsUsed, HistoryKept DEF MembershipKept
      <3> QED BY <3>1, <3>2
    <2> HIDE DEF old, new
    <2>6. /\ new.class # None
          /\ classes'[new.class].state # "unused"
          /\ new.tenant = classes'[new.class].tenant
          /\ \A s \in new.streams : TenantOf[s] = new.tenant
      BY <2>1, <2>2, <2>4 DEF RequestFits, ClassKept
    <2>7. /\ new.step \in {"update_class", "create_query"} => new.key # None
          /\ new.step \in {"create_query", "check_members", "read"} => new.spec # None
      BY <2>1, <2>2 DEF RequestFits
    <2>8. new.step = "update_query" =>
            /\ new.row \in QueryIds
            /\ queries'[new.row].state # "unused"
            /\ queries'[new.row].class = new.class
      <3>1. new.step = "update_query" => old.step = "update_query"
        BY <2>1
      <3>2. old.step = "update_query" =>
              /\ old.row \in QueryIds
              /\ queries[old.row].state # "unused"
              /\ queries[old.row].class = old.class
        BY <2>2 DEF RequestFits
      <3> QED BY <2>1, <2>4q, <3>1, <3>2
    <2>9. \A m \in new.gone : memberships'[m].state = "deleted"
      BY <2>1, <2>2, <2>4 DEF RequestFits, MembershipKept
    <2>10. new.spec # None => \A s \in StreamsOf(new.spec) :
                \E m \in MembershipIds :
                    memberships'[m].class = new.class /\ memberships'[m].stream = s
      BY <2>1, <2>5
    <2> QED BY <2>6, <2>7, <2>8, <2>9, <2>10 DEF RequestFits, WasMember, new
  <1>3. CASE RequestEnds(r)
    BY <1>3 DEF RequestEnds, Idle
  <1> QED BY <1>1, <1>2, <1>3 DEF RequestsMove

\* A row is inserted only for a class that is live then, and goes with it.
LEMMA NoOrphansInductive ==
  ASSUME TypeOK, NoOrphans, TablesMove
  PROVE  NoOrphans'
  <1>a. /\ \A c \in ClassIds : ClassSame(c) \/ ClassAdded(c) \/ ClassRenamed(c) \/ ClassDropped(c)
        /\ DOMAIN classes = ClassIds /\ DOMAIN classes' = ClassIds
        /\ DOMAIN memberships = MembershipIds /\ DOMAIN memberships' = MembershipIds
        /\ DOMAIN queries = QueryIds /\ DOMAIN queries' = QueryIds
    BY DEF TablesMove, TablesTyped, TypeOK
  <1>1. ASSUME NEW m \in MembershipIds, memberships'[m].state = "live"
        PROVE  /\ memberships'[m].class \in ClassIds
               /\ classes'[memberships'[m].class].state = "live"
    <2>1. CASE MembershipSame(m)
      <3> DEFINE c == memberships[m].class
      <3>1. memberships'[m].class = c /\ memberships[m].state = "live"
        BY <1>1, <2>1 DEF MembershipSame
      <3>2. m \in Live(memberships) /\ m \in MembersOf(c)
        BY <1>a, <3>1 DEF Live, MembersOf
      <3>3. c \in ClassIds /\ classes[c].state = "live"
        BY <1>a, <3>2 DEF NoOrphans, Live
      <3>4. ~ClassDropped(c)
        BY <1>1, <3>2 DEF ClassDropped
      <3> QED BY <1>a, <3>1, <3>3, <3>4 DEF ClassSame, ClassAdded, ClassRenamed
    <2>2. CASE MembershipAdded(m)
      BY <2>2, <1>a DEF MembershipAdded, Live
    <2> QED BY <1>1, <2>1, <2>2 DEF TablesMove, MembershipDeleted
  <1>2. ASSUME NEW q \in QueryIds, queries'[q].state = "live"
        PROVE  /\ queries'[q].class \in ClassIds
               /\ classes'[queries'[q].class].state = "live"
    <2>1. CASE QuerySame(q) \/ QueryUpdated(q)
      <3> DEFINE c == queries[q].class
      <3>1. queries'[q].class = c /\ queries[q].state = "live"
        BY <1>2, <2>1 DEF QuerySame, QueryUpdated
      <3>2. q \in Live(queries) /\ q \in QueriesOf(c)
        BY <1>a, <3>1 DEF Live, QueriesOf
      <3>3. c \in ClassIds /\ classes[c].state = "live"
        BY <1>a, <3>2 DEF NoOrphans, Live
      <3>4. ~ClassDropped(c)
        BY <1>2, <3>2 DEF ClassDropped
      <3> QED BY <1>a, <3>1, <3>3, <3>4 DEF ClassSame, ClassAdded, ClassRenamed
    <2>2. CASE QueryAdded(q)
      BY <2>2, <1>a DEF QueryAdded, Live
    <2> QED BY <1>2, <2>1, <2>2 DEF TablesMove, QueryDeleted
  <1> QED BY <1>a, <1>1, <1>2 DEF NoOrphans, Live

\* The check of the members is the last read before InfluxDB's, and what was
\* deleted before the execution began stays deleted.
LEMMA ExecutesOverMembersInductive ==
  ASSUME TypeOK, RequestsFit, ExecutesOverMembers, TablesMove, RequestsMove
  PROVE  ExecutesOverMembers'
  <1> SUFFICES ASSUME NEW r \in Requests, requests'[r].step = "read",
                      NEW s \in StreamsOf(requests'[r].spec)
               PROVE  \E m \in MembershipIds \ requests'[r].gone :
                        /\ memberships'[m].class = requests'[r].class
                        /\ memberships'[m].stream = s
    BY DEF ExecutesOverMembers
  <1>1. CASE RequestSame(r)
    <2>1. PICK m \in MembershipIds \ requests[r].gone :
            memberships[m].class = requests[r].class /\ memberships[m].stream = s
      BY <1>1 DEF RequestSame, ExecutesOverMembers
    <2>2. requests[r].class \in ClassIds
      BY <1>1 DEF RequestSame, RequestsFit, RequestFits, TypeOK, Request
    <2>3. MembershipKept(m) /\ memberships[m].state # "unused"
      BY <2>1, <2>2, MembershipsUsed, HistoryKept
    <2> QED BY <1>1, <2>1, <2>3 DEF RequestSame, MembershipKept
  <1>2. CASE RequestGoesOn(r)
    <2>1. /\ OverMembers(requests[r].class, requests[r].spec)
          /\ requests'[r].class = requests[r].class
          /\ requests'[r].spec = requests[r].spec
          /\ requests'[r].gone = requests[r].gone
          /\ memberships' = memberships
          /\ requests[r].step # "none"
      BY <1>2 DEF RequestGoesOn, tables
    <2>2. s \in MemberStreams(requests[r].class)
      BY <2>1 DEF OverMembers
    <2>3. PICK m \in MembershipIds :
            /\ memberships[m].state = "live"
            /\ memberships[m].class = requests[r].class /\ memberships[m].stream = s
      BY <2>2, MembersWere
    <2>4. m \notin requests[r].gone
      BY <2>1, <2>3 DEF RequestsFit, RequestFits
    <2> QED BY <2>1, <2>3, <2>4
  <1>3. ~RequestStarts(r) /\ ~RequestEnds(r)
    BY DEF RequestStarts, RequestEnds, Idle
  <1> QED BY <1>1, <1>2, <1>3 DEF RequestsMove

LEMMA ClassesStep == ClassesInv /\ [Next]_vars => ClassesInv'
  <1> SUFFICES ASSUME ClassesInv, [Next]_vars PROVE ClassesInv'
    OBVIOUS
  <1>a. TypeOK /\ RowsFit /\ RequestsFit /\ NoOrphans /\ ExecutesOverMembers
    BY DEF ClassesInv
  <1>1. TablesMove /\ RequestsMove
    <2>1. CASE Next
      BY <1>a, <2>1, StepMoves
    <2>2. CASE UNCHANGED vars
      BY <1>a, <2>2, TablesStay DEF vars, tables, RequestsMove, RequestSame, TypeOK
    <2> QED BY <2>1, <2>2
  <1>2. TypeOK'
    BY <1>1 DEF TablesMove, TablesTyped, RequestsMove, TypeOK
  <1> QED BY <1>a, <1>1, <1>2, RowsFitInductive, RequestsFitInductive, NoOrphansInductive,
          ExecutesOverMembersInductive DEF ClassesInv

LEMMA ClassesInitially == Init => ClassesInv
  <1> SUFFICES ASSUME Init PROVE ClassesInv
    OBVIOUS
  <1>1. TypeOK
    BY IdleType DEF Init, TypeOK, ClassRow, MembershipRow, QueryRow
  <1>2. RowsFit /\ RequestsFit /\ NoOrphans /\ ExecutesOverMembers
    BY DEF Init, RowsFit, RequestsFit, NoOrphans, ExecutesOverMembers, Live, NoClass,
       NoMembership, NoQuery, Idle
  <1> QED BY <1>1, <1>2 DEF ClassesInv

-----------------------------------------------------------------------------
(* The theorems. *)

\* The inductive invariant the others follow from: whatever other requests commit
\* between its steps, what a request has read still fits the histories of the rows.
THEOREM ClassesInvariance == Spec => []ClassesInv
  BY ClassesInitially, ClassesStep, PTL DEF Spec

\* Every variable keeps its type: no update sets a column to null.
THEOREM TypeCorrect == Spec => []TypeOK
  <1>1. ClassesInv => TypeOK
    BY DEF ClassesInv
  <1> QED BY <1>1, ClassesInvariance, PTL

\* No member and no query outlives its class.
THEOREM NothingIsOrphaned == Spec => []NoOrphans
  <1>1. ClassesInv => NoOrphans
    BY DEF ClassesInv
  <1> QED BY <1>1, ClassesInvariance, PTL

\* The series of a saved query are, or once were, members of its class.
THEOREM QueriesAreOverMembers == Spec => []QueriesOverMembers
  <1>1. ClassesInv => QueriesOverMembers
    <2> SUFFICES ASSUME ClassesInv, NEW q \in Live(queries),
                        NEW s \in StreamsOf(queries[q].spec)
                 PROVE  WasMember(queries[q].class, s)
      BY DEF QueriesOverMembers
    <2>1. q \in QueryIds /\ queries[q].state = "live"
      BY LiveRows DEF ClassesInv, Live
    <2> QED BY <2>1 DEF ClassesInv, RowsFit
  <1> QED BY <1>1, ClassesInvariance, PTL

\* No execution reads a stream that was no member, or no more when it began.
THEOREM ExecutionsAreOverMembers == Spec => []ExecutesOverMembers
  <1>1. ClassesInv => ExecutesOverMembers
    BY DEF ClassesInv
  <1> QED BY <1>1, ClassesInvariance, PTL

\* No member, query or execution crosses from one tenant to another.
THEOREM TenantsAreIsolated == Spec => []TenantIsolation
  <1>1. ClassesInv => TenantIsolation
    <2> SUFFICES ASSUME ClassesInv PROVE TenantIsolation
      OBVIOUS
    <2>a. TypeOK /\ RowsFit /\ RequestsFit
      BY DEF ClassesInv
    <2>1. ASSUME NEW c \in ClassIds, NEW s, WasMember(c, s)
          PROVE  TenantOf[s] = classes[c].tenant
      BY <2>a, <2>1, MembershipsUsed DEF WasMember, RowsFit
    <2>2. \A m \in Live(memberships) :
            TenantOf[memberships[m].stream] = classes[memberships[m].class].tenant
      BY <2>a, LiveRows DEF RowsFit, Live
    <2>3. ASSUME NEW q \in Live(queries)
          PROVE  /\ queries[q].tenant = classes[queries[q].class].tenant
                 /\ \A s \in StreamsOf(queries[q].spec) : TenantOf[s] = queries[q].tenant
      <3>1. q \in QueryIds /\ queries[q].state = "live" /\ queries[q].class \in ClassIds
        BY <2>a, LiveRows DEF Live
      <3> QED BY <2>a, <2>1, <3>1 DEF RowsFit
    <2>4. ASSUME NEW r \in Requests, requests[r].step = "read",
                 NEW s \in StreamsOf(requests[r].spec)
          PROVE  TenantOf[s] = requests[r].tenant
      <3>1. RequestFits(requests[r])
        BY <2>a, <2>4 DEF RequestsFit
      <3>2. requests[r].class \in ClassIds
        BY <2>a, <3>1 DEF RequestFits, TypeOK, Request
      <3> QED BY <2>1, <2>4, <3>1, <3>2 DEF RequestFits
    <2> QED BY <2>2, <2>3, <2>4 DEF TenantIsolation
  <1> QED BY <1>1, ClassesInvariance, PTL

\* Of any specification and any contents of InfluxDB a response keeps its promises.
LEMMA ResponsesKeepPromises ==
  HonestSpecs = Specs /\ EarliestSpecs = Specs /\ LimitedSpecs = Specs
  <1>1. ASSUME NEW spec \in Specs, NEW stored \in Contents
        PROVE  /\ IsHonest(SeriesOf[spec], stored)
               /\ IsEarliest(SeriesOf[spec], stored)
               /\ IsLimited(SeriesOf[spec], stored)
    <2>1. SeriesOf[spec] \in Seq(Series)
      OBVIOUS
    <2>2. stored \in SUBSET Points /\ IsFiniteSet(stored)
      OBVIOUS
    <2> QED BY <2>1, <2>2, ResponsesAreHonest, ResponsesAreEarliest, ResponsesAreLimited
  <1> QED BY <1>1 DEF HonestSpecs, EarliestSpecs, LimitedSpecs

LEMMA ExecutedAreSpecs == ClassesInv => Executed \subseteq Specs
  <1> SUFFICES ASSUME ClassesInv, NEW r \in Requests, requests[r].step = "read"
               PROVE  requests[r].spec \in Specs
    BY DEF Executed
  <1>1. requests[r] \in Request /\ RequestFits(requests[r])
    BY DEF ClassesInv, TypeOK, RequestsFit
  <1> QED BY <1>1 DEF RequestFits, Request

\* The response to a query under execution is marked as truncated exactly if it
\* lacks a point of the window.
THEOREM TruncationIsHonest == Spec => []TruncatedIsHonest
  <1>1. ClassesInv => TruncatedIsHonest
    BY ExecutedAreSpecs, ResponsesKeepPromises DEF TruncatedIsHonest
  <1> QED BY <1>1, ClassesInvariance, PTL

\* It has the earliest points of each series, and no others.
THEOREM EarliestAreKept == Spec => []SeriesAreEarliest
  <1>1. ClassesInv => SeriesAreEarliest
    BY ExecutedAreSpecs, ResponsesKeepPromises DEF SeriesAreEarliest
  <1> QED BY <1>1, ClassesInvariance, PTL

\* It keeps both limits.
THEOREM LimitsHold == Spec => []LimitsAreKept
  <1>1. ClassesInv => LimitsAreKept
    BY ExecutedAreSpecs, ResponsesKeepPromises DEF LimitsAreKept
  <1> QED BY <1>1, ClassesInvariance, PTL
=============================================================================
