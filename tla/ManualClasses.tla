---------------------------- MODULE ManualClasses ----------------------------
(***************************************************************************)
(* Telemetry classes, their members and their saved queries under          *)
(* concurrent requests (services/manual_class_service.py with the routes   *)
(* of api/routes/classes.py), and the execution of a saved query           *)
(* (services/saved_class_query_execution_service.py).                      *)
(*                                                                         *)
(* A request reads, in a first step, and writes and commits in a later     *)
(* one: at READ COMMITTED it does not see what others commit between.      *)
(* What the database adds at the write is modelled with it: the unique     *)
(* constraints, the foreign keys with ON DELETE CASCADE, a row that is     *)
(* gone, and row locks, which only delete_class() holds over several steps.*)
(* Ids are uuid4() values, never used twice.                               *)
(***************************************************************************)
EXTENDS ClassQueryExecution

CONSTANTS
    Tenants,
    Streams,
    TenantOf,           \* the tenant of each stream; it never changes
    Names,              \* name keys of classes and queries
    ClassIds,           \* ids still to be given, one per row ever inserted
    MembershipIds,
    QueryIds,
    Requests,           \* requests served at the same time
    Specs,              \* the valid specifications of saved queries
    SeriesOf,           \* the series of each, in order
    RawSpecs,           \* those that aggregate nothing
    Contents,           \* what InfluxDB may hold when a query is executed
    None

ASSUME ClassesAssumption ==
    /\ Series \subseteq Streams \X STRING
    /\ None \notin Tenants \cup Names \cup ClassIds \cup MembershipIds
                    \cup QueryIds \cup Specs
    /\ TenantOf \in [Streams -> Tenants \cup {None}]
    /\ SeriesOf \in [Specs -> Seq(Series) \ {<<>>}]
    /\ RawSpecs \subseteq Specs
    /\ \A stored \in Contents : stored \subseteq Points /\ IsFiniteSet(stored)

VARIABLES
    classes,        \* telemetry_classes by id
    memberships,    \* class_memberships by id
    queries,        \* saved_class_queries by id
    requests        \* what each request under way has read

vars == <<classes, memberships, queries, requests>>

RowStates == {"live", "deleted"}

NoClass == [state |-> "unused", tenant |-> None, key |-> None]
NoMembership == [state |-> "unused", class |-> None, stream |-> None]
NoQuery == [state |-> "unused", class |-> None, tenant |-> None, key |-> None, spec |-> None]

\* No column of a row may be null.  A deleted row keeps its columns here, as a
\* history of the class.
ClassRow == {NoClass} \cup [state : RowStates, tenant : Tenants, key : Names]

MembershipRow ==
    {NoMembership} \cup [state : RowStates, class : ClassIds, stream : Streams]

QueryRow ==
    {NoQuery} \cup [state : RowStates, class : ClassIds, tenant : Tenants,
                    key : Names, spec : Specs]

\* The next step a request has to take, or "none".
Steps == {"none", "update_class", "clear_class", "drop_class", "add_members",
          "remove_member", "create_query", "update_query", "delete_query",
          "check_members", "read"}

Request ==
    [step : Steps, tenant : Tenants \cup {None}, class : ClassIds \cup {None},
     row : MembershipIds \cup QueryIds \cup {None}, streams : SUBSET Streams,
     key : Names \cup {None}, spec : Specs \cup {None},
     locked : SUBSET (MembershipIds \cup QueryIds),  \* rows deleted, not committed
     gone : SUBSET MembershipIds]    \* history: deleted before an execution began

Idle ==
    [step |-> "none", tenant |-> None, class |-> None, row |-> None, streams |-> {},
     key |-> None, spec |-> None, locked |-> {}, gone |-> {}]

TypeOK ==
    /\ classes \in [ClassIds -> ClassRow]
    /\ memberships \in [MembershipIds -> MembershipRow]
    /\ queries \in [QueryIds -> QueryRow]
    /\ requests \in [Requests -> Request]

Init ==
    /\ classes = [c \in ClassIds |-> NoClass]
    /\ memberships = [m \in MembershipIds |-> NoMembership]
    /\ queries = [q \in QueryIds |-> NoQuery]
    /\ requests = [r \in Requests |-> Idle]

-----------------------------------------------------------------------------
(* What the statements of a request see. *)

Live(table) == {id \in DOMAIN table : table[id].state = "live"}
Unused(table) == {id \in DOMAIN table : table[id].state = "unused"}

\* Faulty variant: a class of any tenant.
FindsAnyClass(tenant, c) == c \in Live(classes)

\* _class(): SELECT ... WHERE id AND tenant_id.
FindsClass(tenant, c) == c \in Live(classes) /\ classes[c].tenant = tenant

MembersOf(c) == {m \in Live(memberships) : memberships[m].class = c}

QueriesOf(c) == {q \in Live(queries) : queries[q].class = c}

MemberStreams(c) == {memberships[m].stream : m \in MembersOf(c)}

\* get_query()
FindsQuery(tenant, c, q) ==
    /\ FindsClass(tenant, c)
    /\ q \in QueriesOf(c)
    /\ queries[q].tenant = tenant

StreamsOf(spec) == {SeriesOf[spec][i][1] : i \in DOMAIN SeriesOf[spec]}

\* {series.stream_id ...} <= member_ids
OverMembers(c, spec) == StreamsOf(spec) \subseteq MemberStreams(c)

\* The rows another request has deleted and not committed: a write to them waits.
LockedFor(r) == UNION {requests[other].locked : other \in Requests \ {r}}

-----------------------------------------------------------------------------
(* A request begins, goes on, ends. *)

\* A request that is refused at its first step changes nothing and is left out.
Begin(r, request) ==
    /\ requests[r] = Idle
    /\ requests' = [requests EXCEPT ![r] = request]
    /\ UNCHANGED <<classes, memberships, queries>>

End(r) == requests' = [requests EXCEPT ![r] = Idle]

\* An exception, a lost connection or the end of the process: rolled back.
Abort(r) ==
    /\ requests[r] # Idle
    /\ End(r)
    /\ UNCHANGED <<classes, memberships, queries>>

-----------------------------------------------------------------------------
(* Classes. *)

\* uq_telemetry_classes_tenant_name_key
ClassNameFree(tenant, key, except) ==
    \A c \in Live(classes) \ {except} :
        ~(classes[c].tenant = tenant /\ classes[c].key = key)

\* create_class(): the insert and its conflict are one statement.
CreateClass(tenant, key) ==
    /\ ClassNameFree(tenant, key, None)
    /\ \E c \in Unused(classes) :
        classes' = [classes EXCEPT ![c] =
                        [state |-> "live", tenant |-> tenant, key |-> key]]
    /\ UNCHANGED <<memberships, queries, requests>>

\* An update that sets what was read writes nothing and is left out.
BeginUpdateClass(r, tenant, c, key) ==
    /\ FindsClass(tenant, c)
    /\ classes[c].key # key
    /\ Begin(r, [Idle EXCEPT !.step = "update_class", !.tenant = tenant,
                             !.class = c, !.key = key])

\* The update of a row that is gone, or of a name that is taken, fails.
UpdateClass(r) ==
    LET c == requests[r].class
        key == requests[r].key
    IN
    /\ requests[r].step = "update_class"
    /\ \/ /\ c \in Live(classes) /\ ClassNameFree(requests[r].tenant, key, c)
          /\ classes' = [classes EXCEPT ![c].key = key]
       \/ /\ ~(c \in Live(classes) /\ ClassNameFree(requests[r].tenant, key, c))
          /\ UNCHANGED classes
    /\ End(r)
    /\ UNCHANGED <<memberships, queries>>

BeginDeleteClass(r, tenant, c) ==
    /\ FindsClass(tenant, c)
    /\ Begin(r, [Idle EXCEPT !.step = "clear_class", !.tenant = tenant, !.class = c])

\* DELETE of the class's memberships and queries; it waits for locked ones.
ClearClass(r) ==
    LET c == requests[r].class
        rows == MembersOf(c) \cup QueriesOf(c)
    IN
    /\ requests[r].step = "clear_class"
    /\ rows \cap LockedFor(r) = {}
    /\ requests' = [requests EXCEPT ![r].step = "drop_class", ![r].locked = rows]
    /\ UNCHANGED <<classes, memberships, queries>>

Deleted(table, ids) ==
    [id \in DOMAIN table |->
        IF id \in ids THEN [table[id] EXCEPT !.state = "deleted"] ELSE table[id]]

\* Faulty variant: without ON DELETE CASCADE, only the rows cleared before.
CascadeCleared(c) ==
    \E r \in Requests :
        /\ requests[r].step = "drop_class" /\ requests[r].class = c
        /\ memberships' = Deleted(memberships, MembersOf(c) \cap requests[r].locked)
        /\ queries' = Deleted(queries, QueriesOf(c) \cap requests[r].locked)

\* The rows that refer to a class are deleted with it (ON DELETE CASCADE), those
\* inserted since ClearClass included.
Cascade(c) ==
    /\ memberships' = Deleted(memberships, MembersOf(c))
    /\ queries' = Deleted(queries, QueriesOf(c))

\* session.delete(item) and the commit; a class already gone is only a warning.
DropClass(r) ==
    LET c == requests[r].class IN
    /\ requests[r].step = "drop_class"
    /\ (MembersOf(c) \cup QueriesOf(c)) \cap LockedFor(r) = {}
    /\ classes' = Deleted(classes, Live(classes) \cap {c})
    /\ Cascade(c)
    /\ End(r)

-----------------------------------------------------------------------------
(* Members. *)

HasMember(c, streams) == MemberStreams(c) \cap streams # {}

\* The streams are looked up with the tenant's key, and none may be a member.
BeginAddMembers(r, tenant, c, streams) ==
    /\ FindsClass(tenant, c)
    /\ \A s \in streams : TenantOf[s] = tenant
    /\ ~HasMember(c, streams)
    /\ Begin(r, [Idle EXCEPT !.step = "add_members", !.tenant = tenant,
                             !.class = c, !.streams = streams])

\* All memberships are inserted, or none if the class is gone or one is there.
AddMembers(r) ==
    LET c == requests[r].class
        streams == requests[r].streams
        mayInsert == c \in Live(classes) /\ ~HasMember(c, streams)
    IN
    /\ requests[r].step = "add_members"
    /\ \/ /\ mayInsert
          /\ \E id \in [streams -> Unused(memberships)] :
                /\ \A s, t \in streams : s # t => id[s] # id[t]
                /\ memberships' = [m \in MembershipIds |->
                        IF \E s \in streams : id[s] = m
                        THEN [state |-> "live", class |-> c,
                              stream |-> CHOOSE s \in streams : id[s] = m]
                        ELSE memberships[m]]
       \/ ~mayInsert /\ UNCHANGED memberships
    /\ End(r)
    /\ UNCHANGED <<classes, queries>>

BeginRemoveMember(r, tenant, c, m) ==
    /\ FindsClass(tenant, c)
    /\ m \in MembersOf(c)
    /\ Begin(r, [Idle EXCEPT !.step = "remove_member", !.tenant = tenant,
                             !.class = c, !.row = m])

\* Saved queries are not looked at; a row already gone is only a warning.
RemoveMember(r) ==
    /\ requests[r].step = "remove_member"
    /\ requests[r].row \notin LockedFor(r)
    /\ memberships' = Deleted(memberships, Live(memberships) \cap {requests[r].row})
    /\ End(r)
    /\ UNCHANGED <<classes, queries>>

-----------------------------------------------------------------------------
(* Saved queries. *)

\* uq_saved_class_queries_class_name_key
QueryNameFree(c, key, except) ==
    \A q \in QueriesOf(c) \ {except} : queries[q].key # key

BeginCreateQuery(r, tenant, c, key, spec) ==
    /\ FindsClass(tenant, c)
    /\ OverMembers(c, spec)
    /\ Begin(r, [Idle EXCEPT !.step = "create_query", !.tenant = tenant,
                             !.class = c, !.key = key, !.spec = spec])

\* Inserted, or a conflict if the class is gone or the name is taken.
CreateQuery(r) ==
    LET c == requests[r].class
        key == requests[r].key
        mayInsert == c \in Live(classes) /\ QueryNameFree(c, key, None)
    IN
    /\ requests[r].step = "create_query"
    /\ \/ /\ mayInsert
          /\ \E q \in Unused(queries) :
                queries' = [queries EXCEPT ![q] =
                    [state |-> "live", class |-> c, tenant |-> requests[r].tenant,
                     key |-> key, spec |-> requests[r].spec]]
       \/ ~mayInsert /\ UNCHANGED queries
    /\ End(r)
    /\ UNCHANGED <<classes, memberships>>

\* Faulty variant: only create_query() compares the series with the members.
MayUpdateAnyhow(tenant, c, q, key, spec) == FindsQuery(tenant, c, q)

\* update_query(): the name, the specification or both; None leaves it alone.
MayUpdateQuery(tenant, c, q, key, spec) ==
    /\ FindsQuery(tenant, c, q)
    /\ spec # None => OverMembers(c, spec)

\* The columns a flush writes: those that were given and differ from what was read.
Changed(given, read) == IF given = read THEN None ELSE given

BeginUpdateQuery(r, tenant, c, q, key, spec) ==
    /\ MayUpdateQuery(tenant, c, q, key, spec)
    /\ Begin(r, [Idle EXCEPT !.step = "update_query", !.tenant = tenant,
                             !.class = c, !.row = q,
                             !.key = Changed(key, queries[q].key),
                             !.spec = Changed(spec, queries[q].spec)])

\* Faulty variant: a column that did not change is written too, as null.
UpdateQueryWithNull(r) ==
    /\ requests[r].step = "update_query"
    /\ requests[r].row \notin LockedFor(r)
    /\ requests[r].row \in Live(queries)
    /\ queries' = [queries EXCEPT ![requests[r].row].key = requests[r].key,
                                  ![requests[r].row].spec = requests[r].spec]
    /\ End(r)
    /\ UNCHANGED <<classes, memberships>>

\* Only the columns that changed are written; the update of a row that is
\* gone, or to a name that is taken, fails.
UpdateQuery(r) ==
    LET q == requests[r].row
        key == requests[r].key
        spec == requests[r].spec
        mayWrite == /\ q \in Live(queries)
                    /\ key # None => QueryNameFree(requests[r].class, key, q)
    IN
    /\ requests[r].step = "update_query"
    /\ q \notin LockedFor(r)
    /\ \/ /\ mayWrite
          /\ queries' = [queries EXCEPT ![q].key = IF key = None THEN @ ELSE key,
                                        ![q].spec = IF spec = None THEN @ ELSE spec]
       \/ ~mayWrite /\ UNCHANGED queries
    /\ End(r)
    /\ UNCHANGED <<classes, memberships>>

BeginDeleteQuery(r, tenant, c, q) ==
    /\ FindsQuery(tenant, c, q)
    /\ Begin(r, [Idle EXCEPT !.step = "delete_query", !.tenant = tenant,
                             !.class = c, !.row = q])

DeleteQuery(r) ==
    /\ requests[r].step = "delete_query"
    /\ requests[r].row \notin LockedFor(r)
    /\ queries' = Deleted(queries, Live(queries) \cap {requests[r].row})
    /\ End(r)
    /\ UNCHANGED <<classes, memberships>>

-----------------------------------------------------------------------------
(* Execution. *)

\* The class and the query are read; only raw queries are executed.
BeginExecute(r, tenant, c, q) ==
    /\ FindsQuery(tenant, c, q)
    /\ queries[q].spec \in RawSpecs
    /\ Begin(r, [Idle EXCEPT !.step = "check_members", !.tenant = tenant,
                             !.class = c, !.spec = queries[q].spec,
                             !.gone = {m \in MembershipIds : memberships[m].state = "deleted"}])

\* Faulty variant: the check of the request that saved the query is relied on.
CheckNoMembers(r) ==
    /\ requests[r].step = "check_members"
    /\ requests' = [requests EXCEPT ![r].step = "read"]
    /\ UNCHANGED <<classes, memberships, queries>>

\* The members are read: InfluxDB is read only if they include every series.
CheckMembers(r) ==
    /\ requests[r].step = "check_members"
    /\ \/ /\ OverMembers(requests[r].class, requests[r].spec)
          /\ requests' = [requests EXCEPT ![r].step = "read"]
       \/ /\ ~OverMembers(requests[r].class, requests[r].spec)
          /\ End(r)
    /\ UNCHANGED <<classes, memberships, queries>>

\* The response (see Response), or an error of InfluxDB.
Answer(r) ==
    /\ requests[r].step = "read"
    /\ End(r)
    /\ UNCHANGED <<classes, memberships, queries>>

-----------------------------------------------------------------------------

\* Requests for ids that are not there are refused and left out.
Receive(r) ==
    requests[r] = Idle /\ \E tenant \in Tenants, c \in Live(classes) :
        \/ \E key \in Names : BeginUpdateClass(r, tenant, c, key)
        \/ BeginDeleteClass(r, tenant, c)
        \/ \E streams \in SUBSET Streams \ {{}} : BeginAddMembers(r, tenant, c, streams)
        \/ \E m \in Live(memberships) : BeginRemoveMember(r, tenant, c, m)
        \/ \E key \in Names, spec \in Specs : BeginCreateQuery(r, tenant, c, key, spec)
        \/ \E q \in Live(queries) :
            \/ \E key \in Names \cup {None}, spec \in Specs \cup {None} :
                BeginUpdateQuery(r, tenant, c, q, key, spec)
            \/ BeginDeleteQuery(r, tenant, c, q)
            \/ BeginExecute(r, tenant, c, q)

Serve(r) ==
    \/ UpdateClass(r) \/ ClearClass(r) \/ DropClass(r)
    \/ AddMembers(r) \/ RemoveMember(r)
    \/ CreateQuery(r) \/ UpdateQuery(r) \/ DeleteQuery(r)
    \/ CheckMembers(r) \/ Answer(r)

Next ==
    \/ \E tenant \in Tenants, key \in Names : CreateClass(tenant, key)
    \/ \E r \in Requests : Receive(r) \/ Serve(r) \/ Abort(r)

Spec == Init /\ [][Next]_vars

-----------------------------------------------------------------------------
(* Properties. *)

\* Whatever requests of several tenants do to each other's ids: the members and
\* the queries of a class belong to its tenant, and an execution reads streams
\* of its own tenant only.
TenantIsolation ==
    /\ \A m \in Live(memberships) :
        TenantOf[memberships[m].stream] = classes[memberships[m].class].tenant
    /\ \A q \in Live(queries) :
        /\ queries[q].tenant = classes[queries[q].class].tenant
        /\ \A s \in StreamsOf(queries[q].spec) : TenantOf[s] = queries[q].tenant
    /\ \A r \in Requests : requests[r].step = "read" =>
        \A s \in StreamsOf(requests[r].spec) : TenantOf[s] = requests[r].tenant

\* delete_class() leaves no member and no query behind, also not one that another
\* request adds between its first read and its commit.
NoOrphans ==
    /\ \A m \in Live(memberships) : memberships[m].class \in Live(classes)
    /\ \A q \in Live(queries) : queries[q].class \in Live(classes)

WasMember(c, s) ==
    \E m \in MembershipIds : memberships[m].class = c /\ memberships[m].stream = s

\* The series of a saved query are, or once were, members of its class.
QueriesOverMembers ==
    \A q \in Live(queries) : \A s \in StreamsOf(queries[q].spec) :
        WasMember(queries[q].class, s)

\* A query saved while a member was being removed refers to a stream that is no
\* member; what was removed before an execution began is never read by it.
ExecutesOverMembers ==
    \A r \in Requests : requests[r].step = "read" =>
        \A s \in StreamsOf(requests[r].spec) :
            \E m \in MembershipIds \ requests[r].gone :
                memberships[m].class = requests[r].class /\ memberships[m].stream = s

HonestSpecs ==
    {spec \in Specs : \A stored \in Contents : IsHonest(SeriesOf[spec], stored)}

EarliestSpecs ==
    {spec \in Specs : \A stored \in Contents : IsEarliest(SeriesOf[spec], stored)}

LimitedSpecs ==
    {spec \in Specs : \A stored \in Contents : IsLimited(SeriesOf[spec], stored)}

Executed == {requests[r].spec : r \in {o \in Requests : requests[o].step = "read"}}

\* Whatever InfluxDB holds, the response to a query under execution is marked as
\* truncated exactly if some series lacks a point of the window.
TruncatedIsHonest == Executed \subseteq HonestSpecs

\* Whatever InfluxDB holds, a series in the response has points of its own within
\* the window, and the limits took none that is earlier than one they left.
SeriesAreEarliest == Executed \subseteq EarliestSpecs

\* Whatever InfluxDB holds and however often a series is asked for, the limits
\* per series and per response are kept.
LimitsAreKept == Executed \subseteq LimitedSpecs

-----------------------------------------------------------------------------
(* Why they hold: an inductive invariant.  A used row never becomes unused   *)
(* again and keeps its class, tenant and stream, also when it is deleted.    *)

\* A membership ever inserted is of the tenant of its class, as is a query, whose
\* series all were members once.
RowsFit ==
    /\ \A m \in MembershipIds : memberships[m].state # "unused" =>
        /\ classes[memberships[m].class].state # "unused"
        /\ TenantOf[memberships[m].stream] = classes[memberships[m].class].tenant
    /\ \A q \in QueryIds : queries[q].state # "unused" =>
        /\ classes[queries[q].class].state # "unused"
        /\ queries[q].tenant = classes[queries[q].class].tenant
        /\ \A s \in StreamsOf(queries[q].spec) : WasMember(queries[q].class, s)

\* What a request under way has read is still true of the rows' histories, though
\* the rows may be gone.
RequestFits(request) ==
    /\ request.class # None
    /\ classes[request.class].state # "unused"
    /\ request.tenant = classes[request.class].tenant
    /\ \A s \in request.streams : TenantOf[s] = request.tenant
    /\ request.step \in {"update_class", "create_query"} => request.key # None
    /\ request.step \in {"create_query", "check_members", "read"} => request.spec # None
    /\ request.spec # None => \A s \in StreamsOf(request.spec) : WasMember(request.class, s)
    /\ request.step = "update_query" =>
        /\ request.row \in QueryIds
        /\ queries[request.row].state # "unused"
        /\ queries[request.row].class = request.class
    /\ \A m \in request.gone : memberships[m].state = "deleted"

RequestsFit == \A r \in Requests : requests[r].step # "none" => RequestFits(requests[r])

ClassesInv ==
    /\ TypeOK
    /\ RowsFit
    /\ RequestsFit
    /\ NoOrphans
    /\ ExecutesOverMembers
=============================================================================
