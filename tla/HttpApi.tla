------------------------------- MODULE HttpApi -------------------------------
(* The HTTP API as its clients meet it (src/internal/api): the middleware   *)
(* that tells who calls and for which tenant (src/internal/auth), one       *)
(* handler per route, the statuses they answer with, the connector registry *)
(* behind them (src/internal/connectorruntime) and a client that pages      *)
(* through GET /v1/incidents while others write.                            *)
(*                                                                          *)
(* A handler reads or writes in one statement or transaction and is one     *)
(* step here, but for a creation, whose stamp is taken before its           *)
(* transaction: rows can appear in the middle of the order.  A request that *)
(* changes nothing is no step: its answer is an operator, and a property    *)
(* may ask at any moment what a client would be told.  How a PATCH reads,   *)
(* checks and writes is in IncidentService.tla; here it sets a status.      *)
(*                                                                          *)
(* A definition marked VARIANT is the next one with a plausible bug in it;  *)
(* nothing uses it but the checks that the properties can fail.             *)
EXTENDS IncidentStatus, Naturals, FiniteSets, SequencesExt

CONSTANTS Incident,
          Connector,    \* connector ids
          Tenant,
          DefaultTenant,
          Header,       \* what requests that write say: records principal, tenant
          Capabilities, \* records produces, consumes (sets of types), versions
          PatchStatus,  \* the statuses clients ask for
          Filter,       \* the queries clients page through: records statuses,
                        \* since, until
          PageLimit,    \* the limit they ask for
          MaxTime,      \* bound on the clock
          None

ASSUME ApiAssumption ==
    /\ DefaultTenant \in Tenant
    /\ None \notin Tenant \cup Incident \cup Connector \cup {"absent", "malformed"}
    /\ {"absent", "malformed"} \cap Tenant = {}
    /\ IsFiniteSet(Incident) /\ Incident \cap Connector = {}
    /\ PatchStatus \subseteq Status
    /\ PageLimit \in Nat
    /\ MaxTime \in Nat \ {0}

\* X-Principal-Id by its type, if it has one, and X-Tenant-Id.
AnyHeader == [principal : {"user", "connector", "system", "other", "absent"},
              tenant : Tenant \cup {"absent", "malformed"}]

ASSUME HeaderAssumption == Header \subseteq AnyHeader

VARIABLES incident,     \* table incident
          creating,     \* creations whose stamp is taken and that are not committed
          now,
          connector,    \* table connector
          sender,       \* history: the X-Tenant-Id each incident was sent with
          acked,        \* history: what has been answered with a 201
          walk,         \* the client that pages
          steady,       \* history: incidents that have matched since the walk began
          left          \* history: incidents that have ceased to match since then

tables == <<incident, connector>>
history == <<sender, acked>>
paging == <<walk, steady, left>>
vars == <<tables, creating, now, history, paging>>

Row == [tenant : Tenant, status : Status, created_at : 1..MaxTime]

\* The registry ships one schema, "incident" in version 1 (Registry.Has).
Known == {<<"incident", 1>>}

Registration == [tenant : Tenant, capabilities : Capabilities]

ASSUME NoneAssumption == None \notin Row \cup Registration

Idle == [phase |-> "idle", tenant |-> None, filter |-> None, offset |-> 0, seen |-> {}]

TypeOK ==
    /\ incident \in [Incident -> Row \cup {None}]
    /\ \A c \in creating : c \in [incident : Incident, row : Row]
    /\ now \in 1..MaxTime
    /\ connector \in [Connector -> Registration \cup {None}]
    /\ sender \in [Incident -> Tenant \cup {"absent", "malformed", None}]
    /\ acked \subseteq Incident \cup Connector
    /\ walk.phase \in {"idle", "walking", "done"}
    /\ walk.offset \in Nat
    /\ UNION {walk.seen, steady, left} \subseteq {i \in Incident : incident[i] # None}

Init ==
    /\ incident = [i \in Incident |-> None] /\ creating = {} /\ now = 1
    /\ connector = [c \in Connector |-> None]
    /\ sender = [i \in Incident |-> None] /\ acked = {}
    /\ walk = Idle /\ steady = {} /\ left = {}
-----------------------------------------------------------------------------
(* The middleware.                                                          *)

\* parsePrincipal knows three types.
Identified(h) == h.principal \in {"user", "connector", "system"}

\* VARIANT: a header that is no UUID is taken as absent.
AdmittedLeniently(h) == Identified(h)

Admitted(h) == Identified(h) /\ h.tenant # "malformed"

\* VARIANT: an absent header is not replaced.
TenantAsGiven(h) == h.tenant

TenantOf(h) == IF h.tenant \in Tenant THEN h.tenant ELSE DefaultTenant

\* writeError: the status by the error; anything else is a 500.
StatusOf(error) ==
    CASE error = "not_found" -> 404
      [] error \in {"invalid_input", "unknown_type", "unsupported_schema"} -> 400
      [] error = "invalid_transition" -> 422
      [] error = "denied" -> 403
      [] OTHER -> 500

\* What a request is answered, given what its handler would answer.
Through(h, answer) ==
    IF ~Identified(h) THEN 401 ELSE IF ~Admitted(h) THEN 400 ELSE answer
-----------------------------------------------------------------------------
(* POST, GET and PATCH /v1/incidents.                                       *)

\* The rows a list query selects.
Matches(row, tenant, f) ==
    /\ row # None
    /\ row.tenant = tenant
    /\ f.statuses = {} \/ row.status \in f.statuses
    /\ f.since = 0 \/ row.created_at >= f.since
    /\ f.until = 0 \/ row.created_at < f.until

InWalk(i, table) == walk.phase = "walking" /\ Matches(table[i], walk.tenant, walk.filter)

\* Bookkeeping for the walk when a row changes.
Watch(i) ==
    /\ steady' = IF InWalk(i, incident') THEN steady ELSE steady \ {i}
    /\ left' = IF InWalk(i, incident) /\ ~InWalk(i, incident') THEN left \cup {i} ELSE left
    /\ UNCHANGED walk

\* The service stamps the row; other requests go on before it is committed.
StartCreate(h, i) ==
    /\ Admitted(h)
    /\ sender[i] = None
    /\ sender' = [sender EXCEPT ![i] = h.tenant]
    /\ now' \in {now, now + 1} \cap 1..MaxTime
    /\ creating' = creating \cup
         {[incident |-> i,
           row |-> [tenant |-> TenantOf(h), status |-> "new", created_at |-> now']]}
    /\ UNCHANGED <<tables, acked, paging>>

\* VARIANT: the answer goes out before the transaction.
CreatedEarly(c) ==
    /\ acked' = acked \cup {c.incident}
    /\ creating' = creating \ {c}
    /\ \/ incident' = [incident EXCEPT ![c.incident] = c.row] /\ Watch(c.incident)
       \/ UNCHANGED <<incident, paging>>
    /\ UNCHANGED <<now, connector, sender>>

Created(c) ==
    /\ incident' = [incident EXCEPT ![c.incident] = c.row]
    /\ creating' = creating \ {c}
    /\ acked' = acked \cup {c.incident}
    /\ Watch(c.incident)
    /\ UNCHANGED <<now, connector, sender>>

\* The transaction fails; an error of the commit tells nothing about the row.
CreateFails(c) ==
    /\ \/ incident' = [incident EXCEPT ![c.incident] = c.row] /\ Watch(c.incident)
       \/ UNCHANGED <<incident, paging>>
    /\ creating' = creating \ {c}
    /\ UNCHANGED <<now, connector, history>>

Visible(h, i) == incident[i] # None /\ incident[i].tenant = TenantOf(h)

GetAnswer(h, i) == Through(h, IF Visible(h, i) THEN 200 ELSE StatusOf("not_found"))

Patch(h, i, status) ==
    /\ Admitted(h)
    /\ Visible(h, i)
    /\ incident' = [incident EXCEPT ![i].status = status]
    /\ Watch(i)
    /\ UNCHANGED <<creating, now, connector, history>>
-----------------------------------------------------------------------------
(* POST /v1/connectors and /v1/connectors/{id}/heartbeat.                   *)

\* Register: every type is known, every event schema version is 1.
Supported(cap) ==
    /\ \A t \in cap.produces \cup cap.consumes : <<t, 1>> \in Known
    /\ cap.versions \subseteq {1}

\* The upsert takes a connector over from the tenant it was registered for.
Register(h, c, cap) ==
    /\ Admitted(h)
    /\ Supported(cap)
    /\ connector' = [connector EXCEPT ![c] = [tenant |-> TenantOf(h),
                                                capabilities |-> cap]]
    /\ acked' = acked \cup {c}
    /\ UNCHANGED <<incident, creating, now, sender, paging>>

\* A heartbeat changes when the connector was last heard of; the tenant is not
\* looked at.
HeartbeatAnswer(h, c) ==
    Through(h, IF connector[c] # None THEN 200 ELSE StatusOf("not_found"))

-----------------------------------------------------------------------------
(* GET /v1/incidents, page after page.                                      *)

\* VARIANT: the query has no ORDER BY.
OrderedAnyhow(S) == SetToSeqs(S)

\* ORDER BY created_at DESC; ties are broken anyhow.
Ordered(S) ==
    {q \in SetToSeqs(S) : \A k \in 1..Len(q) : \A l \in 1..k :
        incident[q[l]].created_at >= incident[q[k]].created_at}

\* A limit that is not positive or is above 500 is replaced by 100.
PageSize == IF PageLimit \in 1..500 THEN PageLimit ELSE 100

\* LIMIT and OFFSET.
Pages(S, offset) ==
    {ToSet(SubSeq(q, offset + 1, IF offset + PageSize < Len(q) THEN offset + PageSize
                                                               ELSE Len(q))) :
        q \in Ordered(S)}

Listed(tenant, f) == {i \in Incident : Matches(incident[i], tenant, f)}

\* A client sets out to read all pages of a query.
SetOut(h, f) ==
    /\ Admitted(h)
    /\ walk.phase = "idle"
    /\ walk' = [Idle EXCEPT !.phase = "walking", !.tenant = TenantOf(h), !.filter = f]
    /\ steady' = Listed(TenantOf(h), f)
    /\ UNCHANGED <<tables, creating, now, history, left>>

\* The next offset is the number of rows received; an empty page is the end.
NextPage ==
    /\ walk.phase = "walking"
    /\ \E page \in Pages(Listed(walk.tenant, walk.filter), walk.offset) :
          walk' = IF page = {}
                  THEN [walk EXCEPT !.phase = "done"]
                  ELSE [walk EXCEPT !.offset = walk.offset + Cardinality(page),
                                    !.seen = walk.seen \cup page]
    /\ UNCHANGED <<tables, creating, now, history, steady, left>>
-----------------------------------------------------------------------------
Next ==
    \/ \E h \in Header :
          \/ \E i \in Incident :
                \/ StartCreate(h, i)
                \/ \E status \in PatchStatus : Patch(h, i, status)
          \/ \E c \in Connector, cap \in Capabilities : Register(h, c, cap)
          \/ \E f \in Filter : SetOut(h, f)
    \/ \E c \in creating : Created(c) \/ CreateFails(c)
    \/ NextPage

Spec == Init /\ [][Next]_vars
-----------------------------------------------------------------------------
(* Properties.                                                              *)

\* A row that a walk may skip: it shares its stamp with another, or a row ahead of
\* it has left the query, which moves the rest up by one.
Excused(i) ==
    \/ \E j \in left : incident[j].created_at > incident[i].created_at
    \/ \E j \in Incident \ {i} : /\ incident[j] # None /\ incident[j].tenant = walk.tenant
                                 /\ incident[j].created_at = incident[i].created_at

\* Paging misses nothing that was there: a walk that is done has seen every row
\* that matched from its beginning to its end, whatever was created meanwhile and
\* in whatever order creations were committed, but for those it may skip
\* (persistence/incidents.go, List).
WalkSeesAll ==
    walk.phase = "done" => \A i \in steady : i \in walk.seen \/ Excused(i)

\* A 201 stands: nothing that has been answered with one is ever denied to a
\* client that names the same tenant in the same way, and no heartbeat of a
\* connector that has had one is.
CreatedIsFound ==
    \A h \in AnyHeader : Through(h, 200) = 200 =>
       /\ \A i \in acked \cap Incident : sender[i] = h.tenant => GetAnswer(h, i) = 200
       /\ \A c \in acked \cap Connector : HeartbeatAnswer(h, c) = 200

\* An incident is found only by those who name the tenant it was sent with, a
\* missing header and the default tenant's being one (auth.go: the header is a
\* UUID or absent); and without a known principal nothing is found at all.
OwnTenantOnly ==
    \A h \in AnyHeader, i \in Incident : GetAnswer(h, i) = 200 =>
       /\ h.principal \in {"user", "connector", "system"}
       /\ \/ h.tenant = sender[i] /\ h.tenant \in Tenant
          \/ {h.tenant, sender[i]} \subseteq {DefaultTenant, "absent"}
=============================================================================
