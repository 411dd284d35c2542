--------------------------- MODULE IncidentService ---------------------------
(* The incident service (src/internal/domain/incident/service.go) over its  *)
(* Postgres tables: Create and Patch as concurrent requests, each running   *)
(* the statements of its transaction one at a time under READ COMMITTED.    *)
(*                                                                          *)
(* Postgres is modelled from what the code asks of it: a statement sees the *)
(* committed rows plus its own transaction's; an UPDATE waits for the row   *)
(* lock and applies to the latest committed row; an INSERT waits for, then  *)
(* fails on, a conflicting key; COMMIT makes everything visible at once.    *)
(*                                                                          *)
(* A request that stops half-way - a statement fails, its context expires,  *)
(* the process dies - is Fail: nothing it wrote is kept.  Nothing the       *)
(* service holds outlives the process, so a crash is Fail of every request. *)
(*                                                                          *)
(* A definition marked VARIANT is the next one with a plausible bug in it;  *)
(* nothing uses it but the checks that the properties can fail.             *)
EXTENDS IncidentStatus, Naturals, FiniteSets

CONSTANTS Request,      \* the requests ever made; each is made once
          Seeded,       \* incidents that exist before the first request
          SeedRow,      \* what their rows may hold
          Tenant, Source, External,
          Value,        \* contents of a field
          Bad,          \* the one content that validation refuses
          None,         \* SQL NULL, a nil pointer, an absent input
          NoRow,        \* stands for "there is no such row"
          CreateInput,  \* the bodies of POST /v1/incidents
          PatchInput,   \* the bodies of PATCH /v1/incidents/{id}
          Refused,      \* the requests the Authorizer denies
          MaxConns      \* size of the connection pool (10 in the code)

\* An incident created by a request is known by that request's name.
Incident == Seeded \cup Request

Field == {"title", "description", "severity", "assignee_id", "attributes", "tags"}

Row == [tenant     : Tenant,
        source     : Source \cup {None},
        external   : External \cup {None},
        fields     : [Field -> Value \cup {None}],
        status     : Status,
        created_at : Nat,
        updated_at : Nat,
        closed_at  : Nat]            \* 0 is NULL

Call == [op : {"create"}, tenant : Tenant, incident : {None}, input : CreateInput]
        \cup
        [op : {"patch"}, tenant : Tenant, incident : Incident, input : PatchInput]

AuditRow == [request : Request,
             action  : {"incident.create", "incident.update", "incident.status_change"},
             target  : Incident \cup {None},
             result  : {"success", "denied"}]

Event == [type       : {"incident.created", "incident.updated",
                        "incident.status_changed", "incident.closed"},
          request    : Request,
          incident   : Incident,
          created_at : Nat,
          snapshot   : Row \cup {NoRow},
          from       : Status \cup {None},
          to         : Status \cup {None}]

ASSUME ConstantAssumption ==
    /\ Seeded \cap Request = {}
    /\ Refused \subseteq Request
    /\ Bad \in Value
    /\ None \notin Value \cup Incident \cup Status \cup Source \cup External
    /\ None \notin {"ok", "rejected", "denied", "not_found", "error"}
    /\ NoRow \notin Row
    /\ MaxConns \in Nat \ {0}

ASSUME InputAssumption ==
    /\ CreateInput \subseteq [source   : Source \cup {None},
                              external : External \cup {None},
                              fields   : [Field -> Value \cup {None}]]
    /\ PatchInput \subseteq [status : Status \cup {None, Bad},
                             fields : [Field -> Value \cup {None}]]

\* A seeded row was written before the clock starts; a closed one says when.
ASSUME SeedAssumption ==
    /\ SeedRow \subseteq Row
    /\ \A row \in SeedRow : /\ row.created_at = 1
                           /\ row.updated_at = 1
                           /\ row.status = "closed" => row.closed_at = 1

VARIABLES incident,     \* table incident, committed: [Incident -> Row \cup {NoRow}]
          audit,        \* table audit, committed
          outbox,       \* table outbox, committed: every event ever staged
          now,          \* the clock: each reading of it is later than the last
          pc,           \* what each request does next
          call,         \* what each request asks for
          tx,           \* what each open transaction has read and written
          conn,         \* the requests that hold a pool connection
          result        \* the answer each request got

database == <<incident, audit, outbox>>
vars == <<incident, audit, outbox, now, pc, call, tx, conn, result>>

NoTx == [prior |-> NoRow, at |-> 0, row |-> NoRow, audit |-> {}, events |-> {}]

Tx == [prior : Row \cup {NoRow}, at : Nat, row : Row \cup {NoRow},
       audit : SUBSET AuditRow, events : SUBSET Event]

InTx == {"insert", "read", "update", "audit", "enqueue_created", "enqueue_updated",
         "enqueue_status_changed", "enqueue_closed", "commit"}

\* The two kinds of transaction a request may have open.
Open == InTx \cup {"record_denial"}

PC == {"idle", "denied", "begin", "done"} \cup Open

\* Once a patch's UPDATE has run it holds the row lock until it ends; once an
\* insert has run its index entry is pending until it ends.
HasWritten == {"audit", "enqueue_created", "enqueue_updated",
               "enqueue_status_changed", "enqueue_closed", "commit"}

Result == {None, "ok", "rejected", "denied", "not_found", "error"}

TypeOK ==
    /\ incident \in [Incident -> Row \cup {NoRow}]
    /\ audit \subseteq AuditRow
    /\ outbox \subseteq Event
    /\ now \in Nat
    /\ pc \in [Request -> PC]
    /\ call \in [Request -> Call \cup {None}]
    /\ tx \in [Request -> Tx]
    /\ conn \subseteq Request
    /\ result \in [Request -> Result]
-----------------------------------------------------------------------------
\* Table incident's partial unique index (tenant, source_connector, external_id)
\* WHERE external_id IS NOT NULL; two NULL sources are distinct keys.
SameKey(a, b) ==
    /\ a.tenant = b.tenant
    /\ a.external = b.external /\ a.external # None
    /\ a.source = b.source     /\ a.source # None

Init ==
    /\ incident \in [Incident -> SeedRow \cup {NoRow}]
    /\ \A i \in Incident : incident[i] # NoRow <=> i \in Seeded
    /\ \A i, j \in Seeded : i # j => ~SameKey(incident[i], incident[j])
    /\ audit = {}
    /\ outbox = {}
    /\ now = 1
    /\ pc = [r \in Request |-> "idle"]
    /\ call = [r \in Request |-> None]
    /\ tx = [r \in Request |-> NoTx]
    /\ conn = {}
    /\ result = [r \in Request |-> None]
-----------------------------------------------------------------------------
\* Validation.  A create needs a title and valid severity and attributes.
ValidCreate(in) ==
    /\ in.fields["title"] \notin {None, Bad}
    /\ in.fields["severity"] \notin {None, Bad}
    /\ in.fields["attributes"] # Bad

\* VARIANT: the status of a patch is not checked against the prior one.
ValidPatchAnyStatus(in, prior) ==
    /\ in.fields["severity"] # Bad
    /\ in.fields["attributes"] # Bad

\* A patch needs valid severity and attributes, and a status that may follow
\* the prior one; a patch may set an empty title.
ValidPatch(in, prior) ==
    /\ in.fields["severity"] # Bad
    /\ in.status # None => /\ in.status \in Status
                           /\ CanTransition(prior.status, in.status)
    /\ in.fields["attributes"] # Bad

\* changed_fields.  Only title and tags are compared with the prior row; any
\* other field that is present counts as changed.
ChangedFields(in, prior) ==
    { f \in Field : /\ in.fields[f] # None
                    /\ f \in {"title", "tags"} => in.fields[f] # prior.fields[f] }

Changes(in, prior) == in.status # None \/ ChangedFields(in, prior) # {}

\* The row of a new incident.
NewRow(c, at) ==
    [tenant |-> c.tenant, source |-> c.input.source, external |-> c.input.external,
     fields |-> c.input.fields, status |-> "new",
     created_at |-> at, updated_at |-> at, closed_at |-> 0]

\* VARIANT: the whole row is written back, as it was read.
PatchedFromPrior(row, in, prior, at) ==
    [row EXCEPT !.fields = [f \in Field |-> IF f \in ChangedFields(in, prior)
                                            THEN in.fields[f] ELSE prior.fields[f]],
                !.status = IF in.status # None THEN in.status ELSE prior.status]

\* IncidentRepo.Update: COALESCE over the latest committed row.
Patched(row, in, prior, at) ==
    [row EXCEPT !.fields     = [f \in Field |-> IF f \in ChangedFields(in, prior)
                                                THEN in.fields[f] ELSE row.fields[f]],
                !.status     = IF in.status # None THEN in.status ELSE @,
                !.updated_at = at,
                !.closed_at  = IF in.status = "closed" THEN at + 1 ELSE @]

\* VARIANT: a status that is present counts as changed.
StatusGiven(r) == call[r].input.status # None

\* statusChanged compares with the row as it was read.
StatusChanged(r) ==
    call[r].input.status \notin {None, tx[r].prior.status}

\* The incident a request writes.
Target(r) == IF call[r].op = "create" THEN r ELSE call[r].incident

NewEvent(r, type, at, snapshot, from, to) ==
    [type |-> type, request |-> r, incident |-> Target(r), created_at |-> at,
     snapshot |-> snapshot, from |-> from, to |-> to]

-----------------------------------------------------------------------------
\* Local helpers: move a request on, answer it, end its transaction.
Goto(r, label) == pc' = [pc EXCEPT ![r] = label]

Answer(r, res) == Goto(r, "done") /\ result' = [result EXCEPT ![r] = res]

\* VARIANT: the connection is not given back.
ReleaseLeaks(r) == tx' = [tx EXCEPT ![r] = NoTx] /\ UNCHANGED conn

Release(r) == conn' = conn \ {r} /\ tx' = [tx EXCEPT ![r] = NoTx]

\* The deferred Rollback of WithTx: nothing the transaction wrote is kept.
Rollback(r, res) == Answer(r, res) /\ Release(r) /\ UNCHANGED <<database, now, call>>

\* pgx hands out a connection only while fewer than MaxConns are in use.
FreeConn == Cardinality(conn) < MaxConns
-----------------------------------------------------------------------------
\* The call reaches the service.
Arrive(r, c) ==
    /\ pc[r] = "idle"
    /\ call' = [call EXCEPT ![r] = c]
    /\ UNCHANGED <<database, conn>>

\* The Authorizer denies the call.
Deny(r, c) ==
    /\ Arrive(r, c)
    /\ r \in Refused
    /\ Goto(r, "denied")
    /\ UNCHANGED <<now, tx, result>>

\* A create that does not validate is answered before any transaction.
RejectCreate(r, c) ==
    /\ Arrive(r, c)
    /\ r \notin Refused
    /\ c.op = "create"
    /\ ~ValidCreate(c.input)
    /\ Answer(r, "rejected")
    /\ UNCHANGED <<now, tx>>

\* A valid create stamps its row, and its event, before the transaction.
StartCreate(r, c) ==
    /\ Arrive(r, c)
    /\ r \notin Refused
    /\ c.op = "create"
    /\ ValidCreate(c.input)
    /\ now' = now + 1
    /\ tx' = [tx EXCEPT ![r].row = NewRow(c, now'), ![r].at = now']
    /\ Goto(r, "begin")
    /\ UNCHANGED result

StartPatch(r, c) ==
    /\ Arrive(r, c)
    /\ r \notin Refused
    /\ c.op = "patch"
    /\ Goto(r, "begin")
    /\ UNCHANGED <<now, tx, result>>

\* The denial is audited in a transaction of its own (a WithTx with one INSERT):
\* take a connection and open it.
BeginDenial(r) ==
    /\ pc[r] = "denied"
    /\ FreeConn
    /\ conn' = conn \cup {r}
    /\ Goto(r, "record_denial")
    /\ UNCHANGED <<database, now, call, tx, result>>

\* VARIANT: the denied action is audited as a success.
RecordDenialAsSuccess(r) ==
    /\ pc[r] = "record_denial"
    /\ audit' = audit \cup
         {[request |-> r, action |-> "incident.update", target |-> None,
           result  |-> "success"]}
    /\ Answer(r, "denied")
    /\ Release(r)
    /\ UNCHANGED <<incident, outbox, now, call>>

\* Insert the audit row and commit.
RecordDenial(r) ==
    /\ pc[r] = "record_denial"
    /\ audit' = audit \cup
         {[request |-> r,
           action  |-> IF call[r].op = "create" THEN "incident.create" ELSE "incident.update",
           target  |-> IF call[r].op = "create" THEN None ELSE call[r].incident,
           result  |-> "denied"]}
    /\ Answer(r, "denied")
    /\ Release(r)
    /\ UNCHANGED <<incident, outbox, now, call>>

\* No connection, or a statement fails: the error is ignored, the answer stays.
LoseDenial(r) ==
    /\ pc[r] \in {"denied", "record_denial"}
    /\ Rollback(r, "denied")
-----------------------------------------------------------------------------
\* WithTx: take a connection and open the transaction.
Begin(r) ==
    /\ pc[r] = "begin"
    /\ FreeConn
    /\ conn' = conn \cup {r}
    /\ Goto(r, IF call[r].op = "create" THEN "insert" ELSE "read")
    /\ UNCHANGED <<database, now, call, tx, result>>

\* VARIANT: an insert does not see other open transactions.
KeyPendingNever(r) == FALSE

\* The unique index makes an insert wait while another open transaction has
\* inserted the same key; it then succeeds, or fails if that one committed.
KeyPending(r) ==
    \E q \in Request \ {r} : /\ pc[q] \in HasWritten
                             /\ call[q].op = "create"
                             /\ SameKey(tx[q].row, tx[r].row)

KeyTaken(r) ==
    \E i \in Incident : incident[i] # NoRow /\ SameKey(incident[i], tx[r].row)

Insert(r) ==
    /\ pc[r] = "insert"
    /\ ~KeyPending(r)
    /\ ~KeyTaken(r)
    /\ Goto(r, "audit")
    /\ UNCHANGED <<database, now, call, tx, conn, result>>

InsertConflict(r) ==
    /\ pc[r] = "insert"
    /\ ~KeyPending(r)
    /\ KeyTaken(r)
    /\ Rollback(r, "error")

\* VARIANT: the row is looked up by id alone.
VisibleToAll(r) == incident[call[r].incident] # NoRow

\* The row a patch is for, as the tenant may see it.
Visible(r) ==
    /\ incident[call[r].incident] # NoRow
    /\ incident[call[r].incident].tenant = call[r].tenant

NotFound(r) ==
    /\ pc[r] = "read"
    /\ ~Visible(r)
    /\ Rollback(r, "not_found")

RejectPatch(r) ==
    /\ pc[r] = "read"
    /\ Visible(r)
    /\ ~ValidPatch(call[r].input, incident[call[r].incident])
    /\ Rollback(r, "rejected")

\* Nothing to change: no UPDATE, no audit row, no event; the transaction commits.
ReadUnchanged(r) ==
    /\ pc[r] = "read"
    /\ Visible(r)
    /\ ValidPatch(call[r].input, incident[call[r].incident])
    /\ ~Changes(call[r].input, incident[call[r].incident])
    /\ Goto(r, "commit")
    /\ UNCHANGED <<database, now, call, tx, conn, result>>

\* Read the prior row (no row lock) and compute the patch from it; updated_at
\* is stamped here, and closed_at right after it when the status is "closed".
Read(r) ==
    /\ pc[r] = "read"
    /\ Visible(r)
    /\ ValidPatch(call[r].input, incident[call[r].incident])
    /\ Changes(call[r].input, incident[call[r].incident])
    /\ now' = IF call[r].input.status = "closed" THEN now + 2 ELSE now + 1
    /\ tx' = [tx EXCEPT ![r].prior = incident[call[r].incident], ![r].at = now + 1]
    /\ Goto(r, "update")
    /\ UNCHANGED <<database, call, conn, result>>

\* VARIANT: the read takes a shared lock that the UPDATE must upgrade.
RowLockedByReader(r) ==
    \E q \in Request \ {r} : /\ pc[q] \in HasWritten \cup {"update"}
                             /\ call[q].op = "patch"
                             /\ tx[q].prior # NoRow
                             /\ call[q].incident = call[r].incident

\* Another open transaction has updated the row.
RowLocked(r) ==
    \E q \in Request \ {r} : /\ pc[q] \in HasWritten
                             /\ call[q].op = "patch"
                             /\ tx[q].row # NoRow
                             /\ call[q].incident = call[r].incident

\* UPDATE waits for the row lock, then applies the patch to the committed row,
\* whatever it has become; the re-read sees the transaction's own version.
Update(r) ==
    /\ pc[r] = "update"
    /\ ~RowLocked(r)
    /\ tx' = [tx EXCEPT ![r].row = Patched(incident[call[r].incident],
                                           call[r].input, tx[r].prior, tx[r].at)]
    /\ Goto(r, "audit")
    /\ UNCHANGED <<database, now, call, conn, result>>
-----------------------------------------------------------------------------
AuditAction(r) ==
    IF call[r].op = "create" THEN "incident.create"
    ELSE IF StatusChanged(r) THEN "incident.status_change" ELSE "incident.update"

\* VARIANT: the audit row is written outside the transaction.
RecordAuditOutside(r) ==
    /\ pc[r] = "audit"
    /\ audit' = audit \cup {[request |-> r, action |-> AuditAction(r),
                             target |-> Target(r), result |-> "success"]}
    /\ Goto(r, IF call[r].op = "create" THEN "enqueue_created" ELSE "enqueue_updated")
    /\ UNCHANGED <<incident, outbox, now, call, tx, conn, result>>

RecordAudit(r) ==
    /\ pc[r] = "audit"
    /\ tx' = [tx EXCEPT ![r].audit =
                {[request |-> r, action |-> AuditAction(r), target |-> Target(r),
                  result |-> "success"]}]
    /\ Goto(r, IF call[r].op = "create" THEN "enqueue_created" ELSE "enqueue_updated")
    /\ UNCHANGED <<database, now, call, conn, result>>

\* One INSERT INTO outbox of the open transaction.
Enqueue(r, e) ==
    /\ tx' = [tx EXCEPT ![r].events = @ \cup {e}]
    /\ UNCHANGED <<database, call, conn, result>>

\* The created event carries the stamp the row was given before the transaction.
EnqueueCreated(r) ==
    /\ pc[r] = "enqueue_created"
    /\ Enqueue(r, NewEvent(r, "incident.created", tx[r].at, tx[r].row, None, None))
    /\ Goto(r, "commit")
    /\ UNCHANGED now

\* VARIANT: the event carries the patch applied to the row as it was read.
EnqueueUpdatedStale(r) ==
    /\ pc[r] = "enqueue_updated"
    /\ now' = now + 1
    /\ Enqueue(r, NewEvent(r, "incident.updated", now',
                           Patched(tx[r].prior, call[r].input, tx[r].prior, tx[r].at),
                           None, None))
    /\ Goto(r, IF StatusChanged(r) THEN "enqueue_status_changed" ELSE "commit")

\* VARIANT: the event is stamped with the row's updated_at.
EnqueueUpdatedEarly(r) ==
    /\ pc[r] = "enqueue_updated"
    /\ Enqueue(r, NewEvent(r, "incident.updated", tx[r].at, tx[r].row, None, None))
    /\ Goto(r, IF StatusChanged(r) THEN "enqueue_status_changed" ELSE "commit")
    /\ UNCHANGED now

\* Each event of a patch is stamped when its envelope is built.
EnqueueUpdated(r) ==
    /\ pc[r] = "enqueue_updated"
    /\ now' = now + 1
    /\ Enqueue(r, NewEvent(r, "incident.updated", now', tx[r].row, None, None))
    /\ Goto(r, IF StatusChanged(r) THEN "enqueue_status_changed" ELSE "commit")

\* VARIANT: a closure is announced as a move like any other.
EnqueueStatusChangedOnly(r) ==
    /\ pc[r] = "enqueue_status_changed"
    /\ now' = now + 1
    /\ Enqueue(r, NewEvent(r, "incident.status_changed", now', NoRow,
                           tx[r].prior.status, call[r].input.status))
    /\ Goto(r, "commit")

EnqueueStatusChanged(r) ==
    /\ pc[r] = "enqueue_status_changed"
    /\ now' = now + 1
    /\ Enqueue(r, NewEvent(r, "incident.status_changed", now', NoRow,
                           tx[r].prior.status, call[r].input.status))
    /\ Goto(r, IF call[r].input.status = "closed" THEN "enqueue_closed" ELSE "commit")

EnqueueClosed(r) ==
    /\ pc[r] = "enqueue_closed"
    /\ now' = now + 1
    /\ Enqueue(r, NewEvent(r, "incident.closed", now', NoRow, None, None))
    /\ Goto(r, "commit")

\* COMMIT publishes everything the transaction wrote.  The answer may still be
\* an error: the connection can fail after the server has committed.
Commit(r) ==
    /\ pc[r] = "commit"
    /\ incident' = IF tx[r].row = NoRow THEN incident
                   ELSE [incident EXCEPT ![Target(r)] = tx[r].row]
    /\ audit' = audit \cup tx[r].audit
    /\ outbox' = outbox \cup tx[r].events
    /\ \E res \in {"ok", "error"} : Answer(r, res)
    /\ Release(r)
    /\ UNCHANGED <<now, call>>

\* VARIANT: a statement that fails late leaves the row written.
FailKeepsRow(r) ==
    /\ pc[r] \in InTx \cup {"begin"}
    /\ incident' = IF pc[r] \in HasWritten /\ tx[r].row # NoRow
                   THEN [incident EXCEPT ![Target(r)] = tx[r].row] ELSE incident
    /\ Answer(r, "error") /\ Release(r)
    /\ UNCHANGED <<audit, outbox, now, call>>

\* No connection in time, a failed statement, an expired context, a crash.
Fail(r) ==
    /\ pc[r] \in InTx \cup {"begin"}
    /\ Rollback(r, "error")
-----------------------------------------------------------------------------
\* What a request does when nothing fails.
Progress(r) ==
    \/ BeginDenial(r)    \/ RecordDenial(r)
    \/ Begin(r)
    \/ Insert(r)          \/ InsertConflict(r)
    \/ NotFound(r)        \/ RejectPatch(r)
    \/ ReadUnchanged(r)   \/ Read(r)
    \/ Update(r)          \/ RecordAudit(r)
    \/ EnqueueCreated(r)  \/ EnqueueUpdated(r)
    \/ EnqueueStatusChanged(r) \/ EnqueueClosed(r)
    \/ Commit(r)

Start(r) == \E c \in Call :
    Deny(r, c) \/ RejectCreate(r, c) \/ StartCreate(r, c) \/ StartPatch(r, c)

Next == \E r \in Request : Start(r) \/ Progress(r) \/ LoseDenial(r) \/ Fail(r)

\* A handler that has started keeps running; that a statement ever fails, or
\* that a call ever arrives, is not assumed.
Fairness == \A r \in Request : WF_vars(Progress(r))

Spec == Init /\ [][Next]_vars
FairSpec == Spec /\ Fairness
-----------------------------------------------------------------------------
(* Properties.                                                              *)

\* This step is the commit of r, and it changes a row.
CommitsRow(r) == pc[r] = "commit" /\ pc'[r] = "done" /\ incident' # incident

\* The service implements the ledger: whatever the requests do to each other,
\* the three tables change together, one incident at a time, with exactly one
\* audit row and exactly the catalogue's events for the move from the status the
\* patch read (service.go:257, 319-347).  That status is one the incident has or
\* once had.  It need not be the present one: ImplementsDocuments asks for that,
\* and with overlapping patches the service does not keep it (MovesAnnounced).
Ledger == INSTANCE IncidentLedger
ImplementsLedger == Ledger!Spec

\* The service implements the ledger as data_model.md writes it: every move is in
\* the table and announced by the catalogue's events, from the status the row had.
\* Transactions that do not overlap keep it.
ImplementsDocuments == Ledger!DocumentedSpec

\* Events are staged in stamp order within an incident: an event that becomes
\* visible is later than every event of its incident already visible.  The
\* relay publishes by created_at (outbox.go FetchUnpublished) and relies on it.
StampOrder ==
    [][\A e \in outbox' \ outbox, f \in outbox :
          f.incident = e.incident => f.created_at < e.created_at]_vars

\* The latest snapshot of an incident among its events is its row: a stale
\* snapshot is never the last word (service.go re-reads after the UPDATE).
SnapshotIsCurrent == Ledger!SnapshotIsCurrent

\* Idempotent re-ingest: one incident per (tenant, connector, external id),
\* whatever inserts race (0001_init.up.sql, incident_tenant_connector_external_uq).
NoDuplicateIngest ==
    \A i, j \in Incident :
       /\ i # j
       /\ incident[i] # NoRow
       /\ incident[j] # NoRow
       => ~SameKey(incident[i], incident[j])

\* What a caller is told agrees with what the database kept: a refusal left
\* nothing, an acknowledged create is there with its audit row and event, and
\* an error left either everything or nothing - never a part.
ReplyMatchesRecord ==
    \A r \in Request :
       LET logged == {a \in audit : a.request = r}
           staged == {e \in outbox : e.request = r}
       IN /\ result[r] \in {None, "rejected", "not_found"} => logged = {} /\ staged = {}
          /\ result[r] = "denied" =>
                staged = {} /\ \A a \in logged : a.result = "denied"
          /\ result[r] \in {"ok", "error"} =>
                /\ staged = {} <=> logged = {}
                /\ Cardinality(logged) <= 1
          /\ result[r] = "ok" /\ call[r].op = "create" =>
                incident[r] # NoRow /\ staged # {}

\* A patch that read the status the row still has when it commits, whatever else
\* of the row has changed since, makes a move of the table and announces it with
\* exactly the catalogue's events, a closure with all three (service.go:319-347).
FreshPatchAnnounced ==
    [][\A r \in Request :
          LET i == call[r].incident
          IN (/\ CommitsRow(r)
              /\ call[r].op = "patch"
              /\ incident[i].status = tx[r].prior.status)
             => Ledger!Update(i, incident[i].status)]_vars

\* A partial update never reverts what it leaves out: a field absent from a
\* patch keeps the value another request committed, even one that committed
\* between this patch's read and its UPDATE (COALESCE under the row lock).
AbsentFieldsSurvive ==
    [][\A r \in Request :
          (CommitsRow(r) /\ call[r].op = "patch")
          => LET i == call[r].incident
             IN \A f \in Field : call[r].input.fields[f] = None
                   => incident'[i].fields[f] = incident[i].fields[f]]_vars

\* Tenants are isolated: a row changes only by the commit of a request of the
\* row's own tenant, and never moves to another tenant.
TenantIsolation ==
    [][\A i \in Incident : incident'[i] # incident[i] =>
          /\ incident[i] # NoRow => incident'[i].tenant = incident[i].tenant
          /\ \E r \in Request : CommitsRow(r) /\ call[r].tenant = incident'[i].tenant]_vars

\* Row lock, index entry and pool never wait for each other in a circle: a
\* handler that has started answers.
RequestsTerminate ==
    \A r \in Request : pc[r] \in Open \cup {"begin", "denied"} ~> pc[r] = "done"
-----------------------------------------------------------------------------
(* What the documentation says and the code does not do.                    *)

\* context/data_model.md: any transition that is not in the table is rejected.
LegalTransitions ==
    [][\A i \in Incident : incident[i] # NoRow
          => CanTransition(incident[i].status, incident'[i].status)]_vars

\* context/data_model.md: transitions emit incident.status_changed in addition to
\* incident.updated, and the one to closed emits incident.closed as well.
MovesAnnounced ==
    [][\A i \in Incident :
          LET old == incident[i].status
              new == incident'[i].status
          IN incident[i] # NoRow /\ old # new
             => {e.type : e \in outbox' \ outbox} = Ledger!Catalogue(old, new)]_vars
=============================================================================
