# SOARcore in TLA+

A specification of SOARcore: the HTTP API, the incident service and its
transactions, the outbox relay, the core process that holds them, and the
reference connector and the smoke consumer at the end of the pipeline. TLC checks
small instances; TLAPS proves the safety results for every instance. The
code is in `src/`; every definition that stands for code is tied to its lines in
`PROJECT.json` (`map`).

    tlc -workers 2 -config service.cfg MCIncidentService.tla
    tlapm IncidentService_proofs.tla

## 1. The system

```
 client --HTTP--> api --> incident.Service --one tx--> incident | audit | outbox   (Postgres)
                   |                                                 |
                   +--> connectorruntime --> connector table         | poll, 250 ms
                                                                     v
                     reference connector <--queue-- exchange <--- outbox.Relay --> events.Publisher
                            |  (autoAck)             (RabbitMQ)
                            +--HTTP PATCH tags--> api
```

Shared state is in three places: the Postgres tables (between requests, and
between the service and the relay), the exchange and its queues (between the
relay and connectors), and inside the core process only the connection pool and
the publisher. Nobody calls back: a connector learns of a change from the bus
and answers over HTTP.

| Component | State | Operations | What is hard | What makes it correct |
|---|---|---|---|---|
| Status state machine (`domain/incident/incident.go`) | none | `CanTransition` | a re-assertion is accepted | only the documented moves happen |
| Incident service (`domain/incident/service.go`) | the three tables | `Create`, `Patch` (`Get`, `List` only read) | patches of one incident overlap under READ COMMITTED, the prior row is read without a lock and used after waiting for one | row, audit row and events change together; events are in order; the last snapshot is the row; what the caller is told is what was kept |
| Transactions, pool (`persistence/pool.go`) | 10 connections | `WithTx` | failure at any statement, a commit whose answer is lost, waiting for locks while holding connections | all or nothing; nobody waits for ever |
| Repositories, schema (`persistence/*.go`, `migrations/`) | rows, a partial unique index | insert, select, COALESCE update, list | racing inserts of one key, a partial update that waited | no duplicate ingest; absent columns survive; tenants do not see each other |
| Outbox relay (`outbox/relay.go`) | the batch in hand | `Run`, `drainOnce` | publish, mark and process fail separately | per-incident order, at least once, nothing is stuck |
| Publisher (`events/publisher.go`) | connection, channel, a mutex | `Publish`, `connect`, `Close` | no confirms; reconnect races with `Close` | a nil answer should mean the event is on the bus |
| Subscriber (`events/subscriber.go`) | connection, a durable queue | `Subscribe`, `Close` | automatic acknowledgement, no reconnect | the loop ends when its connection does |
| Reference connector (`cmd/reference-connector`) | none that survives | register, heartbeat, enrich | duplicates, late requests, restarts | adds its tag and nothing else; comes to rest |
| Connector runtime (`connectorruntime`, `persistence/connectors.go`) | the connector table | `Register`, `Heartbeat` | two processes with one id | a heartbeat finds its row |
| HTTP API, auth, schema registry (`api`, `auth`, `schemaregistry`) | none | identify, choose the tenant, one handler per route, map errors, list by pages | rows are created and change between two pages; an absent header has a meaning | what is answered 201 is found, by its tenant only; paging skips nothing it should show |
| Process (`cmd/core/main.go`, `migrate.go`) | the signal context, the migration's record | start, migrate, serve, shut down | a crash half-way through the migration; draining has a limit; the relay is not awaited; deferred calls wait for what others hold | serves a complete schema only; ends when told to; a restart continues where the last process stopped |
| Smoke consumer (`cmd/smoke-consumer`) | a channel of one place | subscribe, wait | the queue lives as long as its consumer; duplicates; the timeout | exit status 0 means the event was published |

`PROJECT.json` lists the same parts with what is modelled of each
(`components`), and the places where the code is hard to test (`hazards`), each
with the properties that cover it.

## 2. The modules

| Module | What it is |
|---|---|
| `IncidentStatus` | the table of moves, `CanTransition` |
| `IncidentLedger` | abstract: an incident, its audit trail and exactly the catalogue's events change in one step |
| `IncidentService` | `Create` and `Patch`, one action per statement; implements `IncidentLedger` |
| `MCIncidentService` | bodies and seeded rows for TLC |
| `IncidentService_proofs` | theorems about `IncidentService`: types, order, snapshots, no duplicates |
| `IncidentAnswers_proofs` | more of them, over the former: patches, the ledger, answers, the outbox as relay and connectors see it, the pool |
| `OrderedDelivery` | abstract: staged events are handed over in order per incident, at least once |
| `OutboxRelay` | the relay, the publisher, the socket and the broker; implements `OrderedDelivery` |
| `MCOutboxRelay`, `OutboxRelay_proofs` | its instance and its theorems |
| `ReferenceConnector`, `ReferenceConnector_proofs` | the connector with its queue, and the core as it sees it; its theorems |
| `CoreProcess`, `CoreProcess_proofs` | `main`, the publisher with its mutex, the pool, the relay's and the handlers' way through both; its theorems |
| `SmokeConsumer`, `MCSmokeConsumer`, `SmokeConsumer_proofs` | extends `OutboxRelay`: relay, broker, queue and consumer together; its theorems |
| `HttpApi`, `MCHttpApi`, `HttpApi_proofs` | the routes as clients of several tenants meet them, and a client that pages; its theorems |

The modules meet at the abstract specifications. `OutboxRelay!Stage` takes what
the service gives: a transaction stages events of one incident, each with a stamp
of its own, later than all the incident has. `OrderedDelivery!Stage` says the
same; `IncidentAnswers_proofs!ServiceStages` proves it of the service, over the
same outbox table. `ReferenceConnector!Publish` takes what `OrderedDelivery` and
`CreationComesFirst` give: each event at least once, an incident's one creation
before its updates.
`SmokeConsumer` is a composition: its steps are those of `OutboxRelay` and its
own. `CoreProcess` and `HttpApi` look at what `OutboxRelay` and
`IncidentService` leave out - the process around them, and the many incidents
and callers - and keep of each only what touches that.

`IncidentLedger` demands of a change the events of `data_model.md`'s catalogue, no
more and no fewer: `incident.updated`, for a move `incident.status_changed` too, and
for the move to `closed` `incident.closed`. The catalogue goes by the status moved
from, and there are two readings of that. In `Documented`, as the document has
it, it is the status of the row at that step. In `Next` it is a status the
incident has or its events have told of (`Known`), since a patch decides from the row it
read. The service keeps `Next` always (`ImplementsLedger`), and `Documented`
(`ImplementsDocuments`) as long as no two patches of an incident overlap; the
difference is findings 1 and 2 of section 6.

A definition marked VARIANT sits before the definition it is a plausible bug of
and has its parameters. No specification uses it. Each property is checked to
fail when one variant takes the place of its original (`mutants`).

### IncidentService

`pc[r]` is the statement request `r` comes to next; `tx[r]` what its open
transaction has read and written; `conn` who holds a pooled connection. The
tables hold committed data only.

| Action | Code |
|---|---|
| `Deny`, `BeginDenial`, `RecordDenial`, `LoseDenial` | the Authorizer's refusal and its audit row, in a transaction of its own that waits for a connection, holds it to its end (`pool.go:80-102`) and whose error is ignored (`service.go:80-88, 199-206`) |
| `RejectCreate`, `StartCreate` | validation before the transaction; row and event are stamped here (`:91-139`) |
| `StartPatch`, `Begin` | `WithTx`: wait for a connection, BEGIN |
| `Insert`, `InsertConflict` | the unique index: wait for a pending insert of the key, then succeed or fail |
| `Read`, `ReadUnchanged`, `RejectPatch`, `NotFound` | the SELECT and the decisions taken from the row read (`:223-293`) |
| `Update` | UPDATE under the row lock with COALESCE, and the re-read (`:295-305`) |
| `RecordAudit`, `Enqueue...` | one INSERT each (`:307-347`) |
| `Commit` | COMMIT; the caller may still be told of an error |
| `Fail` | any failed statement, expired context or crash: the deferred rollback |

Postgres is modelled from what the code asks of it: READ COMMITTED, row locks,
a unique index that makes a conflicting insert wait. In production
`StubAuthorizer` never denies; the denied path exists in the code and is run
with `Refused`.

### OutboxRelay

`pc` is where `drainOnce` is; `batch` the fetched rows it has not come to; `wire`
the frames written to the socket that the broker has not processed; `sent` the
history of successful `Publish` calls. Publisher confirms are off, so
`Publish` succeeds when the frame is written and a broken connection loses the
frames on it (`Break`). `Republish` is the one reconnect that works,
`PublishFails` the one that does not. `Exit` may come at any
point: `main` does not wait for the relay.

### ReferenceConnector

`pc` follows `main` through waiting, registering, dialling and subscribing and
then the subscription's loop. `inbox` is what the broker has delivered - hence
forgotten, the acknowledgement being automatic - and the loop has not taken.
`inflight` holds PATCH requests the core may still carry out: `PatchFails` is the
HTTP client giving up, and the request may land later. `own` are the incidents of
the tenant it is configured with (`main.go:300`); its queue gets every tenant's
events, and a PATCH of an incident that is not its own is answered 404
(`LandNotFound`). Exit, crash, a core or
broker that goes down and up, and handing an event over again are all actions.
The core is atomic here; how a PATCH really runs is `IncidentService`'s matter.

### CoreProcess

`main` names the statement `main` comes to; `relay` the one the relay's goroutine
comes to, from the pool through `Publish` and back; `request[r]` how far a
handler is. What they share is written as the code has it: `mu`, `conn` and
`channel` are the publisher's fields, `captured` the channel `Publish` has copied
and uses after the unlock, `dialled` the connection `connect` has opened and not
yet stored; `held` is who has a connection of the pool. `open`, `chans` and
`flow` are the broker's side: connections, channels and whether it reads.
`schema` and `version` are what survives the process.

| Action | Code |
|---|---|
| `Start`, `ReachDB`, `RetryDB`, `NoDB` | `LoadCore`, `WaitForDB` (`main.go:46-71`, `pool.go:107-119`) |
| `AlreadyMigrated`, `MarkDirty`, `RunBody`, `MarkClean`, `MigrationFails` | `m.Up()` (`migrate.go:81`): golang-migrate records the version as dirty, runs the file, records it as clean; a dirty version is an error at once |
| `ReachBroker`, `RetryBroker`, `NoBroker` | `WaitForBroker` (`publisher.go:160-172`) |
| `Listen`, `ServerCrashes`, `TakeSignal`, `Drained` | the server's goroutine, the select and `Shutdown` (`main.go:130-158`) |
| `LockToClose`, `Close`, `ClosePool`, `Return` | the deferred calls, last first (`main.go:85, 71`) |
| `Fetch` ... `Marked` | `drainOnce`, `Publish` and `connect` by their critical sections |
| `Admit` ... `Answer` | a handler, as a user of the pool |
| `Signal`, `Kill`, `Break`, `CloseChannel`, ... | the environment |

### SmokeConsumer

Two goroutines: `main` waits on `matchedC` or the timeout, `sub` sets the
subscription up and calls the handler. `Bound` says when the queue exists; it is
not durable and goes with its consumer. `lost` and `early` record the events that
did not get to the queue through no fault of the code: frames that died on the
wire, and events accepted before the binding.

### HttpApi

`incident` and `connector` are the tables, `creating` the creations that have
their stamp and are not committed - the one place where a handler is two steps,
since rows can then appear in the middle of the order. A request that only reads
is an operator (`GetAnswer`, `HeartbeatAnswer`, `Pages`), so that a property can ask
at any moment what a client would be told. `walk` is a client that pages until
it gets an empty page.

## 3. The runs

| Run | Instance | Shows |
|---|---|---|
| `service` | 2 requests, 2 tenants, 1 seeded incident in any of 4 statuses, 2 connections, every kind of body (220 000 states, 1 min) | the ledger is implemented, with the catalogue's events for the status each patch has read; stamps are in order; the latest snapshot is the row; ingest makes no duplicate; answers agree with the tables; a patch with a fresh prior row is legal and announced; absent fields survive; tenants are isolated; requests terminate |
| `service_pool` | 3 requests, one of them denied, 1 connection (119 000) | waiting for the only connection ends, the denial's included; without overlap the moves and events are those of the document |
| `relay` | 4 events of 2 incidents, one undecodable, batch 2, socket 2 (22 000) | order per incident, a marked row is never sent again, at-least-once hand-over, everything decodable is published in the end |
| `connector` | 1 incident, the connector's own or another tenant's, 1 human tag, queue and inbox of 2 (241 000) | heartbeats find their row; unedited tags gain the connector's and nothing else; an incident of its tenant is enriched; the connector's own events come to rest |
| `core` | 1 request, 1 pooled connection, 2 attempts, batch 2, 3 AMQP connections (75 000) | never serves over an incomplete schema; the migration's body meets an empty database; main returns over no open transaction; no connection is left behind but a replaced one; a signal ends the process; a start ends |
| `smoke` | 2 events of one incident, the second is waited for, socket and queue of 1 (149 000) | exit status 0 is true; events are seen in order; a published event is found |
| `api` | 3 incidents, 2 tenants, 1 connector, pages of one row, 3 times (945 000, up to incidents' names) | paging misses nothing but what its OFFSET must; a 201 stands; tenants are kept apart |
| `service_race`, `service_unannounced`, `relay_loss`, `relay_tenant_order`, `connector_clobber` | smaller instances | the code does not do what a document or comment says (section 6) |

### Bounds, and why they are enough

* `Request`: each is made once. Two are what every race here needs: a
  transaction and another that commits between two of its statements. The third
  in `service_pool` is the one that must wait while another waits too.
* `Value = {v1, v2, bad}`: changed or not, valid or not; fields other than
  title, severity and tags are treated by the code as one of these. `MCIncidentService!AllPatches`
  has one body per path through `Patch`. Tags follow title in every branch.
* The seeded row starts in `new`, `in_progress` (after a closure), `resolved` or
  `closed`, so that every kind of move - legal, illegal, repeated, closing,
  reopening - is one request away. The two violation runs start from one of them.
* `MaxConns` 2 or 1 (10 in the code): enough for all to overlap, or for none.
* `Batch = 2` (100 in the code) with 4 events: batches that leave rows behind.
  There are fewer undecodable rows than a batch holds; with as many, the relay
  really would stop (see hazards).
* `MaxWire = 2`: the socket can be empty, part-full and full.
* The clock `now` grows only when a request reads it, so it needs no bound.
* `core`: one request is enough to hold the only pooled connection against the
  relay and against `Pool.Close`. `Attempts = 2`: a try that fails and a last one.
  `MaxLink = 3`: the stored connection, the one being dialled, and one left open;
  `CloseChannel` waits while `MaxOrphans` are left open, everything else does not.
* `smoke`: the event waited for has one before it, which it must not overtake or be
  mistaken for. Socket and queue of one still let a frame be lost, a message wait
  in the queue, and another wait for room.
* `api`: `PageLimit = 1` makes every row a page. Of three incidents one can be
  created, or leave the query, behind, between or ahead of two others. Three
  times are enough for that to be in any order; `until` excludes the last.
* `MaxQueue` bounds the queue and the inbox of the connector; a publication
  waits for room. Two messages are a creation and its duplicate, or a creation
  and the update that the connector caused. Two incidents take TLC too long, and
  the connector treats each message by itself. The one is its own or another
  tenant's from the start.

`CHECK_DEADLOCK FALSE` is set where the system really may stop: all requests
answered, all incidents created, the core down for good, a smoke test that has
ended, or the connector at rest with no fault left to happen.

### Fairness, and why the code justifies it

* Service: weak fairness of each request's `Progress` - a goroutine that can run
  does. Nothing says that a call arrives, that a statement fails, or that the
  denial's transaction fails.
* Relay: the loop goes on (ticker), `main` returns after a signal, the broker
  processes frames, and an operator brings back what has stopped (the compose
  file has no restart policy). `AllPublished` starts from a moment after which no
  `Fault` happens; no finite number of faults before it matters.
* Connector: the same, with `calm` as that moment. `Enriches` also supposes that
  the core is up and the queue bound, and speaks of the connector's own incidents: a PATCH that fails is not retried and an
  event before the first binding is routed nowhere.
* Core: `main`, the relay and each handler go on. That a signal, a fault or a
  request comes is not assumed, nor that Postgres or the broker ever answers:
  `StartupEnds` holds because the attempts are counted. `ShutdownEnds` supposes
  that a broker that has stopped reading does so again some day; `Close` writes to
  the socket under the mutex and has no timeout.
* Smoke: as for the relay, and both goroutines of the consumer go on.

## 4. What is proved

Seven modules hold the theorems, for any number of requests, tenants, values,
events, connections, incidents and attempts, any batch, page, socket and queue.
Every safety property of every passing run is stated by one of them
(`ImplementsDocuments` under `[]NoOverlap`, which `service_pool` has by its one connection):

| Theorem | States |
|---|---|
| `IncidentService_proofs!TypeCorrect` | `Spec => []TypeOK` |
| `EventsInStampOrder` | `Spec => StampOrder` |
| `SnapshotsConverge` | `Spec => []SnapshotIsCurrent` |
| `NoDuplicates` | `Spec => []NoDuplicateIngest` |
| `IncidentAnswers_proofs!ServiceImplementsLedger` | `Spec => ImplementsLedger`, the refinement |
| `AnswersMatchRecord` | `Spec => []ReplyMatchesRecord` |
| `TenantsIsolated` | `Spec => TenantIsolation` |
| `AbsentFieldsKept` | `Spec => AbsentFieldsSurvive` |
| `FreshPatchesAnnounced` | `Spec => FreshPatchAnnounced` |
| `LegalUnlessOverlap` | `Spec /\ []NoOverlap => LegalTransitions` |
| `DocumentsUnlessOverlap` | `Spec /\ []NoOverlap => ImplementsDocuments`, the refinement of the ledger as the document writes it |
| `PoolAccounted` | `Spec => []PoolInv`: exactly the open transactions hold a connection, never more than there are |
| `ServiceStages` | `Spec => Staging!Spec`: the service is the staging half of `OrderedDelivery` |
| `CreationComesFirst` | `Spec => []CreationLeads`: one creation, before an incident's other events |
| `OutboxRelay_proofs!TypeCorrect` | `Spec => []TypeOK` |
| `OrderPerIncident` | `Spec => []PerIncidentOrder` |
| `NoResendOfMarked` | `Spec => []HeldIsUnmarked` |
| `RelayDelivers` | `Spec => ImplementsDelivery`, the refinement |
| `SmokeConsumer_proofs!SmokeTypes` | `SmokeSpec => []SmokeTypeOK` |
| `ExitZeroIsTrue` | `SmokeSpec => []FoundIsTrue` |
| `HandlerSeesInOrder` | `SmokeSpec => []SeenInOrder` |
| `RelayUnderConsumer` | `SmokeSpec => Spec /\ ImplementsDelivery` |
| `ReferenceConnector_proofs!ConnectorTypes` | `Spec => []TypeOK` |
| `HeartbeatsFindRow` | `Spec => []HeartbeatFindsRow` |
| `UneditedTagsKept` | `Spec => []UneditedTags` |
| `UneditedNotClobbered` | a PATCH of the connector takes no tag from an incident nobody has edited |
| `CoreProcess_proofs!ServesOnlyMigrated` | `Spec => []ServesMigrated` |
| `MigrationRunsOnce` | `Spec => BodyRunsOnce` |
| `ExitIsClean` | `Spec => CleanExit` |
| `NoOtherLeak` | `Spec => []OnlyReplacedLeak` |
| `ProcessTypes` | `Spec => []TypeOK` |
| `HttpApi_proofs!TypeCorrect` | `Spec => []TypeOK` |
| `CreatedStands` | `Spec => []CreatedIsFound` |
| `TenantsKeptApart` | `Spec => []OwnTenantOnly` |
| `PagingMissesNothing` | `Spec => []WalkSeesAll` |

They rest on `ConstantAssumption`, `InputAssumption`, `SeedAssumption`,
`RelayAssumption`, `SmokeAssumption`, `ConnectorAssumption`, `ProcessAssumption`,
`ApiAssumption`, `HeaderAssumption` and `NoneAssumption`, which TLC evaluates in the
runs: names that stand for nothing are nothing, inputs have their types, bounds are
positive, seeded rows are older than the clock. `LegalUnlessOverlap` and
`DocumentsUnlessOverlap` suppose beyond them that validated patches of one incident do not
overlap, which the code does not see to; they say that the overlap is the one
cause of findings 1 and 2, and nothing of behaviours that have one.

**Service.** `TypeOK` is not inductive: that an UPDATE yields a row needs that
there was one, and that its status is one of the six. `TypeInv` adds what each
stage has at hand (`Staged`, `CreatePrepared`, `PatchChecked`, `RowPending`). On
top of it `LedgerInv` says what a transaction has written so far: exactly the
audit row and events of the stages behind it (`Contents`), each about its own
incident, with the row it will leave, later than all that is committed for it
(`Announced`). The last part survives another request's commit only because of
the row lock: `RowHeld` and `Locks` say that whoever writes an incident is
alone and that the row under the lock is the committed one; `Committed` keeps a
create's incident free of anyone's events until it commits. What a commit does to
the tables (`TableStep`) follows from it, and from that stamp order and snapshots.
`KeyInv` adds to it that a pending insert holds its key (`KeysHeld`); without
that, two inserts past the index would both commit.

**Patches and answers.** `PatchesInv` says what a patch has in hand from its read to
its commit. Its row is the committed row with its own fields on top (`PatchHeld`):
the row lock, and COALESCE over what the UPDATE finds and not over what was read,
make that survive other commits. It is of the request's tenant (`TenantHeld`), and its
move was checked against the row that was read and is announced from there
(`MoveAnnounced`). So a commit is an `Update` of the ledger from the status read, if that
is a status the ledger knows. It is: whenever a patch has read a status, the row
still has it or the events tell of it (`PriorsKnown`). While an incident has no
events, whoever updates it has read the row as it is, and says so; once it has some,
they tell of the row's status (`CurrentTold`), so that the next update leaves no
status behind untold; and what is told stays told. `AnswersInv` ties the answer to what the two append-only tables
hold of the request, which no other request adds to. `PriorsFresh` says that the row read is
still the committed one; it is inductive only while patches do not overlap, and with
it the table of moves is kept and the service refines the ledger as documented.
`OwnStamps` is what `LedgerInv` lacks for the relay's view of a commit: it compares
events of one transaction with those of others, not with each other.

**Relay.** `RelayInv` adds to the order that what is held came from the outbox
(`Provenance`, `HeldRows`) and `BatchLeavesNoGap`: whatever precedes a fetched
row of its incident was sent or fetched with it. That is what ORDER BY, LIMIT and
the stop at the first failed publish keep together, and what makes the order
survive the batches.

**Smoke consumer.** `SeenInOrder` is a claim about a chain: outbox, wire, queue,
handler. `NoneOvertakes` says of each link that whatever is earlier than one of its
elements is in front of it there, further on, or out of reach (`Past`), and that
while the subscription stands nothing that was handed over is anywhere else. That
a new frame may go behind all others is `PerIncidentOrder` of the relay after the step.
Once the subscription has ended nothing is seen any more, so the invariant need not
hold then (`Alive`). `MatchHeld` follows the match from the queue to the exit status.

**Connector.** `UneditedTags` needs to know of every request still under way
what it will write: by `Traceable` it is the answer to a creation that the exchange
has taken, and by `CreatedOnce` there is one creation of its incident. So a request
that lands however late writes what any other would have.

**Process.** Three invariants, each for one concern. `MigrationInv` ties
golang-migrate's record to the schema at every statement of `main`: while the body
runs the record is dirty, which is why no later start gets past it. `ServiceInv`
says that a request in a transaction has a pool connection - what makes
`Pool.Close` wait for it - and that main goes on with requests in flight only if
the time is up. `LinkInv` says that while no `connect` is declaring its
exchange, every open connection is stored or replaced. `ProcessInv` is what the types
need: past its fetch the relay has a row in hand (`BatchOK`), the connections held
are those of the handlers and the relay and never more than `MaxConns` (`PoolOK`), and
`connect` always finds a number for its connection, since at most `MaxOrphans` are left
open (`LinksOK`).

**API.** `ApiInv`: a row, committed or not yet, bears the tenant its sender's header
stands for, and what was answered 201 is in its table. For paging, the offset alone
says nothing about which rows a client has seen, so `StillToCome` counts: ahead of a
steady row that is neither seen nor excused, the listing has at least as many rows as
the client has skipped, so it is in the next page or behind it. A creation can only
add to what is ahead (by `OnceCreated` it overwrites no row), wherever in the order it
lands, and a row that leaves from ahead excuses those behind it.

Only model-checked: all liveness (`RequestsTerminate`, `AllPublished`, `Enriches`,
`Quiesces`, `ShutdownEnds`, `StartupEnds`, `PublishedIsFound`), which rests on fairness
and so on ENABLED, out of the prover's reach. What links the modules beyond
`ServiceStages`, `CreationComesFirst` and `RelayUnderConsumer` - that the connector's
core is the service behind its API, and the process around them adds nothing - is
argued in section 2 and not proved.

## 5. What is abstracted, and what it costs

* Clock: each reading of `now` is later than the last. Real stamps are wall-clock
  time cut to microseconds; a clock set back, or two within a microsecond, is
  outside `StampOrder` and its theorem.
* Field contents are values; the JSON Schema engine is a verdict (`Bad`).
  Absent attributes and `{}` are identified. JSON, logging, the actor, metadata
  and correlation ids are left out.
* A crash of the core is `Fail` of its requests and `Exit` of its relay; only
  the tables survive either.
* One relay, as in the code, and one process at a time.
* Tags are a set in `ReferenceConnector`; an update that only reorders them is
  not told apart. The connector's test for its own events is left out: it
  creates no incident.
* A client of `HttpApi` pages with the offset it has reached and the same filter;
  `sender`, `acked`, `steady` and `left` are histories, not state of the code.
* golang-migrate and amqp091 are modelled from what the code relies on: a record
  that is dirty while the file runs, and calls that fail on a closed channel.
* Messages are acknowledged when they are delivered (`subscriber.go:107`), so what a
  consumer has in hand is gone with it. Both consumers' modules have that; the
  comments at 53-56 and 131-133 accept it, and no property forbids it.
* `PublishWithContext` is given the signal's context; amqp091, as its documentation
  says, does not honour it, so a socket that is blocked blocks the write
  (`Written`), whatever the comment at `publisher.go:110-111` hopes. The relay hangs;
  `main` does not wait for it.

### Not modelled

* `deploy/docker-compose.yml`, `scripts/`, the configuration's parsing: no state of
  the system. They were read for the order of startup, the restart policy and
  what the smoke test does.
* Header, path, query and JSON parsing: a request is what parsing makes of it.
* The JSON Schema engine (a library) and the health check (changes nothing).

## 6. Where the code and its documents disagree

Each has a run whose counterexample shows it, and an entry under `findings`.

1. `service_race`: "Any other transition is rejected with 422" (`data_model.md:61`).
   Two patches of a resolved incident read it before either writes. One reopens
   it; the other, checked against `resolved`, closes it. Both answer 200 and the
   row goes from `in_progress` to `closed`.
2. `service_unannounced`: a transition emits `incident.status_changed`, the one to
   closed `incident.closed` as well (`data_model.md:61-62, 131-135`). Two patches of a
   closed incident read it before either writes. One reopens it; the other
   re-asserts `closed`, which compared with the row it read is no change
   (`service.go:257`). Its commit moves the row from `in_progress` to `closed` and
   stages `incident.updated` alone (`service.go:319-347`).
3. `relay_loss`: the relay publishes "at least once" (`relay.go:3-5`). It marks the
   row after an unconfirmed write.
4. `relay_tenant_order`: "order matters within a tenant" (`relay.go:122`). Stamps are
   taken before the commit, so a later event of another incident can be fetched
   first. Per incident the order holds, and is proved.
5. `connector_clobber`: the prior tags are taken from the payload "so we don't
   clobber them" (`main.go:135`). They are those of the creation; a tag added since
   is removed.

One more is plain from the text and has no run: the audit log is said to record "even
when the action fails" (`data_model.md:147-149`), but a validation error, an illegal
transition or an unknown id returns before `audit.Record` (`service.go:91-102,
223-253`). `ReplyMatchesRecord` has it as the code does.

## 7. Plan

Done: the modules above, for every component but those listed under "Not
modelled", and the theorems of section 4, which cover every safety property that
the runs check. To come:

1. `SoarCore`: service and relay composed over one outbox table, each with the variables
   of its own module. Every behaviour of the composition is one of the relay with
   `Stage` as the service does it (from `ServiceStages`), so that what is proved of either holds of
   both; and, from `CreationComesFirst` and `PerIncidentOrder`, that an incident's creation
   is handed over before any other of its events.
2. The connector over that composition in place of its atomic core.
