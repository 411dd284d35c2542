-------------------------- MODULE ReferenceConnector --------------------------
(* The reference connector (src/cmd/reference-connector/main.go) at the end *)
(* of the pipeline: it registers with the core, binds a queue to the        *)
(* exchange and answers every incident.created with a PATCH that adds a tag *)
(* to the tags the event carries.                                           *)
(*                                                                          *)
(* The core appears as the connector meets it: a row's tags are replaced in *)
(* one step and an event is staged with the change (IncidentLedger.tla),    *)
(* and staged events reach the exchange at least once, an incident's        *)
(* creation before its updates (OrderedDelivery.tla).  Tags are a set: only *)
(* which of them a row has matters to the connector.                        *)
(*                                                                          *)
(* The queue gets the events of every tenant, and every request of the      *)
(* connector carries the one tenant it is configured with: own holds the    *)
(* incidents of that tenant.                                                *)
(*                                                                          *)
(* calm marks the end of trouble: from then on nothing fails and nobody     *)
(* edits tags.  It gives the liveness properties something to start from.   *)
(*                                                                          *)
(* A definition marked VARIANT is the next one with a plausible bug in it;  *)
(* nothing uses it but the checks that the properties can fail.             *)
EXTENDS Naturals, Sequences

CONSTANTS Incident,
          Tag,          \* tags that people use
          EnrichTag,    \* "enriched-by-reference-connector"
          NoPatch,      \* stands for "no request is awaited"
          MaxQueue      \* bound on the messages in the queue, and delivered

ASSUME ConnectorAssumption ==
    /\ EnrichTag \notin Tag
    /\ NoPatch \notin [incident : Incident, tags : SUBSET (Tag \cup {EnrichTag})]
    /\ MaxQueue \in Nat \ {0}

VARIABLES rows,         \* table incident: the incidents that exist
          own,          \* those of the connector's configured tenant
          tags,         \* the incidents' tags
          edited,       \* history: incidents whose tags someone has edited
          registry,     \* the connector's row: "absent", "active", "beating"
          core,         \* "up" or "down"
          pending,      \* staged events the relay has not handed over
          handed,       \* events the exchange has taken at least once
          broker,       \* "up" or "down"
          bound,        \* the durable queue exists and is bound to incident.*
          queue,
          pc,           \* where main, or the subscription's loop, is
          sub,          \* the subscriber's connection: "up" or "down"
          inbox,        \* delivered, hence acknowledged, and not yet handled
          awaited,      \* the PATCH the handler waits for
          inflight,     \* PATCH requests the core may still carry out
          calm

service == <<rows, own, tags, edited, registry, core, pending>>
bus == <<handed, broker, bound, queue>>
connector == <<pc, sub, inbox, awaited>>
vars == <<service, bus, connector, inflight, calm>>

AnyTags == SUBSET (Tag \cup {EnrichTag})

Created(i, T) == [type |-> "incident.created", incident |-> i, tags |-> T]

\* The connector does not look at what an update carries.
Updated(i) == [type |-> "incident.updated", incident |-> i, tags |-> {}]

Event == [type : {"incident.created", "incident.updated"},
          incident : Incident, tags : AnyTags]

Patch == [incident : Incident, tags : AnyTags]

Startup == {"starting", "registering", "dialling", "subscribing"}

TypeOK ==
    /\ rows \subseteq Incident
    /\ own \subseteq rows
    /\ tags \in [Incident -> AnyTags]
    /\ edited \subseteq Incident
    /\ registry \in {"absent", "active", "beating"}
    /\ core \in {"up", "down"}
    /\ pending \subseteq Event
    /\ handed \subseteq Event
    /\ broker \in {"up", "down"}
    /\ bound \in BOOLEAN
    /\ queue \in Seq(Event)
    /\ pc \in Startup \cup {"consuming", "patching", "exited"}
    /\ sub \in {"up", "down"}
    /\ inbox \in Seq(Event)
    /\ pc \notin {"consuming", "patching"} => inbox = <<>>
    /\ awaited \in IF pc = "patching" THEN Patch ELSE {NoPatch}
    /\ inflight \subseteq Patch
    /\ calm \in BOOLEAN

Init ==
    /\ rows = {} /\ own = {} /\ tags = [i \in Incident |-> {}] /\ edited = {}
    /\ registry = "absent" /\ core = "up" /\ pending = {}
    /\ handed = {} /\ broker = "up" /\ bound = FALSE /\ queue = <<>>
    /\ pc = "starting" /\ sub = "down" /\ inbox = <<>> /\ awaited = NoPatch
    /\ inflight = {}
    /\ calm = FALSE
-----------------------------------------------------------------------------
(* The core and the people who use it.                                      *)

\* Someone of the connector's tenant, or of another, creates an incident.
Create(i, T) ==
    /\ core = "up"
    /\ i \notin rows
    /\ rows' = rows \cup {i}
    /\ own' \in {own, own \cup {i}}
    /\ tags' = [tags EXCEPT ![i] = T]
    /\ pending' = pending \cup {Created(i, T)}
    /\ UNCHANGED <<edited, registry, core, bus, connector, inflight, calm>>

\* A PATCH of the tags: tags that do not differ from the row's change nothing
\* and announce nothing.
ReplaceTags(i, T) ==
    /\ core = "up"
    /\ i \in rows
    /\ tags' = [tags EXCEPT ![i] = T]
    /\ pending' = IF tags[i] = T THEN pending ELSE pending \cup {Updated(i)}
    /\ UNCHANGED <<rows, own>>

\* Someone edits the tags.
Edit(i, T) ==
    /\ ~calm
    /\ ReplaceTags(i, T)
    /\ edited' = edited \cup {i}
    /\ UNCHANGED <<registry, core, bus, connector, inflight, calm>>

\* The core carries out a PATCH of the connector, whether or not the connector
\* still waits for the answer.
Land(p) ==
    /\ p \in inflight
    /\ p.incident \in own
    /\ ReplaceTags(p.incident, p.tags)
    /\ inflight' = inflight \ {p}
    /\ UNCHANGED <<edited, registry, core, bus, connector, calm>>

\* For an incident of another tenant the core answers 404, and the connector logs
\* it like any other error.
LandNotFound(p) ==
    /\ core = "up"
    /\ p \in inflight
    /\ p.incident \notin own
    /\ inflight' = inflight \ {p}
    /\ UNCHANGED <<service, bus, connector, calm>>

\* The topic exchange copies an event to the queue bound to it, if there is one.
Route(e) ==
    /\ broker = "up"
    /\ bound => Len(queue) < MaxQueue
    /\ queue' = IF bound THEN Append(queue, e) ELSE queue
    /\ handed' = handed \cup {e}
    /\ UNCHANGED <<rows, own, tags, edited, registry, core, broker, bound, connector, inflight, calm>>

\* The relay hands over a staged event.
Publish(e) ==
    /\ e \in pending
    /\ e.type = "incident.updated" => \A f \in pending : f.incident = e.incident => f = e
    /\ Route(e)
    /\ pending' = pending \ {e}

\* The relay hands over an event again: it could not mark it.
PublishAgain(e) ==
    /\ ~calm
    /\ e \in handed
    /\ Route(e)
    /\ UNCHANGED pending
-----------------------------------------------------------------------------
(* The connector starts.                                                    *)

\* waitForCore: /healthz answers.
ReachCore ==
    /\ pc = "starting"
    /\ core = "up"
    /\ pc' = "registering"
    /\ UNCHANGED <<service, bus, sub, inbox, awaited, inflight, calm>>

\* VARIANT: a registration that fails is only logged.
RegisterIgnored ==
    /\ pc = "registering"
    /\ pc' = "dialling"
    /\ UNCHANGED <<service, bus, sub, inbox, awaited, inflight, calm>>

\* POST /v1/connectors: an upsert that leaves last_heartbeat_at alone.
Upserted == IF registry = "absent" THEN "active" ELSE registry

Register ==
    /\ pc = "registering"
    /\ core = "up"
    /\ registry' = Upserted
    /\ pc' = "dialling"
    /\ UNCHANGED <<rows, own, tags, edited, core, pending, bus, sub, inbox, awaited, inflight, calm>>

\* waitForSubscriber: the connection, its channel and the exchange.
Dial ==
    /\ pc = "dialling"
    /\ broker = "up"
    /\ sub' = "up"
    /\ pc' = "subscribing"
    /\ UNCHANGED <<service, bus, inbox, awaited, inflight, calm>>

\* Declare the durable queue, bind it, consume from it.
Subscribe ==
    /\ pc = "subscribing"
    /\ sub = "up"
    /\ bound' = TRUE
    /\ pc' = "consuming"
    /\ UNCHANGED <<service, handed, broker, queue, sub, inbox, awaited, inflight, calm>>

\* main ends: what was delivered and not handled ends with it.
Ends ==
    /\ pc' = "exited"
    /\ sub' = "down"
    /\ inbox' = <<>>
    /\ awaited' = NoPatch
    /\ UNCHANGED <<rows, own, tags, edited, core, pending, bus, inflight, calm>>

\* The attempts at one of the steps run out; a registration may have been
\* carried out all the same.
GiveUp ==
    /\ pc \in Startup
    /\ \/ ~calm
       \/ pc \in {"starting", "registering"} /\ core = "down"
       \/ pc = "dialling" /\ broker = "down"
       \/ pc = "subscribing" /\ sub = "down"
    /\ registry' \in IF pc = "registering" THEN {registry, Upserted} ELSE {registry}
    /\ Ends
-----------------------------------------------------------------------------
(* The connector runs.                                                      *)

\* The heartbeat loop starts before the subscription and runs beside it.
HeartbeatRuns == pc \in {"subscribing", "consuming", "patching"}

\* POST /v1/connectors/{id}/heartbeat.
Heartbeat ==
    /\ HeartbeatRuns
    /\ core = "up"
    /\ registry = "active"
    /\ registry' = "beating"
    /\ UNCHANGED <<rows, own, tags, edited, core, pending, bus, connector, inflight, calm>>

\* VARIANT: the subscriber consumes as soon as it has dialled.
DeliverEarly ==
    /\ sub = "up"
    /\ queue # <<>>
    /\ Len(inbox) < MaxQueue
    /\ inbox' = Append(inbox, Head(queue))
    /\ queue' = Tail(queue)
    /\ UNCHANGED <<service, handed, broker, bound, pc, sub, awaited, inflight, calm>>

\* The broker pushes the next message and, the acknowledgement being automatic,
\* forgets it.
Deliver ==
    /\ pc \in {"consuming", "patching"}
    /\ sub = "up"
    /\ queue # <<>>
    /\ Len(inbox) < MaxQueue
    /\ inbox' = Append(inbox, Head(queue))
    /\ queue' = Tail(queue)
    /\ UNCHANGED <<service, handed, broker, bound, pc, sub, awaited, inflight, calm>>

\* VARIANT: an event of another type is put back.
IgnoreRequeues ==
    /\ pc = "consuming"
    /\ inbox # <<>>
    /\ Head(inbox).type # "incident.created"
    /\ inbox' = Append(Tail(inbox), Head(inbox))
    /\ UNCHANGED <<service, bus, pc, sub, awaited, inflight, calm>>

\* handleEnvelope: anything but a creation is logged and ignored.  (The test
\* for an event of the connector's own is left out: it creates no incident.)
Ignore ==
    /\ pc = "consuming"
    /\ inbox # <<>>
    /\ Head(inbox).type # "incident.created"
    /\ inbox' = Tail(inbox)
    /\ UNCHANGED <<service, bus, pc, sub, awaited, inflight, calm>>

\* VARIANT: the tags in the payload are not found.
EnrichedNoPrior(e) == [incident |-> e.incident, tags |-> {EnrichTag}]

\* The tags of the event, and the connector's own unless it is among them.
Enriched(e) == [incident |-> e.incident, tags |-> e.tags \cup {EnrichTag}]

\* handleEnvelope: a creation is answered with a PATCH.
Handle ==
    /\ pc = "consuming"
    /\ inbox # <<>>
    /\ Head(inbox).type = "incident.created"
    /\ inbox' = Tail(inbox)
    /\ awaited' = Enriched(Head(inbox))
    /\ inflight' = inflight \cup {awaited'}
    /\ pc' = "patching"
    /\ UNCHANGED <<service, bus, sub, calm>>

\* The handler returns; its error, if any, is logged and the loop goes on.
Returns ==
    /\ pc = "patching"
    /\ pc' = "consuming"
    /\ awaited' = NoPatch
    /\ UNCHANGED <<service, bus, sub, inbox, calm>>

Answered ==
    /\ awaited \notin inflight
    /\ Returns
    /\ UNCHANGED inflight

\* No connection, or no answer in time: the core may or may not have the
\* request, and the event is not handled again.
PatchFails ==
    /\ ~calm \/ core = "down"
    /\ awaited \in inflight
    /\ Returns
    /\ inflight' \in {inflight, inflight \ {awaited}}

\* VARIANT: the loop does not see that the deliveries channel is closed.
ChannelSpins == pc = "consuming" /\ sub = "down" /\ UNCHANGED vars

\* The deliveries channel is closed: Subscribe returns and main exits.
ChannelClosed ==
    /\ pc = "consuming"
    /\ sub = "down"
    /\ Ends
    /\ UNCHANGED registry
-----------------------------------------------------------------------------
(* Trouble, and its end.                                                    *)

\* A signal or a crash, at any point.
Exit ==
    /\ ~calm
    /\ pc # "exited"
    /\ Ends
    /\ UNCHANGED registry

Restart ==
    /\ pc = "exited"
    /\ pc' = "starting"
    /\ UNCHANGED <<service, bus, sub, inbox, awaited, inflight, calm>>

\* A request that a stopped core has not committed is gone.
CoreDown ==
    /\ ~calm
    /\ core = "up"
    /\ core' = "down"
    /\ inflight' = {}
    /\ UNCHANGED <<rows, own, tags, edited, registry, pending, bus, connector, calm>>

CoreUp ==
    /\ core = "down"
    /\ core' = "up"
    /\ UNCHANGED <<rows, own, tags, edited, registry, pending, bus, connector, inflight, calm>>

\* The subscriber's connection breaks, as every one does when the broker goes
\* down; the queue and its messages are durable.
Break ==
    /\ ~calm
    /\ broker = "up"
    /\ broker' \in {"up", "down"}
    /\ sub' = "down"
    /\ UNCHANGED <<service, handed, bound, queue, pc, inbox, awaited, inflight, calm>>

BrokerUp ==
    /\ broker = "down"
    /\ broker' = "up"
    /\ UNCHANGED <<service, handed, bound, queue, connector, inflight, calm>>

CalmDown ==
    /\ ~calm
    /\ calm' = TRUE
    /\ UNCHANGED <<service, bus, connector, inflight>>
-----------------------------------------------------------------------------
\* The connector's main goroutine.
Main == \/ ReachCore \/ Register \/ Dial \/ Subscribe \/ GiveUp
        \/ Ignore \/ Handle \/ Answered \/ PatchFails \/ ChannelClosed

Next == \/ \E i \in Incident, T \in SUBSET Tag : Create(i, T)
        \/ \E i \in Incident, T \in AnyTags : Edit(i, T)
        \/ \E p \in Patch : Land(p) \/ LandNotFound(p)
        \/ \E e \in Event : Publish(e) \/ PublishAgain(e)
        \/ Main \/ Heartbeat \/ Deliver
        \/ Exit \/ Restart \/ CoreDown \/ CoreUp \/ Break \/ BrokerUp
        \/ CalmDown

\* The main goroutine, the relay, the broker and the core go on, and whoever
\* runs the system brings back what has stopped.
Fairness ==
    /\ WF_vars(Main)
    /\ WF_vars(Deliver)
    /\ WF_vars(\E p \in Patch : Land(p) \/ LandNotFound(p))
    /\ WF_vars(\E e \in Event : Publish(e))
    /\ WF_vars(Restart) /\ WF_vars(CoreUp) /\ WF_vars(BrokerUp)

Spec == Init /\ [][Next]_vars
FairSpec == Spec /\ Fairness
-----------------------------------------------------------------------------
(* Properties.                                                              *)

\* A heartbeat never meets a 404: the heartbeat loop of any life of the process
\* runs only when the core knows the connector.
HeartbeatFindsRow == HeartbeatRuns => registry # "absent"

\* Tags nobody has edited are those of the creation, on an incident of the
\* connector's own tenant with or without the connector's tag, on any other
\* without it: redelivered events, abandoned requests that land late and restarts
\* add nothing else and take nothing away.
UneditedTags ==
    \A e \in pending \cup handed :
       e.type = "incident.created" /\ e.incident \notin edited =>
          \/ tags[e.incident] = e.tags
          \/ e.incident \in own /\ tags[e.incident] = e.tags \cup {EnrichTag}

\* The last step of the demonstration (scripts/smoke.sh, step 5): once trouble is
\* over and the core is up, an incident of the connector's configured tenant whose
\* creation is still to be published to its queue gets the connector's tag.  (A
\* PATCH that fails while the core is down is not tried again.)
Enriches ==
    \A i \in Incident :
       (/\ calm /\ core = "up"
        /\ i \in own
        /\ bound
        /\ \E e \in pending : e.type = "incident.created" /\ e.incident = i)
       ~> EnrichTag \in tags[i]

\* The connector's own PATCH makes an event it receives; this comes to an end:
\* once trouble is over, all that was staged is published, delivered, handled
\* and answered, and nothing more comes of it.
Quiet == pending = {} /\ queue = <<>> /\ inbox = <<>> /\ inflight = {} /\ pc = "consuming"

Quiesces == calm ~> Quiet
-----------------------------------------------------------------------------
(* What the documentation says and the code does not do.                    *)

\* main.go: the prior tags are taken from the payload "so we don't clobber
\* them": a PATCH of the connector takes no tag away.
TagsNotClobbered ==
    [][(\E p \in Patch : Land(p)) =>
          \A i \in Incident : tags[i] \subseteq tags'[i]]_vars
=============================================================================
