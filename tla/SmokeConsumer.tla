---------------------------- MODULE SmokeConsumer ----------------------------
(* The smoke consumer (src/cmd/smoke-consumer/main.go) at the end of the    *)
(* outbox relay: it binds a queue of its own, waits for one event of the    *)
(* type and incident it is told, and tells by its exit status whether the   *)
(* event came.  scripts/smoke.sh judges the core by that status.            *)
(*                                                                          *)
(* Its main goroutine waits for a match or for the timeout; a second one    *)
(* sets the subscription up (src/internal/events/subscriber.go) and calls   *)
(* the handler.  The steps of the relay and the broker are those of         *)
(* OutboxRelay.tla; the routing pattern matches every event, as the one in  *)
(* smoke.sh does.                                                           *)
(*                                                                          *)
(* A definition marked VARIANT is the next one with a plausible bug in it;  *)
(* nothing uses it but the checks that the properties can fail.             *)
EXTENDS OutboxRelay

CONSTANTS Wanted,       \* the events that have the type and the incident waited for
          MaxQueue      \* bound on the messages in the queue

ASSUME SmokeAssumption ==
    /\ Wanted \subseteq Event \ Malformed
    /\ MaxQueue \in Nat \ {0}

VARIABLES main,         \* "off", "waiting", or how the process ended: "found", "failed"
          timer,        \* the context's timeout: "running" or "expired"
          sub,          \* the subscription: "off", "bind", "consume", "loop" or "ended"
          conn,         \* the subscriber's connection: "up" or "down"
          queue,        \* messages in the queue or delivered, not yet handled
          matchedC,     \* the channel of one place between handler and main
          seen,         \* history: events the handler was called with
          lost,         \* history: events of which a frame was lost on its way
          early         \* history: events accepted when the queue was not bound

history == <<lost, early>>
consumer == <<main, timer, sub, conn, queue, matchedC, seen>>
smokeVars == <<vars, consumer, history>>

SmokeTypeOK ==
    /\ TypeOK
    /\ main \in {"off", "waiting", "found", "failed"}
    /\ timer \in {"running", "expired"}
    /\ sub \in {"off", "bind", "consume", "loop", "ended"}
    /\ conn \in {"up", "down"}
    /\ queue \in Seq(Event) /\ Len(queue) <= MaxQueue
    /\ matchedC \in Seq(Event) /\ Len(matchedC) <= 1
    /\ UNION {seen, lost, early} \subseteq Event

SmokeInit ==
    /\ Init
    /\ main = "off" /\ timer = "running" /\ sub = "off" /\ conn = "down"
    /\ queue = <<>> /\ matchedC = <<>>
    /\ seen = {} /\ lost = {} /\ early = {}

\* The queue exists and is bound.  It is not durable, and goes with its consumer.
Bound == sub \in {"consume", "loop"} /\ conn = "up"
-----------------------------------------------------------------------------
(* The relay and the broker.                                                *)

OnWire == {wire[k] : k \in 1..Len(wire)}

\* Steps that put nothing on the queue.  Frames that die with the publisher's
\* connection are lost; a broker that goes down takes the queue along.
Upstream ==
    /\ Drain \/ (\E S \in SUBSET Event : Stage(S))
             \/ Shutdown \/ Exit \/ Restart \/ Break \/ BrokerUp
    /\ lost' = IF link' = "down" THEN lost \cup OnWire ELSE lost
    /\ IF broker' = "down"
       THEN conn' = "down" /\ queue' = <<>>
       ELSE UNCHANGED <<conn, queue>>
    /\ UNCHANGED <<main, timer, sub, matchedC, seen, early>>

\* The exchange copies an event to the queue, if the queue is bound to it.
Route ==
    /\ Accept
    /\ IF Bound
       THEN /\ Len(queue) < MaxQueue
            /\ queue' = Append(queue, Head(wire))
            /\ UNCHANGED early
       ELSE /\ early' = early \cup {Head(wire)}
            /\ UNCHANGED queue
    /\ UNCHANGED <<main, timer, sub, conn, matchedC, seen, lost>>
-----------------------------------------------------------------------------
(* The consumer.                                                            *)

\* NewSubscriber; the timeout starts when it has returned.
Connect ==
    /\ main = "off"
    /\ broker = "up"
    /\ main' = "waiting"
    /\ conn' = "up"
    /\ sub' = "bind"
    /\ UNCHANGED <<vars, timer, queue, matchedC, seen, history>>

ConnectFails ==
    /\ main = "off"
    /\ main' = "failed"
    /\ UNCHANGED <<vars, timer, sub, conn, queue, matchedC, seen, history>>

\* Declare the queue and bind it; then consume from it.
SetUp ==
    /\ main = "waiting"
    /\ sub \in {"bind", "consume"}
    /\ conn = "up"
    /\ sub' = IF sub = "bind" THEN "consume" ELSE "loop"
    /\ UNCHANGED <<vars, main, timer, conn, queue, matchedC, seen, history>>

\* VARIANT: the entity_id is not compared.
HandleAny ==
    /\ main = "waiting" /\ sub = "loop" /\ conn = "up"
    /\ queue # <<>>
    /\ queue' = Tail(queue)
    /\ seen' = seen \cup {Head(queue)}
    /\ matchedC' = IF matchedC = <<>> THEN <<Head(queue)>> ELSE matchedC
    /\ UNCHANGED <<vars, main, timer, sub, conn, history>>

\* VARIANT: the place in the channel is not looked at.
HandleQueues ==
    /\ main = "waiting" /\ sub = "loop" /\ conn = "up"
    /\ queue # <<>>
    /\ queue' = Tail(queue)
    /\ seen' = seen \cup {Head(queue)}
    /\ matchedC' = IF Head(queue) \in Wanted THEN Append(matchedC, Head(queue)) ELSE matchedC
    /\ UNCHANGED <<vars, main, timer, sub, conn, history>>

\* The handler drops what is not wanted, and a match after the first.
Handle ==
    /\ main = "waiting" /\ sub = "loop" /\ conn = "up"
    /\ queue # <<>>
    /\ queue' = Tail(queue)
    /\ seen' = seen \cup {Head(queue)}
    /\ matchedC' = IF Head(queue) \in Wanted /\ matchedC = <<>>
                   THEN <<Head(queue)>> ELSE matchedC
    /\ UNCHANGED <<vars, main, timer, sub, conn, history>>

\* The context is done, or the connection is: an error that main does not see.
\* (Only the loop looks at the context.)
SubscriptionEnds ==
    /\ main = "waiting"
    /\ sub \in {"bind", "consume", "loop"}
    /\ conn = "down" \/ (sub = "loop" /\ timer = "expired")
    /\ sub' = "ended"
    /\ queue' = <<>>
    /\ UNCHANGED <<vars, main, timer, conn, matchedC, seen, history>>

\* os.Exit: the other goroutine and the connection end, and the queue with them.
Ends(how) ==
    /\ main' = how
    /\ sub' = "ended" /\ conn' = "down" /\ queue' = <<>>
    /\ UNCHANGED <<vars, timer, matchedC, seen, history>>

Found == main = "waiting" /\ matchedC # <<>> /\ Ends("found")

\* If both are ready the select may take this one.
TimesOut == main = "waiting" /\ timer = "expired" /\ Ends("failed")

Expire ==
    /\ main = "waiting"
    /\ timer' = "expired"
    /\ UNCHANGED <<vars, main, sub, conn, queue, matchedC, seen, history>>

\* The subscriber's connection breaks.
Disconnect ==
    /\ conn = "up"
    /\ conn' = "down" /\ queue' = <<>>
    /\ UNCHANGED <<vars, main, timer, sub, matchedC, seen, history>>
-----------------------------------------------------------------------------
Subscription == SetUp \/ Handle \/ SubscriptionEnds

SmokeNext ==
    \/ Upstream \/ Route
    \/ Connect \/ ConnectFails
    \/ Subscription
    \/ Found \/ TimesOut \/ Expire \/ Disconnect

\* As in OutboxRelay, and both goroutines of the consumer go on.
SmokeFairness ==
    /\ WF_smokeVars(Upstream /\ Drain)
    /\ WF_smokeVars(Upstream /\ ctx = "cancelled" /\ Exit)
    /\ WF_smokeVars(Upstream /\ Restart)
    /\ WF_smokeVars(Upstream /\ BrokerUp)
    /\ WF_smokeVars(Route)
    /\ WF_smokeVars(Subscription)
    /\ WF_smokeVars(Found \/ TimesOut)

SmokeSpec == SmokeInit /\ [][SmokeNext]_smokeVars
SmokeFairSpec == SmokeSpec /\ SmokeFairness
-----------------------------------------------------------------------------
(* Properties.                                                              *)

\* Exit status 0 is the truth: the event the test waits for was committed by the
\* service and accepted by the broker - a duplicate of another event, or the
\* event of another incident, does not pass for it (main.go, "exits 0 if a
\* matching envelope is observed").
FoundIsTrue ==
    main = "found" => \E e \in Wanted \cap outbox \cap bus : matchedC = <<e>>

\* A consumer is called with an incident's events in their order: when it sees one,
\* it has seen every earlier one whose frames arrived, and arrived in time - retries,
\* failed marks, abandoned batches and restarts of the core notwithstanding.
SeenInOrder ==
    \A e \in outbox \ Malformed, f \in seen : Earlier(e, f) => e \in seen \cup lost \cup early

\* If a wanted event is staged and not yet published when the queue is bound, and
\* then neither the consumer's connection nor its time is lost, the test passes
\* once the core's faults stop, unless a frame of the event is lost on its way
\* (smoke.sh: start the consumer before the PATCH).
PublishedIsFound ==
    (<>[][~Fault]_smokeVars /\ [](main = "waiting" => conn = "up" /\ timer = "running")) =>
       \A e \in Wanted :
          (Bound /\ e \in outbox \ (bus \cup OnWire)) ~> (main = "found" \/ e \in lost)
=============================================================================
