----------------------------- MODULE OutboxRelay -----------------------------
(* The outbox relay (src/internal/outbox/relay.go): one goroutine that      *)
(* fetches the oldest unpublished rows, publishes each over AMQP and marks  *)
(* it published - with the publisher's connection, the broker and the       *)
(* process that runs it all free to fail between any two of these steps.    *)
(*                                                                          *)
(* The broker and the network are modelled from how the publisher uses      *)
(* them: publisher confirms are not enabled, so Publish returns as soon as  *)
(* the frame is written.  wire holds the frames written to the current      *)
(* connection that the broker has not processed; they die with it.          *)
(*                                                                          *)
(* A definition marked VARIANT is the next one with a plausible bug in it;  *)
(* nothing uses it but the checks that the properties can fail.             *)
EXTENDS Naturals, Sequences, FiniteSets

CONSTANTS Event,        \* outbox rows: records incident, tenant, created_at, ...
          Malformed,    \* rows whose payload does not decode
          NoEvent,
          Batch,        \* rows fetched at a time (100 in the code)
          MaxWire       \* frames the socket takes before a write blocks

ASSUME RelayAssumption ==
    /\ \A e \in Event : e.created_at \in Nat
    /\ Malformed \subseteq Event
    /\ NoEvent \notin Event
    /\ Batch \in Nat \ {0}
    /\ MaxWire \in Nat \ {0}

VARIABLES outbox,       \* rows of committed transactions
          published,    \* rows whose published_at is set
          pc,           \* the relay: "waiting", "publish", "mark" or "down"
          batch,        \* fetched rows the drain has not come to yet
          row,          \* the row that was published and not yet marked
          ctx,          \* the process context: "live" or "cancelled"
          sent,         \* history: rows for which Publish has returned nil
          link,         \* the publisher's connection: "up" or "down"
          broker,       \* "up" or "down"
          wire,
          bus           \* events the broker has accepted

relay == <<pc, batch, row, ctx>>
amqp == <<link, broker, wire, bus>>
vars == <<outbox, published, relay, sent, amqp>>

TypeOK ==
    /\ outbox \subseteq Event
    /\ published \subseteq Event
    /\ pc \in {"waiting", "publish", "mark", "down"}
    /\ batch \subseteq Event
    /\ row \in Event \cup {NoEvent}
    /\ ctx \in {"live", "cancelled"}
    /\ sent \subseteq Event
    /\ link \in {"up", "down"}
    /\ broker \in {"up", "down"}
    /\ wire \in Seq(Event)
    /\ bus \subseteq Event

Earlier(e, f) == e.incident = f.incident /\ e.created_at < f.created_at

\* ORDER BY created_at: the rows that may come first; ties are broken anyhow.
Oldest(S) == {e \in S : \A f \in S : e.created_at <= f.created_at}

\* ... LIMIT n: the sets of at most n rows that such a query may return.
OldestUpTo(S, n) ==
    {B \in SUBSET S : /\ \A e \in B, f \in S \ B : e.created_at <= f.created_at
                      /\ \/ Cardinality(B) = n
                         \/ Cardinality(B) < n /\ B = S}

Init ==
    /\ outbox = {} /\ published = {}
    /\ pc = "waiting" /\ batch = {} /\ row = NoEvent /\ ctx = "live"
    /\ sent = {}
    /\ link = "up" /\ broker = "up" /\ wire = <<>> /\ bus = {}
-----------------------------------------------------------------------------
\* The service commits a transaction: the events of one incident, all stamped
\* later than those the incident already has (IncidentService!StampOrder).
Stage(S) ==
    /\ S # {}
    /\ S \cap outbox = {}
    /\ \A e, f \in S : e.incident = f.incident /\ (e.created_at = f.created_at => e = f)
    /\ \A e \in S, f \in outbox : e.incident = f.incident => Earlier(f, e)
    /\ outbox' = outbox \cup S
    /\ UNCHANGED <<published, relay, sent, amqp>>

\* VARIANT: the query does not look at published_at.
PendingAll == outbox

\* FetchUnpublished, on a tick; with a cancelled context the query fails.
Pending == outbox \ published

Fetch ==
    /\ pc = "waiting"
    /\ ctx = "live"
    /\ Pending # {}
    /\ batch' \in OldestUpTo(Pending, Batch)
    /\ pc' = "publish"
    /\ UNCHANGED <<outbox, published, row, ctx, sent, amqp>>

\* VARIANT: a row that does not decode falls through to the mark.
SkipMarks ==
    /\ pc = "publish"
    /\ \E e \in Oldest(batch) \cap Malformed : batch' = batch \ {e}
    /\ pc' = "mark"
    /\ UNCHANGED <<outbox, published, row, ctx, sent, amqp>>

\* VARIANT: a row that does not decode ends the drain.
SkipAbandons ==
    /\ pc = "publish"
    /\ Oldest(batch) \cap Malformed # {}
    /\ batch' = {}
    /\ UNCHANGED <<outbox, published, pc, row, ctx, sent, amqp>>

\* A row that does not decode is logged and left unpublished.
Skip ==
    /\ pc = "publish"
    /\ \E e \in Oldest(batch) \cap Malformed : batch' = batch \ {e}
    /\ UNCHANGED <<outbox, published, pc, row, ctx, sent, amqp>>

\* The row the drain has come to is handed to the publisher and Publish is nil.
Handed(e) ==
    /\ pc = "publish"
    /\ e \in Oldest(batch) \ Malformed
    /\ batch' = batch \ {e}
    /\ row' = e
    /\ sent' = sent \cup {e}
    /\ pc' = "mark"
    /\ UNCHANGED <<outbox, published, ctx, broker, bus>>

\* A full socket blocks the write; the context does not interrupt it.
Publish(e) ==
    /\ Handed(e)
    /\ link = "up"
    /\ Len(wire) < MaxWire
    /\ wire' = Append(wire, e)
    /\ UNCHANGED link

\* The channel was found closed: one reconnect, one more attempt.
Republish(e) ==
    /\ Handed(e)
    /\ link = "down"
    /\ broker = "up"
    /\ link' = "up"
    /\ wire' = <<e>>

\* VARIANT: the drain goes on with the row after the one that failed.
PublishFailsGoesOn ==
    /\ pc = "publish"
    /\ link = "down"
    /\ \E e \in Oldest(batch) \ Malformed : batch' = batch \ {e}
    /\ UNCHANGED <<outbox, published, pc, row, ctx, sent, amqp>>

\* VARIANT: the row that failed is marked all the same.
PublishFailsMarks ==
    /\ pc = "publish"
    /\ link = "down"
    /\ \E e \in Oldest(batch) \ Malformed : published' = published \cup {e}
    /\ batch' = {}
    /\ pc' = "waiting"
    /\ UNCHANGED <<outbox, row, ctx, sent, amqp>>

\* Neither attempt succeeded: the rest of the batch is left for the next tick.
PublishFails ==
    /\ pc = "publish"
    /\ Oldest(batch) \ Malformed # {}
    /\ link = "down"
    /\ batch' = {}
    /\ pc' = "waiting"
    /\ UNCHANGED <<outbox, published, row, ctx, sent, amqp>>

Mark ==
    /\ pc = "mark"
    /\ ctx = "live"
    /\ published' = published \cup {row}
    /\ row' = NoEvent
    /\ pc' = "publish"
    /\ UNCHANGED <<outbox, batch, ctx, sent, amqp>>

\* The mark fails (always, once the context is cancelled); the drain goes on
\* and the row will be published again.
MarkFails ==
    /\ pc = "mark"
    /\ row' = NoEvent
    /\ pc' = "publish"
    /\ UNCHANGED <<outbox, published, batch, ctx, sent, amqp>>

\* The batch is done.
Drained ==
    /\ pc = "publish"
    /\ batch = {}
    /\ pc' = "waiting"
    /\ UNCHANGED <<outbox, published, batch, row, ctx, sent, amqp>>
-----------------------------------------------------------------------------
\* SIGTERM cancels the context; the relay may be anywhere in a drain.
Shutdown ==
    /\ pc # "down"
    /\ ctx' = "cancelled"
    /\ UNCHANGED <<outbox, published, pc, batch, row, sent, amqp>>

\* The process ends - killed, or main returning, which does not wait for the
\* relay - and its connection with it.
Exit ==
    /\ pc # "down"
    /\ pc' = "down" /\ batch' = {} /\ row' = NoEvent
    /\ link' = "down" /\ wire' = <<>>
    /\ UNCHANGED <<outbox, published, ctx, sent, broker, bus>>

\* A new process serves only after WaitForBroker has connected.
Restart ==
    /\ pc = "down"
    /\ broker = "up"
    /\ pc' = "waiting" /\ ctx' = "live" /\ link' = "up"
    /\ UNCHANGED <<outbox, published, batch, row, sent, broker, wire, bus>>

\* The connection breaks; so does every one when the broker goes down.
Break ==
    /\ link = "up"
    /\ link' = "down" /\ wire' = <<>>
    /\ broker' \in {broker, "down"}
    /\ UNCHANGED <<outbox, published, relay, sent, bus>>

BrokerUp ==
    /\ broker = "down"
    /\ broker' = "up"
    /\ UNCHANGED <<outbox, published, relay, sent, link, wire, bus>>

\* The broker processes the next frame: the exchange has taken the event.
Accept ==
    /\ wire # <<>>
    /\ bus' = bus \cup {Head(wire)}
    /\ wire' = Tail(wire)
    /\ UNCHANGED <<outbox, published, relay, sent, link, broker>>
-----------------------------------------------------------------------------
Hand == \E e \in Event : Publish(e) \/ Republish(e)

Drain == Fetch \/ Skip \/ Hand \/ PublishFails \/ Mark \/ MarkFails \/ Drained

Environment == \/ \E S \in SUBSET Event : Stage(S)
               \/ Shutdown \/ Exit \/ Restart
               \/ Break \/ BrokerUp \/ Accept

Next == Drain \/ Environment

\* The ticker and the loop keep going, main returns after a signal, and whoever
\* runs the system brings the broker and the process back.
Fairness ==
    /\ WF_vars(Drain)
    /\ WF_vars(ctx = "cancelled" /\ Exit)
    /\ WF_vars(Restart) /\ WF_vars(BrokerUp) /\ WF_vars(Accept)

\* What goes wrong by itself (an Exit after a signal and a mark that fails for
\* a cancelled context are consequences).
Fault == \/ Shutdown
         \/ ctx = "live" /\ (Exit \/ MarkFails)
         \/ Break
         \/ broker = "up" /\ PublishFails

Spec == Init /\ [][Next]_vars
FairSpec == Spec /\ Fairness
-----------------------------------------------------------------------------
(* Properties.                                                              *)

\* The relay implements ordered at-least-once delivery, retries, failed marks,
\* abandoned batches and restarts included.
Delivery == INSTANCE OrderedDelivery WITH staged <- outbox, settled <- published
ImplementsDelivery == Delivery!Spec

\* Whenever an event has been handed to the publisher, so has every earlier
\* event of its incident that decodes (relay.go stops a batch at the first
\* failed publish for this).
PerIncidentOrder ==
    \A e \in outbox \ Malformed, f \in sent : Earlier(e, f) => e \in sent

\* A marked row is never handed over again: what the relay still holds from a
\* fetch is unmarked, so only a failed mark makes a duplicate.
HeldIsUnmarked == (batch \cup {row}) \cap published = {}

\* Once faults stop, every event that decodes is published and marked, whatever
\* outages, lost connections and restarts came before.
AllPublished ==
    <>[][~Fault]_vars =>
       \A e \in Event \ Malformed : e \in outbox ~> e \in published
-----------------------------------------------------------------------------
(* What the documentation says and the code does not do.                    *)

\* relay.go: "the relay is responsible for publishing them at least once".
\* A marked event is never handed over again, so one that the broker has not
\* accepted and that is no longer on the wire is lost.
MarkedReachesBus ==
    \A e \in published : e \in bus \/ \E k \in 1..Len(wire) : wire[k] = e

\* relay.go: "order matters within a tenant".
TenantOrder ==
    \A e \in outbox \ Malformed, f \in sent :
       e.tenant = f.tenant /\ e.created_at < f.created_at => e \in sent
=============================================================================
