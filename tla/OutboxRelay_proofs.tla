------------------------- MODULE OutboxRelay_proofs -------------------------
(* Theorems about OutboxRelay, for every set of events, batch size and      *)
(* socket size: types, per-incident order, at-least-once hand-over as a     *)
(* refinement of OrderedDelivery.                                           *)
EXTENDS OutboxRelay, TLAPS

\* A row is being marked exactly while the relay is in "mark", and it was taken
\* out of the batch; a relay that waits or is down holds nothing.
HeldRows ==
    /\ row # NoEvent <=> pc = "mark"
    /\ row \notin batch
    /\ pc \in {"waiting", "down"} => batch = {}

\* What is handed over and marked comes from the outbox, in that order.
Provenance ==
    /\ batch \subseteq outbox
    /\ sent \subseteq outbox \ Malformed
    /\ published \subseteq sent
    /\ row # NoEvent => row \in sent

\* The strengthening that makes the order inductive: a fetched batch leaves out
\* no earlier event of an incident that is still to be handed over.
BatchLeavesNoGap ==
    \A e \in outbox \ Malformed, f \in batch : Earlier(e, f) => e \in sent \cup batch

RelayInv ==
    /\ TypeOK
    /\ HeldRows
    /\ Provenance
    /\ HeldIsUnmarked
    /\ PerIncidentOrder
    /\ BatchLeavesNoGap
-----------------------------------------------------------------------------
\* Initially nothing is staged, fetched or sent.
LEMMA InitInv == Init => RelayInv
BY RelayAssumption
   DEF Init, RelayInv, TypeOK, HeldRows, Provenance, HeldIsUnmarked,
       PerIncidentOrder, BatchLeavesNoGap

\* Staging a transaction leaves the order alone: its events are later than all
\* events its incident has.
LEMMA StageInv ==
    ASSUME RelayInv, NEW S \in SUBSET Event, Stage(S)
    PROVE  RelayInv'
<1> USE RelayAssumption DEF relay, amqp
<1>1. TypeOK' /\ HeldRows' /\ Provenance' /\ HeldIsUnmarked'
  BY DEF RelayInv, TypeOK, HeldRows, Provenance, HeldIsUnmarked, Stage
<1>2. ASSUME NEW e \in S, NEW f \in outbox
      PROVE  ~Earlier(e, f)
  BY <1>2 DEF RelayInv, TypeOK, Stage, Earlier
<1>3. PerIncidentOrder'
  BY <1>2 DEF RelayInv, Provenance, PerIncidentOrder, Stage, Earlier
<1>4. BatchLeavesNoGap'
  BY <1>2 DEF RelayInv, Provenance, BatchLeavesNoGap, Stage, Earlier
<1> QED BY <1>1, <1>3, <1>4 DEF RelayInv

\* A fetch takes the oldest pending rows, so it leaves no gap.
LEMMA FetchInv ==
    ASSUME RelayInv, Fetch
    PROVE  RelayInv'
<1> USE RelayAssumption DEF relay, amqp
<1>1. /\ batch' \subseteq outbox \ published
      /\ \A e \in batch', f \in Pending \ batch' : e.created_at <= f.created_at
  BY DEF Fetch, OldestUpTo, Pending
<1>2. row = NoEvent
  BY DEF Fetch, RelayInv, HeldRows
<1>3. TypeOK' /\ HeldRows' /\ Provenance' /\ HeldIsUnmarked' /\ PerIncidentOrder'
  BY <1>1, <1>2 DEF RelayInv, TypeOK, HeldRows, Provenance, HeldIsUnmarked,
                    PerIncidentOrder, Fetch, Earlier
<1>4. BatchLeavesNoGap'
  <2> SUFFICES ASSUME NEW e \in outbox \ Malformed, NEW f \in batch', Earlier(e, f)
               PROVE  e \in sent \cup batch'
    BY DEF BatchLeavesNoGap, Fetch, Earlier
  <2>1. CASE e \in published
    BY <2>1 DEF RelayInv, Provenance
  <2>2. CASE e \in Pending
    <3>1. e.created_at \in Nat /\ f.created_at \in Nat /\ e.created_at < f.created_at
      BY <1>1 DEF RelayInv, TypeOK, Earlier
    <3> QED BY <1>1, <2>2, <3>1
  <2> QED BY <2>1, <2>2 DEF Pending
<1> QED BY <1>3, <1>4 DEF RelayInv

\* Handing over the oldest row of the batch keeps the order: what its incident
\* has earlier was sent before, or it would still be in the batch.
LEMMA HandedInv ==
    ASSUME RelayInv, NEW e \in Event, Publish(e) \/ Republish(e)
    PROVE  RelayInv'
<1> USE RelayAssumption
<1>0. <<e>> \in Seq(Event) /\ \A s \in Seq(Event) : Append(s, e) \in Seq(Event)
  OBVIOUS
<1>1. /\ Handed(e) /\ link' \in {"up", "down"} /\ wire' \in Seq(Event)
  BY <1>0 DEF Publish, Republish, RelayInv, TypeOK
<1>2. /\ e \in batch /\ e \notin Malformed
      /\ \A f \in batch : e.created_at <= f.created_at
  BY <1>1 DEF Handed, Oldest
<1>3. TypeOK' /\ HeldRows' /\ Provenance' /\ HeldIsUnmarked'
  BY <1>1, <1>2 DEF RelayInv, TypeOK, HeldRows, Provenance, HeldIsUnmarked, Handed
<1>4. \A d \in outbox \ Malformed : Earlier(d, e) => d \in sent
  BY <1>2 DEF RelayInv, TypeOK, BatchLeavesNoGap, Earlier
<1>5. PerIncidentOrder'
  BY <1>1, <1>4 DEF RelayInv, PerIncidentOrder, Handed, Earlier
<1>6. BatchLeavesNoGap'
  BY <1>1 DEF RelayInv, BatchLeavesNoGap, Handed, Earlier
<1> QED BY <1>3, <1>5, <1>6 DEF RelayInv

\* The steps that only let go of rows, mark one, or concern the process and the
\* broker.
LEMMA OtherInv ==
    ASSUME RelayInv,
           \/ Skip \/ PublishFails \/ Mark \/ MarkFails \/ Drained
           \/ Shutdown \/ Exit \/ Restart \/ Break \/ BrokerUp \/ Accept
    PROVE  RelayInv'
<1> USE RelayAssumption DEF RelayInv, TypeOK, HeldRows, Provenance, HeldIsUnmarked,
                            PerIncidentOrder, BatchLeavesNoGap, Earlier, relay, amqp
<1>1. CASE Skip          BY <1>1 DEF Skip, Oldest
<1>2. CASE PublishFails  BY <1>2 DEF PublishFails
<1>3. CASE Mark          BY <1>3 DEF Mark
<1>4. CASE MarkFails     BY <1>4 DEF MarkFails
<1>5. CASE Drained       BY <1>5 DEF Drained
<1>6. CASE Shutdown      BY <1>6 DEF Shutdown
<1>7. CASE Exit          BY <1>7 DEF Exit
<1>8. CASE Restart       BY <1>8 DEF Restart
<1>9. CASE Break         BY <1>9 DEF Break
<1>10. CASE BrokerUp     BY <1>10 DEF BrokerUp
<1>11. CASE Accept       BY <1>11 DEF Accept
<1> QED BY <1>1, <1>2, <1>3, <1>4, <1>5, <1>6, <1>7, <1>8, <1>9, <1>10, <1>11

\* RelayInv is inductive.
LEMMA NextInv == RelayInv /\ [Next]_vars => RelayInv'
<1> SUFFICES ASSUME RelayInv, [Next]_vars PROVE RelayInv'
  OBVIOUS
<1>1. CASE \E S \in SUBSET Event : Stage(S)
  BY <1>1, StageInv
<1>2. CASE Fetch
  BY <1>2, FetchInv
<1>3. CASE Hand
  BY <1>3, HandedInv DEF Hand
<1>4. CASE \/ Skip \/ PublishFails \/ Mark \/ MarkFails \/ Drained
           \/ Shutdown \/ Exit \/ Restart \/ Break \/ BrokerUp \/ Accept
  BY <1>4, OtherInv
<1>5. CASE UNCHANGED vars
  BY <1>5 DEF vars, relay, amqp, RelayInv, TypeOK, HeldRows, Provenance,
              HeldIsUnmarked, PerIncidentOrder, BatchLeavesNoGap, Earlier
<1> QED BY <1>1, <1>2, <1>3, <1>4, <1>5 DEF Next, Drain, Environment
-----------------------------------------------------------------------------
\* The inductive invariant holds throughout.
THEOREM Invariance == Spec => []RelayInv
BY InitInv, NextInv, PTL DEF Spec

\* Type correctness.
THEOREM TypeCorrect == Spec => []TypeOK
BY Invariance, PTL DEF RelayInv

\* However publishes, marks, the connection and the process fail, an event is
\* handed to the bus only after every earlier decodable event of its incident.
THEOREM OrderPerIncident == Spec => []PerIncidentOrder
BY Invariance, PTL DEF RelayInv

\* Nothing the relay holds from a fetch is marked: a marked row is never handed
\* over again.
THEOREM NoResendOfMarked == Spec => []HeldIsUnmarked
BY Invariance, PTL DEF RelayInv
-----------------------------------------------------------------------------
\* Every step of the relay is a step of ordered delivery, or none.
LEMMA StepDelivers == RelayInv /\ [Next]_vars => [Delivery!Next]_(Delivery!delivery)
<1> SUFFICES ASSUME RelayInv, [Next]_vars
             PROVE  Delivery!Next \/ UNCHANGED <<outbox, sent, published>>
  BY DEF Delivery!delivery
<1>1. ASSUME NEW S \in SUBSET Event, Stage(S)
      PROVE  Delivery!Next
  BY <1>1 DEF Stage, Delivery!Next, Delivery!Stage, Delivery!Earlier, Earlier
<1>2. ASSUME NEW e \in Event, Publish(e) \/ Republish(e)
      PROVE  Delivery!Next
  <2>1. Handed(e) /\ e \in outbox \ Malformed
    BY <1>2 DEF Publish, Republish, Handed, Oldest, RelayInv, Provenance
  <2>2. \A f \in batch : e.created_at <= f.created_at
    BY <2>1 DEF Handed, Oldest
  <2>3. \A f \in outbox \ Malformed : Earlier(f, e) => f \in sent
    BY <2>1, <2>2, RelayAssumption
       DEF RelayInv, TypeOK, BatchLeavesNoGap, Earlier, Handed, Oldest
  <2>4. Delivery!Deliver(e)
    BY <2>1, <2>3 DEF Handed, Delivery!Deliver, Delivery!Earlier, Earlier
  <2> QED BY <2>1, <2>4 DEF Delivery!Next
<1>3. ASSUME Mark
      PROVE  Delivery!Next
  <2>1. row \in sent /\ row \in outbox \ Malformed
    BY <1>3 DEF Mark, RelayInv, HeldRows, Provenance
  <2>2. Delivery!Settle(row)
    BY <1>3, <2>1 DEF Mark, Delivery!Settle
  <2> QED BY <2>1, <2>2 DEF Delivery!Next
<1>4. CASE \/ Fetch \/ Skip \/ PublishFails \/ MarkFails \/ Drained
           \/ Shutdown \/ Exit \/ Restart \/ Break \/ BrokerUp \/ Accept
  BY <1>4 DEF Fetch, Skip, PublishFails, MarkFails, Drained, Shutdown, Exit,
              Restart, Break, BrokerUp, Accept, relay, amqp
<1>5. CASE UNCHANGED vars
  BY <1>5 DEF vars
<1> QED BY <1>1, <1>2, <1>3, <1>4, <1>5 DEF Next, Drain, Environment, Hand

\* The relay implements ordered at-least-once delivery: a row is settled only
\* after a hand-over, and hand-overs respect the order within an incident.
THEOREM RelayDelivers == Spec => ImplementsDelivery
<1>1. Init => Delivery!Init
  BY DEF Init, Delivery!Init
<1> QED BY <1>1, StepDelivers, Invariance, PTL DEF Spec, ImplementsDelivery, Delivery!Spec
=============================================================================
