------------------------ MODULE SmokeConsumer_proofs ------------------------
(* Theorems about SmokeConsumer, for every set of events, batch, socket and *)
(* queue size: exit status 0 is the truth, and the handler is called with   *)
(* an incident's events in their order.                                     *)
EXTENDS SmokeConsumer, OutboxRelay_proofs

-----------------------------------------------------------------------------
(* The order of a queue.                                                    *)

Elements(s) == {s[k] : k \in 1..Len(s)}

\* What is in front of the k-th element.
Ahead(s, k) == {s[j] : j \in 1..(k-1)}

\* Whatever of E is earlier than an element of s is in front of it, or in B.
Ordered(s, B, E) ==
    \A k \in 1..Len(s), e \in E : Earlier(e, s[k]) => e \in B \cup Ahead(s, k)
-----------------------------------------------------------------------------
(* The invariant.                                                           *)

\* The subscription stands, or is still to come: what the broker has accepted
\* so far was handled, came too early, or is in the queue.
Alive ==
    \/ main = "off"
    \/ main = "waiting" /\ sub \in {"bind", "consume", "loop"} /\ conn = "up"

\* What no longer has a way to the handler.
Past == seen \cup lost \cup early

\* An event on its way was handed over; one in the queue was accepted, too.
OnItsWay ==
    /\ Elements(wire) \subseteq sent
    /\ Elements(queue) \subseteq sent \cap bus
    /\ seen \subseteq sent \cap bus
    /\ link = "down" => wire = <<>>
    /\ main = "off" => conn = "down" /\ queue = <<>>

\* Every event that was handed over is past, in the queue or on the wire, and
\* nothing overtakes.
NoneOvertakes ==
    Alive =>
       /\ sent \subseteq Past \cup Elements(queue) \cup Elements(wire)
       /\ Ordered(queue, Past, outbox \ Malformed)
       /\ Ordered(wire, Past \cup Elements(queue), outbox \ Malformed)

\* The channel holds nothing or a match; main has found what is in it.
MatchHeld ==
    /\ matchedC # <<>> => \E e \in Wanted \cap sent \cap bus : matchedC = <<e>>
    /\ main = "found" => matchedC # <<>>

SmokeInv ==
    /\ RelayInv
    /\ SmokeTypeOK
    /\ OnItsWay
    /\ NoneOvertakes
    /\ MatchHeld
    /\ SeenInOrder
-----------------------------------------------------------------------------
(* Queues.                                                                  *)

\* What is queued is queued behind the head, or is the head.
LEMMA TailElements ==
    ASSUME NEW s \in Seq(Event), s # <<>>
    PROVE  /\ Head(s) \in Event /\ Tail(s) \in Seq(Event) /\ Len(Tail(s)) = Len(s) - 1
           /\ Elements(s) = {Head(s)} \cup Elements(Tail(s))
<1>1. /\ Len(s) \in Nat /\ Len(s) >= 1 /\ Head(s) = s[1] /\ Head(s) \in Event
      /\ Tail(s) \in Seq(Event) /\ Len(Tail(s)) = Len(s) - 1
      /\ \A k \in 1..(Len(s) - 1) : Tail(s)[k] = s[k+1]
  OBVIOUS
<1>2. Elements(s) \subseteq {Head(s)} \cup Elements(Tail(s))
  <2> SUFFICES ASSUME NEW k \in 1..Len(s)
               PROVE  s[k] = Head(s) \/ \E j \in 1..Len(Tail(s)) : s[k] = Tail(s)[j]
    BY DEF Elements
  <2>1. CASE k = 1
    BY <1>1, <2>1
  <2>2. CASE k # 1
    <3>1. k - 1 \in 1..Len(Tail(s)) /\ Tail(s)[k-1] = s[k]
      BY <1>1, <2>2
    <3> QED BY <3>1
  <2> QED BY <2>1, <2>2
<1>3. {Head(s)} \cup Elements(Tail(s)) \subseteq Elements(s)
  <2>1. \A k \in 1..Len(Tail(s)) : k + 1 \in 1..Len(s) /\ Tail(s)[k] = s[k+1]
    BY <1>1
  <2>2. 1 \in 1..Len(s)
    BY <1>1
  <2> QED BY <1>1, <2>1, <2>2 DEF Elements
<1> QED BY <1>1, <1>2, <1>3

\* What is appended comes behind the whole queue.
LEMMA AppendElements ==
    ASSUME NEW s \in Seq(Event), NEW x \in Event
    PROVE  /\ Append(s, x) \in Seq(Event) /\ Len(Append(s, x)) = Len(s) + 1
           /\ Elements(Append(s, x)) = Elements(s) \cup {x}
<1>1. /\ Len(s) \in Nat
      /\ Append(s, x) \in Seq(Event) /\ Len(Append(s, x)) = Len(s) + 1
      /\ \A k \in 1..Len(s) : Append(s, x)[k] = s[k]
      /\ Append(s, x)[Len(s) + 1] = x
  OBVIOUS
<1>2. 1..(Len(s) + 1) = (1..Len(s)) \cup {Len(s) + 1}
  BY <1>1
<1> QED BY <1>1, <1>2 DEF Elements

\* An empty queue has no elements and is ordered.
LEMMA EmptyOrdered ==
    ASSUME NEW B, NEW E
    PROVE  Elements(<<>>) = {} /\ Ordered(<<>>, B, E)
BY DEF Elements, Ordered

\* A queue of one is ordered when all that is earlier is in B.
LEMMA OneOrdered ==
    ASSUME NEW x \in Event, NEW B, NEW E,
           \A e \in E : Earlier(e, x) => e \in B
    PROVE  Elements(<<x>>) = {x} /\ Ordered(<<x>>, B, E)
<1>1. Len(<<x>>) = 1 /\ <<x>>[1] = x /\ 1..1 = {1}
  OBVIOUS
<1> QED BY <1>1 DEF Elements, Ordered

\* Order survives when more is known to be past.
LEMMA OrderedMore ==
    ASSUME NEW s, NEW B, NEW C, NEW E, Ordered(s, B, E), B \subseteq C
    PROVE  Ordered(s, C, E)
BY DEF Ordered

\* When the head is taken, all that is earlier than the head is in B, and the
\* rest is ordered behind the head.
LEMMA OrderedTail ==
    ASSUME NEW s \in Seq(Event), s # <<>>, NEW B, NEW E, Ordered(s, B, E)
    PROVE  /\ \A e \in E : Earlier(e, Head(s)) => e \in B
           /\ Ordered(Tail(s), B \cup {Head(s)}, E)
<1>1. /\ Len(s) \in Nat /\ Len(s) >= 1 /\ Head(s) = s[1]
      /\ Len(Tail(s)) = Len(s) - 1
      /\ \A k \in 1..(Len(s) - 1) : Tail(s)[k] = s[k+1]
  OBVIOUS
<1>2. \A e \in E : Earlier(e, Head(s)) => e \in B
  <2>1. 1 \in 1..Len(s) /\ Ahead(s, 1) = {}
    BY <1>1 DEF Ahead
  <2> QED BY <1>1, <2>1 DEF Ordered
<1>3. ASSUME NEW k \in 1..Len(Tail(s))
      PROVE  Ahead(s, k + 1) \subseteq {Head(s)} \cup Ahead(Tail(s), k)
  <2> SUFFICES ASSUME NEW j \in 1..k
               PROVE  s[j] \in {Head(s)} \cup Ahead(Tail(s), k)
    BY <1>1 DEF Ahead
  <2>1. CASE j = 1
    BY <1>1, <2>1
  <2>2. CASE j # 1
    <3>1. j - 1 \in 1..(k-1) /\ Tail(s)[j-1] = s[j]
      BY <1>1, <2>2
    <3> QED BY <3>1 DEF Ahead
  <2> QED BY <2>1, <2>2
<1>4. ASSUME NEW k \in 1..Len(Tail(s)), NEW e \in E, Earlier(e, Tail(s)[k])
      PROVE  e \in (B \cup {Head(s)}) \cup Ahead(Tail(s), k)
  <2>1. k + 1 \in 1..Len(s) /\ Tail(s)[k] = s[k+1]
    BY <1>1
  <2>2. e \in B \cup Ahead(s, k + 1)
    BY <1>4, <2>1 DEF Ordered
  <2> QED BY <1>3, <2>2
<1> QED BY <1>2, <1>4 DEF Ordered

\* An event can be appended when all that is earlier is past or queued.
LEMMA OrderedAppend ==
    ASSUME NEW s \in Seq(Event), NEW x \in Event, NEW B, NEW E, Ordered(s, B, E),
           \A e \in E : Earlier(e, x) => e \in B \cup Elements(s)
    PROVE  Ordered(Append(s, x), B, E)
<1>1. /\ Len(s) \in Nat
      /\ Len(Append(s, x)) = Len(s) + 1
      /\ \A k \in 1..Len(s) : Append(s, x)[k] = s[k]
      /\ Append(s, x)[Len(s) + 1] = x
  OBVIOUS
<1>2. ASSUME NEW k \in 1..(Len(s) + 1)
      PROVE  Ahead(Append(s, x), k) = Ahead(s, k)
  <2>1. \A j \in 1..(k-1) : Append(s, x)[j] = s[j]
    BY <1>1
  <2> QED BY <2>1 DEF Ahead
<1>3. Ahead(s, Len(s) + 1) = Elements(s)
  BY <1>1 DEF Ahead, Elements
<1>4. ASSUME NEW k \in 1..(Len(s) + 1), NEW e \in E, Earlier(e, Append(s, x)[k])
      PROVE  e \in B \cup Ahead(s, k)
  <2>1. CASE k \in 1..Len(s)
    BY <1>1, <1>4, <2>1 DEF Ordered
  <2>2. CASE k = Len(s) + 1
    <3>1. Earlier(e, x)
      BY <1>1, <1>4, <2>2
    <3>2. e \in B \cup Elements(s)
      BY <3>1
    <3> QED BY <1>3, <2>2, <3>2
  <2> QED BY <1>1, <2>1, <2>2
<1> QED BY <1>1, <1>2, <1>4 DEF Ordered
-----------------------------------------------------------------------------
(* The invariant is inductive.                                              *)

\* Initially nothing is staged, on its way or seen.
LEMMA SmokeInitInv == SmokeInit => SmokeInv
<1> SUFFICES ASSUME SmokeInit PROVE SmokeInv
  OBVIOUS
<1> USE DEF SmokeInit, Init
<1>1. RelayInv
  BY InitInv
<1>2. SmokeTypeOK
  BY <1>1, SmokeAssumption DEF RelayInv, SmokeTypeOK
<1>3. Elements(<<>>) = {} /\ \A B, E : Ordered(<<>>, B, E)
  BY EmptyOrdered
<1>4. OnItsWay /\ NoneOvertakes
  BY <1>3 DEF OnItsWay, NoneOvertakes, Alive
<1>5. MatchHeld /\ SeenInOrder
  BY DEF MatchHeld, SeenInOrder
<1> QED BY <1>1, <1>2, <1>4, <1>5 DEF SmokeInv

\* What every step upstream of the queue has in common: the history only grows,
\* the handler is not called, and a subscription that stands afterwards stood
\* before, with the same queue.
LEMMA UpstreamFrame ==
    ASSUME SmokeInv, Upstream
    PROVE  /\ RelayInv'
           /\ bus' = bus /\ seen' = seen /\ early' = early /\ matchedC' = matchedC
           /\ main' = main /\ Past \subseteq Past'
           /\ queue' \in {queue, <<>>}
           /\ main' = "off" => conn' = "down" /\ queue' = <<>>
           /\ Alive' => Alive /\ queue' = queue
           /\ conn' \in {"up", "down"} /\ lost' \subseteq Event
           /\ UNCHANGED <<timer, sub>>
<1> USE DEF SmokeInv
<1>1. RelayInv'
  <2>1. Next
    BY DEF Upstream, Next, Environment
  <2> QED BY <2>1, NextInv
<1>2. bus' = bus
  <2> USE DEF relay, amqp
  <2>1. CASE Drain
    BY <2>1 DEF Drain, Fetch, Skip, Hand, Publish, Republish, Handed, PublishFails,
                Mark, MarkFails, Drained
  <2>2. CASE \E S \in SUBSET Event : Stage(S)
    BY <2>2 DEF Stage
  <2>3. CASE Shutdown \/ Exit \/ Restart \/ Break \/ BrokerUp
    BY <2>3 DEF Shutdown, Exit, Restart, Break, BrokerUp
  <2> QED BY <2>1, <2>2, <2>3 DEF Upstream
<1>3. seen' = seen /\ early' = early /\ matchedC' = matchedC /\ main' = main
      /\ UNCHANGED <<timer, sub>>
  BY DEF Upstream
<1>4. lost' = lost \cup OnWire \/ lost' = lost
  BY DEF Upstream
<1>5. lost' \subseteq Event
  <2>1. wire \in Seq(Event)
    BY DEF SmokeTypeOK, TypeOK
  <2>2. OnWire \subseteq Event
    BY <2>1 DEF OnWire
  <2> QED BY <1>4, <2>2 DEF SmokeTypeOK
<1>6. \/ broker' = "down" /\ conn' = "down" /\ queue' = <<>>
      \/ conn' = conn /\ queue' = queue
  BY DEF Upstream
<1>7. Alive' => Alive /\ queue' = queue
  BY <1>3, <1>6 DEF Alive, OnItsWay
<1>8. conn' \in {"up", "down"}
  BY <1>6 DEF SmokeTypeOK
<1>9. main' = "off" => conn' = "down" /\ queue' = <<>>
  BY <1>3, <1>6 DEF OnItsWay
<1> QED BY <1>1, <1>2, <1>3, <1>4, <1>5, <1>6, <1>7, <1>8, <1>9 DEF Past

\* What a step upstream does to the wire: nothing, a frame more, the first frame
\* of a new connection, or all frames lost.
LEMMA UpstreamWire ==
    ASSUME SmokeInv, Upstream
    PROVE  \/ /\ wire' = wire /\ sent' = sent /\ Past' = Past
              /\ outbox' = outbox \/ \E S \in SUBSET Event : Stage(S)
              /\ link' = "down" => wire = <<>>
           \/ /\ wire' = <<>> /\ sent' = sent /\ outbox' = outbox
              /\ Elements(wire) \subseteq Past'
           \/ /\ outbox' = outbox /\ Past' = Past /\ link' = "up"
              /\ \E e \in Event :
                    /\ sent' = sent \cup {e}
                    /\ \/ wire' = Append(wire, e)
                       \/ wire = <<>> /\ wire' = <<e>>
<1> USE DEF relay, amqp
<1>0. /\ lost' = IF link' = "down" THEN lost \cup Elements(wire) ELSE lost
      /\ seen' = seen /\ early' = early
  BY DEF Upstream, OnWire, Elements
<1>1. link = "down" => wire = <<>>
  BY DEF SmokeInv, OnItsWay
<1>2. Elements(<<>>) = {}
  BY DEF Elements
<1>3. ASSUME NEW e \in Event, Publish(e)
      PROVE  /\ outbox' = outbox /\ Past' = Past /\ link' = "up"
             /\ sent' = sent \cup {e} /\ wire' = Append(wire, e)
  <2>1. outbox' = outbox /\ link' = "up" /\ sent' = sent \cup {e} /\ wire' = Append(wire, e)
    BY <1>3 DEF Publish, Handed
  <2> QED BY <1>0, <2>1 DEF Past
<1>4. ASSUME NEW e \in Event, Republish(e)
      PROVE  /\ outbox' = outbox /\ Past' = Past /\ link' = "up"
             /\ sent' = sent \cup {e} /\ wire = <<>> /\ wire' = <<e>>
  <2>1. /\ outbox' = outbox /\ link' = "up" /\ sent' = sent \cup {e}
        /\ wire = <<>> /\ wire' = <<e>>
    BY <1>1, <1>4 DEF Republish, Handed
  <2> QED BY <1>0, <2>1 DEF Past
<1>5. CASE Exit \/ Break
  <2>1. wire' = <<>> /\ sent' = sent /\ outbox' = outbox /\ link' = "down"
    BY <1>5 DEF Exit, Break
  <2> QED BY <1>0, <2>1 DEF Past
<1>6. CASE \E S \in SUBSET Event : Stage(S)
  <2>1. wire' = wire /\ sent' = sent /\ link' = link
    BY <1>6 DEF Stage
  <2>2. Past' = Past
    BY <1>0, <1>1, <1>2, <2>1 DEF Past
  <2> QED BY <1>1, <1>6, <2>1, <2>2
<1>7. CASE \/ Fetch \/ Skip \/ PublishFails \/ Mark \/ MarkFails \/ Drained
           \/ Shutdown \/ Restart \/ BrokerUp
  <2>1. /\ wire' = wire /\ sent' = sent /\ outbox' = outbox
        /\ link' = link \/ link' = "up"
    BY <1>7 DEF Fetch, Skip, PublishFails, Mark, MarkFails, Drained, Shutdown, Restart, BrokerUp
  <2>2. link' = "down" => wire = <<>>
    BY <1>1, <2>1
  <2>3. Past' = Past
    BY <1>0, <1>2, <2>2 DEF Past
  <2> QED BY <2>1, <2>2, <2>3
<1> QED BY <1>3, <1>4, <1>5, <1>6, <1>7 DEF Upstream, Drain, Hand

\* Nothing upstream lets an event overtake an earlier one of its incident: a new
\* frame goes behind all others, and all that is earlier was handed over before it.
LEMMA UpstreamInv ==
    ASSUME SmokeInv, Upstream
    PROVE  SmokeInv'
<1> USE DEF SmokeInv
<1> DEFINE E == outbox \ Malformed
<1>1. /\ RelayInv'
      /\ bus' = bus /\ seen' = seen /\ early' = early /\ matchedC' = matchedC
      /\ main' = main /\ Past \subseteq Past'
      /\ queue' \in {queue, <<>>}
      /\ main' = "off" => conn' = "down" /\ queue' = <<>>
      /\ Alive' => Alive /\ queue' = queue
      /\ conn' \in {"up", "down"} /\ lost' \subseteq Event
      /\ UNCHANGED <<timer, sub>>
  BY UpstreamFrame
<1>2. \/ /\ wire' = wire /\ sent' = sent /\ Past' = Past
         /\ outbox' = outbox \/ \E S \in SUBSET Event : Stage(S)
         /\ link' = "down" => wire = <<>>
      \/ /\ wire' = <<>> /\ sent' = sent /\ outbox' = outbox
         /\ Elements(wire) \subseteq Past'
      \/ /\ outbox' = outbox /\ Past' = Past /\ link' = "up"
         /\ \E e \in Event :
               /\ sent' = sent \cup {e}
               /\ \/ wire' = Append(wire, e)
                  \/ wire = <<>> /\ wire' = <<e>>
  BY UpstreamWire
<1>3. /\ wire \in Seq(Event) /\ queue \in Seq(Event) /\ Elements(<<>>) = {}
      /\ sent \subseteq outbox /\ outbox \subseteq Event
      /\ \A B, D : Ordered(<<>>, B, D)
  BY EmptyOrdered DEF SmokeTypeOK, TypeOK, RelayInv, Provenance
<1>4. sent \subseteq sent'
  BY <1>2
<1>5. SmokeTypeOK'
  <2>1. TypeOK'
    BY <1>1 DEF RelayInv
  <2>2. queue' \in Seq(Event) /\ Len(queue') <= MaxQueue
    <3>1. <<>> \in Seq(Event) /\ Len(<<>>) = 0 /\ 0 <= MaxQueue
      BY SmokeAssumption
    <3>2. queue \in Seq(Event) /\ Len(queue) <= MaxQueue
      BY DEF SmokeTypeOK
    <3>3. queue' = queue \/ queue' = <<>>
      BY <1>1
    <3> QED BY <3>1, <3>2, <3>3
  <2> QED BY <1>1, <2>1, <2>2 DEF SmokeTypeOK
<1>6. ASSUME NEW e \in outbox' \ Malformed, NEW f \in sent, Earlier(e, f)
      PROVE  e \in E
  <2>1. CASE outbox' = outbox
    BY <2>1
  <2>2. CASE \E S \in SUBSET Event : Stage(S)
    <3> PICK S \in SUBSET Event : Stage(S)
      BY <2>2
    <3>1. CASE e \in S
      <4>1. f \in outbox /\ e.incident = f.incident
        BY <1>3, <1>6 DEF Earlier
      <4>2. Earlier(f, e)
        BY <3>1, <4>1 DEF Stage
      <4>3. e.created_at \in Nat /\ f.created_at \in Nat
        BY <1>3, <4>1, <3>1, RelayAssumption
      <4> QED BY <1>6, <4>2, <4>3 DEF Earlier
    <3>2. CASE e \notin S
      BY <3>2 DEF Stage
    <3> QED BY <3>1, <3>2
  <2> QED BY <1>2, <2>1, <2>2
<1>7. ASSUME NEW s \in Seq(Event), NEW B, Elements(s) \subseteq sent, Ordered(s, B, E)
      PROVE  Ordered(s, B, outbox' \ Malformed)
  <2> SUFFICES ASSUME NEW k \in 1..Len(s), NEW e \in outbox' \ Malformed, Earlier(e, s[k])
               PROVE  e \in B \cup Ahead(s, k)
    BY DEF Ordered
  <2>1. s[k] \in sent
    BY <1>7 DEF Elements
  <2>2. e \in E
    BY <1>6, <2>1
  <2> QED BY <1>7, <2>2 DEF Ordered
<1>8. OnItsWay'
  <2>1. Elements(wire') \subseteq sent' /\ (link' = "down" => wire' = <<>>)
    <3>1. ASSUME NEW e \in Event, sent' = sent \cup {e}, wire' = Append(wire, e)
          PROVE  Elements(wire') \subseteq sent'
      BY <1>3, <3>1, AppendElements DEF OnItsWay
    <3>2. ASSUME NEW e \in Event, sent' = sent \cup {e}, wire' = <<e>>
          PROVE  Elements(wire') \subseteq sent'
      <4>1. Elements(<<e>>) = {e}
        BY DEF Elements
      <4> QED BY <3>2, <4>1
    <3> QED BY <1>2, <1>3, <3>1, <3>2 DEF OnItsWay
  <2>2. Elements(queue') \subseteq Elements(queue)
    BY <1>1, <1>3
  <2> QED BY <1>1, <1>4, <2>1, <2>2 DEF OnItsWay
<1>9. NoneOvertakes'
  <2> SUFFICES ASSUME Alive'
               PROVE  /\ sent' \subseteq Past' \cup Elements(queue') \cup Elements(wire')
                      /\ Ordered(queue', Past', outbox' \ Malformed)
                      /\ Ordered(wire', Past' \cup Elements(queue'), outbox' \ Malformed)
    BY DEF NoneOvertakes
  <2>1. /\ queue' = queue /\ Past \subseteq Past'
        /\ sent \subseteq Past \cup Elements(queue) \cup Elements(wire)
        /\ Ordered(queue, Past, E)
        /\ Ordered(wire, Past \cup Elements(queue), E)
    BY <1>1 DEF NoneOvertakes
  <2>2. Ordered(queue', Past', outbox' \ Malformed)
    <3>1. Ordered(queue, Past, outbox' \ Malformed)
      BY <1>3, <1>7, <2>1 DEF OnItsWay
    <3> QED BY <2>1, <3>1, OrderedMore
  <2>3. CASE wire' = wire /\ sent' = sent /\ Past' = Past
    <3>1. Ordered(wire, Past \cup Elements(queue), outbox' \ Malformed)
      BY <1>3, <1>7, <2>1 DEF OnItsWay
    <3> QED BY <2>1, <2>2, <2>3, <3>1
  <2>4. CASE wire' = <<>> /\ sent' = sent /\ Elements(wire) \subseteq Past'
    BY <1>3, <2>1, <2>2, <2>4
  <2>5. ASSUME outbox' = outbox, Past' = Past,
               NEW e \in Event, sent' = sent \cup {e},
               wire' = Append(wire, e) \/ (wire = <<>> /\ wire' = <<e>>)
        PROVE  /\ sent' \subseteq Past' \cup Elements(queue') \cup Elements(wire')
               /\ Ordered(wire', Past' \cup Elements(queue'), outbox' \ Malformed)
    <3>1. \A d \in E : Earlier(d, e) => d \in sent'
      BY <1>1, <2>5 DEF RelayInv, PerIncidentOrder
    <3>2. \A d \in E : Earlier(d, e) => d \in sent
      <4> SUFFICES ASSUME NEW d \in E, Earlier(d, e), d = e
                   PROVE  FALSE
        BY <2>5, <3>1
      <4>1. d.created_at \in Nat
        BY RelayAssumption
      <4> QED BY <4>1 DEF Earlier
    <3>3. \A d \in E : Earlier(d, e) => d \in (Past \cup Elements(queue)) \cup Elements(wire)
      BY <2>1, <3>2
    <3>4. CASE wire' = Append(wire, e)
      <4>1. Elements(wire') = Elements(wire) \cup {e}
        BY <1>3, <3>4, AppendElements
      <4>2. Ordered(wire', Past \cup Elements(queue), E)
        BY <1>3, <2>1, <3>3, <3>4, OrderedAppend
      <4> QED BY <2>1, <2>5, <4>1, <4>2
    <3>5. CASE wire = <<>> /\ wire' = <<e>>
      <4>1. \A d \in E : Earlier(d, e) => d \in Past \cup Elements(queue)
        BY <1>3, <3>3, <3>5
      <4>2. Elements(wire') = {e} /\ Ordered(wire', Past \cup Elements(queue), E)
        BY <3>5, <4>1, OneOrdered
      <4> QED BY <1>3, <2>1, <2>5, <3>5, <4>2
    <3> QED BY <2>5, <3>4, <3>5
  <2> QED BY <1>2, <2>2, <2>3, <2>4, <2>5
<1>10. MatchHeld'
  BY <1>1, <1>4 DEF MatchHeld
<1>11. SeenInOrder'
  <2> SUFFICES ASSUME NEW e \in outbox' \ Malformed, NEW f \in seen, Earlier(e, f)
               PROVE  e \in Past'
    BY <1>1 DEF SeenInOrder, Past
  <2>1. e \in E
    BY <1>6 DEF OnItsWay
  <2>2. e \in Past
    BY <2>1 DEF SeenInOrder, Past
  <2> QED BY <1>1, <2>2
<1> QED BY <1>1, <1>5, <1>8, <1>9, <1>10, <1>11

\* The broker takes the first frame: onto the bound queue, behind all others, or
\* past a consumer that has not bound its queue yet.
LEMMA RouteInv ==
    ASSUME SmokeInv, Route
    PROVE  SmokeInv'
<1> USE DEF SmokeInv
<1> DEFINE E == outbox \ Malformed
           h == Head(wire)
<1>1. RelayInv'
  <2>1. Next
    BY DEF Route, Next, Environment
  <2> QED BY <2>1, NextInv
<1>2. /\ wire # <<>> /\ bus' = bus \cup {h} /\ wire' = Tail(wire)
      /\ UNCHANGED <<outbox, sent, link, broker>>
      /\ UNCHANGED <<main, timer, sub, conn, matchedC, seen, lost>>
  BY DEF Route, Accept
<1>3. \/ Bound /\ Len(queue) < MaxQueue /\ queue' = Append(queue, h) /\ early' = early
      \/ ~Bound /\ queue' = queue /\ early' = early \cup {h}
  BY DEF Route
<1>4. wire \in Seq(Event) /\ queue \in Seq(Event)
  BY DEF SmokeTypeOK, TypeOK
<1>5. /\ h \in Event /\ Tail(wire) \in Seq(Event)
      /\ Elements(wire) = {h} \cup Elements(Tail(wire))
  BY <1>2, <1>4, TailElements
<1>6. /\ Append(queue, h) \in Seq(Event) /\ Len(Append(queue, h)) = Len(queue) + 1
      /\ Elements(Append(queue, h)) = Elements(queue) \cup {h}
  BY <1>4, <1>5, AppendElements
<1> HIDE DEF h
<1>7. SmokeTypeOK'
  <2>1. TypeOK'
    BY <1>1 DEF RelayInv
  <2>2. queue' \in Seq(Event) /\ Len(queue') <= MaxQueue
    <3>1. Len(queue) \in Nat /\ MaxQueue \in Nat
      BY <1>4, SmokeAssumption
    <3>2. CASE queue' = queue
      BY <3>2 DEF SmokeTypeOK
    <3>3. CASE Len(queue) < MaxQueue /\ queue' = Append(queue, h)
      BY <1>6, <3>1, <3>3
    <3> QED BY <1>3, <3>2, <3>3
  <2>3. early' \subseteq Event
    BY <1>3, <1>5 DEF SmokeTypeOK
  <2> QED BY <1>2, <2>1, <2>2, <2>3 DEF SmokeTypeOK
<1>8. OnItsWay'
  <2>1. Elements(wire') \subseteq sent' /\ h \in sent
    BY <1>2, <1>5 DEF OnItsWay
  <2>2. Elements(queue') \subseteq sent' \cap bus'
    BY <1>2, <1>3, <1>6, <2>1 DEF OnItsWay
  <2>3. seen' \subseteq sent' \cap bus'
    BY <1>2 DEF OnItsWay
  <2>4. link' # "down"
    BY <1>2 DEF OnItsWay
  <2>5. main' = "off" => conn' = "down" /\ queue' = <<>>
    <3>1. main = "off" => ~Bound
      BY DEF OnItsWay, Bound
    <3> QED BY <1>2, <1>3, <3>1 DEF OnItsWay
  <2> QED BY <2>1, <2>2, <2>3, <2>4, <2>5 DEF OnItsWay
<1>9. Past \subseteq Past'
  BY <1>2, <1>3 DEF Past
<1>10. NoneOvertakes'
  <2> SUFFICES ASSUME Alive'
               PROVE  /\ sent \subseteq Past' \cup Elements(queue') \cup Elements(wire')
                      /\ Ordered(queue', Past', E)
                      /\ Ordered(wire', Past' \cup Elements(queue'), E)
    BY <1>2 DEF NoneOvertakes
  <2>1. Alive
    BY <1>2 DEF Alive
  <2>2. /\ sent \subseteq Past \cup Elements(queue) \cup Elements(wire)
        /\ Ordered(queue, Past, E)
        /\ Ordered(wire, Past \cup Elements(queue), E)
    BY <2>1 DEF NoneOvertakes
  <2>3. /\ \A e \in E : Earlier(e, h) => e \in Past \cup Elements(queue)
        /\ Ordered(Tail(wire), (Past \cup Elements(queue)) \cup {h}, E)
    BY <1>2, <1>4, <2>2, OrderedTail DEF h
  <2>4. Past \cup Elements(queue) \cup {h} \subseteq Past' \cup Elements(queue')
    BY <1>2, <1>3, <1>6, <1>9 DEF Past
  <2>5. Ordered(queue', Past', E)
    <3>1. CASE queue' = queue
      BY <1>9, <2>2, <3>1, OrderedMore
    <3>2. CASE queue' = Append(queue, h)
      <4>1. Ordered(queue', Past, E)
        BY <1>4, <1>5, <2>2, <2>3, <3>2, OrderedAppend
      <4> QED BY <1>9, <4>1, OrderedMore
    <3> QED BY <1>3, <3>1, <3>2
  <2>6. Ordered(wire', Past' \cup Elements(queue'), E)
    BY <1>2, <2>3, <2>4, OrderedMore
  <2>7. sent \subseteq Past' \cup Elements(queue') \cup Elements(wire')
    BY <1>2, <1>5, <2>2, <2>4
  <2> QED BY <2>5, <2>6, <2>7
<1>11. MatchHeld'
  BY <1>2 DEF MatchHeld
<1>12. SeenInOrder'
  BY <1>2, <1>3 DEF SeenInOrder
<1> QED BY <1>1, <1>7, <1>8, <1>10, <1>11, <1>12

\* The handler is called with the head of the queue: all that is earlier is past.
\* It keeps the first match.
LEMMA HandleInv ==
    ASSUME SmokeInv, Handle
    PROVE  SmokeInv'
<1> USE DEF SmokeInv
<1> DEFINE E == outbox \ Malformed
           h == Head(queue)
<1>1. /\ main = "waiting" /\ sub = "loop" /\ conn = "up"
      /\ queue # <<>> /\ queue' = Tail(queue)
      /\ seen' = seen \cup {h}
      /\ matchedC' = IF h \in Wanted /\ matchedC = <<>> THEN <<h>> ELSE matchedC
      /\ UNCHANGED <<vars, main, timer, sub, conn, lost, early>>
  BY DEF Handle, history
<1>2. queue \in Seq(Event)
  BY DEF SmokeTypeOK
<1>3. /\ h \in Event /\ Tail(queue) \in Seq(Event) /\ Len(Tail(queue)) = Len(queue) - 1
      /\ Elements(queue) = {h} \cup Elements(Tail(queue))
  BY <1>1, <1>2, TailElements
<1>4. Alive
  BY <1>1 DEF Alive
<1>5. /\ sent \subseteq Past \cup Elements(queue) \cup Elements(wire)
      /\ Ordered(queue, Past, E)
      /\ Ordered(wire, Past \cup Elements(queue), E)
  BY <1>4 DEF NoneOvertakes
<1>6. /\ \A e \in E : Earlier(e, h) => e \in Past
      /\ Ordered(Tail(queue), Past \cup {h}, E)
  BY <1>1, <1>2, <1>5, OrderedTail
<1> HIDE DEF h
<1>7. Past' = Past \cup {h}
  BY <1>1 DEF Past
<1>8. RelayInv'
  <2>1. [Next]_vars
    BY <1>1
  <2> QED BY <2>1, NextInv
<1>9. UNCHANGED <<outbox, sent, link, wire, bus>>
  BY <1>1 DEF vars, amqp
<1>10. SmokeTypeOK'
  <2>1. TypeOK'
    BY <1>8 DEF RelayInv
  <2>2. queue' \in Seq(Event) /\ Len(queue') <= MaxQueue
    <3>1. Len(queue) \in Nat /\ MaxQueue \in Nat /\ Len(queue) <= MaxQueue
      BY <1>2, SmokeAssumption DEF SmokeTypeOK
    <3> QED BY <1>1, <1>3, <3>1
  <2>3. matchedC' \in Seq(Event) /\ Len(matchedC') <= 1
    <3>1. <<h>> \in Seq(Event) /\ Len(<<h>>) = 1
      BY <1>3
    <3> QED BY <1>1, <3>1 DEF SmokeTypeOK
  <2>4. UNION {seen', lost', early'} \subseteq Event
    BY <1>1, <1>3 DEF SmokeTypeOK
  <2> QED BY <1>1, <2>1, <2>2, <2>3, <2>4 DEF SmokeTypeOK
<1>11. OnItsWay'
  BY <1>1, <1>3, <1>9 DEF OnItsWay
<1>12. NoneOvertakes'
  <2>1. sent \subseteq Past' \cup Elements(queue') \cup Elements(wire)
    BY <1>1, <1>3, <1>5, <1>7
  <2>2. Ordered(queue', Past', E)
    BY <1>1, <1>6, <1>7
  <2>3. Ordered(wire, Past' \cup Elements(queue'), E)
    <3>1. Past \cup Elements(queue) \subseteq Past' \cup Elements(queue')
      BY <1>1, <1>3, <1>7
    <3> QED BY <1>5, <3>1, OrderedMore
  <2> QED BY <1>9, <2>1, <2>2, <2>3 DEF NoneOvertakes
<1>13. MatchHeld'
  <2>1. h \in sent \cap bus
    BY <1>3 DEF OnItsWay
  <2>2. main' # "found"
    BY <1>1
  <2>3. matchedC' # <<>> => \E e \in Wanted \cap sent \cap bus : matchedC' = <<e>>
    <3>1. CASE h \in Wanted /\ matchedC = <<>>
      BY <1>1, <2>1, <3>1
    <3>2. CASE ~(h \in Wanted /\ matchedC = <<>>)
      BY <1>1, <3>2 DEF MatchHeld
    <3> QED BY <3>1, <3>2
  <2> QED BY <1>9, <2>2, <2>3 DEF MatchHeld
<1>14. SeenInOrder'
  <2> SUFFICES ASSUME NEW e \in E, NEW f \in seen \cup {h}, Earlier(e, f)
               PROVE  e \in Past'
    BY <1>1, <1>9 DEF SeenInOrder, Past
  <2>1. CASE f = h
    BY <1>6, <1>7, <2>1
  <2>2. CASE f \in seen
    <3>1. e \in Past
      BY <2>2 DEF SeenInOrder, Past
    <3> QED BY <1>7, <3>1
  <2> QED BY <2>1, <2>2
<1> QED BY <1>8, <1>10, <1>11, <1>12, <1>13, <1>14

\* The other steps of the consumer leave the queue alone while the subscription
\* stands, and main finds only what is in the channel.
LEMMA ConsumerInv ==
    ASSUME SmokeInv,
           \/ Connect \/ ConnectFails \/ SetUp \/ SubscriptionEnds
           \/ Found \/ TimesOut \/ Expire \/ Disconnect \/ UNCHANGED smokeVars
    PROVE  SmokeInv'
<1> USE DEF SmokeInv
<1>1. /\ UNCHANGED <<vars, matchedC, seen, lost, early>>
      /\ queue' \in {queue, <<>>}
      /\ main' = "off" => main = "off" /\ conn' \in {conn, "down"}
      /\ main' = "found" => main = "found" \/ matchedC # <<>>
      /\ Alive' => Alive /\ queue' = queue
      /\ main' \in {"off", "waiting", "found", "failed"}
      /\ timer' \in {"running", "expired"}
      /\ sub' \in {"off", "bind", "consume", "loop", "ended"}
      /\ conn' \in {"up", "down"}
  <2> USE DEF history, consumer, smokeVars, Ends, Alive, OnItsWay, SmokeTypeOK
  <2>1. CASE Connect \/ ConnectFails
    BY <2>1 DEF Connect, ConnectFails
  <2>2. CASE SetUp
    BY <2>2 DEF SetUp
  <2>3. CASE SubscriptionEnds
    BY <2>3 DEF SubscriptionEnds
  <2>4. CASE Found \/ TimesOut
    BY <2>4 DEF Found, TimesOut
  <2>5. CASE Expire
    BY <2>5 DEF Expire
  <2>6. CASE Disconnect
    BY <2>6 DEF Disconnect
  <2>7. CASE UNCHANGED smokeVars
    BY <2>7
  <2> QED BY <2>1, <2>2, <2>3, <2>4, <2>5, <2>6, <2>7
<1>2. RelayInv'
  <2>1. [Next]_vars
    BY <1>1
  <2> QED BY <2>1, NextInv
<1>3. UNCHANGED <<outbox, sent, link, wire, bus>>
  BY <1>1 DEF vars, amqp
<1>4. Elements(<<>>) = {}
  BY DEF Elements
<1>5. SmokeTypeOK'
  <2>1. TypeOK'
    BY <1>2 DEF RelayInv
  <2>2. queue' \in Seq(Event) /\ Len(queue') <= MaxQueue
    <3>1. <<>> \in Seq(Event) /\ Len(<<>>) = 0 /\ 0 <= MaxQueue
      BY SmokeAssumption
    <3> QED BY <1>1, <3>1 DEF SmokeTypeOK
  <2> QED BY <1>1, <2>1, <2>2 DEF SmokeTypeOK
<1>6. OnItsWay'
  <2>1. Elements(queue') \subseteq Elements(queue)
    BY <1>1, <1>4
  <2> QED BY <1>1, <1>3, <2>1 DEF OnItsWay
<1>7. NoneOvertakes'
  <2>1. Past' = Past
    BY <1>1 DEF Past
  <2> QED BY <1>1, <1>3, <2>1 DEF NoneOvertakes
<1>8. MatchHeld' /\ SeenInOrder'
  BY <1>1, <1>3 DEF MatchHeld, SeenInOrder
<1> QED BY <1>2, <1>5, <1>6, <1>7, <1>8

\* SmokeInv is inductive.
LEMMA SmokeNextInv == SmokeInv /\ [SmokeNext]_smokeVars => SmokeInv'
BY UpstreamInv, RouteInv, HandleInv, ConsumerInv DEF SmokeNext, Subscription
-----------------------------------------------------------------------------
\* The inductive invariant holds throughout.
THEOREM SmokeInvariance == SmokeSpec => []SmokeInv
BY SmokeInitInv, SmokeNextInv, PTL DEF SmokeSpec

\* Type correctness; the queue and the channel of one place keep their bounds.
THEOREM SmokeTypes == SmokeSpec => []SmokeTypeOK
BY SmokeInvariance, PTL DEF SmokeInv

\* Exit status 0 is the truth (src/cmd/smoke-consumer/main.go): the event waited
\* for was committed by the service and accepted by the broker.
THEOREM ExitZeroIsTrue == SmokeSpec => []FoundIsTrue
<1>1. SmokeInv => FoundIsTrue
  BY DEF SmokeInv, RelayInv, Provenance, MatchHeld, FoundIsTrue
<1> QED BY <1>1, SmokeInvariance, PTL

\* The handler is called with an incident's events in their order, whatever
\* retries, abandoned batches, broken connections and restarts lie upstream:
\* an earlier event not seen before was lost on the wire, or came too early.
THEOREM HandlerSeesInOrder == SmokeSpec => []SeenInOrder
BY SmokeInvariance, PTL DEF SmokeInv

\* The consumer only listens: below it the relay behaves as OutboxRelay says, and
\* hands events over in order, at least once.
THEOREM RelayUnderConsumer == SmokeSpec => Spec /\ ImplementsDelivery
<1>1. SmokeInit => Init
  BY DEF SmokeInit
<1>2. [SmokeNext]_smokeVars => [Next]_vars
  <2> SUFFICES ASSUME [SmokeNext]_smokeVars
               PROVE  Next \/ UNCHANGED vars
    OBVIOUS
  <2>1. CASE Upstream \/ Route
    BY <2>1 DEF Upstream, Route, Next, Environment
  <2>2. CASE Connect \/ ConnectFails \/ Subscription \/ Found \/ TimesOut \/ Expire \/ Disconnect
    BY <2>2 DEF Connect, ConnectFails, Subscription, SetUp, Handle, SubscriptionEnds,
                Found, TimesOut, Ends, Expire, Disconnect
  <2>3. CASE UNCHANGED smokeVars
    BY <2>3 DEF smokeVars
  <2> QED BY <2>1, <2>2, <2>3 DEF SmokeNext
<1>3. SmokeSpec => Spec
  BY <1>1, <1>2, PTL DEF SmokeSpec, Spec
<1> QED BY <1>3, RelayDelivers, PTL
=============================================================================
