---------------------- MODULE ReferenceConnector_proofs ----------------------
(* Theorems about ReferenceConnector, for every set of incidents and tags   *)
(* and every queue size: types, a heartbeat that never meets a 404, and     *)
(* tags that nobody's redelivered, abandoned or late request spoils.        *)
EXTENDS ReferenceConnector, TLAPS

\* Every request of the connector, and the awaited one, answers a creation.
Answers(p) ==
    \E e \in handed : e.type = "incident.created" /\ p = Enriched(e)

Elements(s) == {s[k] : k \in 1..Len(s)}

\* An event is of an incident that exists, and an incident is created once: there
\* are no two creations that say different things of it.
CreatedOnce ==
    /\ \A e \in pending \cup handed : e.incident \in rows
    /\ \A e, f \in pending \cup handed :
          e.type = "incident.created" /\ f.type = "incident.created"
          /\ e.incident = f.incident => e = f

\* What the connector has in hand was handed to the exchange, and what it asks
\* of the core answers that.
Traceable ==
    /\ Elements(queue) \subseteq handed
    /\ Elements(inbox) \subseteq handed
    /\ \A p \in inflight : Answers(p)

\* From its registration on, the core knows the connector.
Registered == pc = "dialling" \/ HeartbeatRuns => registry # "absent"

ConnectorInv ==
    /\ TypeOK
    /\ CreatedOnce
    /\ Traceable
    /\ Registered
    /\ UneditedTags
-----------------------------------------------------------------------------
(* Queues.                                                                  *)

\* The head of a queue is an element of it, and so is what is left behind it.
LEMMA TailElements ==
    ASSUME NEW S, NEW s \in Seq(S), s # <<>>
    PROVE  /\ Tail(s) \in Seq(S) /\ Head(s) \in S
           /\ Head(s) \in Elements(s) /\ Elements(Tail(s)) \subseteq Elements(s)
<1>1. /\ Len(s) \in Nat /\ Len(s) >= 1 /\ Head(s) = s[1] /\ Head(s) \in S
      /\ Tail(s) \in Seq(S) /\ Len(Tail(s)) = Len(s) - 1
      /\ \A k \in 1..(Len(s) - 1) : Tail(s)[k] = s[k+1]
  OBVIOUS
<1>2. 1 \in 1..Len(s) /\ \A k \in 1..Len(Tail(s)) : k + 1 \in 1..Len(s)
  BY <1>1
<1> QED BY <1>1, <1>2 DEF Elements

\* An event that is appended is the only new element.
LEMMA AppendElements ==
    ASSUME NEW S, NEW s \in Seq(S), NEW x \in S
    PROVE  /\ Append(s, x) \in Seq(S)
           /\ Elements(Append(s, x)) = Elements(s) \cup {x}
<1>1. /\ Len(s) \in Nat
      /\ Append(s, x) \in Seq(S) /\ Len(Append(s, x)) = Len(s) + 1
      /\ \A k \in 1..Len(s) : Append(s, x)[k] = s[k]
      /\ Append(s, x)[Len(s) + 1] = x
  OBVIOUS
<1>2. 1..(Len(s) + 1) = (1..Len(s)) \cup {Len(s) + 1}
  BY <1>1
<1> QED BY <1>1, <1>2 DEF Elements
-----------------------------------------------------------------------------
(* Events and requests.                                                     *)

\* What the core stages is an event; only a creation is of the creation's type.
LEMMA StagedEvents ==
    ASSUME NEW i \in Incident, NEW T \in AnyTags
    PROVE  /\ Created(i, T) \in Event /\ Updated(i) \in Event
           /\ Created(i, T).type = "incident.created"
           /\ Created(i, T).incident = i /\ Created(i, T).tags = T
           /\ Updated(i).type # "incident.created" /\ Updated(i).incident = i
BY DEF Created, Updated, Event, AnyTags

\* An answer is a request for the event's incident: its tags and the connector's.
LEMMA AnswerIsPatch ==
    ASSUME NEW e \in Event
    PROVE  /\ Enriched(e) \in Patch
           /\ Enriched(e).incident = e.incident
           /\ Enriched(e).tags = e.tags \cup {EnrichTag}
           /\ e.incident \in Incident /\ e.tags \in AnyTags
BY DEF Enriched, Patch, Event, AnyTags

\* A request that answers an event answers it when more events are handed over.
LEMMA AnswersMore ==
    ASSUME NEW p, Answers(p), handed \subseteq handed'
    PROVE  Answers(p)'
BY DEF Answers, Enriched
-----------------------------------------------------------------------------
(* The invariant is inductive.                                              *)

\* Initially there is no incident, no event and no request.
LEMMA ConnectorInitInv == Init => ConnectorInv
<1> SUFFICES ASSUME Init PROVE ConnectorInv
  OBVIOUS
<1>1. TypeOK
  <2>1. {} \in AnyTags /\ tags \in [Incident -> AnyTags]
    BY DEF Init, AnyTags
  <2>2. <<>> \in Seq(Event) /\ queue = <<>> /\ inbox = <<>>
    BY DEF Init
  <2>3. pc = "starting" /\ awaited = NoPatch
    BY DEF Init
  <2> QED BY <2>1, <2>2, <2>3 DEF Init, TypeOK, Startup
<1>2. Elements(<<>>) = {}
  BY DEF Elements
<1>3. CreatedOnce /\ Traceable /\ Registered /\ UneditedTags
  BY <1>2 DEF Init, CreatedOnce, Traceable, Registered, HeartbeatRuns, UneditedTags
<1> QED BY <1>1, <1>3 DEF ConnectorInv

\* A new incident has the tags its creation announces.
LEMMA CreateInv ==
    ASSUME ConnectorInv, NEW i \in Incident, NEW T \in SUBSET Tag, Create(i, T)
    PROVE  ConnectorInv'
<1> USE DEF ConnectorInv
<1> DEFINE n == Created(i, T)
<1>1. T \in AnyTags
  BY DEF AnyTags
<1>2. /\ n \in Event /\ n.type = "incident.created" /\ n.incident = i /\ n.tags = T
  BY <1>1, StagedEvents
<1>3. /\ i \notin rows /\ rows' = rows \cup {i} /\ own' \in {own, own \cup {i}}
      /\ tags' = [tags EXCEPT ![i] = T] /\ pending' = pending \cup {n}
      /\ UNCHANGED <<edited, registry, core, handed, broker, bound, queue,
                     pc, sub, inbox, awaited, inflight, calm>>
  BY DEF Create, bus, connector
<1> HIDE DEF n
<1>4. TypeOK'
  BY <1>1, <1>2, <1>3 DEF TypeOK
<1>5. \A e \in pending \cup handed : e.incident \in rows /\ e.incident # i
  BY <1>3 DEF CreatedOnce
<1>6. CreatedOnce'
  BY <1>2, <1>3, <1>5 DEF CreatedOnce
<1>7. Traceable' /\ Registered'
  BY <1>3 DEF Traceable, Answers, Registered, HeartbeatRuns
<1>8. tags'[i] = T /\ \A j \in Incident \ {i} : tags'[j] = tags[j]
  BY <1>3 DEF TypeOK
<1>9. ASSUME NEW e \in pending' \cup handed', e.type = "incident.created",
             e.incident \notin edited'
      PROVE  \/ tags'[e.incident] = e.tags
             \/ e.incident \in own' /\ tags'[e.incident] = e.tags \cup {EnrichTag}
  <2>1. CASE e = n
    BY <1>2, <1>8, <2>1
  <2>2. CASE e \in pending \cup handed
    <3>1. e.incident \in Incident \ {i}
      BY <1>5, <2>2 DEF TypeOK
    <3> QED BY <1>3, <1>8, <1>9, <2>2, <3>1 DEF UneditedTags
  <2> QED BY <1>3, <2>1, <2>2
<1> QED BY <1>4, <1>6, <1>7, <1>9 DEF UneditedTags

\* What ReplaceTags does, whoever asks for it.
LEMMA Replaced ==
    ASSUME ConnectorInv, NEW i \in Incident, NEW T \in AnyTags, ReplaceTags(i, T),
           edited \subseteq edited', edited' \subseteq Incident, handed' = handed,
           inflight' \subseteq inflight,
           UNCHANGED <<registry, core, broker, bound, queue, pc, sub, inbox, awaited, calm>>
    PROVE  /\ TypeOK' /\ CreatedOnce' /\ Traceable' /\ Registered'
           /\ own' = own
           /\ tags'[i] = T /\ \A j \in Incident \ {i} : tags'[j] = tags[j]
           /\ \A e \in pending' \cup handed' :
                 e.type = "incident.created" => e \in pending \cup handed
<1> USE DEF ConnectorInv
<1>1. Updated(i) \in Event /\ Updated(i).type # "incident.created" /\ Updated(i).incident = i
  BY StagedEvents
<1>2. /\ i \in rows /\ rows' = rows /\ own' = own /\ tags' = [tags EXCEPT ![i] = T]
      /\ pending' \subseteq pending \cup {Updated(i)}
  BY DEF ReplaceTags
<1>3. TypeOK'
  BY <1>1, <1>2 DEF TypeOK
<1>4. CreatedOnce'
  BY <1>1, <1>2 DEF CreatedOnce
<1>5. Traceable' /\ Registered'
  BY DEF Traceable, Answers, Registered, HeartbeatRuns
<1>6. tags'[i] = T /\ \A j \in Incident \ {i} : tags'[j] = tags[j]
  BY <1>2 DEF TypeOK
<1> QED BY <1>1, <1>2, <1>3, <1>4, <1>5, <1>6

\* An incident someone edits is one the property does not speak of any more.
LEMMA EditInv ==
    ASSUME ConnectorInv, NEW i \in Incident, NEW T \in AnyTags, Edit(i, T)
    PROVE  ConnectorInv'
<1> USE DEF ConnectorInv
<1>1. /\ ReplaceTags(i, T) /\ edited' = edited \cup {i} /\ handed' = handed
      /\ UNCHANGED <<registry, core, broker, bound, queue, pc, sub, inbox, awaited,
                     inflight, calm>>
  BY DEF Edit, bus, connector
<1>2. edited \subseteq edited' /\ edited' \subseteq Incident
  BY <1>1 DEF TypeOK
<1>3. /\ TypeOK' /\ CreatedOnce' /\ Traceable' /\ Registered'
      /\ own' = own
      /\ \A j \in Incident \ {i} : tags'[j] = tags[j]
      /\ \A e \in pending' \cup handed' :
            e.type = "incident.created" => e \in pending \cup handed
  BY <1>1, <1>2, Replaced
<1>4. \A e \in pending' \cup handed' : e.incident \in Incident
  BY <1>3 DEF TypeOK, Event
<1>5. UneditedTags'
  BY <1>1, <1>3, <1>4 DEF UneditedTags
<1> QED BY <1>3, <1>5

\* A request of the connector that the core carries out, however late, writes the
\* tags of the incident's only creation and the connector's.
LEMMA LandInv ==
    ASSUME ConnectorInv, NEW p \in Patch, Land(p)
    PROVE  ConnectorInv'
<1> USE DEF ConnectorInv
<1>1. /\ p \in inflight /\ p.incident \in own
      /\ ReplaceTags(p.incident, p.tags) /\ inflight' = inflight \ {p}
      /\ UNCHANGED <<edited, registry, core, handed, broker, bound, queue,
                     pc, sub, inbox, awaited, calm>>
  BY DEF Land, bus, connector
<1>2. p.incident \in Incident /\ p.tags \in AnyTags
  BY DEF Patch
<1>3. /\ TypeOK' /\ CreatedOnce' /\ Traceable' /\ Registered'
      /\ own' = own /\ p.incident \in own
      /\ tags'[p.incident] = p.tags
      /\ \A j \in Incident \ {p.incident} : tags'[j] = tags[j]
      /\ \A e \in pending' \cup handed' :
            e.type = "incident.created" => e \in pending \cup handed
  <2>1. edited' \subseteq Incident /\ inflight' \subseteq inflight
    BY <1>1 DEF TypeOK
  <2> QED BY <1>1, <1>2, <2>1, Replaced
<1>4. PICK c \in handed : c.type = "incident.created" /\ p = Enriched(c)
  BY <1>1 DEF Traceable, Answers
<1>5. p.incident = c.incident /\ p.tags = c.tags \cup {EnrichTag}
  BY <1>4, AnswerIsPatch DEF TypeOK
<1>6. ASSUME NEW e \in pending' \cup handed', e.type = "incident.created",
             e.incident \notin edited'
      PROVE  \/ tags'[e.incident] = e.tags
             \/ e.incident \in own' /\ tags'[e.incident] = e.tags \cup {EnrichTag}
  <2>1. e \in pending \cup handed
    BY <1>3, <1>6
  <2>2. CASE e.incident = p.incident
    <3>1. e = c
      BY <1>4, <1>5, <1>6, <2>1, <2>2 DEF CreatedOnce
    <3> QED BY <1>3, <1>5, <3>1
  <2>3. CASE e.incident # p.incident
    <3>1. e.incident \in Incident
      BY <2>1, AnswerIsPatch DEF TypeOK
    <3> QED BY <1>1, <1>3, <1>6, <2>1, <2>3, <3>1 DEF UneditedTags
  <2> QED BY <2>2, <2>3
<1> QED BY <1>3, <1>6 DEF UneditedTags

\* The exchange takes an event that is staged or was handed over before: nothing
\* new is said, and what is queued was handed over.
LEMMA RouteInv ==
    ASSUME ConnectorInv, NEW e \in Event, Publish(e) \/ PublishAgain(e)
    PROVE  ConnectorInv'
<1> USE DEF ConnectorInv
<1>1. /\ e \in pending \cup handed /\ pending' \subseteq pending
      /\ handed' = handed \cup {e} /\ pending' \cup handed' \subseteq pending \cup handed
      /\ queue' = queue \/ queue' = Append(queue, e)
      /\ UNCHANGED <<rows, own, tags, edited, registry, core, broker, bound,
                     pc, sub, inbox, awaited, inflight, calm>>
  BY DEF Publish, PublishAgain, Route, connector
<1>2. queue \in Seq(Event)
  BY DEF TypeOK
<1>3. /\ Append(queue, e) \in Seq(Event)
      /\ Elements(Append(queue, e)) = Elements(queue) \cup {e}
  BY <1>2, AppendElements
<1>4. TypeOK'
  <2>1. queue' \in Seq(Event)
    BY <1>1, <1>2, <1>3
  <2> QED BY <1>1, <2>1 DEF TypeOK
<1>5. CreatedOnce'
  BY <1>1 DEF CreatedOnce
<1>6. Traceable'
  <2>1. Elements(queue') \subseteq handed'
    BY <1>1, <1>3 DEF Traceable
  <2>2. \A p \in inflight' : Answers(p)'
    BY <1>1, AnswersMore DEF Traceable
  <2>3. Elements(inbox') \subseteq handed'
    BY <1>1 DEF Traceable
  <2> QED BY <2>1, <2>2, <2>3 DEF Traceable
<1>7. Registered' /\ UneditedTags'
  BY <1>1 DEF Registered, HeartbeatRuns, UneditedTags
<1> QED BY <1>4, <1>5, <1>6, <1>7

\* The handler asks for what answers the event it was called with.
LEMMA HandleInv ==
    ASSUME ConnectorInv, Handle
    PROVE  ConnectorInv'
<1> USE DEF ConnectorInv
<1> DEFINE e == Head(inbox)
<1>1. /\ pc = "consuming" /\ inbox # <<>> /\ e.type = "incident.created"
      /\ inbox' = Tail(inbox) /\ awaited' = Enriched(e)
      /\ inflight' = inflight \cup {Enriched(e)} /\ pc' = "patching"
      /\ UNCHANGED <<rows, own, tags, edited, registry, core, pending,
                     handed, broker, bound, queue, sub, calm>>
  BY DEF Handle, service, bus
<1>2. inbox \in Seq(Event)
  BY DEF TypeOK
<1>3. /\ Tail(inbox) \in Seq(Event) /\ e \in Event
      /\ e \in Elements(inbox) /\ Elements(Tail(inbox)) \subseteq Elements(inbox)
  BY <1>1, <1>2, TailElements
<1> HIDE DEF e
<1>4. Enriched(e) \in Patch
  BY <1>3, AnswerIsPatch
<1>5. TypeOK'
  BY <1>1, <1>3, <1>4 DEF TypeOK
<1>6. CreatedOnce' /\ UneditedTags' /\ Registered'
  BY <1>1 DEF CreatedOnce, UneditedTags, Registered, HeartbeatRuns
<1>7. Traceable'
  <2>1. Answers(Enriched(e))
    BY <1>1, <1>3 DEF Answers, Traceable
  <2>2. \A p \in inflight' : Answers(p)
    BY <1>1, <2>1 DEF Traceable
  <2>3. \A p \in inflight' : Answers(p)'
    BY <1>1, <2>2, AnswersMore
  <2>4. Elements(queue') \subseteq handed' /\ Elements(inbox') \subseteq handed'
    BY <1>1, <1>3 DEF Traceable
  <2> QED BY <2>3, <2>4 DEF Traceable
<1> QED BY <1>5, <1>6, <1>7

\* A message is delivered, and the broker forgets it.
LEMMA DeliverInv ==
    ASSUME ConnectorInv, Deliver
    PROVE  ConnectorInv'
<1> USE DEF ConnectorInv
<1> DEFINE e == Head(queue)
<1>1. /\ queue # <<>> /\ pc \in {"consuming", "patching"}
      /\ inbox' = Append(inbox, e) /\ queue' = Tail(queue)
      /\ UNCHANGED <<rows, own, tags, edited, registry, core, pending, handed, broker, bound,
                     pc, sub, awaited, inflight, calm>>
  BY DEF Deliver, service
<1>2. inbox \in Seq(Event) /\ queue \in Seq(Event)
  BY DEF TypeOK
<1>3. /\ Tail(queue) \in Seq(Event) /\ e \in Event
      /\ e \in Elements(queue) /\ Elements(Tail(queue)) \subseteq Elements(queue)
  BY <1>1, <1>2, TailElements
<1> HIDE DEF e
<1>4. /\ Append(inbox, e) \in Seq(Event)
      /\ Elements(Append(inbox, e)) = Elements(inbox) \cup {e}
  BY <1>2, <1>3, AppendElements
<1>5. TypeOK'
  BY <1>1, <1>3, <1>4 DEF TypeOK
<1>6. CreatedOnce' /\ UneditedTags' /\ Registered'
  BY <1>1 DEF CreatedOnce, UneditedTags, Registered, HeartbeatRuns
<1>7. Traceable'
  BY <1>1, <1>3, <1>4 DEF Traceable, Answers
<1> QED BY <1>5, <1>6, <1>7
-----------------------------------------------------------------------------
\* What main ending, a handler returning and the like leave alone.
Settled ==
    /\ UNCHANGED <<rows, own, tags, edited, pending, handed, queue>>
    /\ inflight' \subseteq inflight
    /\ \/ inbox' \in {inbox, <<>>}
       \/ inbox # <<>> /\ inbox' = Tail(inbox)
    /\ registry' = registry \/ registry' # "absent"

\* Steps that only drop things keep the parts of the invariant about events.
LEMMA SettledInv ==
    ASSUME ConnectorInv, Settled
    PROVE  CreatedOnce' /\ Traceable' /\ UneditedTags' /\ inbox' \in Seq(Event)
<1> USE DEF ConnectorInv, Settled
<1>1. CreatedOnce' /\ UneditedTags'
  BY DEF CreatedOnce, UneditedTags
<1>2. inbox \in Seq(Event) /\ <<>> \in Seq(Event) /\ Elements(<<>>) = {}
  BY DEF TypeOK, Elements
<1>3. /\ inbox' \in Seq(Event)
      /\ Elements(inbox') \subseteq Elements(inbox)
  <2>1. CASE inbox' \in {inbox, <<>>}
    BY <1>2, <2>1
  <2>2. CASE inbox # <<>> /\ inbox' = Tail(inbox)
    BY <1>2, <2>2, TailElements
  <2> QED BY <2>1, <2>2
<1>4. \A p \in inflight' : Answers(p)'
  BY AnswersMore DEF Traceable
<1> QED BY <1>1, <1>3, <1>4 DEF Traceable

\* The steps of a start.
LEMMA StartInv ==
    ASSUME ConnectorInv, ReachCore \/ Register \/ Dial \/ Subscribe \/ Restart
    PROVE  ConnectorInv'
<1> USE DEF ConnectorInv
<1>1. Settled
  BY DEF ReachCore, Register, Upserted, Dial, Subscribe, Restart, Settled, service, bus
<1>2. CreatedOnce' /\ Traceable' /\ UneditedTags'
  BY <1>1, SettledInv
<1>3. TypeOK'
  <2> USE DEF TypeOK, Startup, service, bus
  <2>1. CASE ReachCore   BY <2>1 DEF ReachCore
  <2>2. CASE Register    BY <2>2 DEF Register, Upserted
  <2>3. CASE Dial        BY <2>3 DEF Dial
  <2>4. CASE Subscribe   BY <2>4 DEF Subscribe
  <2>5. CASE Restart     BY <2>5 DEF Restart
  <2> QED BY <2>1, <2>2, <2>3, <2>4, <2>5
<1>4. Registered'
  BY DEF Registered, HeartbeatRuns, ReachCore, Register, Upserted, Dial, Subscribe, Restart,
         TypeOK, service, bus
<1> QED BY <1>2, <1>3, <1>4

\* main ends.
LEMMA EndInv ==
    ASSUME ConnectorInv, GiveUp \/ ChannelClosed \/ Exit
    PROVE  ConnectorInv'
<1> USE DEF ConnectorInv
<1>1. /\ Ends /\ registry' \in {registry, Upserted}
  BY DEF GiveUp, ChannelClosed, Exit
<1>2. Settled
  BY <1>1 DEF Ends, Settled, Upserted, bus
<1>3. CreatedOnce' /\ Traceable' /\ UneditedTags' /\ inbox' \in Seq(Event)
  BY <1>2, SettledInv
<1>4. TypeOK'
  BY <1>1, <1>3 DEF TypeOK, Startup, Ends, Upserted, bus
<1>5. Registered'
  BY <1>1 DEF Registered, HeartbeatRuns, Ends
<1> QED BY <1>3, <1>4, <1>5

\* The other steps of the running connector, and of what is around it.
LEMMA OtherInv ==
    ASSUME ConnectorInv,
           \/ Heartbeat \/ Ignore \/ Answered \/ PatchFails
           \/ (\E p \in Patch : LandNotFound(p))
           \/ CoreDown \/ CoreUp \/ Break \/ BrokerUp \/ CalmDown \/ UNCHANGED vars
    PROVE  ConnectorInv'
<1> USE DEF ConnectorInv
<1>1. Settled
  BY DEF Heartbeat, Ignore, Answered, PatchFails, Returns, LandNotFound, CoreDown, CoreUp, Break,
         BrokerUp, CalmDown, Settled, service, bus, connector, vars
<1>2. CreatedOnce' /\ Traceable' /\ UneditedTags' /\ inbox' \in Seq(Event)
  BY <1>1, SettledInv
<1>3. TypeOK'
  <2> USE <1>2 DEF TypeOK, Startup, Returns, service, bus, connector, vars
  <2>1. CASE Heartbeat                BY <2>1 DEF Heartbeat
  <2>2. CASE Ignore                   BY <2>2 DEF Ignore
  <2>3. CASE Answered \/ PatchFails   BY <2>3 DEF Answered, PatchFails
  <2>4. CASE CoreDown \/ CoreUp       BY <2>4 DEF CoreDown, CoreUp
  <2>5. CASE Break \/ BrokerUp        BY <2>5 DEF Break, BrokerUp
  <2>6. CASE CalmDown                 BY <2>6 DEF CalmDown
  <2>7. CASE UNCHANGED vars           BY <2>7
  <2>8. ASSUME NEW p \in Patch, LandNotFound(p)
        PROVE  TypeOK'
    BY <2>8 DEF LandNotFound
  <2> QED BY <2>1, <2>2, <2>3, <2>4, <2>5, <2>6, <2>7, <2>8
<1>4. Registered'
  BY DEF Registered, HeartbeatRuns, Heartbeat, Ignore, Answered, PatchFails, Returns,
         LandNotFound, CoreDown, CoreUp, Break, BrokerUp, CalmDown, service, bus, connector, vars
<1> QED BY <1>2, <1>3, <1>4

\* ConnectorInv is inductive.
LEMMA ConnectorNextInv == ConnectorInv /\ [Next]_vars => ConnectorInv'
BY CreateInv, EditInv, LandInv, RouteInv, HandleInv, DeliverInv, StartInv, EndInv, OtherInv
   DEF Next, Main
-----------------------------------------------------------------------------
\* The inductive invariant holds throughout.
THEOREM ConnectorInvariance == Spec => []ConnectorInv
BY ConnectorInitInv, ConnectorNextInv, PTL DEF Spec

\* Type correctness.
THEOREM ConnectorTypes == Spec => []TypeOK
BY ConnectorInvariance, PTL DEF ConnectorInv

\* The heartbeat loop (src/cmd/reference-connector/main.go) runs only when the
\* core knows the connector, in this life of the process and the next.
THEOREM HeartbeatsFindRow == Spec => []HeartbeatFindsRow
<1>1. ConnectorInv => HeartbeatFindsRow
  BY DEF ConnectorInv, Registered, HeartbeatFindsRow
<1> QED BY <1>1, ConnectorInvariance, PTL

\* Tags nobody has edited are the creation's, with or without the connector's own,
\* and without it on an incident of a tenant that is not the connector's: no
\* redelivered event and no request that lands late adds or takes another.
THEOREM UneditedTagsKept == Spec => []UneditedTags
BY ConnectorInvariance, PTL DEF ConnectorInv

\* What main.go says of the prior tags ("so we don't clobber them") does hold of
\* an incident nobody has edited: a PATCH of the connector takes no tag from it.
THEOREM UneditedNotClobbered ==
    Spec => [][(\E p \in Patch : Land(p)) =>
                  \A i \in Incident \ edited : tags[i] \subseteq tags'[i]]_vars
<1>1. ASSUME ConnectorInv, NEW p \in Patch, Land(p), NEW i \in Incident \ edited
      PROVE  tags[i] \subseteq tags'[i]
  <2>1. p \in inflight /\ tags' = [tags EXCEPT ![p.incident] = p.tags]
    BY <1>1 DEF Land, ReplaceTags
  <2>2. PICK c \in handed : c.type = "incident.created" /\ p = Enriched(c)
    BY <1>1, <2>1 DEF ConnectorInv, Traceable, Answers
  <2>3. p.incident = c.incident /\ p.tags = c.tags \cup {EnrichTag}
    BY <1>1, <2>2, AnswerIsPatch DEF ConnectorInv, TypeOK
  <2>4. CASE i = p.incident
    <3>1. tags[i] \subseteq c.tags \cup {EnrichTag}
      BY <1>1, <2>2, <2>3, <2>4 DEF ConnectorInv, UneditedTags
    <3>2. tags'[i] = p.tags
      BY <1>1, <2>1, <2>4 DEF ConnectorInv, TypeOK
    <3> QED BY <2>3, <3>1, <3>2
  <2>5. CASE i # p.incident
    BY <1>1, <2>1, <2>5 DEF ConnectorInv, TypeOK
  <2> QED BY <2>4, <2>5
<1>2. ConnectorInv /\ [Next]_vars =>
         [(\E p \in Patch : Land(p)) =>
             \A i \in Incident \ edited : tags[i] \subseteq tags'[i]]_vars
  BY <1>1
<1> QED BY <1>2, ConnectorInvariance, PTL DEF Spec
=============================================================================
