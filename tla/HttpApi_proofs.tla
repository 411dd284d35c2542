---------------------------- MODULE HttpApi_proofs ----------------------------
(* Theorems about HttpApi, for every set of incidents, connectors, tenants  *)
(* and queries: types, that a 201 stands, that tenants are kept apart, and  *)
(* that a client that pages misses nothing it need not.                     *)
EXTENDS HttpApi, FiniteSetTheorems, TLAPS

\* The paging client is a record of its fields.
WalkType ==
    walk \in [phase : {"idle", "walking", "done"}, tenant : Tenant \cup {None},
              filter : Filter \cup {None}, offset : Nat, seen : SUBSET Incident]

TypeInv == TypeOK /\ WalkType

\* What a tenant header stands for, and that a row has the tenant its sender's
\* stood for: a committed row, and one whose transaction is still open.
StandsFor(t) == IF t \in Tenant THEN t ELSE DefaultTenant

SentBy(i, row) == sender[i] \in Tenant \cup {"absent"} /\ row.tenant = StandsFor(sender[i])

RowsOfSender ==
    /\ \A i \in Incident : incident[i] # None => SentBy(i, incident[i])
    /\ \A c \in creating : SentBy(c.incident, c.row)

\* What has been answered 201 is in its table.
AckedIsStored ==
    /\ \A i \in acked \cap Incident : incident[i] # None
    /\ \A c \in acked \cap Connector : connector[c] # None

ApiInv == TypeInv /\ RowsOfSender /\ AckedIsStored
-----------------------------------------------------------------------------
\* An admitted header has a tenant, or is absent and stands for the default one.
LEMMA HeaderTenant ==
    ASSUME NEW h \in AnyHeader
    PROVE  /\ TenantOf(h) \in Tenant
           /\ TenantOf(h) = StandsFor(h.tenant)
           /\ Admitted(h) => h.tenant \in Tenant \cup {"absent"}
BY ApiAssumption DEF AnyHeader, TenantOf, StandsFor, Admitted

\* A page holds rows of the listing it is cut from.
LEMMA PageOfListing ==
    ASSUME NEW S, NEW offset \in Nat, NEW page \in Pages(S, offset), IsFiniteSet(S)
    PROVE  page \subseteq S
<1>1. PageSize \in Nat
  BY ApiAssumption DEF PageSize
<1>2. PICK q \in Ordered(S) :
         page = ToSet(SubSeq(q, offset + 1, IF offset + PageSize < Len(q)
                                            THEN offset + PageSize ELSE Len(q)))
  BY DEF Pages
<1>3. q \in SetToSeqs(S)
  BY <1>2 DEF Ordered
<1>4. Cardinality(S) \in Nat /\ q \in [1..Cardinality(S) -> S]
  BY <1>3, FS_CardinalityType DEF SetToSeqs
<1>5. Len(q) = Cardinality(S) /\ q \in Seq(S)
  BY <1>4
<1> DEFINE last == IF offset + PageSize < Len(q) THEN offset + PageSize ELSE Len(q)
<1>6. last \in Nat /\ last <= Len(q)
  BY <1>1, <1>4, <1>5
<1>7. SubSeq(q, offset + 1, last) \in Seq(S)
  BY <1>5, <1>6
<1> QED BY <1>2, <1>7 DEF ToSet
-----------------------------------------------------------------------------
\* The tables are empty at first.
LEMMA InitInv == Init => ApiInv
BY ApiAssumption
   DEF Init, ApiInv, TypeInv, TypeOK, WalkType, Idle, RowsOfSender, AckedIsStored

\* A creation is stamped with the tenant its header stands for.
LEMMA StartCreateInv ==
    ASSUME ApiInv, NEW h \in Header, NEW i \in Incident, StartCreate(h, i)
    PROVE  ApiInv'
<1> USE ApiAssumption, HeaderAssumption
<1>1. h \in AnyHeader /\ h.tenant \in Tenant \cup {"absent"} /\ TenantOf(h) \in Tenant
      /\ TenantOf(h) = StandsFor(h.tenant)
  BY HeaderTenant DEF StartCreate
<1>2. now' \in 1..MaxTime
  BY DEF StartCreate
<1> DEFINE row == [tenant |-> TenantOf(h), status |-> "new", created_at |-> now']
<1>3. row \in Row
  BY <1>1, <1>2 DEF Row, Status
<1>4. creating' = creating \cup {[incident |-> i, row |-> row]}
  BY DEF StartCreate
<1>5. TypeInv'
  <2>1. \A c \in creating' : c \in [incident : Incident, row : Row]
    BY <1>3, <1>4 DEF ApiInv, TypeInv, TypeOK
  <2>2. sender' \in [Incident -> Tenant \cup {"absent", "malformed", None}]
    BY <1>1 DEF ApiInv, TypeInv, TypeOK, StartCreate
  <2> QED
    BY <1>2, <2>1, <2>2
       DEF ApiInv, TypeInv, TypeOK, WalkType, StartCreate, tables, paging
<1>6. \A j \in Incident : sender[j] # None => sender'[j] = sender[j]
  BY DEF ApiInv, TypeInv, TypeOK, StartCreate
<1>7. ASSUME NEW j \in Incident, NEW r, SentBy(j, r)
      PROVE  SentBy(j, r)'
  BY <1>6, <1>7 DEF SentBy
<1>8. sender'[i] = h.tenant
  BY DEF ApiInv, TypeInv, TypeOK, StartCreate
<1>9. RowsOfSender'
  <2>1. \A j \in Incident : incident'[j] # None => SentBy(j, incident[j])'
    BY <1>7 DEF ApiInv, RowsOfSender, StartCreate, tables
  <2>2. ASSUME NEW c \in creating' PROVE SentBy(c.incident, c.row)'
    <3>1. CASE c \in creating
      BY <1>7, <3>1 DEF ApiInv, TypeInv, TypeOK, RowsOfSender
    <3>2. CASE c = [incident |-> i, row |-> row]
      BY <1>1, <1>8, <3>2 DEF SentBy, StandsFor
    <3> QED BY <1>4, <3>1, <3>2
  <2> QED BY <2>1, <2>2 DEF RowsOfSender, StartCreate, tables
<1>10. AckedIsStored'
  BY DEF ApiInv, AckedIsStored, StartCreate, tables
<1> QED BY <1>5, <1>9, <1>10 DEF ApiInv

\* Putting a row of an incident's own tenant in the table disturbs nothing: not the
\* types, not the client that pages, not what has been answered.
LEMMA StoreInv ==
    ASSUME ApiInv, NEW i \in Incident, NEW row \in Row, SentBy(i, row),
           incident' = [incident EXCEPT ![i] = row], Watch(i),
           creating' \subseteq creating, acked' \in {acked, acked \cup {i}},
           UNCHANGED <<now, connector, sender>>
    PROVE  ApiInv'
<1> USE ApiAssumption, NoneAssumption
<1>1. incident' \in [Incident -> Row \cup {None}] /\ incident'[i] = row /\ row # None
  BY DEF ApiInv, TypeInv, TypeOK
<1>2. \A j \in Incident \ {i} : incident'[j] = incident[j]
  BY DEF ApiInv, TypeInv, TypeOK
<1>3. {j \in Incident : incident[j] # None} \subseteq {j \in Incident : incident'[j] # None}
  BY <1>1, <1>2
<1>4. steady' \subseteq steady /\ left' \subseteq left \cup {i} /\ walk' = walk
  BY DEF Watch
<1>5. UNION {walk'.seen, steady', left'} \subseteq {j \in Incident : incident'[j] # None}
  BY <1>1, <1>3, <1>4 DEF ApiInv, TypeInv, TypeOK
<1>6. TypeInv'
  BY <1>1, <1>4, <1>5 DEF ApiInv, TypeInv, TypeOK, WalkType
<1>7. RowsOfSender'
  BY <1>1, <1>2 DEF ApiInv, TypeInv, TypeOK, RowsOfSender, SentBy
<1>8. AckedIsStored'
  BY <1>1, <1>2 DEF ApiInv, AckedIsStored
<1> QED BY <1>6, <1>7, <1>8 DEF ApiInv

\* A creation ends: its row is stored and answered, or the transaction fails,
\* with or without the row.
LEMMA CreationEndsInv ==
    ASSUME ApiInv, NEW c \in creating, Created(c) \/ CreateFails(c)
    PROVE  ApiInv'
<1>1. c.incident \in Incident /\ c.row \in Row /\ SentBy(c.incident, c.row)
  BY DEF ApiInv, TypeInv, TypeOK, RowsOfSender
<1>2. CASE /\ incident' = [incident EXCEPT ![c.incident] = c.row]
           /\ Watch(c.incident)
  BY <1>1, <1>2, StoreInv DEF Created, CreateFails, history
<1>3. CASE UNCHANGED <<incident, paging>> /\ CreateFails(c)
  BY <1>3 DEF ApiInv, TypeInv, TypeOK, WalkType, RowsOfSender, SentBy, AckedIsStored,
              CreateFails, history, paging
<1> QED BY <1>2, <1>3 DEF Created, CreateFails

\* A PATCH leaves the row's tenant.
LEMMA PatchInv ==
    ASSUME ApiInv, NEW h \in Header, NEW i \in Incident, NEW status \in PatchStatus,
           Patch(h, i, status)
    PROVE  ApiInv'
<1> DEFINE row == [incident[i] EXCEPT !.status = status]
<1>1. incident[i] \in Row
  BY DEF ApiInv, TypeInv, TypeOK, Patch, Visible
<1>2. row \in Row /\ row.tenant = incident[i].tenant
  BY <1>1, ApiAssumption DEF Row
<1>3. SentBy(i, row)
  BY <1>2, NoneAssumption, <1>1 DEF ApiInv, RowsOfSender, SentBy
<1>4. incident' = [incident EXCEPT ![i] = row]
  BY DEF Patch
<1> QED BY <1>2, <1>3, <1>4, StoreInv DEF Patch, history

\* A registration is stored before it is answered.
LEMMA RegisterInv ==
    ASSUME ApiInv, NEW h \in Header, NEW c \in Connector, NEW cap \in Capabilities,
           Register(h, c, cap)
    PROVE  ApiInv'
<1> USE ApiAssumption, NoneAssumption, HeaderAssumption
<1> DEFINE reg == [tenant |-> TenantOf(h), capabilities |-> cap]
<1>1. reg \in Registration /\ reg # None
  BY HeaderTenant DEF Registration
<1>2. connector' = [connector EXCEPT ![c] = reg] /\ acked' = acked \cup {c}
  BY DEF Register
<1>3. TypeInv'
  BY <1>1, <1>2 DEF ApiInv, TypeInv, TypeOK, WalkType, Register, paging
<1>4. RowsOfSender'
  BY DEF ApiInv, RowsOfSender, SentBy, Register
<1>5. AckedIsStored'
  BY <1>1, <1>2 DEF ApiInv, TypeInv, TypeOK, AckedIsStored, Register
<1> QED BY <1>3, <1>4, <1>5 DEF ApiInv

\* A client that pages changes no table, and sees only what is in one.
LEMMA PagingInv ==
    ASSUME ApiInv, NextPage \/ \E h \in Header, f \in Filter : SetOut(h, f)
    PROVE  ApiInv'
<1> USE ApiAssumption, HeaderAssumption
<1>1. Listed(walk.tenant, walk.filter) \subseteq {i \in Incident : incident[i] # None}
  BY DEF Listed, Matches
<1>2. CASE NextPage
  <2>1. PICK page \in Pages(Listed(walk.tenant, walk.filter), walk.offset) :
          walk' = IF page = {}
                  THEN [walk EXCEPT !.phase = "done"]
                  ELSE [walk EXCEPT !.offset = walk.offset + Cardinality(page),
                                    !.seen = walk.seen \cup page]
    BY <1>2 DEF NextPage
  <2>2. IsFiniteSet(Listed(walk.tenant, walk.filter)) /\ walk.offset \in Nat
    BY FS_Subset DEF ApiInv, TypeInv, TypeOK, Listed
  <2>3. page \subseteq Listed(walk.tenant, walk.filter)
    BY <2>2, PageOfListing
  <2>4. Cardinality(page) \in Nat
    BY <2>2, <2>3, FS_Subset, FS_CardinalityType
  <2>5. WalkType' /\ walk'.seen \subseteq walk.seen \cup page
        /\ walk'.phase \in {"idle", "walking", "done"} /\ walk'.offset \in Nat
    <3> USE DEF WalkType
    <3>1. WalkType
      BY DEF ApiInv, TypeInv
    <3>2. page \subseteq Incident
      BY <1>1, <2>3
    <3>3. CASE page = {}
      BY <2>1, <3>1, <3>3
    <3>4. CASE page # {}
      <4>1. walk' = [walk EXCEPT !.offset = walk.offset + Cardinality(page),
                                 !.seen = walk.seen \cup page]
        BY <2>1, <3>4
      <4>2. walk.offset + Cardinality(page) \in Nat /\ walk.seen \cup page \in SUBSET Incident
        BY <2>4, <3>1, <3>2
      <4> QED BY <3>1, <4>1, <4>2
    <3> QED BY <3>3, <3>4
  <2>6. UNION {walk'.seen, steady', left'} \subseteq {i \in Incident : incident'[i] # None}
    <3>1. page \subseteq {i \in Incident : incident[i] # None}
      BY <1>1, <2>3
    <3>2. steady' = steady /\ left' = left /\ incident' = incident
      BY <1>2 DEF NextPage, tables
    <3> QED BY <2>5, <3>1, <3>2 DEF ApiInv, TypeInv, TypeOK
  <2>7. TypeInv'
    <3>1. UNCHANGED <<incident, connector, creating, now, sender, acked>>
      BY <1>2 DEF NextPage, tables, history
    <3>2. TypeOK'
      BY <2>5, <2>6, <3>1 DEF ApiInv, TypeInv, TypeOK
    <3> QED BY <2>5, <3>2 DEF TypeInv
  <2>8. RowsOfSender' /\ AckedIsStored'
    BY <1>2 DEF ApiInv, RowsOfSender, SentBy, AckedIsStored, NextPage, tables, history
  <2> QED BY <2>7, <2>8 DEF ApiInv
<1>3. CASE \E h \in Header, f \in Filter : SetOut(h, f)
  <2>1. PICK h \in Header, f \in Filter : SetOut(h, f)
    BY <1>3
  <2>2. TenantOf(h) \in Tenant
    BY HeaderTenant
  <2>3. WalkType' /\ walk'.seen = {} /\ walk'.phase = "walking" /\ walk'.offset = 0
    BY <2>1, <2>2 DEF ApiInv, TypeInv, WalkType, SetOut, Idle
  <2>4. UNION {walk'.seen, steady', left'} \subseteq {i \in Incident : incident'[i] # None}
    <3>1. steady' \subseteq {i \in Incident : incident[i] # None}
      BY <2>1 DEF SetOut, Listed, Matches
    <3>2. left' = left /\ incident' = incident
      BY <2>1 DEF SetOut, tables
    <3> QED BY <2>3, <3>1, <3>2 DEF ApiInv, TypeInv, TypeOK
  <2>5. TypeInv'
    <3>1. UNCHANGED <<incident, connector, creating, now, sender, acked>>
      BY <2>1 DEF SetOut, tables, history
    <3>2. TypeOK'
      BY <2>3, <2>4, <3>1 DEF ApiInv, TypeInv, TypeOK
    <3> QED BY <2>3, <3>2 DEF TypeInv
  <2>6. RowsOfSender' /\ AckedIsStored'
    BY <2>1 DEF ApiInv, RowsOfSender, SentBy, AckedIsStored, SetOut, tables, history
  <2> QED BY <2>5, <2>6 DEF ApiInv
<1> QED BY <1>2, <1>3

\* Every step keeps the invariant.
LEMMA StepInv == ApiInv /\ [Next]_vars => ApiInv'
<1> SUFFICES ASSUME ApiInv, [Next]_vars PROVE ApiInv'
  OBVIOUS
<1>1. CASE \E h \in Header, i \in Incident : StartCreate(h, i)
  BY <1>1, StartCreateInv
<1>2. CASE \E h \in Header, i \in Incident, status \in PatchStatus : Patch(h, i, status)
  BY <1>2, PatchInv
<1>3. CASE \E h \in Header, c \in Connector, cap \in Capabilities : Register(h, c, cap)
  BY <1>3, RegisterInv
<1>4. CASE \E c \in creating : Created(c) \/ CreateFails(c)
  BY <1>4, CreationEndsInv
<1>5. CASE NextPage \/ \E h \in Header, f \in Filter : SetOut(h, f)
  BY <1>5, PagingInv
<1>6. CASE UNCHANGED vars
  BY <1>6 DEF ApiInv, TypeInv, TypeOK, WalkType, RowsOfSender, SentBy, AckedIsStored,
              vars, tables, history, paging
<1> QED BY <1>1, <1>2, <1>3, <1>4, <1>5, <1>6 DEF Next

\* The invariant holds in every run.
LEMMA Invariance == Spec => []ApiInv
BY InitInv, StepInv, PTL DEF Spec
-----------------------------------------------------------------------------
\* Tables, open creations and the paging client keep their types, whoever calls and
\* however creations end (api, persistence/incidents.go, persistence/connectors.go).
THEOREM TypeCorrect == Spec => []TypeOK
<1>1. ApiInv => TypeOK
  BY DEF ApiInv, TypeInv
<1> QED BY <1>1, Invariance, PTL

\* What has been answered 201 is found by whoever names the same tenant in the same
\* way, and a registered connector's heartbeat is (api/incidents.go, connectors.go).
THEOREM CreatedStands == Spec => []CreatedIsFound
<1>1. ASSUME ApiInv PROVE CreatedIsFound
  <2> SUFFICES ASSUME NEW h \in AnyHeader, Through(h, 200) = 200
               PROVE  /\ \A i \in acked \cap Incident :
                            sender[i] = h.tenant => GetAnswer(h, i) = 200
                      /\ \A c \in acked \cap Connector : HeartbeatAnswer(h, c) = 200
    BY DEF CreatedIsFound
  <2>1. Identified(h) /\ Admitted(h)
    BY DEF Through
  <2>2. ASSUME NEW i \in acked \cap Incident, sender[i] = h.tenant
        PROVE  GetAnswer(h, i) = 200
    <3>1. incident[i] # None /\ incident[i].tenant = TenantOf(h)
      BY <1>1, <2>2, HeaderTenant DEF ApiInv, AckedIsStored, RowsOfSender, SentBy
    <3> QED BY <2>1, <3>1 DEF GetAnswer, Visible, Through
  <2>3. ASSUME NEW c \in acked \cap Connector
        PROVE  HeartbeatAnswer(h, c) = 200
    BY <1>1, <2>1 DEF ApiInv, AckedIsStored, HeartbeatAnswer, Through
  <2> QED BY <2>2, <2>3
<1> QED BY <1>1, Invariance, PTL

\* A GET answers 200 only to those who name, or leave out, the tenant the incident
\* was sent with (auth.go, persistence/incidents.go: WHERE tenant_id).
THEOREM TenantsKeptApart == Spec => []OwnTenantOnly
<1>1. ASSUME ApiInv PROVE OwnTenantOnly
  <2> SUFFICES ASSUME NEW h \in AnyHeader, NEW i \in Incident, GetAnswer(h, i) = 200
               PROVE  /\ h.principal \in {"user", "connector", "system"}
                      /\ \/ h.tenant = sender[i] /\ h.tenant \in Tenant
                         \/ {h.tenant, sender[i]} \subseteq {DefaultTenant, "absent"}
    BY DEF OwnTenantOnly
  <2>1. Identified(h) /\ Admitted(h) /\ Visible(h, i)
    BY DEF GetAnswer, Through, StatusOf
  <2>2. SentBy(i, incident[i]) /\ incident[i].tenant = TenantOf(h)
    BY <1>1, <2>1 DEF ApiInv, RowsOfSender, Visible
  <2>3. StandsFor(sender[i]) = StandsFor(h.tenant) /\ h.tenant \in Tenant \cup {"absent"}
    BY <2>1, <2>2, HeaderTenant DEF SentBy
  <2> QED BY <2>1, <2>2, <2>3, ApiAssumption DEF SentBy, StandsFor, Identified
<1> QED BY <1>1, Invariance, PTL
-----------------------------------------------------------------------------
(* Paging.                                                                  *)

\* The rows a walk's query lists before row i, other than those of the same stamp.
Ahead(i) == {j \in Listed(walk.tenant, walk.filter) :
                incident[j].created_at > incident[i].created_at}

\* Each incident is created once.
OnceCreated ==
    /\ \A c \in creating : incident[c.incident] = None
    /\ \A c, d \in creating : c.incident = d.incident => c = d

\* A row that is steady and not yet seen is still to come: as many rows as the
\* client has skipped are ahead of it.
StillToCome ==
    /\ walk.phase = "walking" =>
          /\ steady \subseteq Listed(walk.tenant, walk.filter)
          /\ \A i \in steady \ walk.seen : Excused(i) \/ walk.offset <= Cardinality(Ahead(i))
    /\ walk.phase = "done" => \A i \in steady \ walk.seen : Excused(i)

WalkInv == ApiInv /\ OnceCreated /\ StillToCome

\* A sequence that lists a set without repetition lists all of it.
LEMMA AllAreListed ==
    ASSUME NEW S, IsFiniteSet(S), NEW q \in SetToSeqs(S)
    PROVE  /\ Cardinality(S) \in Nat
           /\ q \in [1..Cardinality(S) -> S]
           /\ Len(q) = Cardinality(S)
           /\ \A k, l \in 1..Cardinality(S) : k # l => q[k] # q[l]
           /\ \A i \in S : \E k \in 1..Cardinality(S) : q[k] = i
<1> DEFINE D == 1..Cardinality(S)
<1>1. Cardinality(S) \in Nat
  BY FS_CardinalityType
<1>2. q \in [D -> S] /\ \A k, l \in D : k # l => q[k] # q[l]
  BY DEF SetToSeqs
<1>3. q \in Injection(D, S)
  BY <1>2 DEF Injection, IsInjective
<1>4. Cardinality(D) = Cardinality(S)
  BY <1>1, FS_Interval
<1>5. q \in Surjection(D, S)
  BY <1>3, <1>4, FS_Injection
<1>6. \A i \in S : \E k \in D : q[k] = i
  BY <1>5 DEF Surjection
<1>7. Len(q) = Cardinality(S)
  BY <1>1, <1>2
<1> QED BY <1>1, <1>2, <1>6, <1>7

\* A page that does not hold row i, cut at an offset with no fewer rows ahead of i,
\* is not empty, and the next offset has no fewer rows ahead of i either.
LEMMA PageGoesOn ==
    ASSUME NEW S \in SUBSET Incident, IsFiniteSet(S),
           \A j \in S : incident[j].created_at \in Nat,
           NEW offset \in Nat, NEW page \in Pages(S, offset),
           NEW i \in S \ page,
           \A j \in S \ {i} : incident[j].created_at # incident[i].created_at,
           offset <= Cardinality({j \in S : incident[j].created_at > incident[i].created_at})
    PROVE  /\ page # {}
           /\ offset + Cardinality(page) <=
                 Cardinality({j \in S : incident[j].created_at > incident[i].created_at})
<1> DEFINE A == {j \in S : incident[j].created_at > incident[i].created_at}
           n == Cardinality(S)
<1>1. PICK q \in Ordered(S) :
         page = ToSet(SubSeq(q, offset + 1, IF offset + PageSize < Len(q)
                                            THEN offset + PageSize ELSE Len(q)))
  BY DEF Pages
<1>2. /\ n \in Nat /\ q \in [1..n -> S] /\ Len(q) = n
      /\ \A k, l \in 1..n : k # l => q[k] # q[l]
      /\ \A j \in S : \E k \in 1..n : q[k] = j
  BY <1>1, AllAreListed DEF Ordered
<1>3. \A k \in 1..n : \A l \in 1..k : incident[q[l]].created_at >= incident[q[k]].created_at
  BY <1>1, <1>2 DEF Ordered
<1>4. PICK p \in 1..n : q[p] = i
  BY <1>2
<1>5. PageSize \in Nat \ {0}
  BY ApiAssumption DEF PageSize
<1>6. A = {q[k] : k \in 1..p - 1}
  <2>1. ASSUME NEW k \in 1..p - 1 PROVE q[k] \in A
    <3>1. k \in 1..n /\ k \in 1..p /\ k # p
      BY <1>2, <1>4
    <3>2. q[k] \in S /\ q[k] # i
      BY <1>2, <1>4, <3>1
    <3>3. incident[q[k]].created_at >= incident[i].created_at
      BY <1>3, <1>4, <3>1
    <3> QED BY <3>2, <3>3
  <2>2. ASSUME NEW j \in A PROVE \E k \in 1..p - 1 : q[k] = j
    <3>1. PICK k \in 1..n : q[k] = j
      BY <1>2
    <3>2. ~(k >= p)
      <4> SUFFICES ASSUME k >= p PROVE FALSE
        OBVIOUS
      <4>1. p \in 1..k
        BY <1>2, <1>4
      <4>2. incident[i].created_at >= incident[j].created_at
        BY <1>3, <1>4, <3>1, <4>1
      <4> QED BY <4>2
    <3> QED BY <1>2, <1>4, <3>1, <3>2
  <2> QED BY <2>1, <2>2
<1>7. IsFiniteSet(A) /\ Cardinality(A) = p - 1
  <2> DEFINE f == [k \in 1..p - 1 |-> q[k]]
  <2>1. f \in Surjection(1..p - 1, A)
    BY <1>6 DEF Surjection
  <2>2. f \in Injection(1..p - 1, A)
    <3>1. f \in [1..p - 1 -> A] /\ \A k \in 1..p - 1 : f[k] = q[k]
      BY <1>6
    <3>2. \A k, l \in 1..p - 1 : q[k] = q[l] => k = l
      BY <1>2, <1>4
    <3> HIDE DEF f, A
    <3> QED BY <3>1, <3>2 DEF Injection, IsInjective
  <2>3. IsFiniteSet(1..p - 1) /\ Cardinality(1..p - 1) = p - 1
    <3>1. p \in Nat \ {0} /\ p - 1 \in Int /\ (1 > p - 1 <=> p = 1)
      BY <1>2, <1>4
    <3>2. Cardinality(1..p - 1) = IF 1 > p - 1 THEN 0 ELSE (p - 1) - 1 + 1
      BY <3>1, FS_Interval
    <3> QED BY <3>1, <3>2, FS_Interval
  <2> HIDE DEF f, A
  <2> QED BY <2>1, <2>2, <2>3, FS_Surjection
<1>8. offset < p
  BY <1>7, <1>2, <1>4
<1> DEFINE last == IF offset + PageSize < n THEN offset + PageSize ELSE n
<1>9. last \in Nat /\ last <= n /\ offset < last
  BY <1>2, <1>4, <1>5, <1>8
<1>10. page = {q[k] : k \in offset + 1..last}
  <2>1. page = ToSet(SubSeq(q, offset + 1, last))
    BY <1>1, <1>2
  <2>2. q \in Seq(S)
    BY <1>2
  <2>3. /\ DOMAIN SubSeq(q, offset + 1, last) = 1..last - offset
        /\ \A k \in 1..last - offset : SubSeq(q, offset + 1, last)[k] = q[offset + k]
    BY <1>2, <1>9, <2>2
  <2>4. page = {q[offset + k] : k \in 1..last - offset}
    <3> DEFINE w == SubSeq(q, offset + 1, last)
    <3>1. page = {w[k] : k \in DOMAIN w}
      BY <2>1 DEF ToSet
    <3>2. DOMAIN w = 1..last - offset /\ \A k \in 1..last - offset : w[k] = q[offset + k]
      BY <2>3
    <3> HIDE DEF w, last
    <3> QED BY <3>1, <3>2
  <2>5. ASSUME NEW k \in offset + 1..last
        PROVE  k - offset \in 1..last - offset /\ q[k] = q[offset + (k - offset)]
    BY <1>9
  <2>6. ASSUME NEW k \in 1..last - offset
        PROVE  offset + k \in offset + 1..last
    BY <1>9
  <2> QED BY <2>4, <2>5, <2>6
<1>11. ~(p <= last)
  BY <1>2, <1>4, <1>8, <1>10
<1>12. last = offset + PageSize
  BY <1>2, <1>4, <1>5, <1>11
<1>13. Cardinality(page) \in Nat /\ Cardinality(page) <= PageSize
  <2> DEFINE f == [k \in offset + 1..last |-> q[k]]
  <2>1. f \in Surjection(offset + 1..last, page)
    BY <1>10 DEF Surjection
  <2>2. IsFiniteSet(offset + 1..last) /\ Cardinality(offset + 1..last) = PageSize
    BY <1>5, <1>9, <1>12, FS_Interval
  <2> HIDE DEF f, last
  <2>3. IsFiniteSet(page) /\ Cardinality(page) <= PageSize
    BY <2>1, <2>2, FS_Surjection
  <2> QED BY <2>3, FS_CardinalityType
<1>14. page # {}
  <2>1. offset + 1 \in offset + 1..last
    BY <1>9
  <2> QED BY <1>10, <2>1
<1> QED BY <1>5, <1>7, <1>11, <1>12, <1>13, <1>14

\* A table that gains or changes one row, which keeps tenant and stamp if it had
\* them: what is ahead of a row stays, or is seen to leave.
LEMMA RowStoredKeepsWalk ==
    ASSUME WalkInv, NEW i \in Incident, Watch(i),
           incident' \in [Incident -> Row \cup {None}], incident'[i] # None,
           \A j \in Incident \ {i} : incident'[j] = incident[j],
           incident[i] # None => /\ incident'[i].tenant = incident[i].tenant
                                 /\ incident'[i].created_at = incident[i].created_at
    PROVE  StillToCome'
<1> USE NoneAssumption
<1>1. walk' = walk /\ steady' \subseteq steady /\ left \subseteq left'
  BY DEF Watch
<1>2. \A j \in Incident : incident[j] # None =>
         /\ incident'[j] # None
         /\ incident'[j].tenant = incident[j].tenant
         /\ incident'[j].created_at = incident[j].created_at
  BY DEF WalkInv, ApiInv, TypeInv, TypeOK
<1>3. steady \cup left \subseteq {j \in Incident : incident[j] # None}
  BY DEF WalkInv, ApiInv, TypeInv, TypeOK
<1>4. \A j \in steady : Excused(j) => Excused(j)'
  BY <1>1, <1>2, <1>3 DEF Excused
<1>5. CASE walk.phase = "walking"
  <2> DEFINE L == Listed(walk.tenant, walk.filter)
  <2>1. L' = {j \in Incident : Matches(incident'[j], walk.tenant, walk.filter)}
    BY <1>1 DEF Listed
  <2>2. \A j \in Incident : /\ InWalk(j, incident) <=> j \in L
                            /\ InWalk(j, incident') <=> j \in L'
    BY <1>5, <2>1 DEF InWalk, Listed
  <2>3. steady' \subseteq L'
    <3>1. steady \ {i} \subseteq L'
      BY <1>3, <1>5, <2>1 DEF WalkInv, StillToCome, Listed
    <3>2. i \in steady' => i \in L'
      BY <2>2 DEF Watch
    <3> QED BY <1>1, <3>1, <3>2
  <2>4. ASSUME NEW j \in steady' \ walk.seen, ~Excused(j)'
        PROVE  walk.offset <= Cardinality(Ahead(j)')
    <3>1. walk.offset <= Cardinality(Ahead(j))
      BY <1>1, <1>4, <1>5, <2>4 DEF WalkInv, StillToCome
    <3>2. Ahead(j)' = {k \in L' : incident'[k].created_at > incident'[j].created_at}
      BY <1>1 DEF Ahead
    <3>3. ASSUME NEW k \in Ahead(j) PROVE k \in Ahead(j)'
      <4>1. k \in Incident /\ k \in L /\ incident[k] # None
            /\ incident[k].created_at > incident[j].created_at
        BY DEF Ahead, Listed, Matches
      <4>2. incident'[k].created_at > incident'[j].created_at
        BY <1>1, <1>2, <1>3, <4>1
      <4>3. k \notin left'
        BY <2>4, <4>2 DEF Excused
      <4>4. k \in L'
        <5>1. CASE k = i
          BY <2>2, <4>1, <4>3, <5>1 DEF Watch
        <5>2. CASE k # i
          BY <2>1, <4>1, <5>2 DEF Listed
        <5> QED BY <5>1, <5>2
      <4> QED BY <3>2, <4>2, <4>4
    <3>4. IsFiniteSet(Ahead(j)') /\ IsFiniteSet(Ahead(j))
      BY <2>1, <3>2, FS_Subset, ApiAssumption DEF Ahead, Listed
    <3>5. Cardinality(Ahead(j)) <= Cardinality(Ahead(j)')
      BY <3>3, <3>4, FS_Subset
    <3>6. Cardinality(Ahead(j)) \in Nat /\ Cardinality(Ahead(j)') \in Nat
          /\ walk.offset \in Nat
      BY <3>4, FS_CardinalityType DEF WalkInv, ApiInv, TypeInv, TypeOK
    <3> QED BY <3>1, <3>5, <3>6
  <2> QED BY <1>1, <1>5, <2>3, <2>4 DEF StillToCome
<1>6. CASE walk.phase = "done"
  BY <1>1, <1>4, <1>6 DEF WalkInv, StillToCome
<1>7. CASE walk.phase = "idle"
  BY <1>1, <1>7 DEF StillToCome
<1> QED BY <1>5, <1>6, <1>7 DEF WalkInv, ApiInv, TypeInv, TypeOK

\* The next page: a row still to come is on it, or is still to come after it.
LEMMA NextPageKeepsWalk ==
    ASSUME WalkInv, NextPage
    PROVE  StillToCome'
<1> USE NoneAssumption
<1> DEFINE L == Listed(walk.tenant, walk.filter)
<1>1. PICK page \in Pages(L, walk.offset) :
        walk' = IF page = {}
                THEN [walk EXCEPT !.phase = "done"]
                ELSE [walk EXCEPT !.offset = walk.offset + Cardinality(page),
                                  !.seen = walk.seen \cup page]
  BY DEF NextPage
<1>2. UNCHANGED <<incident, steady, left>> /\ walk.phase = "walking"
  BY DEF NextPage, tables
<1>3. WalkType
  BY DEF WalkInv, ApiInv, TypeInv
<1>4. walk'.tenant = walk.tenant /\ walk'.filter = walk.filter
  BY <1>1, <1>3 DEF WalkType
<1>5. L' = L /\ (\A i : Ahead(i)' = Ahead(i)) /\ (\A i : Excused(i)' <=> Excused(i))
  BY <1>2, <1>4 DEF Listed, Ahead, Excused
<1>6. steady \subseteq L /\ L \subseteq Incident /\ walk.offset \in Nat
  BY <1>2, <1>3 DEF WalkInv, StillToCome, Listed, WalkType
<1>7. IsFiniteSet(L) /\ \A j \in L : /\ incident[j] # None /\ incident[j].tenant = walk.tenant
                                     /\ incident[j].created_at \in Nat
  <2>1. IsFiniteSet(L)
    BY <1>6, FS_Subset, ApiAssumption
  <2>2. \A j \in L : incident[j] # None /\ incident[j].tenant = walk.tenant
    BY DEF Listed, Matches
  <2>3. \A j \in L : incident[j] \in Row
    BY <1>6, <2>2 DEF WalkInv, ApiInv, TypeInv, TypeOK
  <2>4. \A j \in L : incident[j].created_at \in Nat
    BY <2>3, ApiAssumption DEF Row
  <2> QED BY <2>1, <2>2, <2>4
<1>8. ASSUME NEW i \in steady \ walk.seen, i \notin page, ~Excused(i)
      PROVE  page # {} /\ walk.offset + Cardinality(page) <= Cardinality(Ahead(i))
  <2>1. walk.offset <= Cardinality(Ahead(i))
    BY <1>2, <1>8 DEF WalkInv, StillToCome
  <2>2. \A j \in L \ {i} : incident[j].created_at # incident[i].created_at
    BY <1>6, <1>7, <1>8 DEF Excused
  <2>3. Ahead(i) = {j \in L : incident[j].created_at > incident[i].created_at}
    BY DEF Ahead
  <2> HIDE DEF L
  <2> QED BY <1>6, <1>7, <1>8, <2>1, <2>2, <2>3, PageGoesOn
<1>9. CASE page = {}
  <2>1. walk'.phase = "done" /\ walk'.seen = walk.seen
    BY <1>1, <1>3, <1>9 DEF WalkType
  <2>2. \A i \in steady \ walk.seen : Excused(i)
    BY <1>8, <1>9
  <2> QED BY <1>2, <1>5, <2>1, <2>2 DEF StillToCome
<1>10. CASE page # {}
  <2>1. /\ walk'.phase = "walking" /\ walk'.seen = walk.seen \cup page
        /\ walk'.offset = walk.offset + Cardinality(page)
    <3>1. walk' = [walk EXCEPT !.offset = walk.offset + Cardinality(page),
                               !.seen = walk.seen \cup page]
      BY <1>1, <1>10
    <3> QED BY <1>2, <1>3, <3>1 DEF WalkType
  <2>2. \A i \in steady \ walk'.seen : Excused(i) \/ walk'.offset <= Cardinality(Ahead(i))
    BY <1>8, <2>1
  <2>3. (steady \subseteq L)'
    BY <1>2, <1>5, <1>6
  <2> QED BY <1>2, <1>5, <2>1, <2>2, <2>3 DEF StillToCome
<1> QED BY <1>9, <1>10

\* A creation begins, or a connector registers: no row changes and no walk moves.
LEMMA OtherStepKeepsWalk ==
    ASSUME WalkInv, UNCHANGED <<incident, paging>>
    PROVE  StillToCome'
BY DEF WalkInv, StillToCome, Excused, Ahead, Listed, paging

\* A client sets out with nothing seen and nothing skipped.
LEMMA SetOutKeepsWalk ==
    ASSUME WalkInv, NEW h \in Header, NEW f \in Filter, SetOut(h, f)
    PROVE  StillToCome'
<1>1. /\ walk'.phase = "walking" /\ walk'.offset = 0
      /\ walk'.tenant = TenantOf(h) /\ walk'.filter = f
  BY DEF SetOut, Idle
<1>2. steady' = Listed(walk.tenant, walk.filter)'
  BY <1>1 DEF SetOut, Listed, tables
<1>3. ASSUME NEW i \in steady' PROVE 0 <= Cardinality(Ahead(i)')
  <2>1. Ahead(i)' \subseteq Incident
    BY DEF Ahead, Listed
  <2>2. Cardinality(Ahead(i)') \in Nat
    BY <2>1, FS_Subset, FS_CardinalityType, ApiAssumption
  <2> QED BY <2>2
<1> QED BY <1>1, <1>2, <1>3 DEF StillToCome

\* An incident is stamped once, and its row is stored once.
LEMMA OnceCreatedInv == WalkInv /\ [Next]_vars => OnceCreated'
<1> SUFFICES ASSUME WalkInv, [Next]_vars PROVE OnceCreated'
  OBVIOUS
<1> USE ApiAssumption, NoneAssumption
<1>1. \A i \in Incident : sender[i] = None => incident[i] = None
  BY DEF WalkInv, ApiInv, RowsOfSender, SentBy
<1>2. \A c \in creating : c.incident \in Incident /\ sender[c.incident] # None
  BY DEF WalkInv, ApiInv, TypeInv, TypeOK, RowsOfSender, SentBy
<1>3. ASSUME NEW h \in Header, NEW i \in Incident, StartCreate(h, i)
      PROVE  OnceCreated'
  <2>1. PICK row : creating' = creating \cup {[incident |-> i, row |-> row]}
    BY <1>3 DEF StartCreate
  <2>2. incident' = incident /\ incident[i] = None /\ sender[i] = None
    BY <1>1, <1>3 DEF StartCreate, tables
  <2>3. \A c \in creating : c.incident # i
    BY <1>2, <2>2
  <2> QED BY <2>1, <2>2, <2>3 DEF WalkInv, OnceCreated
<1>4. ASSUME NEW c \in creating, Created(c) \/ CreateFails(c)
      PROVE  OnceCreated'
  <2>1. creating' = creating \ {c}
    BY <1>4 DEF Created, CreateFails
  <2>2. \A d \in creating' : incident'[d.incident] = incident[d.incident]
    BY <1>2, <1>4, <2>1 DEF WalkInv, ApiInv, TypeInv, TypeOK, OnceCreated, Created, CreateFails
  <2> QED BY <2>1, <2>2 DEF WalkInv, OnceCreated
<1>5. ASSUME NEW h \in Header, NEW i \in Incident, NEW status \in PatchStatus,
             Patch(h, i, status)
      PROVE  OnceCreated'
  <2>1. \A j \in Incident : incident[j] = None => incident'[j] = None
    BY <1>5 DEF WalkInv, ApiInv, TypeInv, TypeOK, Patch, Visible
  <2> QED BY <1>2, <1>5, <2>1 DEF WalkInv, OnceCreated, Patch
<1>6. ASSUME UNCHANGED <<incident, creating>>
      PROVE  OnceCreated'
  BY <1>6 DEF WalkInv, OnceCreated
<1> QED
  BY <1>3, <1>4, <1>5, <1>6 DEF Next, Register, SetOut, NextPage, vars, tables

\* Every step keeps what is still to come.
LEMMA WalkStep == WalkInv /\ [Next]_vars => WalkInv'
<1> SUFFICES ASSUME WalkInv, [Next]_vars PROVE WalkInv'
  OBVIOUS
<1> USE NoneAssumption
<1>1. ApiInv'
  BY StepInv DEF WalkInv
<1>2. OnceCreated'
  BY OnceCreatedInv
<1>3. StillToCome'
  <2>1. ASSUME NEW h \in Header, NEW i \in Incident, StartCreate(h, i)
        PROVE  StillToCome'
    BY <2>1, OtherStepKeepsWalk DEF StartCreate, tables
  <2>2. ASSUME NEW h \in Header, NEW c \in Connector, NEW cap \in Capabilities,
               Register(h, c, cap)
        PROVE  StillToCome'
    BY <2>2, OtherStepKeepsWalk DEF Register
  <2>3. ASSUME NEW c \in creating, Created(c) \/ CreateFails(c)
        PROVE  StillToCome'
    <3>1. c.incident \in Incident /\ c.row \in Row /\ incident[c.incident] = None
      BY DEF WalkInv, ApiInv, TypeInv, TypeOK, OnceCreated
    <3>2. CASE incident' = [incident EXCEPT ![c.incident] = c.row] /\ Watch(c.incident)
      <4>1. /\ incident' \in [Incident -> Row \cup {None}]
            /\ incident'[c.incident] # None
            /\ \A j \in Incident \ {c.incident} : incident'[j] = incident[j]
        BY <3>1, <3>2 DEF WalkInv, ApiInv, TypeInv, TypeOK
      <4> QED BY <3>1, <3>2, <4>1, RowStoredKeepsWalk
    <3>3. CASE UNCHANGED <<incident, paging>>
      BY <3>3, OtherStepKeepsWalk
    <3> QED BY <2>3, <3>2, <3>3 DEF Created, CreateFails
  <2>4. ASSUME NEW h \in Header, NEW i \in Incident, NEW status \in PatchStatus,
               Patch(h, i, status)
        PROVE  StillToCome'
    <3>1. incident[i] \in Row
      BY <2>4 DEF WalkInv, ApiInv, TypeInv, TypeOK, Patch, Visible
    <3>2. incident' = [incident EXCEPT ![i] = [incident[i] EXCEPT !.status = status]]
      BY <2>4 DEF Patch
    <3>3. [incident[i] EXCEPT !.status = status] \in Row
      BY <3>1, ApiAssumption DEF Row
    <3>4. /\ incident' \in [Incident -> Row \cup {None}]
          /\ incident'[i] = [incident[i] EXCEPT !.status = status] /\ incident'[i] # None
          /\ \A j \in Incident \ {i} : incident'[j] = incident[j]
      BY <3>2, <3>3 DEF WalkInv, ApiInv, TypeInv, TypeOK
    <3>5. /\ incident'[i].tenant = incident[i].tenant
          /\ incident'[i].created_at = incident[i].created_at
      BY <3>1, <3>4 DEF Row
    <3> QED BY <2>4, <3>4, <3>5, RowStoredKeepsWalk DEF Patch
  <2>5. ASSUME NEW h \in Header, NEW f \in Filter, SetOut(h, f)
        PROVE  StillToCome'
    BY <2>5, SetOutKeepsWalk
  <2>6. CASE NextPage
    BY <2>6, NextPageKeepsWalk
  <2>7. CASE UNCHANGED vars
    BY <2>7, OtherStepKeepsWalk DEF vars, tables
  <2> QED BY <2>1, <2>2, <2>3, <2>4, <2>5, <2>6, <2>7 DEF Next
<1> QED BY <1>1, <1>2, <1>3 DEF WalkInv

\* A client that reads page after page has seen every row that matched throughout,
\* for any page size and any number of creations and changes meanwhile, but for
\* rows of one stamp and those a departing row has moved up
\* (persistence/incidents.go, List: ORDER BY created_at DESC LIMIT OFFSET).
THEOREM PagingMissesNothing == Spec => []WalkSeesAll
<1>1. Init => WalkInv
  BY InitInv DEF Init, WalkInv, OnceCreated, StillToCome, Idle
<1>2. WalkInv => WalkSeesAll
  BY DEF WalkInv, StillToCome, WalkSeesAll
<1> QED BY <1>1, <1>2, WalkStep, PTL DEF Spec
=============================================================================
