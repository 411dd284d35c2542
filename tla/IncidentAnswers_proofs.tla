----------------------- MODULE IncidentAnswers_proofs -----------------------
(* Further theorems about IncidentService: what a patch may do to a row,    *)
(* what a caller is told about it, what the relay and the connectors may    *)
(* take from the outbox, and why a move the table does not have can happen. *)
EXTENDS IncidentService_proofs, FiniteSetTheorems

-----------------------------------------------------------------------------
(* The invariant.                                                           *)

\* A patch past its read: it has been validated, and it may write.
Validated(r) == pc[r] = "update" \/ Writing(r)

\* The row a request writes is of the request's own tenant: a create's by
\* construction, a patch's since it was read under the tenant, and no row ever
\* moves to another tenant.
TenantHeld(r) ==
    /\ pc[r] \in InTx \cup {"begin"} /\ call[r].op = "create" =>
          tx[r].row.tenant = call[r].tenant
    /\ Validated(r) /\ call[r].op = "patch" =>
          incident[call[r].incident].tenant = call[r].tenant

\* From its UPDATE to its commit a patch holds the committed row with its own
\* fields on top: the row lock keeps the committed row still meanwhile.
PatchHeld(r) ==
    Writing(r) /\ call[r].op = "patch" =>
       tx[r].row = Patched(incident[call[r].incident], call[r].input,
                           tx[r].prior, tx[r].at)

\* The move was checked against the row that was read, and is announced from
\* that row's status exactly when it leaves that status.
MoveAnnounced(r) ==
    /\ Validated(r) /\ call[r].op = "patch" => ValidPatch(call[r].input, tx[r].prior)
    /\ pc[r] \in {"enqueue_status_changed", "enqueue_closed"} => StatusChanged(r)
    /\ pc[r] = "commit" /\ Writing(r) /\ call[r].op = "patch" /\ StatusChanged(r) =>
          "incident.status_changed" \in TypesOf(tx[r].events)
    /\ \A e \in tx[r].events : e.type = "incident.status_changed" =>
          StatusChanged(r) /\ e.from = tx[r].prior.status /\ e.to = call[r].input.status

PatchInv(r) == TenantHeld(r) /\ PatchHeld(r) /\ MoveAnnounced(r)

PatchesInv == \A r \in Request : PatchInv(r)

\* What the committed tables hold of a request.
LoggedFor(r) == {a \in audit : a.request = r}
StagedFor(r) == {e \in outbox : e.request = r}

\* Exactly the requests that have ended have an answer, and the answer says
\* what is kept of them.
AnswerInv(r) ==
    /\ result[r] = None <=> pc[r] # "done"
    /\ result[r] \in {"rejected", "not_found"} => LoggedFor(r) = {} /\ StagedFor(r) = {}
    /\ result[r] = "denied" =>
          StagedFor(r) = {} /\ \A a \in LoggedFor(r) : a.result = "denied"
    /\ result[r] \in {"ok", "error"} =>
          \/ LoggedFor(r) = {} /\ StagedFor(r) = {}
          \/ StagedFor(r) # {} /\ \E a \in audit : LoggedFor(r) = {a}
    /\ result[r] = "ok" /\ call[r].op = "create" =>
          incident[r] # NoRow /\ StagedFor(r) # {}

AnswersInv == \A r \in Request : AnswerInv(r)
-----------------------------------------------------------------------------
(* Steps.                                                                   *)

\* The steps of r leave what the other requests have at hand alone, and only
\* a commit changes a row.
LEMMA OneAtATime ==
    ASSUME TypeInv, NEW r \in Request,
           Start(r) \/ Progress(r) \/ LoseDenial(r) \/ Fail(r)
    PROVE  /\ \A q \in Request \ {r} :
                 /\ pc'[q] = pc[q] /\ call'[q] = call[q]
                 /\ tx'[q] = tx[q] /\ result'[q] = result[q]
           /\ pc[r] # "done"
           /\ pc[r] # "idle" => call' = call
           /\ ~Commit(r) => incident' = incident /\ outbox' = outbox
<1> USE DEF TypeInv, TypeOK, database
<1>1. CASE Start(r)
  BY <1>1 DEF Start, Deny, RejectCreate, StartCreate, StartPatch, Arrive, Goto, Answer
<1>2. CASE \/ RecordDenial(r) \/ LoseDenial(r) \/ InsertConflict(r) \/ NotFound(r)
           \/ RejectPatch(r) \/ Fail(r)
  BY <1>2 DEF RecordDenial, LoseDenial, InsertConflict, NotFound, RejectPatch, Fail,
              Rollback, Release, Answer, Goto, InTx
<1>3. CASE \/ BeginDenial(r) \/ Begin(r) \/ Insert(r) \/ ReadUnchanged(r) \/ Read(r)
           \/ Update(r)
  BY <1>3 DEF BeginDenial, Begin, Insert, ReadUnchanged, Read, Update, Goto
<1>4. CASE \/ RecordAudit(r) \/ EnqueueCreated(r) \/ EnqueueUpdated(r)
           \/ EnqueueStatusChanged(r) \/ EnqueueClosed(r)
  BY <1>4 DEF RecordAudit, EnqueueCreated, EnqueueUpdated, EnqueueStatusChanged,
              EnqueueClosed, Enqueue, Goto
<1>5. CASE Commit(r)
  BY <1>5 DEF Commit, Release, Answer, Goto
<1> QED BY <1>1, <1>2, <1>3, <1>4, <1>5 DEF Progress

\* A step that ends r at its commit and changes a row is its commit.
LEMMA CommitStep ==
    ASSUME TypeInv, [Next]_vars, NEW r \in Request, CommitsRow(r)
    PROVE  Commit(r) /\ tx[r].row # NoRow
<1>1. PICK q \in Request : Start(q) \/ Progress(q) \/ LoseDenial(q) \/ Fail(q)
  BY DEF CommitsRow, Next, vars
<1>2. q = r /\ Commit(r)
  BY <1>1, OneAtATime DEF CommitsRow
<1> QED BY <1>2 DEF CommitsRow, Commit

\* A row that a step changes is the target of a commit.
LEMMA ChangedRow ==
    ASSUME LedgerInv, [Next]_vars, NEW i \in Incident, incident'[i] # incident[i]
    PROVE  \E r \in Request : /\ Commit(r) /\ CommitsRow(r) /\ Target(r) = i
                              /\ tx[r].row # NoRow /\ incident'[i] = tx[r].row
<1>1. PICK r \in Request : Start(r) \/ Progress(r) \/ LoseDenial(r) \/ Fail(r)
  BY DEF Next, vars
<1>2. Commit(r)
  BY <1>1, OneAtATime DEF LedgerInv
<1> QED BY <1>2, CommitFacts DEF CommitsRow

\* A row that a step changes keeps its tenant.
LEMMA TenantKept ==
    ASSUME LedgerInv, [Next]_vars, NEW i \in Incident, incident[i] # NoRow
    PROVE  incident'[i].tenant = incident[i].tenant
<1> SUFFICES ASSUME incident'[i] # incident[i]
             PROVE  incident'[i].tenant = incident[i].tenant
  OBVIOUS
<1>1. PICK r \in Request : /\ Commit(r) /\ Target(r) = i
                           /\ tx[r].row # NoRow /\ incident'[i] = tx[r].row
  BY ChangedRow
<1>2. /\ call[r] \in Call /\ WriteInv(r) /\ Writing(r)
      /\ pc[r] = "commit" /\ incident[r] = NoRow
  BY <1>1, CommitFacts DEF LedgerInv, Committed
<1>3. call[r].op = "patch" /\ call[r].incident = i
  BY <1>1, <1>2, CallKinds DEF Target
<1>4. tx[r].row["tenant"] = incident[i]["tenant"]
  BY <1>2, <1>3 DEF WriteInv, RowHeld
<1> QED BY <1>1, <1>4

\* The steps of r leave what the other patches rest on.
LEMMA PatchOthers ==
    ASSUME LedgerInv, PatchesInv, NEW r \in Request, NEW q \in Request \ {r},
           Start(r) \/ Progress(r) \/ LoseDenial(r) \/ Fail(r)
    PROVE  PatchInv(q)'
<1>1. /\ pc'[q] = pc[q] /\ call'[q] = call[q] /\ tx'[q] = tx[q] /\ PatchInv(q)
      /\ (Writing(q)' <=> Writing(q)) /\ (Validated(q)' <=> Validated(q))
      /\ (StatusChanged(q)' <=> StatusChanged(q))
  BY OneAtATime DEF LedgerInv, PatchesInv, Writing, Validated, StatusChanged
<1>2. MoveAnnounced(q)'
  BY <1>1 DEF PatchInv, MoveAnnounced, TypesOf
<1>3. ASSUME Validated(q), call[q].op = "patch"
      PROVE  call[q].incident \in Incident /\ incident[call[q].incident] # NoRow
  <2>1. pc[q] # "idle" /\ RequestInv(q)
    BY <1>3 DEF Validated, Writing, HasWritten, LedgerInv, TypeInv
  <2> QED BY <1>3, <2>1, CallKinds, ConstantAssumption
          DEF Validated, Writing, RequestInv, Staged, PatchChecked
<1>4. TenantHeld(q)'
  <2>1. Next
    BY DEF Next
  <2> QED BY <1>1, <1>3, <2>1, TenantKept DEF PatchInv, TenantHeld
<1>5. PatchHeld(q)'
  <2> SUFFICES ASSUME Writing(q), call[q].op = "patch"
               PROVE  incident'[call[q].incident] = incident[call[q].incident]
    BY <1>1 DEF PatchInv, PatchHeld
  <2>1. CASE Commit(r) /\ tx[r].row # NoRow
    <3>1. Writing(r) /\ \A i \in Incident \ {Target(r)} : incident'[i] = incident[i]
      BY <2>1, CommitFacts
    <3>2. Target(q) # Target(r) /\ Target(q) = call[q].incident
      BY <3>1, DistinctTargets DEF Target
    <3> QED BY <1>3, <3>1, <3>2 DEF Validated
  <2>2. CASE ~(Commit(r) /\ tx[r].row # NoRow)
    BY <2>2, OneAtATime, CommitFacts DEF LedgerInv
  <2> QED BY <2>1, <2>2
<1> QED BY <1>2, <1>4, <1>5 DEF PatchInv

\* A request outside its writing stages has nothing to keep but its tenant.
LEMMA PatchPlain ==
    ASSUME LedgerInv, PatchesInv, NEW r \in Request,
           \/ Start(r) \/ BeginDenial(r) \/ RecordDenial(r) \/ LoseDenial(r) \/ Begin(r)
           \/ Insert(r) \/ InsertConflict(r) \/ NotFound(r) \/ RejectPatch(r)
           \/ ReadUnchanged(r) \/ Commit(r) \/ Fail(r)
    PROVE  PatchInv(r)'
<1> USE DEF LedgerInv, TypeInv, TypeOK
<1>1. /\ RequestInv(r) /\ WriteInv(r) /\ PatchInv(r)
      /\ pc \in [Request -> PC] /\ tx \in [Request -> Tx] /\ tx[r] \in Tx
      /\ call \in [Request -> Call \cup {None}]
  BY DEF PatchesInv
<1>2. CASE Start(r)
  <2> PICK c \in Call : Deny(r, c) \/ RejectCreate(r, c) \/ StartCreate(r, c) \/ StartPatch(r, c)
    BY <1>2 DEF Start
  <2>1. /\ tx[r] = NoTx /\ call'[r] = c
        /\ pc'[r] \in {"denied", "done", "begin"}
    BY <1>1 DEF Deny, RejectCreate, StartCreate, StartPatch, Arrive, Goto, Answer,
                RequestInv, Staged
  <2>2. /\ tx'[r].events = {}
        /\ pc'[r] = "begin" /\ c.op = "create" => tx'[r].row = NewRow(c, now')
    <3>1. CASE StartCreate(r, c)
      <4> DEFINE new == [tx[r] EXCEPT !.row = NewRow(c, now'), !.at = now']
      <4>1. new.events = {} /\ new.row = NewRow(c, now')
        BY <1>1, <2>1, NoTxType DEF Tx
      <4>2. tx' = [tx EXCEPT ![r] = new]
        BY <3>1 DEF StartCreate
      <4> HIDE DEF new
      <4> QED BY <1>1, <4>1, <4>2
    <3>2. CASE Deny(r, c) \/ RejectCreate(r, c) \/ StartPatch(r, c)
      BY <1>1, <2>1, <3>2, NoTxType DEF Deny, RejectCreate, StartPatch, Goto, Answer
    <3> QED BY <3>1, <3>2
  <2>3. NewRow(c, now').tenant = c.tenant
    BY DEF NewRow
  <2> QED BY <2>1, <2>2, <2>3
          DEF PatchInv, TenantHeld, PatchHeld, MoveAnnounced, Validated, Writing,
              HasWritten, InTx
<1>3. CASE \/ RecordDenial(r) \/ LoseDenial(r) \/ InsertConflict(r) \/ NotFound(r)
           \/ RejectPatch(r) \/ Commit(r) \/ Fail(r)
  <2>1. pc'[r] = "done" /\ tx'[r] = NoTx
    BY <1>1, <1>3
       DEF RecordDenial, LoseDenial, InsertConflict, NotFound, RejectPatch, Commit, Fail,
           Rollback, Release, Answer, Goto, RequestInv, Staged
  <2> QED BY <2>1, NoTxType
          DEF PatchInv, TenantHeld, PatchHeld, MoveAnnounced, Validated, Writing,
              HasWritten, InTx
<1>4. CASE Begin(r) \/ Insert(r) \/ ReadUnchanged(r)
  <2>1. /\ UNCHANGED <<incident, call, tx>> /\ pc[r] \in InTx \cup {"begin"}
        /\ \/ pc[r] = "insert" /\ pc'[r] = "audit" /\ call[r].op = "create"
           \/ pc'[r] \in {"insert", "read"}
           \/ pc'[r] = "commit" /\ call[r].op = "patch" /\ tx[r] = NoTx
        /\ pc[r] \in {"begin", "insert", "read"}
    BY <1>1, <1>4 DEF Begin, Insert, ReadUnchanged, Goto, database, RequestInv, Staged, InTx
  <2>2. tx[r].events = {} /\ ~Writing(r)
    BY <1>1, <2>1 DEF WriteInv, Contents, Writing, HasWritten
  <2>3. /\ call[r].op = "create" => tx[r].row.tenant = call[r].tenant
        /\ Validated(r)' => call[r].op = "create"
    BY <1>1, <2>1, NoTxType DEF PatchInv, TenantHeld, Validated, Writing, HasWritten
  <2>4. call[r].op = "create" => call[r].op # "patch"
    OBVIOUS
  <2>5. Writing(r)' => Validated(r)'
    BY DEF Validated
  <2> QED BY <2>1, <2>2, <2>3, <2>4, <2>5
          DEF PatchInv, TenantHeld, PatchHeld, MoveAnnounced
<1>5. CASE BeginDenial(r)
  <2>1. pc'[r] = "record_denial" /\ tx'[r] = NoTx
    BY <1>1, <1>5 DEF BeginDenial, Goto, RequestInv, Staged
  <2> QED BY <2>1, NoTxType
          DEF PatchInv, TenantHeld, PatchHeld, MoveAnnounced, Validated, Writing,
              HasWritten, InTx
<1> QED BY <1>2, <1>3, <1>4, <1>5

\* The read: the patch is of the row's tenant and legal for the row it read.
LEMMA PatchRead ==
    ASSUME LedgerInv, PatchesInv, NEW r \in Request, Read(r)
    PROVE  PatchInv(r)'
<1> DEFINE i == call[r].incident
           new == [tx[r] EXCEPT !.prior = incident[i], !.at = now + 1]
<1>1. /\ RequestInv(r) /\ WriteInv(r)
      /\ pc \in [Request -> PC] /\ tx \in [Request -> Tx] /\ tx[r] \in Tx
  BY DEF LedgerInv, TypeInv, TypeOK
<1>2. /\ pc[r] = "read" /\ pc'[r] = "update" /\ call[r].op = "patch"
      /\ incident[i].tenant = call[r].tenant
      /\ ValidPatch(call[r].input, incident[i])
      /\ UNCHANGED <<incident, call>> /\ tx' = [tx EXCEPT ![r] = new]
  BY <1>1 DEF Read, Visible, Goto, database, RequestInv, Staged
<1>3. tx[r].events = {}
  BY <1>1, <1>2, NoTxType DEF RequestInv, Staged
<1>4. new.prior = incident[i] /\ new.events = tx[r].events
  BY <1>1 DEF Tx
<1> HIDE DEF new
<1>5. tx'[r].prior = incident[i] /\ tx'[r].events = {}
  BY <1>1, <1>2, <1>3, <1>4
<1> QED BY <1>2, <1>5
        DEF PatchInv, TenantHeld, PatchHeld, MoveAnnounced, Validated, Writing, HasWritten

\* The UPDATE: the row held is the patch over the committed row.
LEMMA PatchUpdate ==
    ASSUME LedgerInv, PatchesInv, NEW r \in Request, Update(r)
    PROVE  PatchInv(r)'
<1> DEFINE row == Patched(incident[call[r].incident], call[r].input, tx[r].prior, tx[r].at)
           new == [tx[r] EXCEPT !.row = row]
<1>1. /\ RequestInv(r) /\ WriteInv(r) /\ PatchInv(r)
      /\ pc \in [Request -> PC] /\ tx \in [Request -> Tx] /\ tx[r] \in Tx
  BY DEF LedgerInv, TypeInv, TypeOK, PatchesInv
<1>2. /\ pc[r] = "update" /\ pc'[r] = "audit" /\ call[r].op = "patch"
      /\ UNCHANGED <<incident, call>> /\ tx' = [tx EXCEPT ![r] = new]
  BY <1>1 DEF Update, Goto, database, RequestInv, Staged
<1>3. tx[r].events = {}
  BY <1>1, <1>2 DEF WriteInv, Contents, Writing, HasWritten
<1>4. /\ new.row = row /\ new.prior = tx[r].prior /\ new.at = tx[r].at
      /\ new.events = tx[r].events
  <2> HIDE DEF row
  <2> QED BY <1>1 DEF Tx
<1> HIDE DEF row, new
<1>5. /\ tx'[r].row = row /\ tx'[r].prior = tx[r].prior /\ tx'[r].at = tx[r].at
      /\ tx'[r].events = {}
  BY <1>1, <1>2, <1>3, <1>4
<1>6. TenantHeld(r)' /\ ValidPatch(call[r].input, tx[r].prior)
  BY <1>1, <1>2 DEF PatchInv, TenantHeld, MoveAnnounced, Validated
<1>7. PatchHeld(r)'
  BY <1>2, <1>5 DEF PatchHeld, row
<1> QED BY <1>2, <1>5, <1>6, <1>7 DEF PatchInv, MoveAnnounced

\* The writes that follow change neither the row nor what it was made of; a
\* status event is among them exactly when the status moves.
LEMMA PatchWrite ==
    ASSUME LedgerInv, PatchesInv, NEW r \in Request,
           \/ RecordAudit(r) \/ EnqueueCreated(r) \/ EnqueueUpdated(r)
           \/ EnqueueStatusChanged(r) \/ EnqueueClosed(r)
    PROVE  PatchInv(r)'
<1>1. /\ RequestInv(r) /\ WriteInv(r) /\ PatchInv(r)
      /\ pc \in [Request -> PC] /\ tx \in [Request -> Tx] /\ tx[r] \in Tx
  BY DEF LedgerInv, TypeInv, TypeOK, PatchesInv
<1>2. /\ pc[r] \in HasWritten \ {"commit"} /\ Writing(r) /\ call[r] \in Call
      /\ pc'[r] \in HasWritten /\ UNCHANGED <<incident, call>>
  BY <1>1, ConstantAssumption
     DEF RecordAudit, EnqueueCreated, EnqueueUpdated, EnqueueStatusChanged, EnqueueClosed,
         Enqueue, Goto, database, RequestInv, Staged, RowPending, HasWritten, Writing
<1>3. \E evs : /\ tx'[r].events = evs
               /\ tx'[r].row = tx[r].row /\ tx'[r].prior = tx[r].prior
               /\ tx'[r].at = tx[r].at
               /\ evs = tx[r].events \/ \E e : Enqueue(r, e) /\ evs = tx[r].events \cup {e}
  <2>1. CASE RecordAudit(r)
    BY <1>1, <2>1 DEF RecordAudit, Tx
  <2>2. ASSUME NEW e, Enqueue(r, e)
        PROVE  /\ tx'[r].events = tx[r].events \cup {e}
               /\ tx'[r].row = tx[r].row /\ tx'[r].prior = tx[r].prior
               /\ tx'[r].at = tx[r].at
    BY <1>1, <2>2 DEF Enqueue, Tx
  <2>3. (\E e : Enqueue(r, e)) \/ RecordAudit(r)
    BY DEF EnqueueCreated, EnqueueUpdated, EnqueueStatusChanged, EnqueueClosed
  <2> QED BY <2>1, <2>2, <2>3
<1>4. /\ Writing(r)' /\ (StatusChanged(r)' <=> StatusChanged(r))
      /\ tx'[r].row = tx[r].row /\ tx'[r].prior = tx[r].prior /\ tx'[r].at = tx[r].at
  BY <1>2, <1>3 DEF Writing, StatusChanged
<1>5. TenantHeld(r)'
  BY <1>1, <1>2, <1>4 DEF PatchInv, TenantHeld, Validated, HasWritten, InTx
<1>6. PatchHeld(r)'
  BY <1>1, <1>2, <1>4 DEF PatchInv, PatchHeld
<1>7. MoveAnnounced(r)'
  <2>1. /\ Validated(r)' /\ call'[r].op = "patch" => ValidPatch(call'[r].input, tx'[r].prior)
    BY <1>1, <1>2, <1>4 DEF PatchInv, MoveAnnounced, Validated
  <2>2. pc'[r] \in {"enqueue_status_changed", "enqueue_closed"} => StatusChanged(r)'
    BY <1>1, <1>4 DEF RecordAudit, EnqueueCreated, EnqueueUpdated, EnqueueStatusChanged,
                      EnqueueClosed, Goto, PatchInv, MoveAnnounced
  <2>3. ASSUME NEW e \in tx'[r].events, e.type = "incident.status_changed"
        PROVE  /\ StatusChanged(r)' /\ e.from = tx'[r].prior.status
               /\ e.to = call'[r].input.status
    <3>1. CASE e \in tx[r].events
      BY <1>1, <1>2, <1>4, <2>3, <3>1 DEF PatchInv, MoveAnnounced
    <3>2. CASE e \notin tx[r].events
      <4>1. tx'[r].events = tx[r].events \cup {e} /\ Enqueue(r, e)
        BY <1>3, <2>3, <3>2
      <4>2. CASE EnqueueStatusChanged(r)
        <5>1. tx'[r].events = tx[r].events \cup
                {NewEvent(r, "incident.status_changed", now', NoRow,
                          tx[r].prior.status, call[r].input.status)}
          BY <1>1, <4>2 DEF EnqueueStatusChanged, Enqueue, Tx
        <5>2. e = NewEvent(r, "incident.status_changed", now', NoRow,
                           tx[r].prior.status, call[r].input.status)
          BY <3>2, <4>1, <5>1
        <5>3. StatusChanged(r)
          BY <1>1, <4>2 DEF EnqueueStatusChanged, PatchInv, MoveAnnounced
        <5> QED BY <1>2, <1>4, <5>2, <5>3 DEF NewEvent
      <4>3. ASSUME NEW f, Enqueue(r, f), f.type # "incident.status_changed" PROVE FALSE
        <5>1. tx'[r].events = tx[r].events \cup {f}
          BY <1>1, <4>3 DEF Enqueue, Tx
        <5> QED BY <2>3, <3>2, <4>1, <4>3, <5>1
      <4>4. ~RecordAudit(r)
        <5>1. RecordAudit(r) => tx'[r].events = tx[r].events
          BY <1>1 DEF RecordAudit, Tx
        <5> QED BY <2>3, <3>2, <5>1
      <4>5. CASE EnqueueCreated(r)
        BY <4>3, <4>5 DEF EnqueueCreated, NewEvent
      <4>6. CASE EnqueueUpdated(r)
        BY <4>3, <4>6 DEF EnqueueUpdated, NewEvent
      <4>7. CASE EnqueueClosed(r)
        BY <4>3, <4>7 DEF EnqueueClosed, NewEvent
      <4> QED BY <4>2, <4>4, <4>5, <4>6, <4>7
    <3> QED BY <3>1, <3>2
  <2>4. ASSUME pc'[r] = "commit", call'[r].op = "patch", StatusChanged(r)'
        PROVE  "incident.status_changed" \in TypesOf(tx'[r].events)
    <3>1. EnqueueStatusChanged(r) \/ EnqueueClosed(r)
      <4>1. ~EnqueueCreated(r)
        BY <1>1, <1>2, <2>4 DEF EnqueueCreated, RequestInv, Staged
      <4>2. ~EnqueueUpdated(r) /\ ~RecordAudit(r)
        BY <1>1, <1>4, <2>4 DEF EnqueueUpdated, RecordAudit, Goto
      <4> QED BY <4>1, <4>2
    <3>2. CASE EnqueueStatusChanged(r)
      <4> DEFINE e == NewEvent(r, "incident.status_changed", now', NoRow,
                               tx[r].prior.status, call[r].input.status)
      <4>1. e \in tx'[r].events
        BY <1>1, <3>2 DEF EnqueueStatusChanged, Enqueue, Tx
      <4>2. e.type = "incident.status_changed"
        BY DEF NewEvent
      <4> QED BY <4>1, <4>2 DEF TypesOf
    <3>3. CASE EnqueueClosed(r)
      <4>1. "incident.status_changed" \in TypesOf(tx[r].events)
        BY <1>1, <3>3 DEF EnqueueClosed, WriteInv, Contents
      <4>2. tx[r].events \subseteq tx'[r].events
        BY <1>3
      <4> QED BY <4>1, <4>2 DEF TypesOf
    <3> QED BY <3>1, <3>2, <3>3
  <2> QED BY <2>1, <2>2, <2>3, <2>4 DEF MoveAnnounced
<1> QED BY <1>5, <1>6, <1>7 DEF PatchInv

\* PatchesInv is inductive, given LedgerInv.
LEMMA PatchesInvInit == Init => PatchesInv
<1> SUFFICES ASSUME Init, NEW r \in Request PROVE PatchInv(r)
  BY DEF PatchesInv
<1>1. pc[r] = "idle" /\ tx[r] = NoTx
  BY DEF Init
<1> QED BY <1>1, NoTxType
        DEF PatchInv, TenantHeld, PatchHeld, MoveAnnounced, Validated, Writing,
            HasWritten, InTx

LEMMA PatchesInvNext == LedgerInv /\ PatchesInv /\ [Next]_vars => PatchesInv'
<1> SUFFICES ASSUME LedgerInv, PatchesInv, [Next]_vars PROVE PatchesInv'
  OBVIOUS
<1>1. CASE UNCHANGED vars
  BY <1>1 DEF vars, PatchesInv, PatchInv, TenantHeld, PatchHeld, MoveAnnounced, Validated,
              Writing, StatusChanged, TypesOf
<1>2. ASSUME NEW r \in Request, Start(r) \/ Progress(r) \/ LoseDenial(r) \/ Fail(r)
      PROVE  PatchesInv'
  <2>1. PatchInv(r)'
    BY <1>2, PatchPlain, PatchRead, PatchUpdate, PatchWrite DEF Progress
  <2>2. \A q \in Request \ {r} : PatchInv(q)'
    BY <1>2, PatchOthers
  <2> QED BY <2>1, <2>2 DEF PatchesInv
<1> QED BY <1>1, <1>2 DEF Next
-----------------------------------------------------------------------------
(* What a step may do to a row.                                             *)

\* What is known of the commit of a patch that changes a row.
LEMMA PatchCommitFacts ==
    ASSUME LedgerInv, PatchesInv, [Next]_vars, NEW r \in Request,
           CommitsRow(r), call[r].op = "patch"
    PROVE  /\ PatchInv(r) /\ WriteInv(r) /\ pc[r] = "commit" /\ Writing(r)
           /\ Target(r) = call[r].incident /\ call[r].incident \in Incident
           /\ incident[call[r].incident] \in Row
           /\ incident'[call[r].incident] = tx[r].row
           /\ call[r].input \in PatchInput
           /\ call[r].input.status \in Status \cup {None}
           /\ outbox' \ outbox = tx[r].events
<1>1. Commit(r) /\ tx[r].row # NoRow
  BY CommitStep DEF LedgerInv
<1>2. /\ pc[r] = "commit" /\ Writing(r) /\ call[r] \in Call /\ WriteInv(r)
      /\ incident'[Target(r)] = tx[r].row
      /\ RequestInv(r)
  BY <1>1, CommitFacts DEF LedgerInv, TypeInv
<1>3. Target(r) = call[r].incident
  BY DEF Target
<1>4. outbox' \ outbox = tx[r].events
  BY <1>1, CommitAdds DEF Ledger!Emitted
<1> QED BY <1>2, <1>3, <1>4, CallKinds
        DEF PatchesInv, RequestInv, PatchChecked, Writing

\* Tenants are isolated: whatever requests race, a row changes only by the
\* commit of a request of its own tenant, and never moves to another one.
THEOREM TenantsIsolated == Spec => TenantIsolation
<1> DEFINE Isolated ==
             \A i \in Incident : incident'[i] # incident[i] =>
                /\ incident[i] # NoRow => incident'[i].tenant = incident[i].tenant
                /\ \E r \in Request :
                      CommitsRow(r) /\ call[r].tenant = incident'[i].tenant
<1>1. LedgerInv /\ PatchesInv /\ [Next]_vars => [Isolated]_vars
  <2> SUFFICES ASSUME LedgerInv, PatchesInv, [Next]_vars,
                      NEW i \in Incident, incident'[i] # incident[i]
               PROVE  /\ incident[i] # NoRow => incident'[i].tenant = incident[i].tenant
                      /\ \E r \in Request :
                            CommitsRow(r) /\ call[r].tenant = incident'[i].tenant
    OBVIOUS
  <2>1. PICK r \in Request : /\ Commit(r) /\ CommitsRow(r) /\ Target(r) = i
                             /\ tx[r].row # NoRow /\ incident'[i] = tx[r].row
    BY ChangedRow
  <2>2. /\ call[r] \in Call /\ PatchInv(r) /\ WriteInv(r) /\ Writing(r)
        /\ pc[r] = "commit"
    BY <2>1, CommitFacts DEF PatchesInv
  <2>3. incident'[i].tenant = call[r].tenant
    <3>1. CASE call[r].op = "create"
      BY <2>1, <2>2, <3>1 DEF PatchInv, TenantHeld, InTx
    <3>2. CASE call[r].op = "patch"
      <4>1. tx[r].row["tenant"] = incident[call[r].incident]["tenant"]
        BY <2>2, <3>2 DEF WriteInv, RowHeld
      <4> QED BY <2>1, <2>2, <3>2, <4>1 DEF PatchInv, TenantHeld, Validated
    <3> QED BY <2>2, <3>1, <3>2, CallKinds
  <2> QED BY <2>1, <2>3, TenantKept
<1> QED
  BY <1>1, LedgerInvInit, LedgerInvNext, PatchesInvInit, PatchesInvNext, PTL
     DEF Spec, TenantIsolation

\* No lost update through a partial patch: a field the patch leaves out keeps
\* what was committed last, even between the patch's read and its UPDATE.
THEOREM AbsentFieldsKept == Spec => AbsentFieldsSurvive
<1> DEFINE Survive ==
             \A r \in Request :
                (CommitsRow(r) /\ call[r].op = "patch")
                => LET i == call[r].incident
                   IN \A f \in Field : call[r].input.fields[f] = None
                         => incident'[i].fields[f] = incident[i].fields[f]
<1>1. LedgerInv /\ PatchesInv /\ [Next]_vars => [Survive]_vars
  <2> SUFFICES ASSUME LedgerInv, PatchesInv, [Next]_vars, NEW r \in Request,
                      CommitsRow(r), call[r].op = "patch",
                      NEW f \in Field, call[r].input.fields[f] = None
               PROVE  incident'[call[r].incident].fields[f]
                      = incident[call[r].incident].fields[f]
    OBVIOUS
  <2>1. /\ incident'[call[r].incident]
             = Patched(incident[call[r].incident], call[r].input, tx[r].prior, tx[r].at)
        /\ incident[call[r].incident] \in Row
    BY PatchCommitFacts DEF PatchInv, PatchHeld
  <2>2. f \notin ChangedFields(call[r].input, tx[r].prior)
    BY DEF ChangedFields
  <2> QED BY <2>1, <2>2 DEF Patched, Row
<1> QED
  BY <1>1, LedgerInvInit, LedgerInvNext, PatchesInvInit, PatchesInvNext, PTL
     DEF Spec, AbsentFieldsSurvive
-----------------------------------------------------------------------------
(* Atomicity and the catalogue: the service implements the ledger.          *)

\* The status a patch counts as a move from: the one it read if it gives a
\* status, and else the one the row has, which it leaves alone.
MovedFrom(r) ==
    IF call[r].input.status = None THEN incident[call[r].incident].status
    ELSE tx[r].prior.status

\* The commit of a patch that writes is one update of the ledger.
LEMMA PatchIsUpdate ==
    ASSUME LedgerInv, PatchesInv, NEW r \in Request,
           Commit(r), tx[r].row # NoRow, call[r].op = "patch"
    PROVE  Ledger!Update(call[r].incident, MovedFrom(r))
<1> DEFINE i == call[r].incident
           in == call[r].input
           from == MovedFrom(r)
           to == incident'[i].status
           types == TypesOf(tx[r].events)
<1>1. /\ pc[r] = "commit" /\ WriteInv(r) /\ Writing(r) /\ PatchInv(r) /\ RequestInv(r)
      /\ call[r] \in Call /\ Target(r) = i /\ incident'[i] = tx[r].row
  BY CommitFacts DEF LedgerInv, TypeInv, PatchesInv, Target
<1>2. /\ incident[i] \in Row /\ incident[i] # NoRow
      /\ in.status \in Status \cup {None}
  BY <1>1, ConstantAssumption DEF RequestInv, PatchChecked, HasWritten
<1>3. to = IF in.status # None THEN in.status ELSE incident[i].status
  <2>1. incident'[i] = Patched(incident[i], in, tx[r].prior, tx[r].at)
    BY <1>1 DEF PatchInv, PatchHeld
  <2> QED BY <1>2, <2>1 DEF Patched, Row
<1>4. ValidPatch(in, tx[r].prior)
  BY <1>1 DEF PatchInv, MoveAnnounced, Validated
<1>5. Ledger!CanTransition(from, to)
  BY <1>3, <1>4 DEF MovedFrom, ValidPatch, CanTransition, Ledger!CanTransition,
                    AllowedTransitions, Ledger!AllowedTransitions
<1>6. /\ Ledger!WritesRow(i) /\ Ledger!AppendsAudit(i, "success")
      /\ Ledger!Emitted = tx[r].events /\ Ledger!Announces(i, types)
  BY <1>1, CommitAdds
<1>7. \A f \in {"tenant", "source", "external", "created_at"} :
         incident'[i][f] = incident[i][f]
  BY <1>1 DEF WriteInv, RowHeld
<1>8. StatusChanged(r) <=> from # to
  BY <1>3 DEF StatusChanged, MovedFrom
<1>9. \A e \in Ledger!Emitted : e.type = "incident.status_changed" =>
         e.from = from /\ e.to = to
  <2>1. StatusChanged(r) => from = tx[r].prior.status /\ to = in.status
    BY <1>3 DEF StatusChanged, MovedFrom
  <2> QED BY <1>1, <1>6, <2>1 DEF PatchInv, MoveAnnounced
<1>10. types = Ledger!Catalogue(from, to)
  <2>1. "incident.status_changed" \in types <=> from # to
    BY <1>1, <1>8 DEF PatchInv, MoveAnnounced, TypesOf
  <2>2. /\ from # to => to = in.status
        /\ "closed" # None
    BY <1>3, <1>8, ConstantAssumption DEF StatusChanged, Status
  <2>3. \/ types = {"incident.updated"}
        \/ types = {"incident.updated", "incident.status_changed"} /\ in.status # "closed"
        \/ /\ types = {"incident.updated", "incident.status_changed", "incident.closed"}
           /\ in.status = "closed"
    BY <1>1 DEF WriteInv, Contents
  <2> HIDE DEF types, from, to, in
  <2> QED BY <2>1, <2>2, <2>3 DEF Ledger!Catalogue
<1> HIDE DEF types, from, to
<1>11. Ledger!Announces(i, Ledger!Catalogue(from, to))
  BY <1>6, <1>10
<1> QED BY <1>2, <1>5, <1>6, <1>7, <1>9, <1>11 DEF Ledger!Update, from, to

\* The commit of a create is one creation of the ledger.
LEMMA CreateIsCreate ==
    ASSUME LedgerInv, NEW r \in Request,
           Commit(r), tx[r].row # NoRow, call[r].op = "create"
    PROVE  Ledger!Create(r)
<1>1. /\ pc[r] = "commit" /\ WriteInv(r) /\ Writing(r) /\ RequestInv(r)
      /\ Target(r) = r /\ incident'[r] = tx[r].row /\ incident[r] = NoRow
  BY CommitFacts DEF LedgerInv, TypeInv, Committed, Target
<1>2. TypesOf(tx[r].events) = {"incident.created"} /\ tx[r].row.status = "new"
  BY <1>1 DEF WriteInv, Contents, RequestInv, CreatePrepared, InTx
<1>3. /\ Ledger!WritesRow(r) /\ Ledger!AppendsAudit(r, "success")
      /\ Ledger!Announces(r, TypesOf(tx[r].events))
  BY <1>1, CommitAdds
<1> QED BY <1>1, <1>2, <1>3 DEF Ledger!Create

\* A recorded denial is one refusal of the ledger.
LEMMA DenialIsRefuse ==
    ASSUME LedgerInv, NEW r \in Request, RecordDenial(r)
    PROVE  Ledger!Refuse
<1> DEFINE a == [request |-> r,
                 action  |-> IF call[r].op = "create" THEN "incident.create"
                             ELSE "incident.update",
                 target  |-> IF call[r].op = "create" THEN None ELSE call[r].incident,
                 result  |-> "denied"]
<1>1. audit' = audit \cup {a} /\ UNCHANGED <<incident, outbox>> /\ pc[r] = "record_denial"
  BY DEF RecordDenial
<1>2. a.request = r /\ a.result = "denied"
  OBVIOUS
<1> HIDE DEF a
<1>3. a \notin audit
  BY <1>1, <1>2 DEF LedgerInv, Committed
<1> QED BY <1>1, <1>2, <1>3 DEF Ledger!Refuse, Ledger!Audited

\* Every step of the service that changes a table is a creation, a refusal, or the
\* update that a patch stands for.
LEMMA LedgerStep ==
    ASSUME LedgerInv, PatchesInv, [Next]_vars
    PROVE  \/ UNCHANGED Ledger!ledger
           \/ Ledger!Refuse
           \/ \E i \in Incident : Ledger!Create(i)
           \/ \E r \in Request :
                 /\ Commit(r) /\ Validated(r) /\ call[r].op = "patch"
                 /\ call[r].incident \in Incident /\ incident[call[r].incident] # NoRow
                 /\ Ledger!Update(call[r].incident, MovedFrom(r))
<1>1. CASE UNCHANGED vars
  BY <1>1 DEF vars, Ledger!ledger
<1>2. ASSUME NEW r \in Request, Commit(r)
      PROVE  \/ UNCHANGED Ledger!ledger
             \/ \E i \in Incident : Ledger!Create(i)
             \/ /\ Validated(r) /\ call[r].op = "patch"
                /\ call[r].incident \in Incident /\ incident[call[r].incident] # NoRow
                /\ Ledger!Update(call[r].incident, MovedFrom(r))
  <2>1. CASE tx[r].row = NoRow
    BY <1>2, <2>1, CommitFacts DEF Ledger!ledger
  <2>2. CASE tx[r].row # NoRow
    <3>1. call[r] \in Call /\ Writing(r) /\ Target(r) \in Incident /\ r \in Incident
      BY <1>2, <2>2, CommitFacts DEF Incident
    <3>2. CASE call[r].op = "create"
      BY <1>2, <2>2, <3>1, <3>2, CreateIsCreate
    <3>3. CASE call[r].op = "patch"
      <4>1. Ledger!Update(call[r].incident, MovedFrom(r))
        BY <1>2, <2>2, <3>3, PatchIsUpdate
      <4> QED BY <3>1, <3>3, <4>1, CallKinds DEF Ledger!Update, Validated
    <3> QED BY <3>1, <3>2, <3>3, CallKinds
  <2> QED BY <2>1, <2>2
<1>3. ASSUME NEW r \in Request, RecordDenial(r)
      PROVE  Ledger!Refuse
  BY <1>3, DenialIsRefuse
<1>4. ASSUME NEW r \in Request, Start(r) \/ Progress(r) \/ LoseDenial(r) \/ Fail(r),
             ~Commit(r), ~RecordDenial(r)
      PROVE  UNCHANGED <<incident, audit, outbox>>
  <2>1. CASE Start(r)
    BY <2>1 DEF Start, Deny, RejectCreate, StartCreate, StartPatch, Arrive, database
  <2>2. CASE LoseDenial(r) \/ Fail(r) \/ InsertConflict(r) \/ NotFound(r) \/ RejectPatch(r)
    BY <2>2 DEF LoseDenial, Fail, InsertConflict, NotFound, RejectPatch, Rollback, database
  <2>3. CASE \/ BeginDenial(r) \/ Begin(r) \/ Insert(r) \/ ReadUnchanged(r) \/ Read(r)
             \/ Update(r)
    BY <2>3 DEF BeginDenial, Begin, Insert, ReadUnchanged, Read, Update, database
  <2>4. CASE \/ RecordAudit(r) \/ EnqueueCreated(r) \/ EnqueueUpdated(r)
             \/ EnqueueStatusChanged(r) \/ EnqueueClosed(r)
    BY <2>4 DEF RecordAudit, EnqueueCreated, EnqueueUpdated, EnqueueStatusChanged,
                EnqueueClosed, Enqueue, database
  <2> QED BY <1>4, <2>1, <2>2, <2>3, <2>4 DEF Progress
<1> QED BY <1>1, <1>2, <1>3, <1>4 DEF Next, Ledger!ledger

\* A patch that read the status the row still has at its commit is an update from
\* that status: it makes a legal move and stages exactly the catalogue's events.
THEOREM FreshPatchesAnnounced == Spec => FreshPatchAnnounced
<1> DEFINE Fresh == \A r \in Request :
                       LET i == call[r].incident
                       IN (/\ CommitsRow(r)
                           /\ call[r].op = "patch"
                           /\ incident[i].status = tx[r].prior.status)
                          => Ledger!Update(i, incident[i].status)
<1>1. LedgerInv /\ PatchesInv /\ [Next]_vars => [Fresh]_vars
  <2> SUFFICES ASSUME LedgerInv, PatchesInv, [Next]_vars, NEW r \in Request,
                      CommitsRow(r), call[r].op = "patch",
                      incident[call[r].incident].status = tx[r].prior.status
               PROVE  Ledger!Update(call[r].incident, incident[call[r].incident].status)
    OBVIOUS
  <2>1. Commit(r) /\ tx[r].row # NoRow
    BY CommitStep DEF LedgerInv
  <2>2. Ledger!Update(call[r].incident, MovedFrom(r))
    BY <2>1, PatchIsUpdate
  <2>3. MovedFrom(r) = incident[call[r].incident].status
    BY DEF MovedFrom
  <2> QED BY <2>2, <2>3
<1> QED
  BY <1>1, LedgerInvInit, LedgerInvNext, PatchesInvInit, PatchesInvNext, PTL
     DEF Spec, FreshPatchAnnounced
-----------------------------------------------------------------------------
(* What the caller is told.                                                 *)

\* The steps of r leave what is kept of the other requests: whatever a step
\* adds to the tables is r's own.
LEMMA AnswerOthers ==
    ASSUME LedgerInv, AnswersInv, NEW r \in Request, NEW q \in Request \ {r},
           Start(r) \/ Progress(r) \/ LoseDenial(r) \/ Fail(r)
    PROVE  AnswerInv(q)'
<1>1. /\ pc'[q] = pc[q] /\ call'[q] = call[q] /\ result'[q] = result[q]
      /\ AnswerInv(q)
  BY OneAtATime DEF LedgerInv, AnswersInv
<1>2. /\ audit \subseteq audit' /\ \A a \in audit' \ audit : a.request = r
      /\ outbox \subseteq outbox' /\ \A e \in outbox' \ outbox : e.request = r
      /\ incident[q] # NoRow => incident'[q] # NoRow
  <2>1. CASE Commit(r)
    <3>1. WriteInv(r) /\ q \in Incident
      BY <2>1, CommitFacts DEF Incident
    <3>2. \A a \in tx[r].audit : a.request = r
      BY <3>1 DEF WriteInv, Contents
    <3>3. \A e \in tx[r].events : e.request = r
      BY <3>1 DEF WriteInv, Announced
    <3>4. incident[q] # NoRow => incident'[q] # NoRow
      BY <2>1, <3>1, CommitFacts
    <3> QED BY <2>1, <3>2, <3>3, <3>4 DEF Commit
  <2>2. CASE RecordDenial(r)
    BY <2>2 DEF RecordDenial
  <2>3. CASE ~Commit(r) /\ ~RecordDenial(r)
    <3>1. CASE Start(r)
      BY <3>1 DEF Start, Deny, RejectCreate, StartCreate, StartPatch, Arrive, database
    <3>2. CASE \/ LoseDenial(r) \/ InsertConflict(r) \/ NotFound(r) \/ RejectPatch(r)
               \/ Fail(r)
      BY <3>2 DEF LoseDenial, InsertConflict, NotFound, RejectPatch, Fail, Rollback, database
    <3>3. CASE \/ BeginDenial(r) \/ Begin(r) \/ Insert(r) \/ ReadUnchanged(r) \/ Read(r)
               \/ Update(r)
      BY <3>3 DEF BeginDenial, Begin, Insert, ReadUnchanged, Read, Update, database
    <3>4. CASE \/ RecordAudit(r) \/ EnqueueCreated(r) \/ EnqueueUpdated(r)
               \/ EnqueueStatusChanged(r) \/ EnqueueClosed(r)
      BY <3>4 DEF RecordAudit, EnqueueCreated, EnqueueUpdated, EnqueueStatusChanged,
                  EnqueueClosed, Enqueue, database
    <3> QED BY <2>3, <3>1, <3>2, <3>3, <3>4 DEF Progress
  <2> QED BY <2>1, <2>2, <2>3
<1>3. LoggedFor(q)' = LoggedFor(q) /\ StagedFor(q)' = StagedFor(q)
  BY <1>2 DEF LoggedFor, StagedFor
<1> QED BY <1>1, <1>2, <1>3 DEF AnswerInv, LoggedFor

\* Before its answer nothing of a request is committed.
LEMMA NothingYet ==
    ASSUME LedgerInv, NEW r \in Request, pc[r] # "done"
    PROVE  LoggedFor(r) = {} /\ StagedFor(r) = {}
BY DEF LedgerInv, Committed, LoggedFor, StagedFor

\* A step of r that does not end it, and a step that ends it.
LEMMA AnswerOwn ==
    ASSUME LedgerInv, LedgerInv', AnswersInv, NEW r \in Request,
           Start(r) \/ Progress(r) \/ LoseDenial(r) \/ Fail(r)
    PROVE  AnswerInv(r)'
<1>1. /\ pc \in [Request -> PC] /\ result \in [Request -> Result] /\ pc[r] # "done"
      /\ result[r] = None /\ LoggedFor(r) = {} /\ StagedFor(r) = {} /\ WriteInv(r)
      /\ RequestInv(r)
  BY OneAtATime, NothingYet DEF LedgerInv, TypeInv, TypeOK, AnswersInv, AnswerInv
<1>2. CASE pc'[r] # "done"
  <2>1. result'[r] = None
    <3>1. CASE Start(r)
      BY <1>1, <1>2, <3>1
         DEF Start, Deny, RejectCreate, StartCreate, StartPatch, Goto, Answer
    <3>2. ~Commit(r) /\ ~RecordDenial(r) /\ ~LoseDenial(r) /\ ~InsertConflict(r)
          /\ ~NotFound(r) /\ ~RejectPatch(r) /\ ~Fail(r)
      BY <1>1, <1>2
         DEF Commit, RecordDenial, LoseDenial, InsertConflict, NotFound, RejectPatch,
             Fail, Rollback, Answer, Goto
    <3>3. CASE \/ BeginDenial(r) \/ Begin(r) \/ Insert(r) \/ ReadUnchanged(r) \/ Read(r)
               \/ Update(r)
      BY <1>1, <3>3 DEF BeginDenial, Begin, Insert, ReadUnchanged, Read, Update
    <3>4. CASE \/ RecordAudit(r) \/ EnqueueCreated(r) \/ EnqueueUpdated(r)
               \/ EnqueueStatusChanged(r) \/ EnqueueClosed(r)
      BY <1>1, <3>4 DEF RecordAudit, EnqueueCreated, EnqueueUpdated,
                        EnqueueStatusChanged, EnqueueClosed, Enqueue
    <3> QED BY <3>1, <3>2, <3>3, <3>4 DEF Progress
  <2> QED BY <1>2, <2>1, ConstantAssumption DEF AnswerInv
<1>3. CASE pc'[r] = "done"
  <2>1. CASE Commit(r)
    <3>1. /\ audit' = audit \cup tx[r].audit /\ outbox' = outbox \cup tx[r].events
          /\ result'[r] \in {"ok", "error"} /\ pc[r] = "commit"
          /\ \A a \in tx[r].audit : a.request = r
          /\ \A e \in tx[r].events : e.request = r
      BY <1>1, <2>1 DEF Commit, Answer, WriteInv, Contents, Announced
    <3>2. LoggedFor(r)' = tx[r].audit /\ StagedFor(r)' = tx[r].events
      BY <1>1, <3>1 DEF LoggedFor, StagedFor
    <3>3. CASE Writing(r)
      <4>1. /\ \E a \in tx[r].audit : tx[r].audit = {a}
            /\ tx[r].events # {}
        BY <1>1, <3>1, <3>3 DEF WriteInv, Contents, TypesOf
      <4>2. call[r].op = "create" => incident'[r] # NoRow
        <5>1. incident'[Target(r)] = tx[r].row
          BY <2>1, <3>3, CommitFacts DEF Writing
        <5> QED BY <3>3, <5>1 DEF Target, Writing
      <4>3. call' = call
        BY <2>1 DEF Commit
      <4> QED BY <1>3, <3>1, <3>2, <4>1, <4>2, <4>3, ConstantAssumption DEF AnswerInv
    <3>4. CASE ~Writing(r)
      <4>1. tx[r].audit = {} /\ tx[r].events = {}
        BY <1>1, <3>4 DEF WriteInv, Contents
      <4>2. call'[r].op # "create"
        <5>1. call' = call
          BY <2>1 DEF Commit
        <5>2. call[r].op = "create" => Writing(r)
          BY <1>1, <3>1, ConstantAssumption
             DEF RequestInv, CreatePrepared, Writing, HasWritten, InTx
        <5> QED BY <3>4, <5>1, <5>2
      <4> QED BY <1>3, <3>1, <3>2, <4>1, <4>2, ConstantAssumption DEF AnswerInv
    <3> QED BY <3>3, <3>4
  <2>2. CASE RecordDenial(r)
    <3> DEFINE a == [request |-> r,
                     action  |-> IF call[r].op = "create" THEN "incident.create"
                                 ELSE "incident.update",
                     target  |-> IF call[r].op = "create" THEN None ELSE call[r].incident,
                     result  |-> "denied"]
    <3>1. /\ audit' = audit \cup {a} /\ outbox' = outbox /\ result'[r] = "denied"
      BY <1>1, <2>2 DEF RecordDenial, Answer
    <3>2. a.request = r /\ a.result = "denied"
      OBVIOUS
    <3> HIDE DEF a
    <3>3. LoggedFor(r)' = {a} /\ StagedFor(r)' = {}
      BY <1>1, <3>1, <3>2 DEF LoggedFor, StagedFor
    <3> QED BY <1>3, <3>1, <3>2, <3>3, ConstantAssumption DEF AnswerInv
  <2>3. CASE ~Commit(r) /\ ~RecordDenial(r)
    <3>1. /\ result'[r] \in {"rejected", "denied", "not_found", "error"}
          /\ UNCHANGED <<audit, outbox>>
      <4>1. CASE Start(r)
        <5>1. PICK c \in Call : Deny(r, c) \/ RejectCreate(r, c) \/ StartCreate(r, c)
                                \/ StartPatch(r, c)
          BY <4>1 DEF Start
        <5>2. ~Deny(r, c) /\ ~StartCreate(r, c) /\ ~StartPatch(r, c)
          BY <1>1, <1>3 DEF Deny, StartCreate, StartPatch, Goto
        <5> QED BY <1>1, <5>1, <5>2 DEF RejectCreate, Arrive, Answer, database
      <4>2. CASE \/ LoseDenial(r) \/ InsertConflict(r) \/ NotFound(r) \/ RejectPatch(r)
                 \/ Fail(r)
        BY <1>1, <4>2 DEF LoseDenial, InsertConflict, NotFound, RejectPatch, Fail,
                          Rollback, Answer, database
      <4>3. /\ ~BeginDenial(r) /\ ~Begin(r) /\ ~Insert(r) /\ ~ReadUnchanged(r)
            /\ ~Read(r) /\ ~Update(r)
        BY <1>1, <1>3 DEF BeginDenial, Begin, Insert, ReadUnchanged, Read, Update, Goto
      <4>4. /\ ~RecordAudit(r) /\ ~EnqueueCreated(r) /\ ~EnqueueUpdated(r)
            /\ ~EnqueueStatusChanged(r) /\ ~EnqueueClosed(r)
        BY <1>1, <1>3 DEF RecordAudit, EnqueueCreated, EnqueueUpdated,
                          EnqueueStatusChanged, EnqueueClosed, Goto
      <4> QED BY <2>3, <4>1, <4>2, <4>3, <4>4 DEF Progress
    <3>2. LoggedFor(r)' = {} /\ StagedFor(r)' = {}
      BY <1>1, <3>1 DEF LoggedFor, StagedFor
    <3> QED BY <1>3, <3>1, <3>2, ConstantAssumption DEF AnswerInv
  <2> QED BY <2>1, <2>2, <2>3
<1> QED BY <1>2, <1>3

\* AnswersInv is inductive, given LedgerInv.
LEMMA AnswersInvNext ==
    LedgerInv /\ LedgerInv' /\ AnswersInv /\ [Next]_vars => AnswersInv'
<1> SUFFICES ASSUME LedgerInv, LedgerInv', AnswersInv, [Next]_vars PROVE AnswersInv'
  OBVIOUS
<1>1. CASE UNCHANGED vars
  BY <1>1 DEF vars, AnswersInv, AnswerInv, LoggedFor, StagedFor
<1>2. ASSUME NEW r \in Request, Start(r) \/ Progress(r) \/ LoseDenial(r) \/ Fail(r)
      PROVE  AnswersInv'
  BY <1>2, AnswerOwn, AnswerOthers DEF AnswersInv
<1> QED BY <1>1, <1>2 DEF Next

\* What a caller is told agrees with what the database kept: after any race,
\* failure or crash a refusal left nothing, an acknowledged create is there, and
\* an error left the row, its audit row and its events, or none of them.
THEOREM AnswersMatchRecord == Spec => []ReplyMatchesRecord
<1>1. Init => AnswersInv
  <2> SUFFICES ASSUME Init, NEW r \in Request PROVE AnswerInv(r)
    BY DEF AnswersInv
  <2> QED BY ConstantAssumption DEF Init, AnswerInv
<1>2. LedgerInv /\ AnswersInv => ReplyMatchesRecord
  <2> SUFFICES ASSUME LedgerInv, AnswersInv PROVE ReplyMatchesRecord
    OBVIOUS
  <2>1. ASSUME NEW r \in Request
        PROVE  /\ result[r] \in {None, "rejected", "not_found"} =>
                     LoggedFor(r) = {} /\ StagedFor(r) = {}
               /\ result[r] = "denied" =>
                     StagedFor(r) = {} /\ \A a \in LoggedFor(r) : a.result = "denied"
               /\ result[r] \in {"ok", "error"} =>
                     /\ StagedFor(r) = {} <=> LoggedFor(r) = {}
                     /\ Cardinality(LoggedFor(r)) <= 1
               /\ result[r] = "ok" /\ call[r].op = "create" =>
                     incident[r] # NoRow /\ StagedFor(r) # {}
    <3>1. AnswerInv(r)
      BY DEF AnswersInv
    <3>2. result[r] = None => LoggedFor(r) = {} /\ StagedFor(r) = {}
      BY <3>1, NothingYet DEF AnswerInv
    <3>3. result[r] \in {"ok", "error"} => Cardinality(LoggedFor(r)) <= 1
      <4> SUFFICES ASSUME result[r] \in {"ok", "error"}
                   PROVE  Cardinality(LoggedFor(r)) \in {0, 1}
        OBVIOUS
      <4>1. CASE LoggedFor(r) = {}
        BY <4>1, FS_EmptySet
      <4>2. ASSUME NEW a \in audit, LoggedFor(r) = {a}
            PROVE  Cardinality(LoggedFor(r)) = 1
        BY <4>2, FS_Singleton
      <4> QED BY <3>1, <4>1, <4>2 DEF AnswerInv
    <3> QED BY <3>1, <3>2, <3>3 DEF AnswerInv
  <2> QED BY <2>1 DEF ReplyMatchesRecord, LoggedFor, StagedFor
<1> QED BY <1>1, <1>2, LedgerInvInit, LedgerInvNext, AnswersInvNext, PTL DEF Spec
-----------------------------------------------------------------------------
(* What the relay takes from the service.                                   *)

\* Seen from the outbox table the service is the staging half of ordered
\* delivery: it stages events and hands none over.
Staging == INSTANCE OrderedDelivery WITH
               Malformed <- {}, staged <- outbox, sent <- {}, settled <- {}

\* The events of one transaction have stamps of their own: each is stamped when
\* its envelope is built, and the clock has moved on since the one before.
OwnStamps == \A r \in Request : \A e, f \in tx[r].events : e.created_at = f.created_at => e = f

\* A step adds to its transaction's events one that is later than all of them,
\* or none, or starts afresh.
LEMMA EventsGrow ==
    ASSUME LedgerInv, NEW r \in Request, Start(r) \/ Progress(r) \/ LoseDenial(r) \/ Fail(r)
    PROVE  \/ tx'[r].events \in {tx[r].events, {}}
           \/ \E e : /\ tx'[r].events = tx[r].events \cup {e}
                     /\ e.created_at \in Nat
                     /\ \A f \in tx[r].events : f.created_at < e.created_at
<1>1. /\ tx \in [Request -> Tx] /\ tx[r] \in Tx /\ now \in Nat
      /\ \A f \in tx[r].events : f.created_at \in Nat /\ f.created_at <= now
      /\ pc[r] = "enqueue_created" => tx[r].events = {}
  BY DEF LedgerInv, TypeInv, TypeOK, WriteInv, Contents, Announced, Tx, Event
<1>2. ASSUME NEW t, tx' = [tx EXCEPT ![r] = t]
      PROVE  tx'[r] = t
  BY <1>1, <1>2
<1>3. CASE Start(r) \/ BeginDenial(r)
  <2>1. CASE UNCHANGED tx
    BY <2>1
  <2>2. ASSUME NEW c, StartCreate(r, c)
        PROVE  tx'[r].events = tx[r].events
    BY <1>1, <2>2 DEF StartCreate, Tx
  <2> QED BY <1>3, <2>1, <2>2 DEF Start, Deny, RejectCreate, StartPatch, BeginDenial
<1>4. CASE \/ RecordDenial(r) \/ LoseDenial(r) \/ InsertConflict(r) \/ NotFound(r)
           \/ RejectPatch(r) \/ Fail(r) \/ Commit(r)
  <2>1. tx' = [tx EXCEPT ![r] = NoTx]
    BY <1>4 DEF RecordDenial, LoseDenial, InsertConflict, NotFound, RejectPatch, Fail, Commit, Rollback, Release
  <2> QED BY <1>2, <2>1, NoTxType
<1>5. CASE ReadUnchanged(r)
  BY <1>5 DEF ReadUnchanged
<1>6. CASE Begin(r) \/ Insert(r) \/ Read(r) \/ Update(r) \/ RecordAudit(r)
  <2>1. tx'[r].events = tx[r].events
    BY <1>1, <1>6 DEF Begin, Insert, Read, Update, RecordAudit, Tx
  <2> QED BY <2>1
<1>7. ASSUME NEW e, Enqueue(r, e)
      PROVE  tx'[r].events = tx[r].events \cup {e}
  BY <1>1, <1>7 DEF Enqueue, Tx
<1>8. CASE EnqueueCreated(r)
  <2> DEFINE e == NewEvent(r, "incident.created", tx[r].at, tx[r].row, None, None)
  <2>1. Enqueue(r, e) /\ tx[r].events = {}
    BY <1>1, <1>8 DEF EnqueueCreated
  <2>2. e.created_at = tx[r].at /\ tx[r].at \in Nat
    BY <1>1 DEF NewEvent, Tx
  <2> HIDE DEF e
  <2> QED BY <1>7, <2>1, <2>2
<1>9. ASSUME NEW type, NEW snapshot, NEW from, NEW to, now' = now + 1,
             Enqueue(r, NewEvent(r, type, now', snapshot, from, to))
      PROVE  \E e : /\ tx'[r].events = tx[r].events \cup {e}
                    /\ e.created_at \in Nat
                    /\ \A f \in tx[r].events : f.created_at < e.created_at
  <2> DEFINE e == NewEvent(r, type, now', snapshot, from, to)
  <2>1. e.created_at = now'
    BY DEF NewEvent
  <2>2. tx'[r].events = tx[r].events \cup {e}
    BY <1>7, <1>9
  <2> HIDE DEF e
  <2>3. e.created_at \in Nat /\ \A f \in tx[r].events : f.created_at < e.created_at
    BY <1>1, <1>9, <2>1
  <2> QED BY <2>2, <2>3
<1>10. CASE EnqueueUpdated(r) \/ EnqueueStatusChanged(r) \/ EnqueueClosed(r)
  BY <1>9, <1>10 DEF EnqueueUpdated, EnqueueStatusChanged, EnqueueClosed
<1> QED BY <1>3, <1>4, <1>5, <1>6, <1>8, <1>10 DEF Progress

\* Every transaction keeps stamps of its own.
LEMMA OwnStampsNext == LedgerInv /\ OwnStamps /\ [Next]_vars => OwnStamps'
<1> SUFFICES ASSUME LedgerInv, OwnStamps, [Next]_vars PROVE OwnStamps'
  OBVIOUS
<1>1. CASE UNCHANGED vars
  BY <1>1 DEF vars, OwnStamps
<1>2. ASSUME NEW r \in Request, Start(r) \/ Progress(r) \/ LoseDenial(r) \/ Fail(r)
      PROVE  OwnStamps'
  <2>1. \A q \in Request \ {r} : tx'[q] = tx[q]
    BY <1>2, OneAtATime DEF LedgerInv
  <2>2. \A f \in tx[r].events : f.created_at \in Nat
    BY DEF LedgerInv, TypeInv, TypeOK, Tx, Event
  <2>3. \A e, f \in tx'[r].events : e.created_at = f.created_at => e = f
    <3>1. CASE tx'[r].events \in {tx[r].events, {}}
      BY <3>1 DEF OwnStamps
    <3>2. ASSUME NEW e, tx'[r].events = tx[r].events \cup {e}, e.created_at \in Nat,
                 \A f \in tx[r].events : f.created_at < e.created_at
          PROVE  \A d, f \in tx'[r].events : d.created_at = f.created_at => d = f
      BY <2>2, <3>2 DEF OwnStamps
    <3> QED BY <1>2, <3>1, <3>2, EventsGrow
  <2> QED BY <2>1, <2>3 DEF OwnStamps
<1> QED BY <1>1, <1>2 DEF Next

\* What a step adds to the outbox the relay can take as one transaction's events.
LEMMA StagingStep ==
    ASSUME LedgerInv, OwnStamps, [Next]_vars
    PROVE  [Staging!Next]_(Staging!delivery)
<1>1. CASE UNCHANGED outbox
  BY <1>1 DEF Staging!delivery
<1>2. CASE outbox' # outbox
  <2>1. PICK r \in Request : Start(r) \/ Progress(r) \/ LoseDenial(r) \/ Fail(r)
    BY <1>2 DEF Next, vars
  <2>2. Commit(r)
    BY <1>2, <2>1, OneAtATime DEF LedgerInv
  <2>3. outbox' = outbox \cup tx[r].events
    BY <2>2 DEF Commit
  <2> DEFINE S == tx[r].events
  <2>4. S # {} /\ S \subseteq Event /\ outbox \subseteq Event
    BY <1>2, <2>3 DEF LedgerInv, TypeInv, TypeOK, Tx
  <2>5. /\ \A e \in S : e.incident = Target(r)
        /\ \A e \in S, f \in outbox : f.incident = Target(r) => f.created_at < e.created_at
    BY DEF LedgerInv, WriteInv, Announced
  <2>6. \A e \in S : e.created_at \in Nat
    BY <2>4 DEF Event
  <2>7. S \cap outbox = {}
    BY <2>5, <2>6
  <2>8. \A e, f \in S : e.incident = f.incident /\ (e.created_at = f.created_at => e = f)
    BY <2>5 DEF OwnStamps
  <2>9. \A e \in S, f \in outbox : e.incident = f.incident => Staging!Earlier(f, e)
    BY <2>5 DEF Staging!Earlier
  <2>10. Staging!Stage(S)
    BY <2>3, <2>4, <2>7, <2>8, <2>9 DEF Staging!Stage
  <2> QED BY <2>4, <2>10 DEF Staging!Next
<1> QED BY <1>1, <1>2

\* The service (service.go, its transactions' INSERTs into outbox) keeps to what
\* the relay is built on: a commit stages the events of one incident, stamped one
\* after the other and after all the incident has.  With RelayDelivers this makes
\* the relay's order the order of the service's own writes.
THEOREM ServiceStages == Spec => Staging!Spec
<1>1. Init => Staging!Init /\ OwnStamps
  BY NoTxType DEF Init, Staging!Init, OwnStamps
<1> QED
  BY <1>1, LedgerInvInit, LedgerInvNext, OwnStampsNext, StagingStep, PTL
     DEF Spec, Staging!Spec

\* An incident the service has created was announced by one creation, which comes
\* before all its other events: what a connector takes the creation for.
CreationLeads ==
    \A i \in Request : incident[i] # NoRow =>
       \E e \in outbox : /\ e.incident = i /\ e.type = "incident.created"
                         /\ \A f \in outbox : f.incident = i /\ f # e =>
                               f.type # "incident.created" /\ e.created_at < f.created_at

\* A create commits the first event of its incident, a patch later ones of other
\* types.
LEMMA CreationStep ==
    ASSUME LedgerInv, CreationLeads, NEW r \in Request, Commit(r), tx[r].row # NoRow
    PROVE  CreationLeads'
<1> DEFINE S == tx[r].events
<1>1. /\ pc[r] = "commit" /\ Writing(r) /\ call[r] \in Call /\ WriteInv(r)
      /\ \A i \in Incident \ {Target(r)} : incident'[i] = incident[i]
      /\ outbox' = outbox \cup S
  <2>1. outbox' = outbox \cup S
    BY DEF Commit
  <2> QED BY <2>1, CommitFacts
<1>2. /\ \A e \in S : e.incident = Target(r)
      /\ \A e, f \in S : f.type = e.type => f = e
      /\ \A e \in S, f \in outbox : f.incident = Target(r) => f.created_at < e.created_at
  BY <1>1 DEF WriteInv, Announced
<1>3. CASE call[r].op = "create"
  <2>1. Target(r) = r /\ \A f \in outbox : f.incident # r
    BY <1>1, <1>3 DEF LedgerInv, Committed, Target
  <2>2. TypesOf(S) = {"incident.created"}
    BY <1>1, <1>3 DEF WriteInv, Contents
  <2>3. PICK c \in S : c.type = "incident.created"
    BY <2>2 DEF TypesOf
  <2>4. \A f \in S : f.type = c.type
    BY <2>2, <2>3 DEF TypesOf
  <2>5. S = {c}
    BY <1>2, <2>4
  <2>6. ASSUME NEW i \in Request, incident'[i] # NoRow
        PROVE  \E e \in outbox' : /\ e.incident = i /\ e.type = "incident.created"
                                  /\ \A f \in outbox' : f.incident = i /\ f # e =>
                                        f.type # "incident.created"
                                        /\ e.created_at < f.created_at
    <3>1. CASE i = r
      BY <1>1, <1>2, <2>1, <2>3, <2>5, <3>1
    <3>2. CASE i # r
      <4>1. incident[i] # NoRow
        BY <1>1, <2>1, <2>6, <3>2 DEF Incident
      <4>2. \A f \in S : f.incident # i
        BY <1>2, <2>1, <3>2
      <4> QED BY <1>1, <4>1, <4>2 DEF CreationLeads
    <3> QED BY <3>1, <3>2
  <2> QED BY <2>6 DEF CreationLeads
<1>4. CASE call[r].op = "patch"
  <2>1. /\ Target(r) = call[r].incident
        /\ incident[Target(r)] # NoRow
    BY <1>1, <1>4, ConstantAssumption
       DEF Target, LedgerInv, TypeInv, RequestInv, PatchChecked, Writing, HasWritten
  <2>2. "incident.created" \notin TypesOf(S)
    BY <1>1, <1>4 DEF WriteInv, Contents
  <2>3. \A f \in S : f.type # "incident.created"
    BY <2>2 DEF TypesOf
  <2>4. ASSUME NEW i \in Request, incident'[i] # NoRow
        PROVE  \E e \in outbox' : /\ e.incident = i /\ e.type = "incident.created"
                                  /\ \A f \in outbox' : f.incident = i /\ f # e =>
                                        f.type # "incident.created"
                                        /\ e.created_at < f.created_at
    <3>1. incident[i] # NoRow
      BY <1>1, <2>1, <2>4 DEF Incident
    <3>2. PICK e \in outbox : /\ e.incident = i /\ e.type = "incident.created"
                              /\ \A f \in outbox : f.incident = i /\ f # e =>
                                    f.type # "incident.created"
                                    /\ e.created_at < f.created_at
      BY <3>1 DEF CreationLeads
    <3>3. \A f \in S : f.incident = i => e.created_at < f.created_at
      BY <1>2, <3>2
    <3> QED BY <1>1, <2>3, <3>2, <3>3
  <2> QED BY <2>4 DEF CreationLeads
<1> QED BY <1>1, <1>3, <1>4, CallKinds

\* What a connector builds on (cmd/reference-connector/main.go answers a creation
\* and nothing else): an incident has one creation, before all its other events.
\* With the order of the relay, the creation is handed over before any of them.
THEOREM CreationComesFirst == Spec => []CreationLeads
<1>1. Init => CreationLeads
  BY LedgerInvInit DEF CreationLeads, LedgerInv, Committed, Init
<1>2. LedgerInv /\ CreationLeads /\ [Next]_vars => CreationLeads'
  <2> SUFFICES ASSUME LedgerInv, CreationLeads, [Next]_vars PROVE CreationLeads'
    OBVIOUS
  <2>1. CASE UNCHANGED <<incident, outbox>>
    BY <2>1 DEF CreationLeads
  <2>2. CASE ~UNCHANGED <<incident, outbox>>
    <3>1. PICK r \in Request : Start(r) \/ Progress(r) \/ LoseDenial(r) \/ Fail(r)
      BY <2>2 DEF Next, vars
    <3>2. Commit(r) /\ tx[r].row # NoRow
      BY <2>2, <3>1, OneAtATime, CommitFacts DEF LedgerInv
    <3> QED BY <3>2, CreationStep
  <2> QED BY <2>1, <2>2
<1> QED BY <1>1, <1>2, LedgerInvInit, LedgerInvNext, PTL DEF Spec
-----------------------------------------------------------------------------
(* Why a patch may make a move the table does not have.                     *)

\* Two patches of one incident that have both been validated and have not ended.
Overlapping(q, r) ==
    /\ q # r
    /\ Validated(q) /\ call[q].op = "patch"
    /\ Validated(r) /\ call[r].op = "patch"
    /\ call[q].incident = call[r].incident

NoOverlap == \A q, r \in Request : ~Overlapping(q, r)

\* The prior row of every validated patch is still the committed one.
PriorsFresh ==
    \A r \in Request :
       Validated(r) /\ call[r].op = "patch" => tx[r].prior = incident[call[r].incident]

\* Only the read sets the prior row.
LEMMA PriorKept ==
    ASSUME LedgerInv, NEW r \in Request,
           Start(r) \/ Progress(r) \/ LoseDenial(r) \/ Fail(r),
           Validated(r)', call'[r].op = "patch"
    PROVE  \/ Read(r)
           \/ /\ Validated(r) /\ call' = call /\ incident' = incident
              /\ tx'[r].prior = tx[r].prior
<1>1. /\ RequestInv(r) /\ WriteInv(r) /\ tx[r] \in Tx
      /\ pc \in [Request -> PC] /\ tx \in [Request -> Tx]
      /\ call \in [Request -> Call \cup {None}]
  BY DEF LedgerInv, TypeInv, TypeOK
<1>2. pc'[r] \in {"update"} \cup HasWritten
  BY DEF Validated, Writing
<1>3. CASE Start(r)
  <2>1. pc'[r] \in {"denied", "done", "begin"}
    BY <1>1, <1>3 DEF Start, Deny, RejectCreate, StartCreate, StartPatch, Arrive, Goto, Answer
  <2> QED BY <1>2, <2>1 DEF HasWritten
<1>4. CASE \/ RecordDenial(r) \/ LoseDenial(r) \/ InsertConflict(r) \/ NotFound(r)
           \/ RejectPatch(r) \/ Commit(r) \/ Fail(r)
  <2>1. pc'[r] = "done"
    BY <1>1, <1>4 DEF RecordDenial, LoseDenial, InsertConflict, NotFound, RejectPatch, Commit,
                      Fail, Rollback, Answer, Goto
  <2> QED BY <1>2, <2>1 DEF HasWritten
<1>5. CASE BeginDenial(r) \/ Begin(r) \/ Insert(r) \/ ReadUnchanged(r)
  <2>1. /\ UNCHANGED <<call, tx>>
        /\ \/ pc[r] = "insert" /\ call[r].op = "create"
           \/ pc'[r] \in {"record_denial", "insert", "read"}
           \/ pc'[r] = "commit" /\ tx[r] = NoTx
    BY <1>1, <1>5 DEF BeginDenial, Begin, Insert, ReadUnchanged, Goto, RequestInv, Staged
  <2>2. pc'[r] # "commit" \/ tx'[r].row # NoRow
    BY DEF Validated, Writing
  <2>3. "create" # "patch"
    OBVIOUS
  <2> QED BY <1>2, <2>1, <2>2, <2>3, NoTxType DEF HasWritten
<1>6. CASE Update(r)
  <2>1. pc[r] = "update" /\ UNCHANGED <<call, incident>>
    BY <1>6 DEF Update, database
  <2> DEFINE row == Patched(incident[call[r].incident], call[r].input, tx[r].prior, tx[r].at)
  <2>2. tx' = [tx EXCEPT ![r] = [tx[r] EXCEPT !.row = row]]
    BY <1>6 DEF Update
  <2> HIDE DEF row
  <2>3. tx'[r].prior = tx[r].prior
    BY <1>1, <2>2 DEF Tx
  <2> QED BY <2>1, <2>3 DEF Validated
<1>7. CASE \/ RecordAudit(r) \/ EnqueueCreated(r) \/ EnqueueUpdated(r)
           \/ EnqueueStatusChanged(r) \/ EnqueueClosed(r)
  <2>1. pc[r] \in HasWritten \ {"commit"} /\ UNCHANGED <<call, incident>>
    BY <1>7 DEF RecordAudit, EnqueueCreated, EnqueueUpdated, EnqueueStatusChanged,
                EnqueueClosed, Enqueue, database, HasWritten
  <2>2. tx[r].row # NoRow
    BY <1>1, <2>1, ConstantAssumption DEF RequestInv, RowPending
  <2>3. ASSUME NEW e, Enqueue(r, e)
        PROVE  tx'[r].prior = tx[r].prior
    BY <1>1, <2>3 DEF Enqueue, Tx
  <2>4. tx'[r].prior = tx[r].prior
    <3>1. CASE RecordAudit(r)
      BY <1>1, <3>1 DEF RecordAudit, Tx
    <3>2. CASE ~RecordAudit(r)
      BY <1>7, <2>3, <3>2 DEF EnqueueCreated, EnqueueUpdated, EnqueueStatusChanged, EnqueueClosed
    <3> QED BY <3>1, <3>2
  <2> QED BY <2>1, <2>2, <2>4 DEF Validated, Writing
<1> QED BY <1>3, <1>4, <1>5, <1>6, <1>7 DEF Progress

\* While patches do not overlap no commit comes between a read and its commit.
LEMMA PriorsFreshNext ==
    LedgerInv /\ PriorsFresh /\ NoOverlap /\ [Next]_vars => PriorsFresh'
<1> SUFFICES ASSUME LedgerInv, PriorsFresh, NoOverlap, [Next]_vars,
                    NEW q \in Request, Validated(q)', call'[q].op = "patch"
             PROVE  tx'[q].prior = incident'[call'[q].incident]
  BY DEF PriorsFresh
<1>1. CASE UNCHANGED vars
  BY <1>1 DEF vars, PriorsFresh, Validated, Writing
<1>2. ASSUME NEW r \in Request, Start(r) \/ Progress(r) \/ LoseDenial(r) \/ Fail(r)
      PROVE  tx'[q].prior = incident'[call'[q].incident]
  <2>1. CASE q = r
    <3>1. CASE Read(r)
      BY <2>1, <3>1 DEF Read, database, LedgerInv, TypeInv, TypeOK, Tx
    <3>2. CASE ~Read(r)
      BY <1>2, <2>1, <3>2, PriorKept DEF PriorsFresh
    <3> QED BY <3>1, <3>2
  <2>2. CASE q # r
    <3>1. /\ pc'[q] = pc[q] /\ call'[q] = call[q] /\ tx'[q] = tx[q]
          /\ ~Commit(r) => incident' = incident
      BY <1>2, <2>2, OneAtATime DEF LedgerInv
    <3>2. Validated(q) /\ call[q].op = "patch"
      BY <3>1 DEF Validated, Writing
    <3>3. tx[q].prior = incident[call[q].incident]
      BY <3>2 DEF PriorsFresh
    <3>4. incident'[call[q].incident] = incident[call[q].incident]
      <4>1. CASE Commit(r) /\ tx[r].row # NoRow
        <5>1. /\ call[r] \in Call /\ Writing(r) /\ pc[r] # "done"
              /\ \A i \in Incident \ {Target(r)} : incident'[i] = incident[i]
          BY <4>1, CommitFacts
        <5>2. call[q] \in Call /\ incident[call[q].incident] \in Row
          BY <3>2, ConstantAssumption
             DEF LedgerInv, TypeInv, RequestInv, Staged, PatchChecked, Validated, Writing, HasWritten
        <5>3. call[q].incident # Target(r)
          <6>1. CASE call[r].op = "create"
            BY <5>1, <5>2, <6>1, ConstantAssumption DEF LedgerInv, Committed, Target
          <6>2. CASE call[r].op = "patch"
            BY <2>2, <3>2, <5>1, <6>2 DEF NoOverlap, Overlapping, Target, Validated
          <6> QED BY <5>1, <6>1, <6>2, CallKinds
        <5> QED BY <3>2, <5>1, <5>2, <5>3, CallKinds
      <4>2. CASE ~(Commit(r) /\ tx[r].row # NoRow)
        BY <3>1, <4>2, CommitFacts
      <4> QED BY <4>1, <4>2
    <3> QED BY <3>1, <3>3, <3>4
  <2> QED BY <2>1, <2>2
<1> QED BY <1>1, <1>2 DEF Next

\* The documented table is kept by every step whose patches have fresh priors.
LEMMA FreshMoveLegal ==
    ASSUME LedgerInv, PatchesInv, PriorsFresh, [Next]_vars,
           NEW i \in Incident, incident[i] # NoRow
    PROVE  CanTransition(incident[i].status, incident'[i].status)
<1>1. CASE incident'[i] = incident[i]
  BY <1>1 DEF CanTransition
<1>2. CASE incident'[i] # incident[i]
  <2>1. PICK r \in Request : /\ Commit(r) /\ CommitsRow(r) /\ Target(r) = i
                             /\ tx[r].row # NoRow /\ incident'[i] = tx[r].row
    BY <1>2, ChangedRow
  <2>2. call[r] \in Call /\ Writing(r) /\ pc[r] = "commit"
    BY <2>1, CommitFacts
  <2>3. call[r].op = "patch" /\ call[r].incident = i
    BY <2>1, <2>2, CallKinds DEF LedgerInv, Committed, Target
  <2> DEFINE in == call[r].input
  <2>4. /\ incident[i] \in Row /\ PatchInv(r) /\ in.status \in Status \cup {None}
        /\ incident'[i] = Patched(incident[i], in, tx[r].prior, tx[r].at)
        /\ tx[r].prior = incident[i]
    BY <2>1, <2>2, <2>3, PatchCommitFacts DEF PatchInv, PatchHeld, PriorsFresh, Validated
  <2>5. ValidPatch(in, incident[i])
    BY <2>2, <2>3, <2>4 DEF PatchInv, MoveAnnounced, Validated
  <2>6. incident'[i].status = IF in.status # None THEN in.status ELSE incident[i].status
    BY <2>4 DEF Patched, Row
  <2> QED BY <2>5, <2>6 DEF ValidPatch, CanTransition
<1> QED BY <1>1, <1>2

\* The move that data_model.md forbids and the run service_race finds has one
\* cause (service.go reads without a lock): a patch is validated against a row
\* that another patch, already validated and not yet ended, goes on to replace.
\* As long as no two patches of an incident overlap like this, every move is in
\* the table.
THEOREM LegalUnlessOverlap == Spec /\ []NoOverlap => LegalTransitions
<1> DEFINE Legal == \A i \in Incident : incident[i] # NoRow
                        => CanTransition(incident[i].status, incident'[i].status)
<1>1. Init => PriorsFresh
  BY DEF Init, PriorsFresh, Validated, Writing, HasWritten
<1>2. LedgerInv /\ PatchesInv /\ PriorsFresh /\ [Next]_vars => [Legal]_vars
  BY FreshMoveLegal
<1> QED
  BY <1>1, <1>2, LedgerInvInit, LedgerInvNext, PatchesInvInit, PatchesInvNext, PriorsFreshNext,
     PTL DEF Spec, LegalTransitions

\* The documented ledger is what the service keeps as long as no two patches of an
\* incident overlap: every update is announced by exactly the catalogue's events
\* for the move the table makes, and the move is legal.  An overlap is the one
\* cause of the disagreements of the runs service_race and service_unannounced.
THEOREM DocumentsUnlessOverlap == Spec /\ []NoOverlap => ImplementsDocuments
<1>1. Init => Ledger!Init /\ PriorsFresh
  BY SeedAssumption DEF Init, Ledger!Init, PriorsFresh, Validated, Writing, HasWritten
<1>2. LedgerInv /\ PatchesInv /\ PriorsFresh /\ [Next]_vars
      => [Ledger!Documented]_(Ledger!ledger)
  <2> SUFFICES ASSUME LedgerInv, PatchesInv, PriorsFresh, [Next]_vars
               PROVE  [Ledger!Documented]_(Ledger!ledger)
    OBVIOUS
  <2>1. ASSUME NEW r \in Request, Validated(r), call[r].op = "patch"
        PROVE  MovedFrom(r) = incident[call[r].incident].status
    BY <2>1 DEF PriorsFresh, MovedFrom
  <2> QED BY <2>1, LedgerStep DEF Ledger!Documented
<1> QED
  BY <1>1, <1>2, LedgerInvInit, LedgerInvNext, PatchesInvInit, PatchesInvNext, PriorsFreshNext,
     PTL DEF Spec, ImplementsDocuments, Ledger!DocumentedSpec
-----------------------------------------------------------------------------
(* What a patch that overlaps others is still announced against.            *)

\* The events of an incident that has any tell of its present status.
CurrentTold == \A e \in outbox : incident[e.incident].status \in Ledger!Told(e.incident)

\* The status a validated patch has read is the present one, or one that the
\* events told of: whoever replaced it said so.
PriorsKnown ==
    \A r \in Request :
       Validated(r) /\ call[r].op = "patch" =>
          tx[r].prior.status \in Ledger!Known(call[r].incident)

\* What has been told stays told.
LEMMA ToldGrows ==
    ASSUME outbox \subseteq outbox', NEW i
    PROVE  Ledger!Told(i) \subseteq Ledger!Told(i)'
BY DEF Ledger!Told, Ledger!EventsOf

\* An update tells of the status it leaves behind, from whatever known status it
\* counts, and of the one it sets.
LEMMA UpdateTells ==
    ASSUME LedgerInv, CurrentTold, NEW i \in Incident, NEW from \in Ledger!Known(i),
           Ledger!Update(i, from)
    PROVE  /\ incident[i].status \in Ledger!Known(i)'
           /\ incident'[i].status \in Ledger!Told(i)'
<1> DEFINE to == incident'[i].status
<1>1. outbox \subseteq outbox' /\ Ledger!Announces(i, Ledger!Catalogue(from, to))
  BY DEF Ledger!Update, Ledger!Announces
<1>2. to \in Ledger!Told(i)'
  <2>1. "incident.updated" \in Ledger!Catalogue(from, to)
    BY DEF Ledger!Catalogue
  <2>2. PICK e \in Ledger!Emitted : e.type = "incident.updated"
    BY <1>1, <2>1 DEF Ledger!Announces
  <2>3. e \in outbox' /\ e.incident = i /\ e.snapshot = incident'[i]
    BY <1>1, <2>2 DEF Ledger!Announces, Ledger!Emitted, Ledger!Snapshot
  <2> QED BY <2>2, <2>3 DEF Ledger!Told, Ledger!EventsOf, Ledger!Snapshot
<1>3. CASE \E e \in outbox : e.incident = i
  <2>1. incident[i].status \in Ledger!Told(i)
    BY <1>3 DEF CurrentTold
  <2> QED BY <1>1, <1>2, <2>1, ToldGrows DEF Ledger!Known
<1>4. CASE \A e \in outbox : e.incident # i
  <2>1. from = incident[i].status
    BY <1>4 DEF Ledger!Known, Ledger!Told, Ledger!EventsOf
  <2>2. CASE from = to
    BY <1>2, <2>1, <2>2 DEF Ledger!Known
  <2>3. CASE from # to
    <3>1. "incident.status_changed" \in Ledger!Catalogue(from, to)
      BY <2>3 DEF Ledger!Catalogue
    <3>2. PICK e \in Ledger!Emitted : e.type = "incident.status_changed"
      BY <1>1, <3>1 DEF Ledger!Announces
    <3>3. e \in outbox' /\ e.incident = i /\ e.from = from
      BY <1>1, <3>2 DEF Ledger!Announces, Ledger!Emitted, Ledger!Update
    <3>4. from \in Ledger!Told(i)'
      BY <3>2, <3>3 DEF Ledger!Told, Ledger!EventsOf
    <3> QED BY <1>2, <2>1, <3>4 DEF Ledger!Known
  <2> QED BY <2>2, <2>3
<1> QED BY <1>2, <1>3, <1>4

\* A step keeps what has been told, and tells of what it changes.
LEMMA KnownStep ==
    ASSUME LedgerInv, PatchesInv, CurrentTold, PriorsKnown, [Next]_vars
    PROVE  /\ outbox \subseteq outbox'
           /\ CurrentTold'
           /\ \A i \in Incident : incident[i] # NoRow => Ledger!Known(i) \subseteq Ledger!Known(i)'
<1>1. \A e \in outbox : e.incident \in Incident /\ incident[e.incident] # NoRow
  BY DEF LedgerInv, Committed, TypeInv, TypeOK, Event
<1>2. CASE UNCHANGED <<incident, outbox>>
  BY <1>2 DEF CurrentTold, Ledger!Known, Ledger!Told, Ledger!EventsOf
<1>3. ASSUME NEW i \in Incident, outbox \subseteq outbox',
             \A e \in outbox' \ outbox : e.incident = i,
             \A j \in Incident \ {i} : incident'[j] = incident[j],
             incident'[i].status \in Ledger!Told(i)',
             incident[i] # NoRow => incident[i].status \in Ledger!Known(i)'
      PROVE  /\ CurrentTold'
             /\ \A j \in Incident : incident[j] # NoRow =>
                   Ledger!Known(j) \subseteq Ledger!Known(j)'
  <2>1. ASSUME NEW j \in Incident, incident[j] # NoRow
        PROVE  Ledger!Known(j) \subseteq Ledger!Known(j)'
    <3>1. Ledger!Told(j) \subseteq Ledger!Told(j)'
      BY <1>3, ToldGrows
    <3>2. incident[j].status \in Ledger!Known(j)'
      BY <1>3, <2>1 DEF Ledger!Known
    <3> QED BY <3>1, <3>2 DEF Ledger!Known
  <2>2. ASSUME NEW e \in outbox'
        PROVE  incident'[e.incident].status \in Ledger!Told(e.incident)'
    <3>1. CASE e.incident = i
      BY <1>3, <3>1
    <3>2. CASE e.incident # i
      <4>1. e \in outbox /\ incident'[e.incident] = incident[e.incident]
        BY <1>1, <1>3, <3>2
      <4> QED BY <1>3, <4>1, ToldGrows DEF CurrentTold
    <3> QED BY <3>1, <3>2
  <2> QED BY <2>1, <2>2 DEF CurrentTold
<1>4. ASSUME NEW i \in Incident, Ledger!WritesRow(i)
      PROVE  \A j \in Incident \ {i} : incident'[j] = incident[j]
  BY <1>4 DEF Ledger!WritesRow, LedgerInv, TypeInv, TypeOK
<1>5. ASSUME NEW i \in Incident, Ledger!Create(i)
      PROVE  /\ outbox \subseteq outbox' /\ CurrentTold'
             /\ \A j \in Incident : incident[j] # NoRow =>
                   Ledger!Known(j) \subseteq Ledger!Known(j)'
  <2>1. /\ outbox \subseteq outbox' /\ \A e \in outbox' \ outbox : e.incident = i
        /\ incident[i] = NoRow /\ \A j \in Incident \ {i} : incident'[j] = incident[j]
    BY <1>4, <1>5 DEF Ledger!Create, Ledger!Announces, Ledger!Emitted
  <2>2. PICK e \in Ledger!Emitted : e.type = "incident.created"
    BY <1>5 DEF Ledger!Create, Ledger!Announces
  <2>3. e \in outbox' /\ e.incident = i /\ e.snapshot = incident'[i]
    BY <1>5, <2>2 DEF Ledger!Create, Ledger!Announces, Ledger!Emitted, Ledger!Snapshot
  <2>4. incident'[i].status \in Ledger!Told(i)'
    BY <2>2, <2>3 DEF Ledger!Told, Ledger!EventsOf, Ledger!Snapshot
  <2> QED BY <1>3, <2>1, <2>4
<1>6. ASSUME NEW r \in Request, Validated(r), call[r].op = "patch",
             call[r].incident \in Incident,
             Ledger!Update(call[r].incident, MovedFrom(r))
      PROVE  /\ outbox \subseteq outbox' /\ CurrentTold'
             /\ \A j \in Incident : incident[j] # NoRow =>
                   Ledger!Known(j) \subseteq Ledger!Known(j)'
  <2> PICK i \in Incident : i = call[r].incident
    BY <1>6
  <2>1. MovedFrom(r) \in Ledger!Known(i)
    BY <1>6 DEF MovedFrom, PriorsKnown, Ledger!Known
  <2>2. /\ incident[i].status \in Ledger!Known(i)'
        /\ incident'[i].status \in Ledger!Told(i)'
    BY <1>6, <2>1, UpdateTells
  <2>3. /\ outbox \subseteq outbox' /\ \A e \in outbox' \ outbox : e.incident = i
        /\ \A j \in Incident \ {i} : incident'[j] = incident[j]
    BY <1>4, <1>6 DEF Ledger!Update, Ledger!Announces, Ledger!Emitted
  <2> QED BY <1>3, <1>6, <2>2, <2>3
<1> QED BY <1>2, <1>5, <1>6, LedgerStep DEF Ledger!Refuse, Ledger!ledger

\* A patch keeps knowing the status it read.
LEMMA PriorsKnownNext ==
    LedgerInv /\ PatchesInv /\ CurrentTold /\ PriorsKnown /\ [Next]_vars
    => CurrentTold' /\ PriorsKnown'
<1> SUFFICES ASSUME LedgerInv, PatchesInv, CurrentTold, PriorsKnown, [Next]_vars
             PROVE  CurrentTold' /\ PriorsKnown'
  OBVIOUS
<1> SUFFICES ASSUME NEW q \in Request, Validated(q)', call'[q].op = "patch"
             PROVE  tx'[q].prior.status \in Ledger!Known(call[q].incident)'
  BY KnownStep DEF PriorsKnown
<1>1. ASSUME Validated(q), call'[q] = call[q], tx'[q].prior = tx[q].prior
      PROVE  tx'[q].prior.status \in Ledger!Known(call[q].incident)'
  <2>1. call[q] \in Call /\ incident[call[q].incident] \in Row
    BY <1>1 DEF LedgerInv, TypeInv, RequestInv, Staged, PatchChecked, Validated, Writing,
                HasWritten
  <2>2. call[q].incident \in Incident /\ incident[call[q].incident] # NoRow
    BY <1>1, <2>1, CallKinds, ConstantAssumption
  <2>3. tx[q].prior.status \in Ledger!Known(call[q].incident)
    BY <1>1 DEF PriorsKnown
  <2> PICK i \in Incident : i = call[q].incident
    BY <2>2
  <2>4. tx[q].prior.status \in Ledger!Known(i)'
    BY <2>2, <2>3, KnownStep
  <2>5. Ledger!Known(call[q].incident)' = Ledger!Known(i)'
    BY <1>1 DEF Ledger!Known, Ledger!Told, Ledger!EventsOf
  <2> QED BY <1>1, <2>4, <2>5
<1>2. CASE UNCHANGED vars
  BY <1>1, <1>2 DEF vars, Validated, Writing
<1>3. ASSUME NEW r \in Request, Start(r) \/ Progress(r) \/ LoseDenial(r) \/ Fail(r)
      PROVE  tx'[q].prior.status \in Ledger!Known(call[q].incident)'
  <2>1. CASE q = r /\ Read(r)
    <3>1. /\ call'[q] = call[q] /\ incident' = incident
          /\ tx'[q].prior = incident[call[q].incident]
      BY <2>1 DEF Read, database, LedgerInv, TypeInv, TypeOK, Tx
    <3> QED BY <3>1 DEF Ledger!Known
  <2>2. CASE q = r /\ ~Read(r)
    BY <1>1, <1>3, <2>2, PriorKept
  <2>3. CASE q # r
    BY <1>1, <1>3, <2>3, OneAtATime DEF LedgerInv, Validated, Writing
  <2> QED BY <2>1, <2>2, <2>3
<1> QED BY <1>2, <1>3 DEF Next

\* The service implements the ledger, for any number of concurrent requests: no
\* interleaving, failure or crash ever makes the three tables disagree, and every
\* update is announced by exactly the catalogue's events for a legal move from a
\* status the incident has or once had.
THEOREM ServiceImplementsLedger == Spec => ImplementsLedger
<1>1. Init => Ledger!Init /\ CurrentTold /\ PriorsKnown
  BY SeedAssumption
     DEF Init, Ledger!Init, CurrentTold, PriorsKnown, Validated, Writing, HasWritten
<1>2. LedgerInv /\ PatchesInv /\ PriorsKnown /\ [Next]_vars => [Ledger!Next]_(Ledger!ledger)
  <2> SUFFICES ASSUME LedgerInv, PatchesInv, PriorsKnown, [Next]_vars
               PROVE  [Ledger!Next]_(Ledger!ledger)
    OBVIOUS
  <2>1. ASSUME NEW r \in Request, Validated(r), call[r].op = "patch"
        PROVE  MovedFrom(r) \in Ledger!Known(call[r].incident)
    BY <2>1 DEF PriorsKnown, MovedFrom, Ledger!Known
  <2> QED BY <2>1, LedgerStep DEF Ledger!Next
<1> QED
  BY <1>1, <1>2, LedgerInvInit, LedgerInvNext, PatchesInvInit, PatchesInvNext, PriorsKnownNext,
     PTL DEF Spec, ImplementsLedger, Ledger!Spec
-----------------------------------------------------------------------------
(* The pool.                                                                *)

\* Exactly the requests with an open transaction hold a connection, and no more
\* are held than there are.
PoolInv ==
    /\ IsFiniteSet(conn) /\ Cardinality(conn) \in Nat /\ Cardinality(conn) <= MaxConns
    /\ conn = {r \in Request : pc[r] \in Open}

\* A step takes a connection when its transaction begins, gives it back when the
\* transaction ends, and never otherwise.
LEMMA PoolStep ==
    ASSUME TypeInv, PoolInv, NEW r \in Request,
           Start(r) \/ Progress(r) \/ LoseDenial(r) \/ Fail(r)
    PROVE  PoolInv'
<1>1. /\ pc \in [Request -> PC] /\ call \in [Request -> Call \cup {None}] /\ RequestInv(r)
      /\ \A q \in Request \ {r} : pc'[q] = pc[q]
  BY OneAtATime DEF TypeInv, TypeOK
<1>2. ASSUME conn' = conn, pc'[r] \in Open <=> pc[r] \in Open
      PROVE  PoolInv'
  BY <1>1, <1>2 DEF PoolInv
<1>3. CASE Start(r)
  <2>1. /\ conn' = conn /\ pc[r] = "idle"
        /\ pc'[r] \in {"denied", "done", "begin"}
    BY <1>1, <1>3 DEF Start, Deny, RejectCreate, StartCreate, StartPatch, Arrive, Goto, Answer
  <2> QED BY <1>2, <2>1 DEF Open, InTx
<1>4. CASE \/ Insert(r) \/ ReadUnchanged(r) \/ Read(r) \/ Update(r) \/ RecordAudit(r)
           \/ EnqueueCreated(r) \/ EnqueueUpdated(r) \/ EnqueueStatusChanged(r)
           \/ EnqueueClosed(r)
  <2>1. /\ conn' = conn
        /\ pc[r] \in {"insert", "read", "update", "audit", "enqueue_created",
                      "enqueue_updated", "enqueue_status_changed", "enqueue_closed"}
        /\ pc'[r] \in {"update", "audit", "enqueue_created", "enqueue_updated",
                       "enqueue_status_changed", "enqueue_closed", "commit"}
    BY <1>1, <1>4 DEF Insert, ReadUnchanged, Read, Update, RecordAudit, EnqueueCreated,
                      EnqueueUpdated, EnqueueStatusChanged, EnqueueClosed, Enqueue, Goto
  <2> QED BY <1>2, <2>1 DEF Open, InTx
<1>5. CASE BeginDenial(r) \/ Begin(r)
  <2>1. /\ conn' = conn \cup {r} /\ Cardinality(conn) < MaxConns
        /\ pc[r] \in {"denied", "begin"} /\ pc'[r] \in Open
    BY <1>1, <1>5 DEF BeginDenial, Begin, FreeConn, Goto, Open, InTx
  <2>2. r \notin conn
    BY <2>1 DEF PoolInv, Open, InTx
  <2>3. IsFiniteSet(conn') /\ Cardinality(conn') = Cardinality(conn) + 1
    <3>1. Cardinality(conn \cup {r}) = Cardinality(conn) + 1
      BY <2>2, FS_AddElement DEF PoolInv
    <3>2. IsFiniteSet(conn \cup {r})
      BY FS_AddElement DEF PoolInv
    <3> QED BY <2>1, <3>1, <3>2
  <2>4. Cardinality(conn') <= MaxConns /\ Cardinality(conn') \in Nat
    BY <2>1, <2>3, ConstantAssumption DEF PoolInv
  <2>5. conn' = {q \in Request : pc'[q] \in Open}
    BY <1>1, <2>1 DEF PoolInv
  <2> QED BY <2>3, <2>4, <2>5 DEF PoolInv, Open, InTx
<1>6. CASE \/ RecordDenial(r) \/ LoseDenial(r) \/ InsertConflict(r) \/ NotFound(r)
           \/ RejectPatch(r) \/ Commit(r) \/ Fail(r)
  <2>1. conn' = conn \ {r} /\ pc'[r] = "done"
    BY <1>1, <1>6 DEF RecordDenial, LoseDenial, InsertConflict, NotFound, RejectPatch, Commit,
                      Fail, Rollback, Release, Answer, Goto
  <2>2. IsFiniteSet(conn') /\ Cardinality(conn') <= Cardinality(conn)
    BY <2>1, FS_Subset DEF PoolInv
  <2>3. Cardinality(conn') \in Nat
    BY <2>2, FS_CardinalityType
  <2>4. Cardinality(conn') <= MaxConns
    BY <2>2, <2>3, ConstantAssumption DEF PoolInv
  <2>5. conn' = {q \in Request : pc'[q] \in Open}
    BY <1>1, <2>1 DEF PoolInv, Open, InTx
  <2> QED BY <2>2, <2>3, <2>4, <2>5 DEF PoolInv, Open, InTx
<1> QED BY <1>3, <1>4, <1>5, <1>6 DEF Progress

\* PoolInv is inductive.
LEMMA PoolInvNext == TypeInv /\ PoolInv /\ [Next]_vars => PoolInv'
<1>1. UNCHANGED vars /\ PoolInv => PoolInv'
  BY DEF vars, PoolInv
<1> QED BY <1>1, PoolStep DEF Next

\* No transaction runs without a connection, a denial's audit row included, and
\* none is ever left behind (pool.go: the deferred rollback gives it back on
\* every path).
THEOREM PoolAccounted == Spec => []PoolInv
<1>1. Init => PoolInv
  <2> SUFFICES ASSUME Init PROVE PoolInv
    OBVIOUS
  <2>1. conn = {} /\ \A r \in Request : pc[r] \notin Open
    BY DEF Init, Open, InTx
  <2>2. IsFiniteSet({}) /\ Cardinality({}) = 0
    BY FS_EmptySet
  <2>3. 0 <= MaxConns
    BY ConstantAssumption
  <2> QED BY <2>1, <2>2, <2>3 DEF PoolInv
<1> QED BY <1>1, PoolInvNext, TypeInvInit, TypeInvNext, PTL DEF Spec
=============================================================================
