----------------------- MODULE IncidentService_proofs -----------------------
(* Theorems about IncidentService, for any number of requests, incidents,   *)
(* connections and bodies.                                                  *)
EXTENDS IncidentService, TLAPS

-----------------------------------------------------------------------------
(* The values the service builds have the types its tables ask for.         *)

\* A call is a create or a patch, with a body of that kind.
LEMMA CallKinds ==
    ASSUME NEW c \in Call
    PROVE  /\ c.tenant \in Tenant
           /\ \/ c.op = "create" /\ c.input \in CreateInput
              \/ c.op = "patch" /\ c.input \in PatchInput /\ c.incident \in Incident
BY DEF Call

LEMMA NewRowType ==
    ASSUME NEW c \in Call, c.op = "create", NEW at \in Nat
    PROVE  NewRow(c, at) \in Row
<1>1. c.tenant \in Tenant /\ c.input \in CreateInput
  BY CallKinds
<1>2. c.input \in [source   : Source \cup {None},
                   external : External \cup {None},
                   fields   : [Field -> Value \cup {None}]]
  BY <1>1, InputAssumption
<1>3. "new" \in Status
  BY DEF Status
<1> QED BY <1>1, <1>2, <1>3 DEF NewRow, Row

LEMMA PatchedType ==
    ASSUME NEW old \in Row, NEW in \in PatchInput, NEW prior, NEW at \in Nat,
           in.status \in Status \cup {None}
    PROVE  /\ Patched(old, in, prior, at) \in Row
           /\ \A f \in {"tenant", "source", "external", "created_at"} :
                 Patched(old, in, prior, at)[f] = old[f]
           /\ in.status # None => Patched(old, in, prior, at).status = in.status
<1>1. in.fields \in [Field -> Value \cup {None}]
  BY InputAssumption
<1>2. old.fields \in [Field -> Value \cup {None}]
  BY DEF Row
<1>3. [f \in Field |-> IF f \in ChangedFields(in, prior)
                       THEN in.fields[f] ELSE old.fields[f]]
      \in [Field -> Value \cup {None}]
  BY <1>1, <1>2
<1>4. at + 1 \in Nat
  OBVIOUS
<1>5. (IF in.status # None THEN in.status ELSE old.status) \in Status
  BY DEF Row
<1> QED BY <1>3, <1>4, <1>5 DEF Patched, Row

LEMMA TargetType ==
    ASSUME NEW r \in Request, call[r] \in Call
    PROVE  Target(r) \in Incident
BY CallKinds DEF Target, Incident

LEMMA NewEventType ==
    ASSUME NEW r \in Request, call[r] \in Call,
           NEW type \in {"incident.created", "incident.updated",
                         "incident.status_changed", "incident.closed"},
           NEW at \in Nat, NEW snapshot \in Row \cup {NoRow},
           NEW from \in Status \cup {None}, NEW to \in Status \cup {None}
    PROVE  NewEvent(r, type, at, snapshot, from, to) \in Event
BY TargetType DEF NewEvent, Event
-----------------------------------------------------------------------------
(* The invariant types rest on: what each stage of a request has at hand.   *)

\* Creates and patches go through their own stages; a request that is not in a
\* transaction has nothing pending.
Staged(r) ==
    /\ pc[r] # "idle" => call[r] \in Call
    /\ pc[r] \in {"insert", "enqueue_created"} => call[r].op = "create"
    /\ pc[r] \in {"read", "update", "enqueue_updated", "enqueue_status_changed",
                  "enqueue_closed"} => call[r].op = "patch"
    /\ pc[r] \in {"idle", "denied", "record_denial", "read", "done"} => tx[r] = NoTx
    /\ pc[r] = "begin" /\ call[r].op = "patch" => tx[r] = NoTx

\* A create carries its row from before the transaction.
CreatePrepared(r) ==
    pc[r] \in InTx \cup {"begin"} /\ call[r].op = "create"
    => tx[r].row \in Row /\ tx[r].row.status = "new" /\ tx[r].at <= now

\* A patch that goes on to write has passed validation against a row that
\* exists; rows are never deleted, so it still does.
PatchChecked(r) ==
    /\ pc[r] = "update" \/ (pc[r] \in HasWritten /\ tx[r].row # NoRow)
    /\ call[r].op = "patch"
    => /\ call[r].input.status \in Status \cup {None}
       /\ tx[r].prior \in Row
       /\ incident[call[r].incident] \in Row

\* From the first write on there is a row to write, except for a patch that
\* changes nothing, which only commits.
RowPending(r) == pc[r] \in HasWritten \ {"commit"} => tx[r].row \in Row

RequestInv(r) == Staged(r) /\ CreatePrepared(r) /\ PatchChecked(r) /\ RowPending(r)

TypeInv == TypeOK /\ \A r \in Request : RequestInv(r)

\* The steps of r leave every other request alone, and do not remove rows.
Frame(r) ==
    /\ \A q \in Request \ {r} : pc'[q] = pc[q] /\ call'[q] = call[q] /\ tx'[q] = tx[q]
    /\ \A i \in Incident : incident[i] \in Row => incident'[i] \in Row
    /\ now' \in Nat /\ now <= now'

\* TypeInv is kept by a step of r that keeps the types and what is said of r.
LEMMA TypeInvByRequest ==
    ASSUME TypeInv, NEW r \in Request, TypeOK', Frame(r), RequestInv(r)'
    PROVE  TypeInv'
<1> SUFFICES ASSUME NEW q \in Request \ {r} PROVE RequestInv(q)'
  BY DEF TypeInv
<1>1. RequestInv(q)
  BY DEF TypeInv
<1>2. pc'[q] = pc[q] /\ call'[q] = call[q] /\ tx'[q] = tx[q]
  BY DEF Frame
<1>3. tx[q].at \in Nat /\ now \in Nat /\ now' \in Nat /\ now <= now'
  BY DEF Frame, TypeInv, TypeOK, Tx
<1>4. pc[q] # "idle" /\ call[q].op = "patch" => call[q].incident \in Incident
  BY <1>1, CallKinds DEF RequestInv, Staged
<1>5. pc[q] = "update" \/ pc[q] \in HasWritten => pc[q] # "idle"
  BY DEF HasWritten
<1> QED
  BY <1>1, <1>2, <1>3, <1>4, <1>5
     DEF RequestInv, Staged, CreatePrepared, PatchChecked, RowPending, Frame

\* A call arrives.
LEMMA StartType ==
    ASSUME TypeInv, NEW r \in Request, Start(r)
    PROVE  TypeInv'
<1> PICK c \in Call : Deny(r, c) \/ RejectCreate(r, c) \/ StartCreate(r, c) \/ StartPatch(r, c)
  BY DEF Start
<1>1. /\ pc[r] = "idle" /\ tx[r] = NoTx /\ call' = [call EXCEPT ![r] = c]
      /\ UNCHANGED <<incident, audit, outbox, conn>>
  BY DEF Deny, RejectCreate, StartCreate, StartPatch, Arrive, database, TypeInv,
         RequestInv, Staged
<1>2. CASE Deny(r, c) \/ RejectCreate(r, c) \/ StartPatch(r, c)
  <2>1. /\ \E label \in {"denied", "done", "begin"} : 
              /\ pc' = [pc EXCEPT ![r] = label]
              /\ label = "begin" => c.op = "patch"
        /\ UNCHANGED <<now, tx>> /\ result' \in [Request -> Result]
    BY <1>2 DEF Deny, RejectCreate, StartPatch, Goto, Answer, TypeInv, TypeOK, Result
  <2>2. TypeOK'
    BY <1>1, <2>1 DEF TypeInv, TypeOK, PC
  <2>3. Frame(r)
    BY <1>1, <2>1 DEF Frame, TypeInv, TypeOK
  <2>4. RequestInv(r)'
    BY <1>1, <2>1 DEF TypeInv, TypeOK, RequestInv, Staged, CreatePrepared,
                      PatchChecked, RowPending, InTx, HasWritten
  <2> QED BY <2>2, <2>3, <2>4, TypeInvByRequest
<1>3. CASE StartCreate(r, c)
  <2>1. /\ c.op = "create" /\ now' = now + 1 /\ pc' = [pc EXCEPT ![r] = "begin"]
        /\ tx' = [tx EXCEPT ![r] = [tx[r] EXCEPT !.row = NewRow(c, now'), !.at = now']]
        /\ UNCHANGED result
    BY <1>3 DEF StartCreate, Goto
  <2>2. now' \in Nat /\ now <= now'
    BY <2>1 DEF TypeInv, TypeOK
  <2>3. NewRow(c, now') \in Row /\ NewRow(c, now').status = "new"
    BY <2>1, <2>2, NewRowType DEF NewRow
  <2>4. tx[r] \in Tx
    BY DEF TypeInv, TypeOK
  <2>5. /\ tx'[r] \in Tx /\ tx'[r].row = NewRow(c, now') /\ tx'[r].at = now'
        /\ \A q \in Request \ {r} : tx'[q] = tx[q]
        /\ tx' \in [Request -> Tx]
    BY <2>1, <2>2, <2>3, <2>4 DEF Tx, TypeInv, TypeOK
  <2>6. TypeOK'
    BY <1>1, <2>1, <2>2, <2>5 DEF TypeInv, TypeOK, PC
  <2>7. Frame(r)
    BY <1>1, <2>1, <2>2, <2>5 DEF Frame, TypeInv, TypeOK
  <2>8. RequestInv(r)'
    BY <1>1, <2>1, <2>2, <2>3, <2>5
       DEF TypeInv, TypeOK, RequestInv, Staged, CreatePrepared,
           PatchChecked, RowPending, InTx, HasWritten
  <2> QED BY <2>6, <2>7, <2>8, TypeInvByRequest
<1> QED BY <1>2, <1>3

\* NoTx is an empty transaction.
LEMMA NoTxType == NoTx \in Tx /\ NoTx.row = NoRow /\ NoTx.events = {} /\ NoTx.audit = {}
BY DEF NoTx, Tx

\* A request gets its answer: rolled back, denied or committed.
LEMMA EndType ==
    ASSUME TypeInv, NEW r \in Request,
           \/ RecordDenial(r) \/ LoseDenial(r) \/ InsertConflict(r) \/ NotFound(r)
           \/ RejectPatch(r) \/ Commit(r) \/ Fail(r)
    PROVE  TypeInv'
<1>1. /\ \E res \in Result : Answer(r, res)
      /\ tx' = [tx EXCEPT ![r] = NoTx] /\ conn' \subseteq conn
      /\ UNCHANGED <<now, call>> /\ pc[r] # "idle"
  <2>1. CASE LoseDenial(r) \/ InsertConflict(r) \/ NotFound(r) \/ RejectPatch(r) \/ Fail(r)
    BY <2>1 DEF LoseDenial, InsertConflict, NotFound, RejectPatch, Fail, Rollback, Release,
                Result, InTx
  <2>2. CASE RecordDenial(r) \/ Commit(r)
    BY <2>2 DEF RecordDenial, Commit, Release, Result
  <2> QED BY <2>1, <2>2
<1>2. /\ incident' \in [Incident -> Row \cup {NoRow}]
      /\ \A i \in Incident : incident[i] \in Row => incident'[i] \in Row
      /\ audit' \subseteq AuditRow /\ outbox' \subseteq Event
  <2>1. CASE RecordDenial(r)
    <3>1. call[r] \in Call
      BY <2>1 DEF RecordDenial, TypeInv, RequestInv, Staged
    <3>2. /\ (IF call[r].op = "create" THEN "incident.create" ELSE "incident.update")
                \in {"incident.create", "incident.update"}
          /\ (IF call[r].op = "create" THEN None ELSE call[r].incident)
                \in Incident \cup {None}
      BY <3>1, CallKinds
    <3>3. \E a \in AuditRow : audit' = audit \cup {a}
      BY <2>1, <3>2 DEF RecordDenial, AuditRow
    <3> QED BY <2>1, <3>3 DEF RecordDenial, TypeInv, TypeOK
  <2>2. CASE LoseDenial(r) \/ InsertConflict(r) \/ NotFound(r) \/ RejectPatch(r) \/ Fail(r)
    BY <2>2 DEF LoseDenial, InsertConflict, NotFound, RejectPatch, Fail, Rollback,
                database, TypeInv, TypeOK
  <2>3. CASE Commit(r)
    <3>1. Target(r) \in Incident /\ tx[r] \in Tx
      BY <2>3, TargetType DEF Commit, TypeInv, TypeOK, RequestInv, Staged
    <3> QED BY <2>3, <3>1 DEF Commit, TypeInv, TypeOK, Tx
  <2> QED BY <2>1, <2>2, <2>3
<1>3. TypeOK'
  BY <1>1, <1>2, NoTxType DEF TypeInv, TypeOK, Answer, Goto, PC
<1>4. Frame(r)
  BY <1>1, <1>2 DEF Frame, TypeInv, TypeOK, Answer, Goto
<1>5. RequestInv(r)'
  BY <1>1 DEF Answer, Goto, TypeInv, TypeOK, RequestInv, Staged, CreatePrepared,
              PatchChecked, RowPending, InTx, HasWritten
<1> QED BY <1>3, <1>4, <1>5, TypeInvByRequest

\* A transaction opens, its insert goes through, its patch changes nothing.
LEMMA MoveType ==
    ASSUME TypeInv, NEW r \in Request,
           BeginDenial(r) \/ Begin(r) \/ Insert(r) \/ ReadUnchanged(r)
    PROVE  TypeInv'
<1>1. /\ pc[r] # "idle" /\ call[r] \in Call
      /\ UNCHANGED <<incident, audit, outbox, now, call, tx, result>>
      /\ conn' \subseteq Request
  BY DEF BeginDenial, Begin, Insert, ReadUnchanged, database, TypeInv, TypeOK, RequestInv,
         Staged
<1>2. PICK label \in PC :
         /\ pc' = [pc EXCEPT ![r] = label]
         /\ \/ pc[r] = "denied" /\ label = "record_denial"
            \/ /\ pc[r] = "begin"
               /\ \/ label = "insert" /\ call[r].op = "create"
                  \/ label = "read" /\ call[r].op = "patch"
            \/ pc[r] = "insert" /\ label = "audit"
            \/ pc[r] = "read" /\ label = "commit"
  BY <1>1, CallKinds DEF BeginDenial, Begin, Insert, ReadUnchanged, Goto, PC, Open, InTx
<1>3. TypeOK'
  BY <1>1, <1>2 DEF TypeInv, TypeOK
<1>4. Frame(r)
  BY <1>1, <1>2 DEF Frame, TypeInv, TypeOK
<1>5. RequestInv(r)'
  BY <1>1, <1>2, NoTxType, ConstantAssumption
     DEF TypeInv, TypeOK, RequestInv, Staged, CreatePrepared, PatchChecked, RowPending,
         InTx, HasWritten
<1> QED BY <1>3, <1>4, <1>5, TypeInvByRequest

\* The prior row is read and the patch computed.
LEMMA ReadType ==
    ASSUME TypeInv, NEW r \in Request, Read(r)
    PROVE  TypeInv'
<1> DEFINE i == call[r].incident
<1>1. /\ call[r] \in Call /\ call[r].op = "patch" /\ tx[r] = NoTx
      /\ i \in Incident /\ incident[i] \in Row
  BY CallKinds DEF Read, Visible, TypeInv, TypeOK, RequestInv, Staged
<1>2. call[r].input.status \in Status \cup {None}
  BY DEF Read, ValidPatch
<1>3. now' \in Nat /\ now <= now' /\ now + 1 \in Nat
  BY DEF Read, TypeInv, TypeOK
<1>4. /\ tx'[r] = [NoTx EXCEPT !.prior = incident[i], !.at = now + 1]
      /\ \A q \in Request \ {r} : tx'[q] = tx[q]
      /\ tx' = [tx EXCEPT ![r] = tx'[r]]
  BY <1>1 DEF Read, TypeInv, TypeOK
<1>5. tx'[r] \in Tx /\ tx'[r].prior = incident[i]
  BY <1>1, <1>3, <1>4, NoTxType DEF NoTx, Tx
<1>6. TypeOK'
  BY <1>3, <1>4, <1>5 DEF Read, Goto, database, TypeInv, TypeOK, PC, Open, InTx
<1>7. Frame(r)
  BY <1>3, <1>4 DEF Read, Goto, database, Frame, TypeInv, TypeOK
<1>8. RequestInv(r)'
  BY <1>1, <1>2, <1>5
     DEF Read, Goto, database, TypeInv, TypeOK, RequestInv, Staged, CreatePrepared,
         PatchChecked, RowPending, InTx, HasWritten
<1> QED BY <1>6, <1>7, <1>8, TypeInvByRequest

\* The UPDATE applies the patch to the committed row.
LEMMA UpdateType ==
    ASSUME TypeInv, NEW r \in Request, Update(r)
    PROVE  TypeInv'
<1> DEFINE i == call[r].incident
           row == Patched(incident[i], call[r].input, tx[r].prior, tx[r].at)
<1>1. /\ call[r] \in Call /\ call[r].op = "patch" /\ call[r].input \in PatchInput
      /\ i \in Incident /\ incident[i] \in Row /\ tx[r].prior \in Row
      /\ call[r].input.status \in Status \cup {None}
      /\ tx[r] \in Tx /\ tx[r].at \in Nat
  BY CallKinds DEF Update, TypeInv, TypeOK, RequestInv, Staged, PatchChecked, Tx
<1>2. row \in Row
  BY <1>1, PatchedType
<1>3. /\ tx'[r] = [tx[r] EXCEPT !.row = row]
      /\ \A q \in Request \ {r} : tx'[q] = tx[q]
      /\ tx' = [tx EXCEPT ![r] = tx'[r]]
  BY DEF Update, TypeInv, TypeOK
<1>4. tx'[r] \in Tx /\ tx'[r].prior = tx[r].prior /\ tx'[r].row = row
  <2> HIDE DEF row
  <2> QED BY <1>1, <1>2, <1>3 DEF Tx
<1> HIDE DEF row
<1>5. TypeOK'
  BY <1>3, <1>4 DEF Update, Goto, database, TypeInv, TypeOK, PC, Open, InTx
<1>6. Frame(r)
  BY <1>3 DEF Update, Goto, database, Frame, TypeInv, TypeOK
<1>7. RequestInv(r)'
  BY <1>1, <1>2, <1>4
     DEF Update, Goto, database, TypeInv, TypeOK, RequestInv, Staged, CreatePrepared,
         PatchChecked, RowPending, InTx, HasWritten
<1> QED BY <1>5, <1>6, <1>7, TypeInvByRequest

\* The audit row and the events are added to the transaction.
LEMMA WriteType ==
    ASSUME TypeInv, NEW r \in Request,
           \/ RecordAudit(r) \/ EnqueueCreated(r) \/ EnqueueUpdated(r)
           \/ EnqueueStatusChanged(r) \/ EnqueueClosed(r)
    PROVE  TypeInv'
<1>1. /\ call[r] \in Call /\ tx[r] \in Tx /\ now \in Nat /\ pc[r] \in HasWritten \ {"commit"}
      /\ tx[r].row \in Row
  BY DEF RecordAudit, EnqueueCreated, EnqueueUpdated, EnqueueStatusChanged,
         EnqueueClosed, TypeInv, TypeOK, RequestInv, Staged, RowPending, HasWritten
<1>2. /\ now' \in Nat /\ now <= now'
      /\ UNCHANGED <<incident, audit, outbox, call, conn, result>>
      /\ \E label \in HasWritten :
            /\ pc' = [pc EXCEPT ![r] = label]
            /\ label = "enqueue_created" => call[r].op = "create"
            /\ label \in {"enqueue_updated", "enqueue_status_changed", "enqueue_closed"}
                  => call[r].op = "patch"
  BY <1>1, CallKinds
     DEF RecordAudit, EnqueueCreated, EnqueueUpdated, EnqueueStatusChanged,
         EnqueueClosed, Enqueue, Goto, database, HasWritten, TypeInv, RequestInv, Staged
<1>3. \E a \in SUBSET AuditRow, e \in SUBSET Event :
         tx' = [tx EXCEPT ![r] = [tx[r] EXCEPT !.audit = a, !.events = e]]
  <2>1. CASE RecordAudit(r)
    <3> DEFINE a == [request |-> r, action |-> AuditAction(r), target |-> Target(r),
                     result |-> "success"]
    <3>1. a \in AuditRow
      BY <1>1, TargetType DEF AuditAction, AuditRow
    <3>2. tx[r].events \in SUBSET Event
      BY <1>1 DEF Tx
    <3>3. tx' = [tx EXCEPT ![r] = [tx[r] EXCEPT !.audit = {a}]]
      BY <2>1 DEF RecordAudit
    <3>4. [tx[r] EXCEPT !.audit = {a}]
          = [tx[r] EXCEPT !.audit = {a}, !.events = tx[r].events]
      BY <1>1 DEF Tx
    <3> QED BY <3>1, <3>2, <3>3, <3>4
  <2>2. ASSUME NEW e \in Event, Enqueue(r, e)
        PROVE  \E a \in SUBSET AuditRow, f \in SUBSET Event :
                  tx' = [tx EXCEPT ![r] = [tx[r] EXCEPT !.audit = a, !.events = f]]
    <3>1. tx[r].audit \in SUBSET AuditRow /\ tx[r].events \cup {e} \in SUBSET Event
      BY <1>1 DEF Tx
    <3>2. [tx[r] EXCEPT !.events = tx[r].events \cup {e}]
          = [tx[r] EXCEPT !.audit = tx[r].audit, !.events = tx[r].events \cup {e}]
      BY <1>1 DEF Tx
    <3>3. tx' = [tx EXCEPT ![r] = [tx[r] EXCEPT !.events = tx[r].events \cup {e}]]
      BY <2>2 DEF Enqueue
    <3> QED BY <3>1, <3>2, <3>3
  <2>3. CASE EnqueueCreated(r)
    <3>1. NewEvent(r, "incident.created", tx[r].at, tx[r].row, None, None) \in Event
      BY <1>1, NewEventType DEF Tx
    <3> QED BY <2>3, <2>2, <3>1 DEF EnqueueCreated
  <2>4. CASE EnqueueUpdated(r)
    <3>1. NewEvent(r, "incident.updated", now', tx[r].row, None, None) \in Event
      BY <1>1, <1>2, NewEventType
    <3> QED BY <2>4, <2>2, <3>1 DEF EnqueueUpdated
  <2>5. CASE EnqueueStatusChanged(r)
    <3>1. /\ tx[r].prior.status \in Status
          /\ call[r].input.status \in Status \cup {None}
      BY <1>1, <2>5, ConstantAssumption
         DEF EnqueueStatusChanged, TypeInv, RequestInv, PatchChecked, Staged, Row
    <3>2. NewEvent(r, "incident.status_changed", now', NoRow,
                   tx[r].prior.status, call[r].input.status) \in Event
      BY <1>1, <1>2, <3>1, NewEventType
    <3> QED BY <2>5, <2>2, <3>2 DEF EnqueueStatusChanged
  <2>6. CASE EnqueueClosed(r)
    <3>1. NewEvent(r, "incident.closed", now', NoRow, None, None) \in Event
      BY <1>1, <1>2, NewEventType
    <3> QED BY <2>6, <2>2, <3>1 DEF EnqueueClosed
  <2> QED BY <2>1, <2>3, <2>4, <2>5, <2>6
<1>4. /\ tx'[r] \in Tx /\ tx' \in [Request -> Tx]
      /\ tx'[r].row = tx[r].row /\ tx'[r].prior = tx[r].prior /\ tx'[r].at = tx[r].at
      /\ \A q \in Request \ {r} : tx'[q] = tx[q]
  <2>1. PICK a \in SUBSET AuditRow, e \in SUBSET Event :
           tx' = [tx EXCEPT ![r] = [tx[r] EXCEPT !.audit = a, !.events = e]]
    BY <1>3
  <2> DEFINE new == [tx[r] EXCEPT !.audit = a, !.events = e]
  <2>2. /\ new \in Tx /\ new.row = tx[r].row /\ new.prior = tx[r].prior
        /\ new.at = tx[r].at
    BY <1>1 DEF Tx
  <2>3. tx' = [tx EXCEPT ![r] = new] /\ tx \in [Request -> Tx]
    BY <2>1 DEF TypeInv, TypeOK
  <2> HIDE DEF new
  <2> QED BY <2>2, <2>3
<1>5. TypeOK'
  BY <1>2, <1>4 DEF TypeInv, TypeOK, PC, Open, InTx, HasWritten
<1>6. Frame(r)
  BY <1>2, <1>4 DEF Frame, TypeInv, TypeOK
<1>7. RequestInv(r)'
  <2>1. RequestInv(r) /\ tx[r].at \in Nat /\ NoRow \notin Row
    BY <1>1, ConstantAssumption DEF TypeInv, Tx
  <2> QED
    BY <1>1, <1>2, <1>4, <2>1
       DEF TypeInv, TypeOK, RequestInv, Staged, CreatePrepared, PatchChecked,
           RowPending, InTx, HasWritten
<1> QED BY <1>5, <1>6, <1>7, TypeInvByRequest

\* TypeInv is inductive.
LEMMA TypeInvInit == Init => TypeInv
<1> SUFFICES ASSUME Init PROVE TypeInv
  OBVIOUS
<1>1. incident \in [Incident -> Row \cup {NoRow}]
  BY SeedAssumption DEF Init
<1>2. TypeOK
  BY <1>1, NoTxType DEF Init, TypeOK, PC, Result
<1>3. ASSUME NEW r \in Request PROVE RequestInv(r)
  BY <1>3 DEF Init, RequestInv, Staged, CreatePrepared, PatchChecked, RowPending,
              InTx, HasWritten
<1> QED BY <1>2, <1>3 DEF TypeInv

LEMMA TypeInvNext == TypeInv /\ [Next]_vars => TypeInv'
<1> SUFFICES ASSUME TypeInv, [Next]_vars PROVE TypeInv'
  OBVIOUS
<1>1. CASE UNCHANGED vars
  BY <1>1 DEF vars, TypeInv, TypeOK, RequestInv, Staged, CreatePrepared,
              PatchChecked, RowPending
<1>2. ASSUME NEW r \in Request, Start(r) \/ Progress(r) \/ LoseDenial(r) \/ Fail(r)
      PROVE  TypeInv'
  BY <1>2, StartType, EndType, MoveType, ReadType, UpdateType, WriteType DEF Progress
<1> QED BY <1>1, <1>2 DEF Next

\* Type correctness, and with it that a row of the incident table is always
\* well formed whatever requests race or fail.
THEOREM TypeCorrect == Spec => []TypeOK
<1>1. TypeInv => TypeOK
  BY DEF TypeInv
<1> QED BY <1>1, TypeInvInit, TypeInvNext, PTL DEF Spec
-----------------------------------------------------------------------------
(* Atomicity and order: the service implements the ledger.                  *)

Writing(r) == pc[r] \in HasWritten /\ tx[r].row # NoRow

TypesOf(evs) == {e.type : e \in evs}

\* What a transaction has written so far, by the stage it has reached.
Contents(r) ==
    /\ ~Writing(r) \/ pc[r] = "audit" => tx[r].audit = {} /\ tx[r].events = {}
    /\ Writing(r) /\ pc[r] # "audit" =>
          \E a \in tx[r].audit :
             /\ tx[r].audit = {a}
             /\ a.request = r /\ a.target = Target(r) /\ a.result = "success"
    /\ pc[r] \in {"enqueue_created", "enqueue_updated"} => tx[r].events = {}
    /\ pc[r] \in {"enqueue_status_changed", "enqueue_closed"} =>
          call[r].input.status # None
    /\ pc[r] = "enqueue_status_changed" => TypesOf(tx[r].events) = {"incident.updated"}
    /\ pc[r] = "enqueue_closed" =>
          /\ TypesOf(tx[r].events) = {"incident.updated", "incident.status_changed"}
          /\ call[r].input.status = "closed"
    /\ pc[r] = "commit" /\ Writing(r) =>
          \/ call[r].op = "create" /\ TypesOf(tx[r].events) = {"incident.created"}
          \/ /\ call[r].op = "patch"
             /\ \/ TypesOf(tx[r].events) = {"incident.updated"}
                \/ /\ TypesOf(tx[r].events) = {"incident.updated", "incident.status_changed"}
                   /\ call[r].input.status # "closed"
                \/ /\ TypesOf(tx[r].events) = {"incident.updated", "incident.status_changed",
                                               "incident.closed"}
                   /\ call[r].input.status = "closed"

\* Its events are about its incident, carry the row it leaves, and are later
\* than every event the incident already has.
Announced(r) ==
    \A e \in tx[r].events :
       /\ e.request = r
       /\ e.incident = Target(r)
       /\ e.type \in {"incident.created", "incident.updated"} => e.snapshot = tx[r].row
       /\ e.type = "incident.status_changed" => e.to = tx[r].row.status
       /\ e.created_at <= now
       /\ \A f \in tx[r].events : f.type = e.type => f = e
       /\ \A f \in outbox : f.incident = Target(r) => f.created_at < e.created_at

\* Under the row lock the row it will commit keeps the identity of the one that
\* is committed, and has the status the patch asked for.
RowHeld(r) ==
    Writing(r) /\ call[r].op = "patch" =>
       /\ \A f \in {"tenant", "source", "external", "created_at"} :
             tx[r].row[f] = incident[call[r].incident][f]
       /\ call[r].input.status # None => tx[r].row.status = call[r].input.status

WriteInv(r) == Contents(r) /\ Announced(r) /\ RowHeld(r)

\* The row lock is exclusive.
Locks ==
    \A q, r \in Request :
       /\ q # r
       /\ Writing(q) /\ call[q].op = "patch"
       /\ Writing(r) /\ call[r].op = "patch"
       => call[q].incident # call[r].incident

\* The committed tables hold nothing of a request that has not ended, no event
\* without its row, and no event from the future.
Committed ==
    /\ \A r \in Request : pc[r] # "done" => incident[r] = NoRow
    /\ \A a \in audit : pc[a.request] = "done"
    /\ \A e \in outbox : /\ pc[e.request] = "done"
                         /\ incident[e.incident] # NoRow
                         /\ e.created_at <= now

LedgerInv == TypeInv /\ (\A r \in Request : WriteInv(r)) /\ Locks /\ Committed

\* Two transactions that are both writing write different incidents.
LEMMA DistinctTargets ==
    ASSUME LedgerInv, NEW q \in Request, NEW r \in Request, q # r, Writing(q), Writing(r)
    PROVE  Target(q) # Target(r)
<1>1. ASSUME NEW p \in Request, Writing(p)
      PROVE  /\ call[p].op = "create" => Target(p) = p /\ incident[p] = NoRow
             /\ call[p].op = "patch" => Target(p) = call[p].incident
                                        /\ incident[Target(p)] # NoRow
             /\ call[p].op \in {"create", "patch"}
  <2>1. pc[p] # "idle" /\ pc[p] # "done" /\ pc[p] \in InTx
    BY <1>1 DEF Writing, HasWritten, InTx
  <2>2. call[p] \in Call /\ RequestInv(p)
    BY <2>1 DEF LedgerInv, TypeInv, RequestInv, Staged
  <2> QED
    BY <1>1, <2>1, <2>2, CallKinds, ConstantAssumption
       DEF LedgerInv, Committed, RequestInv, PatchChecked, Target, Writing
<1> QED BY <1>1 DEF LedgerInv, Locks

\* Contents is about what the request itself has done.
LEMMA SameContents ==
    ASSUME NEW q \in Request, pc'[q] = pc[q], call'[q] = call[q], tx'[q] = tx[q]
    PROVE  /\ Contents(q) => Contents(q)'
           /\ Target(q)' = Target(q)
<1>1. Target(q)' = Target(q) /\ (Writing(q)' <=> Writing(q))
  BY DEF Target, Writing
<1>2. TypesOf(tx'[q].events) = TypesOf(tx[q].events)
  BY DEF TypesOf
<1> QED BY <1>1, <1>2 DEF Contents

\* A step of r that commits no row keeps LedgerInv if it keeps what is said of
\* r, and takes a row lock only when no one else has it.
LEMMA QuietStep ==
    ASSUME LedgerInv, TypeInv', NEW r \in Request,
           UNCHANGED <<incident, outbox>>, now <= now',
           pc[r] # "done",
           \A q \in Request \ {r} : pc'[q] = pc[q] /\ call'[q] = call[q] /\ tx'[q] = tx[q],
           audit \subseteq audit',
           \A a \in audit' \ audit : a.request = r /\ pc'[r] = "done",
           WriteInv(r)',
           Writing(r)' /\ call'[r].op = "patch" =>
              \/ Writing(r) /\ call'[r] = call[r]
              \/ \A q \in Request \ {r} :
                    Writing(q) /\ call[q].op = "patch" => call[q].incident # call'[r].incident
    PROVE  LedgerInv'
<1>1. now \in Nat /\ now' \in Nat /\ outbox \subseteq Event /\ audit' \subseteq AuditRow
  BY DEF LedgerInv, TypeInv, TypeOK
<1>2. ASSUME NEW q \in Request PROVE WriteInv(q)'
  <2>1. CASE q = r
    BY <2>1
  <2>2. CASE q # r
    <3>1. pc'[q] = pc[q] /\ call'[q] = call[q] /\ tx'[q] = tx[q] /\ WriteInv(q)
      BY <2>2 DEF LedgerInv
    <3>2. Contents(q)' /\ RowHeld(q)'
      BY <3>1 DEF WriteInv, Contents, RowHeld, Writing, Target
    <3>3. \A e \in tx[q].events : e.created_at \in Nat
      BY DEF LedgerInv, TypeInv, TypeOK, Tx, Event
    <3>4. Announced(q)'
      BY <1>1, <3>1, <3>3 DEF WriteInv, Announced, Target
    <3> QED BY <3>2, <3>4 DEF WriteInv
  <2> QED BY <2>1, <2>2
<1>3. Locks'
  BY DEF LedgerInv, Locks, Writing
<1>4. Committed'
  <2>1. \A q \in Request : pc[q] = "done" => pc'[q] = "done"
    OBVIOUS
  <2>2. \A e \in outbox : e.request \in Request /\ e.created_at \in Nat
    BY <1>1 DEF Event
  <2>3. \A a \in audit : a.request \in Request
    BY DEF LedgerInv, TypeInv, TypeOK, AuditRow
  <2>4. \A q \in Request : pc'[q] # "done" => incident'[q] = NoRow
    BY <2>1 DEF LedgerInv, Committed
  <2>5. \A a \in audit' : pc'[a.request] = "done"
    BY <2>1, <2>3 DEF LedgerInv, Committed
  <2> QED BY <1>1, <2>1, <2>2, <2>4, <2>5 DEF LedgerInv, Committed
<1> QED BY <1>2, <1>3, <1>4 DEF LedgerInv

\* The steps of r that only start, move on or end a request without a commit.
LEMMA PlainQuiet ==
    ASSUME LedgerInv, TypeInv', NEW r \in Request,
           \/ Start(r) \/ BeginDenial(r) \/ RecordDenial(r) \/ LoseDenial(r)
           \/ Begin(r) \/ Insert(r) \/ InsertConflict(r) \/ NotFound(r) \/ RejectPatch(r) \/ ReadUnchanged(r)
           \/ Read(r) \/ Fail(r)
    PROVE  LedgerInv'
<1> USE DEF LedgerInv, TypeInv, TypeOK
<1>1. /\ RequestInv(r) /\ WriteInv(r) /\ now \in Nat
      /\ pc \in [Request -> PC] /\ tx \in [Request -> Tx]
  OBVIOUS
<1>2. CASE Start(r)
  <2>1. /\ pc[r] = "idle" /\ tx[r] = NoTx
        /\ tx'[r].audit = {} /\ tx'[r].events = {}
        /\ pc'[r] \in {"denied", "done", "begin"}
        /\ \A q \in Request \ {r} : pc'[q] = pc[q] /\ call'[q] = call[q] /\ tx'[q] = tx[q]
        /\ UNCHANGED <<incident, audit, outbox>> /\ now <= now'
    BY <1>1, <1>2, NoTxType
       DEF Start, Deny, RejectCreate, StartCreate, StartPatch, Arrive, Goto, Answer,
           database, RequestInv, Staged, Tx
  <2>2. WriteInv(r)' /\ ~Writing(r)'
    BY <2>1 DEF WriteInv, Contents, Announced, RowHeld, Writing, HasWritten
  <2> QED BY <2>1, <2>2, QuietStep
<1>3. CASE \/ RecordDenial(r) \/ LoseDenial(r) \/ InsertConflict(r) \/ NotFound(r)
           \/ RejectPatch(r) \/ Fail(r)
  <2>1. /\ pc[r] # "done" /\ pc'[r] = "done" /\ tx'[r] = NoTx
        /\ \A q \in Request \ {r} : pc'[q] = pc[q] /\ call'[q] = call[q] /\ tx'[q] = tx[q]
        /\ UNCHANGED <<incident, outbox>> /\ now <= now'
        /\ audit \subseteq audit' /\ \A a \in audit' \ audit : a.request = r
    BY <1>1, <1>3
       DEF RecordDenial, LoseDenial, InsertConflict, NotFound, RejectPatch, Fail,
           Rollback, Release, Answer, Goto, database, RequestInv, Staged, InTx
  <2>2. WriteInv(r)' /\ ~Writing(r)'
    BY <2>1, NoTxType DEF WriteInv, Contents, Announced, RowHeld, Writing, HasWritten
  <2> QED BY <2>1, <2>2, QuietStep
<1>4. CASE BeginDenial(r) \/ Begin(r) \/ Read(r)
  <2>1. /\ pc[r] \in {"denied", "begin", "read"}
        /\ pc'[r] \in {"record_denial", "insert", "read", "update"}
        /\ tx'[r].audit = tx[r].audit /\ tx'[r].events = tx[r].events
        /\ \A q \in Request \ {r} : pc'[q] = pc[q] /\ call'[q] = call[q] /\ tx'[q] = tx[q]
        /\ UNCHANGED <<incident, audit, outbox>> /\ now <= now'
    BY <1>1, <1>4 DEF BeginDenial, Begin, Read, Goto, database, Tx
  <2>2. tx[r].audit = {} /\ tx[r].events = {}
    BY <1>1, <2>1 DEF WriteInv, Contents, Writing, HasWritten
  <2>3. WriteInv(r)' /\ ~Writing(r)'
    BY <2>1, <2>2 DEF WriteInv, Contents, Announced, RowHeld, Writing, HasWritten
  <2> QED BY <2>1, <2>3, QuietStep
<1>5. CASE Insert(r)
  <2>1. /\ pc[r] = "insert" /\ pc'[r] = "audit" /\ call'[r].op = "create"
        /\ UNCHANGED <<incident, audit, outbox, now, call, tx>>
        /\ \A q \in Request \ {r} : pc'[q] = pc[q] /\ call'[q] = call[q] /\ tx'[q] = tx[q]
    BY <1>1, <1>5 DEF Insert, Goto, database, RequestInv, Staged
  <2>2. tx[r].audit = {} /\ tx[r].events = {}
    BY <1>1, <2>1 DEF WriteInv, Contents, Writing, HasWritten
  <2>3. WriteInv(r)'
    BY <2>1, <2>2 DEF WriteInv, Contents, Announced, RowHeld, Writing, HasWritten
  <2> QED BY <1>1, <2>1, <2>3, QuietStep
<1>6. CASE ReadUnchanged(r)
  <2>1. /\ pc[r] = "read" /\ pc'[r] = "commit" /\ tx'[r] = NoTx
        /\ UNCHANGED <<incident, audit, outbox, now, call, tx>>
        /\ \A q \in Request \ {r} : pc'[q] = pc[q] /\ call'[q] = call[q] /\ tx'[q] = tx[q]
    BY <1>1, <1>6 DEF ReadUnchanged, Goto, database, RequestInv, Staged
  <2>2. WriteInv(r)' /\ ~Writing(r)'
    BY <2>1, NoTxType DEF WriteInv, Contents, Announced, RowHeld, Writing
  <2> QED BY <1>1, <2>1, <2>2, QuietStep
<1> QED BY <1>2, <1>3, <1>4, <1>5, <1>6

\* The UPDATE takes the row lock.
LEMMA UpdateQuiet ==
    ASSUME LedgerInv, TypeInv', NEW r \in Request, Update(r)
    PROVE  LedgerInv'
<1> DEFINE i == call[r].incident
           row == Patched(incident[i], call[r].input, tx[r].prior, tx[r].at)
<1>1. /\ RequestInv(r) /\ WriteInv(r) /\ now \in Nat /\ tx[r] \in Tx
      /\ pc \in [Request -> PC] /\ tx \in [Request -> Tx]
  BY DEF LedgerInv, TypeInv, TypeOK
<1>2. /\ call[r] \in Call /\ call[r].op = "patch" /\ call[r].input \in PatchInput
      /\ i \in Incident /\ incident[i] \in Row /\ tx[r].at \in Nat
      /\ call[r].input.status \in Status \cup {None}
  BY <1>1, CallKinds DEF Update, RequestInv, Staged, PatchChecked, Tx
<1>3. /\ \A f \in {"tenant", "source", "external", "created_at"} :
            row[f] = incident[i][f]
      /\ call[r].input.status # None => row.status = call[r].input.status
  BY <1>2, PatchedType
<1>4. /\ pc[r] = "update" /\ pc'[r] = "audit"
      /\ tx' = [tx EXCEPT ![r] = [tx[r] EXCEPT !.row = row]]
      /\ UNCHANGED <<incident, audit, outbox, now, call>>
      /\ \A q \in Request \ {r} : pc'[q] = pc[q] /\ call'[q] = call[q] /\ tx'[q] = tx[q]
  BY <1>1 DEF Update, Goto, database
<1>5. /\ tx'[r].row = row
      /\ tx'[r].audit = tx[r].audit /\ tx'[r].events = tx[r].events
  <2> HIDE DEF row
  <2> QED BY <1>1, <1>4 DEF Tx
<1> HIDE DEF row
<1>6. tx[r].audit = {} /\ tx[r].events = {}
  BY <1>1, <1>4 DEF WriteInv, Contents, Writing, HasWritten
<1>7. WriteInv(r)'
  BY <1>2, <1>3, <1>4, <1>5, <1>6 DEF WriteInv, Contents, Announced, RowHeld, Writing, HasWritten
<1>8. \A q \in Request \ {r} :
         Writing(q) /\ call[q].op = "patch" => call[q].incident # call[r].incident
  BY DEF Update, RowLocked, Writing
<1> QED BY <1>1, <1>4, <1>7, <1>8, QuietStep

\* One more event is staged, of a type the transaction has not staged yet.
LEMMA OneMoreEvent ==
    ASSUME LedgerInv, NEW r \in Request, NEW e,
           now <= now', now' \in Nat, UNCHANGED <<outbox, call>>,
           tx'[r].row = tx[r].row,
           tx'[r].events = tx[r].events \cup {e},
           e.type \notin TypesOf(tx[r].events),
           e.request = r, e.incident = Target(r),
           e.type \in {"incident.created", "incident.updated"} => e.snapshot = tx[r].row,
           e.type = "incident.status_changed" => e.to = tx[r].row.status,
           e.created_at <= now',
           \A f \in outbox : f.incident = Target(r) => f.created_at < e.created_at
    PROVE  /\ Announced(r)'
           /\ TypesOf(tx'[r].events) = TypesOf(tx[r].events) \cup {e.type}
<1>1. Announced(r) /\ now \in Nat /\ \A f \in tx[r].events : f.created_at \in Nat
  BY DEF LedgerInv, WriteInv, TypeInv, TypeOK, Tx, Event
<1>2. \A f \in tx[r].events : f.type # e.type
  BY DEF TypesOf
<1>3. \A f \in tx[r].events : f.created_at <= now'
  BY <1>1 DEF Announced
<1>4. Target(r)' = Target(r)
  BY DEF Target
<1>5. TypesOf(tx'[r].events) = TypesOf(tx[r].events) \cup {e.type}
  BY DEF TypesOf
<1> QED BY <1>1, <1>2, <1>3, <1>4, <1>5 DEF Announced

\* The audit row and the events are added to the open transaction.
LEMMA WriteQuiet ==
    ASSUME LedgerInv, TypeInv', NEW r \in Request,
           \/ RecordAudit(r) \/ EnqueueCreated(r) \/ EnqueueUpdated(r)
           \/ EnqueueStatusChanged(r) \/ EnqueueClosed(r)
    PROVE  LedgerInv'
<1>1. /\ RequestInv(r) /\ WriteInv(r) /\ now \in Nat /\ now' \in Nat /\ tx[r] \in Tx
      /\ pc \in [Request -> PC] /\ tx \in [Request -> Tx]
      /\ \A f \in outbox : f.created_at \in Nat /\ f.created_at <= now
  BY DEF LedgerInv, TypeInv, TypeOK, Committed, Event
<1>2. /\ pc[r] \in HasWritten \ {"commit"} /\ tx[r].row \in Row /\ Writing(r)
      /\ call[r] \in Call
  BY <1>1, ConstantAssumption
     DEF RecordAudit, EnqueueCreated, EnqueueUpdated, EnqueueStatusChanged, EnqueueClosed,
         RequestInv, Staged, RowPending, HasWritten, Writing
<1>3. /\ UNCHANGED <<incident, audit, outbox, call>> /\ now <= now'
      /\ \A q \in Request \ {r} : pc'[q] = pc[q] /\ call'[q] = call[q] /\ tx'[q] = tx[q]
      /\ pc'[r] \in HasWritten
  BY <1>1 DEF RecordAudit, EnqueueCreated, EnqueueUpdated, EnqueueStatusChanged,
              EnqueueClosed, Enqueue, Goto, database, HasWritten
<1>4. ASSUME tx'[r].row = tx[r].row, Contents(r)', Announced(r)' PROVE LedgerInv'
  <2>1. RowHeld(r)'
    BY <1>1, <1>2, <1>3, <1>4 DEF WriteInv, RowHeld, Writing
  <2>2. WriteInv(r)'
    BY <1>4, <2>1 DEF WriteInv
  <2>3. pc[r] # "done"
    BY <1>2 DEF HasWritten
  <2> QED BY <1>2, <1>3, <2>2, <2>3, QuietStep
<1>5. CASE RecordAudit(r)
  <2> DEFINE a == [request |-> r, action |-> AuditAction(r), target |-> Target(r),
                   result |-> "success"]
  <2>1. /\ pc[r] = "audit" /\ call[r].op \in {"create", "patch"}
        /\ pc'[r] = IF call[r].op = "create" THEN "enqueue_created" ELSE "enqueue_updated"
        /\ tx' = [tx EXCEPT ![r] = [tx[r] EXCEPT !.audit = {a}]]
    BY <1>1, <1>2, <1>5, CallKinds DEF RecordAudit, Goto
  <2>2. a.request = r /\ a.target = Target(r) /\ a.result = "success"
    OBVIOUS
  <2> HIDE DEF a
  <2>3. tx'[r].row = tx[r].row /\ tx'[r].audit = {a} /\ tx'[r].events = tx[r].events
    BY <1>1, <2>1 DEF Tx
  <2>4. tx[r].events = {}
    BY <1>1, <2>1 DEF WriteInv, Contents
  <2>5. Target(r)' = Target(r) /\ Writing(r)'
    BY <1>2, <1>3, <2>3 DEF Target, Writing
  <2>6. Contents(r)'
    BY <1>2, <1>3, <2>1, <2>2, <2>3, <2>4, <2>5 DEF Contents
  <2>7. Announced(r)'
    BY <2>3, <2>4 DEF Announced
  <2> QED BY <1>4, <2>3, <2>6, <2>7
<1>6. ASSUME NEW e, ~RecordAudit(r),
             tx' = [tx EXCEPT ![r] = [tx[r] EXCEPT !.events = @ \cup {e}]]
      PROVE  /\ tx'[r].row = tx[r].row /\ tx'[r].audit = tx[r].audit
             /\ tx'[r].events = tx[r].events \cup {e}
             /\ Writing(r)' /\ Target(r)' = Target(r)
  BY <1>1, <1>2, <1>3, <1>6 DEF Tx, Writing, Target
<1>7. ASSUME pc[r] # "audit"
      PROVE  \E a \in tx[r].audit :
                 /\ tx[r].audit = {a}
                 /\ a.request = r /\ a.target = Target(r) /\ a.result = "success"
  BY <1>1, <1>2, <1>7 DEF WriteInv, Contents
<1>8. CASE EnqueueCreated(r)
  <2> DEFINE e == NewEvent(r, "incident.created", tx[r].at, tx[r].row, None, None)
  <2>1. /\ pc[r] = "enqueue_created" /\ pc'[r] = "commit" /\ call[r].op = "create"
        /\ tx' = [tx EXCEPT ![r] = [tx[r] EXCEPT !.events = @ \cup {e}]]
        /\ now' = now
    BY <1>1, <1>8 DEF EnqueueCreated, Enqueue, Goto, RequestInv, Staged
  <2>2. /\ e.type = "incident.created" /\ e.request = r /\ e.incident = Target(r)
        /\ e.snapshot = tx[r].row /\ e.created_at = tx[r].at
    BY DEF NewEvent
  <2> HIDE DEF e
  <2>3. /\ tx'[r].row = tx[r].row /\ tx'[r].audit = tx[r].audit
        /\ tx'[r].events = tx[r].events \cup {e}
        /\ Writing(r)' /\ Target(r)' = Target(r)
    BY <1>6, <2>1 DEF RecordAudit
  <2>4. tx[r].events = {} /\ tx[r].at <= now
    BY <1>1, <2>1 DEF WriteInv, Contents, RequestInv, CreatePrepared, InTx
  <2>5. \A f \in outbox : f.incident # Target(r)
    BY <2>1 DEF LedgerInv, Committed, Target
  <2>6. Announced(r)' /\ TypesOf(tx'[r].events) = {"incident.created"}
    BY <1>1, <1>3, <2>1, <2>2, <2>3, <2>4, <2>5, OneMoreEvent DEF TypesOf
  <2>7. Contents(r)'
    BY <1>3, <1>7, <2>1, <2>3, <2>6 DEF Contents
  <2> QED BY <1>4, <2>3, <2>6, <2>7
<1>9. CASE EnqueueUpdated(r)
  <2> DEFINE e == NewEvent(r, "incident.updated", now', tx[r].row, None, None)
  <2>1. /\ pc[r] = "enqueue_updated" /\ call[r].op = "patch"
        /\ pc'[r] = IF StatusChanged(r) THEN "enqueue_status_changed" ELSE "commit"
        /\ tx' = [tx EXCEPT ![r] = [tx[r] EXCEPT !.events = @ \cup {e}]]
        /\ now' = now + 1
    BY <1>1, <1>9 DEF EnqueueUpdated, Enqueue, Goto, RequestInv, Staged
  <2>2. /\ e.type = "incident.updated" /\ e.request = r /\ e.incident = Target(r)
        /\ e.snapshot = tx[r].row /\ e.created_at = now'
    BY DEF NewEvent
  <2> HIDE DEF e
  <2>3. /\ tx'[r].row = tx[r].row /\ tx'[r].audit = tx[r].audit
        /\ tx'[r].events = tx[r].events \cup {e}
        /\ Writing(r)' /\ Target(r)' = Target(r)
    BY <1>6, <2>1 DEF RecordAudit
  <2>4. tx[r].events = {}
    BY <1>1, <2>1 DEF WriteInv, Contents
  <2>5. \A f \in outbox : f.created_at < e.created_at
    BY <1>1, <2>1, <2>2
  <2>6. Announced(r)' /\ TypesOf(tx'[r].events) = {"incident.updated"}
    BY <1>1, <1>3, <2>2, <2>3, <2>4, <2>5, OneMoreEvent DEF TypesOf
  <2>7. StatusChanged(r) => call[r].input.status # None
    BY DEF StatusChanged
  <2>8. Contents(r)'
    BY <1>3, <1>7, <2>1, <2>3, <2>6, <2>7 DEF Contents
  <2> QED BY <1>4, <2>3, <2>6, <2>8
<1>10. CASE EnqueueStatusChanged(r)
  <2> DEFINE e == NewEvent(r, "incident.status_changed", now', NoRow,
                           tx[r].prior.status, call[r].input.status)
  <2>1. /\ pc[r] = "enqueue_status_changed" /\ call[r].op = "patch"
        /\ pc'[r] = IF call[r].input.status = "closed" THEN "enqueue_closed" ELSE "commit"
        /\ tx' = [tx EXCEPT ![r] = [tx[r] EXCEPT !.events = @ \cup {e}]]
        /\ now' = now + 1
    BY <1>1, <1>10 DEF EnqueueStatusChanged, Enqueue, Goto, RequestInv, Staged
  <2>2. /\ e.type = "incident.status_changed" /\ e.request = r /\ e.incident = Target(r)
        /\ e.to = call[r].input.status /\ e.created_at = now'
    BY DEF NewEvent
  <2> HIDE DEF e
  <2>3. /\ tx'[r].row = tx[r].row /\ tx'[r].audit = tx[r].audit
        /\ tx'[r].events = tx[r].events \cup {e}
        /\ Writing(r)' /\ Target(r)' = Target(r)
    BY <1>6, <2>1 DEF RecordAudit
  <2>4. TypesOf(tx[r].events) = {"incident.updated"} /\ call[r].input.status # None
    BY <1>1, <2>1 DEF WriteInv, Contents
  <2>5. tx[r].row.status = call[r].input.status
    BY <1>1, <1>2, <2>1, <2>4 DEF WriteInv, RowHeld
  <2>6. \A f \in outbox : f.created_at < e.created_at
    BY <1>1, <2>1, <2>2
  <2>7. Announced(r)' /\ TypesOf(tx'[r].events) = {"incident.updated", "incident.status_changed"}
    <3>1. e.type \notin TypesOf(tx[r].events) /\ e.created_at <= now'
      BY <1>1, <2>2, <2>4
    <3>2. /\ Announced(r)'
          /\ TypesOf(tx'[r].events) = TypesOf(tx[r].events) \cup {e.type}
      BY <1>1, <1>3, <2>2, <2>3, <2>5, <2>6, <3>1, OneMoreEvent
    <3> QED BY <2>2, <2>4, <3>2
  <2>8. Contents(r)'
    BY <1>3, <1>7, <2>1, <2>3, <2>4, <2>7 DEF Contents
  <2> QED BY <1>4, <2>3, <2>7, <2>8
<1>11. CASE EnqueueClosed(r)
  <2> DEFINE e == NewEvent(r, "incident.closed", now', NoRow, None, None)
  <2>1. /\ pc[r] = "enqueue_closed" /\ pc'[r] = "commit" /\ call[r].op = "patch"
        /\ tx' = [tx EXCEPT ![r] = [tx[r] EXCEPT !.events = @ \cup {e}]]
        /\ now' = now + 1
    BY <1>1, <1>11 DEF EnqueueClosed, Enqueue, Goto, RequestInv, Staged
  <2>2. /\ e.type = "incident.closed" /\ e.request = r /\ e.incident = Target(r)
        /\ e.created_at = now'
    BY DEF NewEvent
  <2> HIDE DEF e
  <2>3. /\ tx'[r].row = tx[r].row /\ tx'[r].audit = tx[r].audit
        /\ tx'[r].events = tx[r].events \cup {e}
        /\ Writing(r)' /\ Target(r)' = Target(r)
    BY <1>6, <2>1 DEF RecordAudit
  <2>4. /\ TypesOf(tx[r].events) = {"incident.updated", "incident.status_changed"}
        /\ call[r].input.status = "closed"
    BY <1>1, <2>1 DEF WriteInv, Contents
  <2>5. \A f \in outbox : f.created_at < e.created_at
    BY <1>1, <2>1, <2>2
  <2>6. /\ Announced(r)'
        /\ TypesOf(tx'[r].events) = {"incident.updated", "incident.status_changed",
                                     "incident.closed"}
    <3>1. e.type \notin TypesOf(tx[r].events) /\ e.created_at <= now'
      BY <1>1, <2>2, <2>4
    <3>2. /\ Announced(r)'
          /\ TypesOf(tx'[r].events) = TypesOf(tx[r].events) \cup {e.type}
      BY <1>1, <1>3, <2>2, <2>3, <2>5, <3>1, OneMoreEvent
    <3> QED BY <2>2, <2>4, <3>2
  <2>7. Contents(r)'
    BY <1>3, <1>7, <2>1, <2>3, <2>4, <2>6 DEF Contents
  <2> QED BY <1>4, <2>3, <2>6, <2>7
<1> QED BY <1>5, <1>8, <1>9, <1>10, <1>11

\* What is known of a commit that writes a row.
LEMMA CommitFacts ==
    ASSUME LedgerInv, NEW r \in Request, Commit(r)
    PROVE  /\ pc[r] = "commit" /\ pc'[r] = "done" /\ tx'[r] = NoTx
           /\ call[r] \in Call /\ Target(r) \in Incident
           /\ tx[r] \in Tx /\ WriteInv(r)
           /\ UNCHANGED <<now, call>>
           /\ \A q \in Request \ {r} : pc'[q] = pc[q] /\ call'[q] = call[q] /\ tx'[q] = tx[q]
           /\ tx[r].row # NoRow =>
                 /\ incident' = [incident EXCEPT ![Target(r)] = tx[r].row]
                 /\ incident'[Target(r)] = tx[r].row
                 /\ \A i \in Incident \ {Target(r)} : incident'[i] = incident[i]
                 /\ Writing(r) /\ tx[r].row \in Row
           /\ tx[r].row = NoRow =>
                 UNCHANGED <<incident, audit, outbox>>
<1>1. /\ RequestInv(r) /\ WriteInv(r) /\ pc[r] = "commit" /\ tx[r] \in Tx
      /\ pc \in [Request -> PC] /\ tx \in [Request -> Tx]
      /\ incident \in [Incident -> Row \cup {NoRow}]
  BY DEF Commit, LedgerInv, TypeInv, TypeOK
<1>2. call[r] \in Call /\ Target(r) \in Incident
  BY <1>1, TargetType DEF RequestInv, Staged
<1>3. /\ pc'[r] = "done" /\ tx'[r] = NoTx /\ UNCHANGED <<now, call>>
      /\ \A q \in Request \ {r} : pc'[q] = pc[q] /\ call'[q] = call[q] /\ tx'[q] = tx[q]
  BY <1>1 DEF Commit, Answer, Goto, Release
<1>4. ASSUME tx[r].row # NoRow
      PROVE  /\ incident' = [incident EXCEPT ![Target(r)] = tx[r].row]
             /\ incident'[Target(r)] = tx[r].row
             /\ \A i \in Incident \ {Target(r)} : incident'[i] = incident[i]
             /\ Writing(r) /\ tx[r].row \in Row
  <2>1. tx[r].row \in Row
    BY <1>1, <1>4 DEF Tx
  <2>2. incident' = [incident EXCEPT ![Target(r)] = tx[r].row]
    BY <1>4 DEF Commit
  <2> QED BY <1>1, <1>2, <1>4, <2>1, <2>2 DEF Writing, HasWritten
<1>5. ASSUME tx[r].row = NoRow PROVE UNCHANGED <<incident, audit, outbox>>
  <2>1. tx[r].audit = {} /\ tx[r].events = {}
    BY <1>1, <1>5 DEF WriteInv, Contents, Writing
  <2> QED BY <1>5, <2>1 DEF Commit
<1> QED BY <1>1, <1>2, <1>3, <1>4, <1>5

\* A commit leaves what the other open transactions rest on: they write other
\* incidents.
LEMMA CommitKeeps ==
    ASSUME LedgerInv, TypeInv', NEW r \in Request, Commit(r)
    PROVE  LedgerInv'
<1>1. /\ pc[r] = "commit" /\ pc'[r] = "done" /\ tx'[r] = NoTx
      /\ call[r] \in Call /\ Target(r) \in Incident
      /\ tx[r] \in Tx /\ WriteInv(r)
      /\ UNCHANGED <<now, call>>
      /\ \A q \in Request \ {r} : pc'[q] = pc[q] /\ call'[q] = call[q] /\ tx'[q] = tx[q]
  BY CommitFacts
<1>2. WriteInv(r)' /\ ~Writing(r)'
  BY <1>1, NoTxType DEF WriteInv, Contents, Announced, RowHeld, Writing, HasWritten
<1>3. CASE tx[r].row = NoRow
  <2>1. UNCHANGED <<incident, audit, outbox>>
    BY <1>3, CommitFacts
  <2>2. now \in Nat
    BY DEF LedgerInv, TypeInv, TypeOK
  <2> QED BY <1>1, <1>2, <2>1, <2>2, QuietStep
<1>4. CASE tx[r].row # NoRow
  <2>1. /\ incident'[Target(r)] = tx[r].row
        /\ \A i \in Incident \ {Target(r)} : incident'[i] = incident[i]
        /\ Writing(r) /\ tx[r].row \in Row /\ tx[r].row # NoRow
    BY <1>4, CommitFacts
  <2>2. /\ audit' = audit \cup tx[r].audit /\ outbox' = outbox \cup tx[r].events
        /\ \A a \in tx[r].audit : a.request = r
        /\ \A e \in tx[r].events : /\ e.request = r /\ e.incident = Target(r)
                                   /\ e.created_at <= now
    BY <1>1, <2>1 DEF Commit, WriteInv, Announced, Contents
  <2>3. ASSUME NEW q \in Request \ {r} PROVE WriteInv(q)'
    <3>1. WriteInv(q) /\ Contents(q)' /\ Target(q)' = Target(q)
      BY <1>1, SameContents DEF LedgerInv, WriteInv
    <3>2. Announced(q)'
      <4>1. CASE tx[q].events = {}
        BY <1>1, <4>1 DEF Announced
      <4>2. CASE tx[q].events # {}
        <5>1. Writing(q)
          BY <3>1, <4>2 DEF WriteInv, Contents
        <5>2. Target(q) # Target(r)
          BY <2>1, <5>1, DistinctTargets
        <5> QED BY <1>1, <2>2, <3>1, <5>2 DEF WriteInv, Announced
      <4> QED BY <4>1, <4>2
    <3>3. RowHeld(q)'
      <4> SUFFICES ASSUME Writing(q)', call'[q].op = "patch" PROVE RowHeld(q)'
        BY DEF RowHeld
      <4>1. Writing(q) /\ call[q].op = "patch" /\ call'[q] = call[q] /\ tx'[q] = tx[q]
        BY <1>1 DEF Writing
      <4>2. Target(q) # Target(r) /\ Target(q) = call[q].incident
        BY <2>1, <4>1, DistinctTargets DEF Target
      <4>3. pc[q] # "idle" /\ RequestInv(q)
        BY <4>1 DEF Writing, HasWritten, LedgerInv, TypeInv
      <4>4. call[q].incident \in Incident
        BY <4>1, <4>3, CallKinds DEF RequestInv, Staged
      <4>5. incident'[call[q].incident] = incident[call[q].incident]
        BY <2>1, <4>2, <4>4
      <4> QED BY <3>1, <4>1, <4>5 DEF WriteInv, RowHeld
    <3> QED BY <3>1, <3>2, <3>3 DEF WriteInv
  <2>4. Locks'
    BY <1>1, <1>2 DEF LedgerInv, Locks, Writing
  <2>5. Committed'
    <3>1. ASSUME NEW q \in Request, pc'[q] # "done" PROVE incident'[q] = NoRow
      <4>1. q # r /\ pc[q] # "done" /\ incident[q] = NoRow /\ q \in Incident
        BY <1>1, <3>1 DEF LedgerInv, Committed, Incident
      <4>2. q # Target(r)
        <5>1. CASE call[r].op = "create"
          BY <4>1, <5>1 DEF Target
        <5>2. CASE call[r].op = "patch"
          <6>1. incident[call[r].incident] \in Row
            BY <1>1, <1>4, <5>2
               DEF LedgerInv, TypeInv, RequestInv, PatchChecked, HasWritten
          <6> QED BY <4>1, <5>2, <6>1, ConstantAssumption DEF Target
        <5> QED BY <1>1, <5>1, <5>2, CallKinds
      <4> QED BY <2>1, <4>1, <4>2
    <3>2. ASSUME NEW a \in audit' PROVE pc'[a.request] = "done"
      <4>1. CASE a \in audit
        <5>1. a.request \in Request /\ pc[a.request] = "done"
          BY <4>1 DEF LedgerInv, Committed, TypeInv, TypeOK, AuditRow
        <5> QED BY <1>1, <5>1
      <4> QED BY <1>1, <2>2, <4>1
    <3>3. ASSUME NEW e \in outbox'
          PROVE  /\ pc'[e.request] = "done" /\ incident'[e.incident] # NoRow
                 /\ e.created_at <= now'
      <4>1. CASE e \in outbox
        <5>1. /\ e.request \in Request /\ e.incident \in Incident
              /\ pc[e.request] = "done" /\ incident[e.incident] # NoRow
              /\ e.created_at <= now
          BY <4>1 DEF LedgerInv, Committed, TypeInv, TypeOK, Event
        <5> QED BY <1>1, <2>1, <5>1
      <4>2. CASE e \in tx[r].events
        BY <1>1, <2>1, <2>2, <4>2
      <4> QED BY <2>2, <4>1, <4>2
    <3> QED BY <3>1, <3>2, <3>3 DEF Committed
  <2> QED BY <1>2, <2>3, <2>4, <2>5 DEF LedgerInv
<1> QED BY <1>3, <1>4

\* LedgerInv is inductive.
LEMMA LedgerInvInit == Init => LedgerInv
<1> SUFFICES ASSUME Init PROVE LedgerInv
  OBVIOUS
<1>1. TypeInv
  BY TypeInvInit
<1>2. \A r \in Request : /\ pc[r] = "idle" /\ tx[r] = NoTx /\ ~Writing(r)
                         /\ r \in Incident /\ r \notin Seeded
  BY ConstantAssumption DEF Init, Writing, HasWritten, Incident
<1>3. \A r \in Request : WriteInv(r)
  BY <1>2, NoTxType DEF WriteInv, Contents, Announced, RowHeld
<1>4. Locks /\ Committed
  BY <1>2 DEF Locks, Committed, Init
<1> QED BY <1>1, <1>3, <1>4 DEF LedgerInv

LEMMA LedgerInvNext == LedgerInv /\ [Next]_vars => LedgerInv'
<1> SUFFICES ASSUME LedgerInv, [Next]_vars PROVE LedgerInv'
  OBVIOUS
<1>1. TypeInv'
  BY TypeInvNext DEF LedgerInv
<1>2. CASE UNCHANGED vars
  <2>1. UNCHANGED <<incident, audit, outbox, now, pc, call, tx>>
    BY <1>2 DEF vars
  <2>2. \A r \in Request : WriteInv(r) => WriteInv(r)'
    BY <2>1, SameContents DEF WriteInv, Announced, RowHeld, Writing
  <2>3. Locks' /\ Committed'
    BY <2>1 DEF LedgerInv, Locks, Committed, Writing
  <2> QED BY <1>1, <2>2, <2>3 DEF LedgerInv
<1>3. ASSUME NEW r \in Request, Start(r) \/ Progress(r) \/ LoseDenial(r) \/ Fail(r)
      PROVE  LedgerInv'
  BY <1>1, <1>3, PlainQuiet, UpdateQuiet, WriteQuiet, CommitKeeps DEF Progress
<1> QED BY <1>2, <1>3 DEF Next

\* What a commit that writes a row adds to the tables is what the transaction
\* holds: nothing of it was there before.
LEMMA CommitAdds ==
    ASSUME LedgerInv, NEW r \in Request, Commit(r), tx[r].row # NoRow
    PROVE  /\ Ledger!WritesRow(Target(r))
           /\ Ledger!AppendsAudit(Target(r), "success")
           /\ outbox \subseteq outbox' /\ Ledger!Emitted = tx[r].events
           /\ Ledger!Announces(Target(r), TypesOf(tx[r].events))
<1>1. /\ pc[r] = "commit" /\ WriteInv(r) /\ Writing(r)
      /\ incident' = [incident EXCEPT ![Target(r)] = tx[r].row]
      /\ incident'[Target(r)] = tx[r].row
      /\ Target(r) \in Incident
  BY CommitFacts
<1>2. audit' = audit \cup tx[r].audit /\ outbox' = outbox \cup tx[r].events
  BY DEF Commit
<1>3. PICK a \in tx[r].audit :
         /\ tx[r].audit = {a}
         /\ a.request = r /\ a.target = Target(r) /\ a.result = "success"
  BY <1>1 DEF WriteInv, Contents
<1>4. a \notin audit /\ \A e \in tx[r].events : e \notin outbox
  BY <1>1, <1>3 DEF LedgerInv, Committed, WriteInv, Announced
<1>5. Ledger!WritesRow(Target(r))
  BY <1>1 DEF Ledger!WritesRow
<1>6. Ledger!AppendsAudit(Target(r), "success")
  BY <1>2, <1>3, <1>4 DEF Ledger!AppendsAudit, Ledger!Audited
<1>7. outbox \subseteq outbox' /\ Ledger!Emitted = tx[r].events
  BY <1>2, <1>4 DEF Ledger!Emitted
<1>8. Ledger!Announces(Target(r), TypesOf(tx[r].events))
  <2>1. {e.type : e \in Ledger!Emitted} = TypesOf(tx[r].events)
    BY <1>7 DEF TypesOf
  <2>2. \A e, f \in Ledger!Emitted : e.type = f.type => e = f
    BY <1>1, <1>7 DEF WriteInv, Announced
  <2>3. ASSUME NEW e \in Ledger!Emitted
        PROVE  /\ e.incident = Target(r)
               /\ e.type \in Ledger!Snapshot => e.snapshot = incident'[Target(r)]
               /\ \A f \in Ledger!EventsOf(Target(r), outbox) : f.created_at < e.created_at
    BY <1>1, <1>7, <2>3 DEF WriteInv, Announced, Ledger!Snapshot, Ledger!EventsOf
  <2> QED BY <1>7, <2>1, <2>2, <2>3 DEF Ledger!Announces
<1> QED BY <1>5, <1>6, <1>7, <1>8

\* Every step of the service leaves rows and events alone, or writes one row and
\* stages events about it, one of which carries the row.
LEMMA TableStep ==
    ASSUME LedgerInv, [Next]_vars
    PROVE  \/ UNCHANGED <<incident, outbox>>
           \/ \E i \in Incident : \E types :
                 /\ Ledger!WritesRow(i)
                 /\ Ledger!Announces(i, types)
                 /\ \E type \in types : type \in Ledger!Snapshot
<1>1. CASE UNCHANGED vars
  BY <1>1 DEF vars
<1>2. ASSUME NEW r \in Request, Commit(r)
      PROVE  \/ UNCHANGED <<incident, outbox>>
             \/ \E i \in Incident : \E types :
                   /\ Ledger!WritesRow(i)
                   /\ Ledger!Announces(i, types)
                   /\ \E type \in types : type \in Ledger!Snapshot
  <2>1. CASE tx[r].row = NoRow
    BY <1>2, <2>1, CommitFacts
  <2>2. CASE tx[r].row # NoRow
    <3>1. Target(r) \in Incident /\ WriteInv(r) /\ Writing(r) /\ pc[r] = "commit"
      BY <1>2, <2>2, CommitFacts
    <3>2. /\ Ledger!WritesRow(Target(r))
          /\ Ledger!Announces(Target(r), TypesOf(tx[r].events))
      BY <1>2, <2>2, CommitAdds
    <3>3. \E type \in TypesOf(tx[r].events) : type \in Ledger!Snapshot
      BY <3>1 DEF WriteInv, Contents, Ledger!Snapshot
    <3> QED BY <3>1, <3>2, <3>3
  <2> QED BY <2>1, <2>2
<1>3. ASSUME NEW r \in Request, Start(r) \/ Progress(r) \/ LoseDenial(r) \/ Fail(r),
             ~Commit(r)
      PROVE  UNCHANGED <<incident, outbox>>
  <2>1. CASE Start(r)
    BY <2>1 DEF Start, Deny, RejectCreate, StartCreate, StartPatch, Arrive, database
  <2>2. CASE \/ RecordDenial(r) \/ LoseDenial(r) \/ Fail(r) \/ InsertConflict(r)
             \/ NotFound(r) \/ RejectPatch(r)
    BY <2>2 DEF RecordDenial, LoseDenial, Fail, InsertConflict, NotFound, RejectPatch,
                Rollback, database
  <2>3. CASE \/ BeginDenial(r) \/ Begin(r) \/ Insert(r) \/ ReadUnchanged(r)
             \/ Read(r) \/ Update(r)
    BY <2>3 DEF BeginDenial, Begin, Insert, ReadUnchanged, Read, Update, database
  <2>4. CASE \/ RecordAudit(r) \/ EnqueueCreated(r) \/ EnqueueUpdated(r)
             \/ EnqueueStatusChanged(r) \/ EnqueueClosed(r)
    BY <2>4 DEF RecordAudit, EnqueueCreated, EnqueueUpdated, EnqueueStatusChanged,
                EnqueueClosed, Enqueue, database
  <2> QED BY <1>3, <2>1, <2>2, <2>3, <2>4 DEF Progress
<1> QED BY <1>1, <1>2, <1>3 DEF Next

\* Events of one incident become visible in the order of their stamps.
THEOREM EventsInStampOrder == Spec => StampOrder
<1> DEFINE Later == \A e \in outbox' \ outbox, f \in outbox :
                       f.incident = e.incident => f.created_at < e.created_at
<1>1. LedgerInv /\ [Next]_vars => [Later]_vars
  <2> SUFFICES ASSUME LedgerInv, [Next]_vars PROVE Later
    OBVIOUS
  <2>1. CASE UNCHANGED <<incident, outbox>>
    BY <2>1
  <2>2. CASE \E i \in Incident : \E types : Ledger!Announces(i, types)
    BY <2>2 DEF Ledger!Announces, Ledger!Emitted, Ledger!EventsOf
  <2> QED BY <2>1, <2>2, TableStep
<1> QED BY <1>1, LedgerInvInit, LedgerInvNext, PTL DEF Spec, StampOrder
-----------------------------------------------------------------------------
(* A stale snapshot is never the last word.                                 *)

\* A step of the ledger on incident i adds one snapshot of i, later than all
\* before it, and it is the row i now has; the other incidents are untouched.
LEMMA SnapshotStep ==
    ASSUME NEW i \in Incident, NEW types, Ledger!SnapshotIsCurrent,
           outbox' \subseteq Event,
           incident \in [Incident -> Row \cup {NoRow}],
           Ledger!WritesRow(i), Ledger!Announces(i, types),
           \E type \in types : type \in Ledger!Snapshot
    PROVE  Ledger!SnapshotIsCurrent'
<1>1. PICK new \in Ledger!Emitted : new.type \in Ledger!Snapshot
  BY DEF Ledger!Announces
<1>2. \A e \in outbox' : e.created_at \in Nat /\ e.incident \in Incident
  BY DEF Event
<1> SUFFICES ASSUME NEW e \in outbox', e.type \in Ledger!Snapshot,
                    \A f \in outbox' : /\ f.incident = e.incident
                                       /\ f.type \in Ledger!Snapshot
                                       => f.created_at <= e.created_at
             PROVE  e.snapshot = incident'[e.incident]
  BY DEF Ledger!SnapshotIsCurrent, Ledger!EventsOf, Ledger!Snapshot
<1>3. CASE e \in Ledger!Emitted
  BY <1>3 DEF Ledger!Announces
<1>4. CASE e \notin Ledger!Emitted
  <2>1. e \in outbox /\ new \in outbox' /\ new.incident = i
    BY <1>1, <1>4 DEF Ledger!Emitted, Ledger!Announces
  <2>2. e.incident # i
    <3>1. e.incident = i => e.created_at < new.created_at /\ new.created_at <= e.created_at
      BY <1>1, <2>1 DEF Ledger!Announces, Ledger!EventsOf
    <3> QED BY <1>2, <2>1, <3>1
  <2>3. e.snapshot = incident[e.incident]
    BY <2>1 DEF Ledger!SnapshotIsCurrent, Ledger!EventsOf, Ledger!Announces
  <2>4. incident'[e.incident] = incident[e.incident]
    BY <1>2, <2>2 DEF Ledger!WritesRow
  <2> QED BY <2>3, <2>4
<1> QED BY <1>3, <1>4

\* Whoever replays the events of an incident in stamp order ends with the row.
THEOREM SnapshotsConverge == Spec => []SnapshotIsCurrent
<1>1. Init => SnapshotIsCurrent
  BY DEF Init, SnapshotIsCurrent, Ledger!SnapshotIsCurrent
<1>2. LedgerInv /\ LedgerInv' /\ SnapshotIsCurrent /\ [Next]_vars => SnapshotIsCurrent'
  <2> SUFFICES ASSUME LedgerInv, LedgerInv', Ledger!SnapshotIsCurrent, [Next]_vars
               PROVE  Ledger!SnapshotIsCurrent'
    BY DEF SnapshotIsCurrent
  <2>1. outbox' \subseteq Event /\ incident \in [Incident -> Row \cup {NoRow}]
    BY DEF LedgerInv, TypeInv, TypeOK
  <2>2. CASE UNCHANGED <<incident, outbox>>
    BY <2>2 DEF Ledger!SnapshotIsCurrent, Ledger!EventsOf, Ledger!Snapshot
  <2>3. CASE \E i \in Incident : \E types : /\ Ledger!WritesRow(i)
                                        /\ Ledger!Announces(i, types)
                                        /\ \E type \in types : type \in Ledger!Snapshot
    BY <2>1, <2>3, SnapshotStep
  <2> QED BY <2>2, <2>3, TableStep
<1> QED BY <1>1, <1>2, LedgerInvInit, LedgerInvNext, PTL DEF Spec
-----------------------------------------------------------------------------
(* Idempotent re-ingest.                                                    *)

\* A pending insert holds its key against every committed row.
Inserting(r) == pc[r] \in HasWritten /\ call[r].op = "create"

KeysHeld ==
    /\ \A r \in Request, i \in Incident :
          Inserting(r) /\ incident[i] # NoRow => ~SameKey(incident[i], tx[r].row)
    /\ \A q, r \in Request :
          q # r /\ Inserting(q) /\ Inserting(r) => ~SameKey(tx[q].row, tx[r].row)

KeyInv == KeysHeld /\ NoDuplicateIngest

LEMMA SameKeySymmetric == ASSUME NEW a, NEW b PROVE SameKey(a, b) <=> SameKey(b, a)
BY DEF SameKey

\* What a step of r may do to keys: an insert that finds its key free, or a row
\* left as pending as it was, while nothing is committed.
LEMMA KeyQuiet ==
    ASSUME KeyInv, NEW r \in Request, incident' = incident,
           \A q \in Request \ {r} : pc'[q] = pc[q] /\ call'[q] = call[q] /\ tx'[q] = tx[q],
           Inserting(r)' => \/ Inserting(r) /\ tx'[r].row = tx[r].row
                            \/ /\ ~KeyPending(r) /\ ~KeyTaken(r) /\ tx'[r] = tx[r]
    PROVE  KeyInv'
<1>1. \A q \in Request \ {r} : (Inserting(q)' <=> Inserting(q)) /\ tx'[q] = tx[q]
  BY DEF Inserting
<1>2. ASSUME NEW i \in Incident, NEW q \in Request, Inserting(q)', incident'[i] # NoRow
      PROVE  ~SameKey(incident'[i], tx'[q].row)
  BY <1>1, <1>2 DEF KeyInv, KeysHeld, KeyTaken
<1>3. ASSUME Inserting(r)', NEW q \in Request \ {r}, Inserting(q)
      PROVE  ~SameKey(tx[q].row, tx'[r].row)
  BY <1>3 DEF KeyInv, KeysHeld, KeyPending, Inserting
<1>4. ASSUME NEW p \in Request, NEW q \in Request, p # q, Inserting(p)', Inserting(q)'
      PROVE  ~SameKey(tx'[p].row, tx'[q].row)
  BY <1>1, <1>3, <1>4, SameKeySymmetric DEF KeyInv, KeysHeld
<1> QED BY <1>2, <1>4 DEF KeyInv, KeysHeld, NoDuplicateIngest

\* A commit makes a pending key a committed one; a patch keeps its row's key.
LEMMA KeyCommit ==
    ASSUME LedgerInv, KeyInv, NEW r \in Request, Commit(r)
    PROVE  KeyInv'
<1>1. /\ pc'[r] = "done" /\ pc[r] = "commit" /\ WriteInv(r) /\ call[r] \in Call
      /\ UNCHANGED call /\ RequestInv(r)
      /\ \A q \in Request \ {r} : pc'[q] = pc[q] /\ call'[q] = call[q] /\ tx'[q] = tx[q]
  BY CommitFacts DEF LedgerInv, TypeInv
<1>2. CASE tx[r].row = NoRow
  BY <1>1, <1>2, CommitFacts, KeyQuiet DEF Inserting, HasWritten
<1>3. CASE tx[r].row # NoRow
  <2> DEFINE i == Target(r)
  <2>1. /\ i \in Incident /\ Writing(r) /\ incident'[i] = tx[r].row
        /\ \A j \in Incident \ {i} : incident'[j] = incident[j]
    BY <1>3, CommitFacts
  <2>2. ASSUME NEW row,
               \A j \in Incident \ {i} : incident[j] # NoRow => ~SameKey(incident[j], row),
               ~SameKey(tx[r].row, row)
        PROVE  \A j \in Incident : incident'[j] # NoRow => ~SameKey(incident'[j], row)
    BY <2>1, <2>2
  <2>3. \A j \in Incident \ {i} : incident[j] # NoRow => ~SameKey(incident[j], tx[r].row)
    <3>1. CASE call[r].op = "create"
      BY <1>1, <3>1 DEF KeyInv, KeysHeld, Inserting, HasWritten
    <3>2. CASE call[r].op = "patch"
      <4>1. i = call[r].incident /\ incident[i] # NoRow
        BY <1>1, <1>3, <3>2, ConstantAssumption
           DEF Target, RequestInv, PatchChecked, HasWritten
      <4>2. /\ tx[r].row.tenant = incident[i].tenant
            /\ tx[r].row.source = incident[i].source
            /\ tx[r].row.external = incident[i].external
        <5>1. \A f \in {"tenant", "source", "external", "created_at"} :
                 tx[r].row[f] = incident[i][f]
          BY <1>1, <2>1, <3>2, <4>1 DEF WriteInv, RowHeld
        <5> QED BY <5>1
      <4>3. \A j \in Incident \ {i} : incident[j] # NoRow => ~SameKey(incident[j], incident[i])
        BY <2>1, <4>1 DEF KeyInv, NoDuplicateIngest
      <4> QED BY <4>2, <4>3 DEF SameKey
    <3> QED BY <1>1, <3>1, <3>2, CallKinds
  <2>4. ASSUME NEW q \in Request, Inserting(q)'
        PROVE  q # r /\ Inserting(q) /\ tx'[q] = tx[q] /\ ~SameKey(tx[r].row, tx[q].row)
    <3>1. q # r /\ Inserting(q) /\ tx'[q] = tx[q]
      BY <1>1, <2>4 DEF Inserting, HasWritten
    <3>2. CASE call[r].op = "create"
      BY <1>1, <3>1, <3>2 DEF KeyInv, KeysHeld, Inserting, HasWritten
    <3>3. CASE call[r].op = "patch"
      <4>1. i = call[r].incident /\ incident[i] # NoRow
        BY <1>1, <1>3, <3>3, ConstantAssumption
           DEF Target, RequestInv, PatchChecked, HasWritten
      <4>2. \A f \in {"tenant", "source", "external", "created_at"} :
               tx[r].row[f] = incident[i][f]
        BY <1>1, <2>1, <3>3, <4>1 DEF WriteInv, RowHeld
      <4>3. /\ tx[r].row.tenant = incident[i].tenant
            /\ tx[r].row.source = incident[i].source
            /\ tx[r].row.external = incident[i].external
        BY <4>2
      <4>4. ~SameKey(incident[i], tx[q].row)
        BY <2>1, <3>1, <4>1 DEF KeyInv, KeysHeld
      <4> QED BY <3>1, <4>3, <4>4 DEF SameKey
    <3> QED BY <1>1, <3>1, <3>2, <3>3, CallKinds
  <2>5. ASSUME NEW q \in Request, Inserting(q)'
        PROVE  \A j \in Incident : incident'[j] # NoRow => ~SameKey(incident'[j], tx'[q].row)
    <3>1. \A j \in Incident \ {i} : incident[j] # NoRow => ~SameKey(incident[j], tx[q].row)
      BY <2>4, <2>5 DEF KeyInv, KeysHeld
    <3> QED BY <2>2, <2>4, <2>5, <3>1
  <2>6. ASSUME NEW p \in Request, NEW q \in Request, p # q, Inserting(p)', Inserting(q)'
        PROVE  ~SameKey(tx'[p].row, tx'[q].row)
    BY <2>4, <2>6 DEF KeyInv, KeysHeld
  <2>7. NoDuplicateIngest'
    <3> SUFFICES ASSUME NEW j \in Incident, NEW k \in Incident, j # k,
                        incident'[j] # NoRow, incident'[k] # NoRow
                 PROVE  ~SameKey(incident'[j], incident'[k])
      BY DEF NoDuplicateIngest
    <3>1. CASE j # i /\ k # i
      BY <2>1, <3>1 DEF KeyInv, NoDuplicateIngest
    <3>2. CASE k = i
      BY <2>1, <2>3, <3>2
    <3>3. CASE j = i
      BY <2>1, <2>3, <3>3, SameKeySymmetric
    <3> QED BY <3>1, <3>2, <3>3
  <2> QED BY <2>5, <2>6, <2>7 DEF KeyInv, KeysHeld
<1> QED BY <1>2, <1>3

LEMMA KeyInvNext == LedgerInv /\ KeyInv /\ [Next]_vars => KeyInv'
<1> SUFFICES ASSUME LedgerInv, KeyInv, [Next]_vars PROVE KeyInv'
  OBVIOUS
<1>1. CASE UNCHANGED vars
  BY <1>1 DEF vars, KeyInv, KeysHeld, NoDuplicateIngest, Inserting
<1>2. ASSUME NEW r \in Request, Start(r) \/ Progress(r) \/ LoseDenial(r) \/ Fail(r)
      PROVE  KeyInv'
  <2>1. RequestInv(r) /\ tx[r] \in Tx /\ pc \in [Request -> PC] /\ tx \in [Request -> Tx]
    BY DEF LedgerInv, TypeInv, TypeOK
  <2>2. CASE Start(r)
    <3>1. /\ pc'[r] \in {"denied", "done", "begin"} /\ incident' = incident
          /\ \A q \in Request \ {r} : pc'[q] = pc[q] /\ call'[q] = call[q] /\ tx'[q] = tx[q]
      <4> PICK c \in Call :
             Deny(r, c) \/ RejectCreate(r, c) \/ StartCreate(r, c) \/ StartPatch(r, c)
        BY <2>2 DEF Start
      <4>1. Arrive(r, c)
        BY DEF Deny, RejectCreate, StartCreate, StartPatch
      <4>2. /\ \E label \in {"denied", "done", "begin"} : pc' = [pc EXCEPT ![r] = label]
            /\ \A q \in Request \ {r} : tx'[q] = tx[q]
        BY <2>1 DEF Deny, RejectCreate, StartCreate, StartPatch, Goto, Answer
      <4> QED BY <2>1, <4>1, <4>2 DEF Arrive, database
    <3> QED BY <3>1, KeyQuiet DEF Inserting, HasWritten
  <2>3. CASE \/ RecordDenial(r) \/ LoseDenial(r) \/ InsertConflict(r) \/ NotFound(r)
             \/ RejectPatch(r) \/ Fail(r)
    <3>1. /\ pc'[r] = "done" /\ incident' = incident
          /\ \A q \in Request \ {r} : pc'[q] = pc[q] /\ call'[q] = call[q] /\ tx'[q] = tx[q]
      BY <2>1, <2>3
         DEF RecordDenial, LoseDenial, InsertConflict, NotFound, RejectPatch, Fail,
             Rollback, Release, Answer, Goto, database
    <3> QED BY <3>1, KeyQuiet DEF Inserting, HasWritten
  <2>4. CASE BeginDenial(r) \/ Begin(r) \/ ReadUnchanged(r) \/ Read(r) \/ Update(r)
    <3>1. /\ incident' = incident /\ UNCHANGED call
          /\ \A q \in Request \ {r} : pc'[q] = pc[q] /\ call'[q] = call[q] /\ tx'[q] = tx[q]
      BY <2>1, <2>4 DEF BeginDenial, Begin, ReadUnchanged, Read, Update, Goto, database
    <3>2. ~Inserting(r)'
      <4>1. CASE BeginDenial(r) \/ Begin(r)
        BY <2>1, <4>1 DEF BeginDenial, Begin, Goto, Inserting, HasWritten
      <4>2. CASE ReadUnchanged(r) \/ Read(r) \/ Update(r)
        BY <2>1, <3>1, <4>2 DEF ReadUnchanged, Read, Update, RequestInv, Staged, Inserting
      <4> QED BY <2>4, <4>1, <4>2
    <3> QED BY <3>1, <3>2, KeyQuiet
  <2>5. CASE Insert(r)
    <3>1. /\ incident' = incident /\ tx' = tx /\ ~KeyPending(r) /\ ~KeyTaken(r)
          /\ \A q \in Request \ {r} : pc'[q] = pc[q] /\ call'[q] = call[q] /\ tx'[q] = tx[q]
      BY <2>1, <2>5 DEF Insert, Goto, database
    <3> QED BY <3>1, KeyQuiet
  <2>6. CASE \/ RecordAudit(r) \/ EnqueueCreated(r) \/ EnqueueUpdated(r)
             \/ EnqueueStatusChanged(r) \/ EnqueueClosed(r)
    <3>1. /\ incident' = incident /\ UNCHANGED call /\ tx'[r].row = tx[r].row
          /\ pc[r] \in HasWritten
          /\ \A q \in Request \ {r} : pc'[q] = pc[q] /\ call'[q] = call[q] /\ tx'[q] = tx[q]
      BY <2>1, <2>6 DEF RecordAudit, EnqueueCreated, EnqueueUpdated, EnqueueStatusChanged,
                        EnqueueClosed, Enqueue, Goto, database, HasWritten, Tx
    <3> QED BY <3>1, KeyQuiet DEF Inserting
  <2>7. CASE Commit(r)
    BY <2>7, KeyCommit
  <2> QED BY <1>2, <2>2, <2>3, <2>4, <2>5, <2>6, <2>7 DEF Progress
<1> QED BY <1>1, <1>2 DEF Next

\* One incident per external record, whatever inserts race.
THEOREM NoDuplicates == Spec => []NoDuplicateIngest
<1>1. Init => KeyInv
  <2> SUFFICES ASSUME Init PROVE KeyInv
    OBVIOUS
  <2>1. \A r \in Request : ~Inserting(r)
    BY DEF Init, Inserting, HasWritten
  <2>2. NoDuplicateIngest
    BY DEF Init, NoDuplicateIngest
  <2> QED BY <2>1, <2>2 DEF KeyInv, KeysHeld
<1>2. KeyInv => NoDuplicateIngest
  BY DEF KeyInv
<1> QED BY <1>1, <1>2, LedgerInvInit, LedgerInvNext, KeyInvNext, PTL DEF Spec
=============================================================================
