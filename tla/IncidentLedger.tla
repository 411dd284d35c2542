--------------------------- MODULE IncidentLedger ---------------------------
(* What the incident service promises, seen from the database alone: an     *)
(* incident, its audit trail and the events staged for the bus change in    *)
(* one indivisible step, the step touches one incident, writes exactly one  *)
(* audit row for it and stages exactly the events of the catalogue.         *)
(*                                                                          *)
(* This is the promise of ADR-001 ("incident + audit + outbox in one tx",   *)
(* src/internal/persistence/pool.go) together with the status machine and   *)
(* the event catalogue of src/context/data_model.md.  The catalogue goes by *)
(* the status an incident moves from, and there are two ways to read it:    *)
(*                                                                          *)
(*   Documented  the status is the one the row has at this very step.  This *)
(*               is what the document says; the service keeps it as long as *)
(*               no two patches of one incident overlap.                    *)
(*   Next        the status is one the incident has or once had: a patch is *)
(*               announced against the row it read, which an overlapping    *)
(*               patch may have replaced.  This is what the service keeps   *)
(*               always, IncidentService!ImplementsLedger.                  *)
EXTENDS IncidentStatus, Naturals

CONSTANTS Incident,     \* every incident id that may ever exist
          Row,          \* the values an incident row may take
          NoRow         \* stands for "there is no such row"

VARIABLES incident,     \* the incident table: [Incident -> Row \cup {NoRow}]
          audit,        \* the audit table: a set of rows, append-only
          outbox        \* every event ever staged: a set, append-only

ledger == <<incident, audit, outbox>>

Emitted == outbox' \ outbox
Audited == audit' \ audit

\* The types of event that carry the whole incident.
Snapshot == {"incident.created", "incident.updated"}

EventsOf(i, evs) == {e \in evs : e.incident = i}
-----------------------------------------------------------------------------
\* Only the row of incident i changes, and there is a row afterwards.
WritesRow(i) ==
    /\ incident' = [incident EXCEPT ![i] = incident'[i]]
    /\ incident'[i] # NoRow

\* Exactly one audit row is appended: about i, with the given result.
AppendsAudit(i, result) ==
    /\ audit \subseteq audit'
    /\ \E a \in Audited : /\ Audited = {a}
                          /\ a.target = i
                          /\ a.result = result

\* Exactly one event of each of the given types is staged, all of them about i
\* and stamped later than every event already staged for i; the ones that
\* carry the incident carry the row as this very step leaves it.
Announces(i, types) ==
    /\ outbox \subseteq outbox'
    /\ {e.type : e \in Emitted} = types
    /\ \A e, f \in Emitted : e.type = f.type => e = f
    /\ \A e \in Emitted :
          /\ e.incident = i
          /\ e.type \in Snapshot => e.snapshot = incident'[i]
          /\ \A f \in EventsOf(i, outbox) : f.created_at < e.created_at

\* A new incident: it starts in "new".
Create(i) ==
    /\ incident[i] = NoRow
    /\ WritesRow(i)
    /\ incident'[i].status = "new"
    /\ AppendsAudit(i, "success")
    /\ Announces(i, {"incident.created"})

\* The events of an update that takes an incident from one status to another,
\* or leaves its status alone (data_model.md, "Event payloads").
Catalogue(from, to) ==
    {"incident.updated"}
    \cup {type \in {"incident.status_changed"} : from # to}
    \cup {type \in {"incident.closed"} : from # to /\ to = "closed"}

\* An update that counts as a move from the given status: what identifies the
\* incident stays, the status may follow the given one, and the events are the
\* catalogue's for that move and say so.
Update(i, from) ==
    /\ incident[i] # NoRow
    /\ WritesRow(i)
    /\ \A f \in {"tenant", "source", "external", "created_at"} :
          incident'[i][f] = incident[i][f]
    /\ CanTransition(from, incident'[i].status)
    /\ AppendsAudit(i, "success")
    /\ Announces(i, Catalogue(from, incident'[i].status))
    /\ \A e \in Emitted : e.type = "incident.status_changed"
                             => e.from = from /\ e.to = incident'[i].status

\* A refused caller leaves one audit row and nothing else.
Refuse ==
    /\ audit \subseteq audit'
    /\ \E a \in Audited : Audited = {a} /\ a.result = "denied"
    /\ UNCHANGED <<incident, outbox>>
-----------------------------------------------------------------------------
Init ==
    /\ incident \in [Incident -> Row \cup {NoRow}]
    /\ audit = {}
    /\ outbox = {}

\* The statuses the events of an incident have told of, and with its present
\* one those it has or once had.
Told(i) ==
    {e.snapshot.status : e \in {f \in EventsOf(i, outbox) : f.type \in Snapshot}}
    \cup
    {e.from : e \in {f \in EventsOf(i, outbox) : f.type = "incident.status_changed"}}

Known(i) == {incident[i].status} \cup Told(i)

Next == \/ \E i \in Incident : Create(i)
        \/ \E i \in Incident : incident[i] # NoRow /\ \E from \in Known(i) : Update(i, from)
        \/ Refuse

Spec == Init /\ [][Next]_ledger

\* The same, with every update counted as a move from the status the row has.
Documented == \/ \E i \in Incident : Create(i)
              \/ \E i \in Incident : incident[i] # NoRow /\ Update(i, incident[i].status)
              \/ Refuse

DocumentedSpec == Init /\ [][Documented]_ledger
-----------------------------------------------------------------------------
\* The snapshot with the latest stamp is the row: whoever replays an
\* incident's events in stamp order ends with what the database holds.
SnapshotIsCurrent ==
    \A e \in outbox :
       (/\ e.type \in Snapshot
        /\ \A f \in EventsOf(e.incident, outbox) :
              f.type \in Snapshot => f.created_at <= e.created_at)
       => e.snapshot = incident[e.incident]
=============================================================================
