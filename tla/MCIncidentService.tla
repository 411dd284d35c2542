------------------------- MODULE MCIncidentService -------------------------
(* Small instances of IncidentService for TLC.                              *)
EXTENDS IncidentService

CONSTANTS s1, t1, t2, c1, x1, v1, v2

\* A body that leaves every field out but the ones given.
Body(given) == [f \in Field |-> IF f \in DOMAIN given THEN given[f] ELSE None]

Valid == [title |-> v1, severity |-> v1]

----------------------------------------------------------------------------
\* Every kind of body the handlers tell apart: moves of the status, the
\* re-assertion among them, a compared field, a move with a field that is never
\* compared, nothing at all, and what validation refuses.
AllPatches ==
    { [status |-> "closed",      fields |-> Body(<<>>)],
      [status |-> "in_progress", fields |-> Body(<<>>)],
      [status |-> None,          fields |-> Body([title |-> v2])],
      [status |-> "triaged",     fields |-> Body([severity |-> v1])],
      [status |-> None,          fields |-> Body(<<>>)],
      [status |-> Bad,           fields |-> Body(<<>>)],
      [status |-> None,          fields |-> Body([severity |-> Bad])] }

AllCreates ==
    { [source |-> c1,   external |-> x1,   fields |-> Body(Valid)],
      [source |-> None, external |-> x1,   fields |-> Body(Valid)],
      [source |-> None, external |-> None, fields |-> Body([title |-> v1])] }

----------------------------------------------------------------------------
\* More requests, fewer bodies: a connector's re-ingested incident, and the two
\* ways on from "resolved", of which the second no longer follows the first.
IngestCreates == { [source |-> c1, external |-> x1, fields |-> Body(Valid)] }

FewPatches ==
    { [status |-> "in_progress", fields |-> Body(<<>>)],
      [status |-> "closed",      fields |-> Body(<<>>)] }

\* Incidents met half-way: one of them closed, one reopened after a closure.
SeedRows ==
    { [tenant |-> t1, source |-> None, external |-> None,
       fields |-> [f \in Field |-> v1], status |-> seed[1],
       created_at |-> 1, updated_at |-> 1, closed_at |-> seed[2]] :
         seed \in { <<"new", 0>>, <<"in_progress", 1>>, <<"resolved", 0>>, <<"closed", 1>> } }

\* A resolved incident, from which both patches may go on, and a closed one,
\* which one of them reopens and the other leaves as it is.
ResolvedRow == {row \in SeedRows : row.status = "resolved"}
ClosedRow == {row \in SeedRows : row.status = "closed"}
=============================================================================
