--------------------------- MODULE IncidentStatus ---------------------------
(* The status state machine of an incident                                  *)
(* (src/internal/domain/incident/incident.go).  Pure: no state of its own.  *)

Status == {"new", "triaged", "in_progress", "contained", "resolved", "closed"}

\* allowedTransitions: the moves a status may make, as pairs.
AllowedTransitions ==
    { <<"new",         "triaged">>,
      <<"triaged",     "in_progress">>,
      <<"in_progress", "contained">>,
      <<"in_progress", "resolved">>,
      <<"contained",   "resolved">>,
      <<"resolved",    "closed">>,
      <<"resolved",    "in_progress">>,     \* reopen
      <<"closed",      "in_progress">> }    \* reopen

\* CanTransition returns nil: re-asserting the current status is accepted.
CanTransition(from, to) == from = to \/ <<from, to>> \in AllowedTransitions
=============================================================================
