-------------------------- MODULE MCSmokeConsumer --------------------------
(* A small instance of SmokeConsumer for TLC.                               *)
EXTENDS SmokeConsumer

CONSTANTS i1, t1

Stamped(i, at) == [incident |-> i, tenant |-> t1, created_at |-> at]

\* The test waits for the second event of an incident.
Events == {Stamped(i1, 1), Stamped(i1, 2)}

WantedEvents == {Stamped(i1, 2)}

=============================================================================
