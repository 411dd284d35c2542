--------------------------- MODULE MCOutboxRelay ---------------------------
(* Small instances of OutboxRelay for TLC.                                  *)
EXTENDS OutboxRelay

CONSTANTS i1, i2, t1

Stamped(i, at) == [incident |-> i, tenant |-> t1, created_at |-> at]

\* Two incidents of one tenant, their events interleaved in time; the two
\* events at 2 carry the same stamp.
Events == {Stamped(i1, 1), Stamped(i1, 2), Stamped(i2, 2), Stamped(i1, 3)}

Undecodable == {Stamped(i1, 2)}

=============================================================================
