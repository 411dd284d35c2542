------------------------------ MODULE MCHttpApi ------------------------------
(* A small instance of HttpApi for TLC.                                     *)
EXTENDS HttpApi, TLC

Capability(produces, consumes, versions) ==
    [produces |-> produces, consumes |-> consumes, versions |-> versions]

\* One that registers, one that consumes a type nobody knows.
SomeCapabilities == {Capability({"incident"}, {"incident"}, {1}),
                     Capability({"incident"}, {"alert"}, {1})}

\* The incidents that nobody has looked at yet, and those of some days.
SomeFilters == {[statuses |-> {"new"}, since |-> 0, until |-> 0],
                [statuses |-> {}, since |-> 1, until |-> 3]}

\* The default tenant and the other one, and the ways to be turned away.
SomeHeaders ==
    {[principal |-> "user", tenant |-> "absent"],
     [principal |-> "user", tenant |-> CHOOSE t \in Tenant : t # DefaultTenant],
     [principal |-> "other", tenant |-> "absent"],
     [principal |-> "user", tenant |-> "malformed"]}

Symmetry == Permutations(Incident)
=============================================================================
