--------------------------- MODULE OrderedDelivery ---------------------------
(* What the outbox relay promises, without saying how: events are staged by *)
(* transactions, every one handed to the bus was staged and is preceded by  *)
(* the earlier events of its incident, and only what was handed over is     *)
(* ever settled.  Handing an event over again is allowed (at least once),   *)
(* which is a stutter here.  OutboxRelay.tla is shown to implement it.      *)
EXTENDS Naturals

CONSTANTS Event,        \* records with at least incident and created_at
          Malformed     \* events whose payload cannot be decoded

VARIABLES staged, sent, settled

delivery == <<staged, sent, settled>>

Earlier(e, f) == e.incident = f.incident /\ e.created_at < f.created_at

Init == staged = {} /\ sent = {} /\ settled = {}

\* One transaction commits its events: they are of one incident, have stamps of
\* their own, and are all later than what the incident has.
Stage(S) ==
    /\ S # {}
    /\ S \cap staged = {}
    /\ \A e, f \in S : e.incident = f.incident /\ (e.created_at = f.created_at => e = f)
    /\ \A e \in S, f \in staged : e.incident = f.incident => Earlier(f, e)
    /\ staged' = staged \cup S
    /\ UNCHANGED <<sent, settled>>

Deliver(e) ==
    /\ \A f \in staged \ Malformed : Earlier(f, e) => f \in sent
    /\ sent' = sent \cup {e}
    /\ UNCHANGED <<staged, settled>>

Settle(e) ==
    /\ e \in sent
    /\ settled' = settled \cup {e}
    /\ UNCHANGED <<staged, sent>>

Next == \/ \E S \in SUBSET Event : Stage(S)
        \/ \E e \in staged \ Malformed : Deliver(e) \/ Settle(e)

Spec == Init /\ [][Next]_delivery
=============================================================================
