----------------------------- MODULE CoreProcess -----------------------------
(* The core process from start to exit (src/cmd/core/main.go): main waits   *)
(* for Postgres, migrates, waits for the broker, starts the relay and the   *)
(* HTTP server, and takes them down again when a signal comes.  The relay   *)
(* and the handlers run beside it; what they share is the connection pool   *)
(* and the publisher (src/internal/events/publisher.go) with its mutex.     *)
(*                                                                          *)
(* Of a request only its stages and its pool connection are kept, of the    *)
(* relay its way through Publish and the pool: IncidentService.tla and      *)
(* OutboxRelay.tla say what they do there.  Whether Postgres or the broker  *)
(* answers is open at every attempt.                                        *)
(*                                                                          *)
(* A definition marked VARIANT is the next one with a plausible bug in it;  *)
(* nothing uses it but the checks that the properties can fail.             *)
EXTENDS Naturals, FiniteSets

CONSTANTS Request,      \* requests ever made; each is made once
          Relay,        \* the relay, as a holder of a pool connection
          Attempts,     \* STARTUP_ATTEMPTS (30)
          MaxConns,     \* size of the pool (10)
          Batch,        \* rows the relay fetches at a time (100)
          MaxLink,      \* bound: AMQP connections the process ever has open at once
          MaxOrphans    \* bound: replaced connections left open

ASSUME ProcessAssumption ==
    /\ Relay \notin Request
    /\ {Attempts, MaxConns, Batch} \subseteq Nat \ {0}
    /\ MaxOrphans \in Nat
    /\ MaxLink \in Nat /\ MaxLink >= MaxOrphans + 2

Link == 1..MaxLink      \* 0 is a nil pointer

VARIABLES main,         \* where main is; "off" is no process
          exit,         \* how the last process ended: "returned", "aborted" or "none"
          tries,        \* attempts left in a wait
          signalled,    \* the signal context is cancelled
          http,         \* the HTTP server: "off", "listening" or "closed"
          timedOut,     \* the 10 s of Shutdown have run out
          relay,        \* where the relay's goroutine is
          rows,         \* fetched rows still to publish
          captured,     \* the channel Publish has read under the mutex
          dialled,      \* the connection connect is setting up
          mu,           \* the publisher's mutex: "free", "relay" or "main"
          conn, channel,\* the publisher's fields; a channel bears its connection's number
          poolOpen,
          held,         \* who has a connection of the pool
          request,      \* the stage of each request
          flow,         \* whether the broker reads what is written: "open" or "blocked"
          open,         \* AMQP connections that are open
          chans,        \* those of them whose channel is open
          orphans,      \* history: those of them that were replaced while open
          schema,       \* "empty" or "v1": whether the body of 0001_init has run
          version       \* golang-migrate's record: "none", "dirty" or "clean"

startup == <<main, exit, tries, signalled, http, timedOut>>
drain == <<relay, rows, captured, dialled>>
publisher == <<mu, conn, channel>>
handlers == <<poolOpen, held, request>>
links == <<open, chans, orphans>>
database == <<schema, version>>
vars == <<startup, drain, publisher, handlers, links, flow, database>>

Starting == {"db", "migrate", "apply", "record", "broker"}
Stopping == {"drain", "close_publisher", "closing", "close_pool", "closing_pool"}
Active == {"admitted", "tx", "handled"}

TypeOK ==
    /\ main \in {"off", "serve"} \cup Starting \cup Stopping
    /\ exit \in {"none", "returned", "aborted"}
    /\ tries \in 0..Attempts
    /\ signalled \in BOOLEAN
    /\ http \in {"off", "listening", "closed"}
    /\ timedOut \in BOOLEAN
    /\ relay \in {"off", "waiting", "fetching", "publish", "write", "reconnect",
                  "dial", "declare", "republish", "rewrite", "mark", "marking"}
    /\ rows \in 0..Batch
    /\ {captured, dialled, conn, channel} \subseteq Link \cup {0}
    /\ mu \in {"free", "relay", "main"}
    /\ poolOpen \in BOOLEAN
    /\ held \subseteq Request \cup {Relay}
    /\ Cardinality(held) <= MaxConns
    /\ request \in [Request -> {"none", "answered", "cut"} \cup Active]
    /\ flow \in {"open", "blocked"}
    /\ open \subseteq Link /\ chans \subseteq open /\ orphans \subseteq open
    /\ schema \in {"empty", "v1"}
    /\ version \in {"none", "dirty", "clean"}

Init ==
    /\ main = "off" /\ exit = "none" /\ tries = 0 /\ signalled = FALSE /\ http = "off" /\ timedOut = FALSE
    /\ relay = "off" /\ rows = 0 /\ captured = 0 /\ dialled = 0
    /\ mu = "free" /\ conn = 0 /\ channel = 0
    /\ poolOpen = FALSE /\ held = {} /\ request = [r \in Request |-> "none"]
    /\ flow = "open"
    /\ open = {} /\ chans = {} /\ orphans = {}
    /\ schema = "empty" /\ version = "none"

\* The process is gone, and with it its goroutines and its connections.
Ends(how) ==
    /\ main' = "off" /\ exit' = how /\ tries' = 0 /\ signalled' = FALSE /\ http' = "off"
    /\ timedOut' = FALSE
    /\ relay' = "off" /\ rows' = 0 /\ captured' = 0 /\ dialled' = 0
    /\ mu' = "free" /\ conn' = 0 /\ channel' = 0
    /\ poolOpen' = FALSE /\ held' = {}
    /\ request' = [r \in Request |-> IF request[r] \in Active THEN "cut" ELSE request[r]]
    /\ open' = {} /\ chans' = {} /\ orphans' = {}

\* os.Exit(1), or a kill: no deferred call runs.
Aborts == Ends("aborted") /\ UNCHANGED flow
-----------------------------------------------------------------------------
(* main: startup.                                                           *)

Goto(label) == main' = label /\ exit' = "none" /\ UNCHANGED <<signalled, http, timedOut>>

Start ==
    /\ main = "off"
    /\ Goto("db")
    /\ tries' = Attempts
    /\ UNCHANGED <<drain, publisher, handlers, links, flow, database>>

\* WaitForDB: a cancelled context fails every attempt.
ReachDB ==
    /\ main = "db"
    /\ ~signalled
    /\ Goto("migrate")
    /\ tries' = Attempts
    /\ poolOpen' = TRUE
    /\ UNCHANGED <<drain, publisher, held, request, links, flow, database>>

\* VARIANT: the attempts are not counted.
RetryDBForever ==
    /\ main = "db"
    /\ UNCHANGED vars

RetryDB ==
    /\ main = "db"
    /\ tries > 1
    /\ tries' = tries - 1
    /\ UNCHANGED <<main, exit, signalled, http, timedOut>>
    /\ UNCHANGED <<drain, publisher, handlers, links, flow, database>>

NoDB ==
    /\ main = "db"
    /\ tries = 1
    /\ Aborts /\ UNCHANGED database

\* m.Up: nothing to do.
AlreadyMigrated ==
    /\ main = "migrate"
    /\ version = "clean"
    /\ Goto("broker")
    /\ UNCHANGED <<tries, drain, publisher, handlers, links, flow, database>>

\* VARIANT: the version is recorded only after the body has run.
MarkDirtyLate ==
    /\ main = "migrate"
    /\ version = "none"
    /\ Goto("apply")
    /\ UNCHANGED <<tries, drain, publisher, handlers, links, flow, database>>

\* m.Up: the version is recorded as dirty before the body runs.
MarkDirty ==
    /\ main = "migrate"
    /\ version = "none"
    /\ version' = "dirty"
    /\ Goto("apply")
    /\ UNCHANGED <<tries, drain, publisher, handlers, links, flow, schema>>

RunBody ==
    /\ main = "apply"
    /\ schema' = "v1"
    /\ Goto("record")
    /\ UNCHANGED <<tries, drain, publisher, handlers, links, flow, version>>

MarkClean ==
    /\ main = "record"
    /\ version' = "clean"
    /\ Goto("broker")
    /\ UNCHANGED <<tries, drain, publisher, handlers, links, flow, schema>>

\* VARIANT: a migration that fails is only logged.
MigrationIgnored ==
    /\ main \in {"migrate", "apply", "record"}
    /\ Goto("broker")
    /\ UNCHANGED <<tries, drain, publisher, handlers, links, flow, database>>

\* A dirty version stops every later start; a lost connection stops this one,
\* whether or not the server has run the statement.
MigrationFails ==
    /\ main \in {"migrate", "apply", "record"}
    /\ schema' \in IF main = "apply" THEN {schema, "v1"} ELSE {schema}
    /\ version' \in CASE main = "migrate" /\ version = "none" -> {"none", "dirty"}
                      [] main = "record" -> {"dirty", "clean"}
                      [] OTHER -> {version}
    /\ Aborts

\* WaitForBroker does not look at the context.
ReachBroker ==
    /\ main = "broker"
    /\ conn' = 1 /\ channel' = 1
    /\ open' = {1} /\ chans' = {1}
    /\ Goto("serve")
    /\ relay' = "waiting"
    /\ UNCHANGED <<tries, rows, captured, dialled, mu, handlers, orphans, flow, database>>

RetryBroker ==
    /\ main = "broker"
    /\ tries > 1
    /\ tries' = tries - 1
    /\ UNCHANGED <<main, exit, signalled, http, timedOut>>
    /\ UNCHANGED <<drain, publisher, handlers, links, flow, database>>

NoBroker ==
    /\ main = "broker"
    /\ tries = 1
    /\ Aborts /\ UNCHANGED database
-----------------------------------------------------------------------------
(* main: service and shutdown.                                              *)

\* ListenAndServe, in a goroutine; once Shutdown has been called it returns.
Listen ==
    /\ main = "serve"
    /\ http = "off"
    /\ http' = "listening"
    /\ UNCHANGED <<main, exit, tries, signalled, timedOut>>
    /\ UNCHANGED <<drain, publisher, handlers, links, flow, database>>

\* The server's error reaches main: the address is taken, or accepting fails.
ServerCrashes ==
    /\ main = "serve"
    /\ Aborts /\ UNCHANGED database

TakeSignal ==
    /\ main = "serve"
    /\ signalled
    /\ main' = "drain"
    /\ http' = "closed"
    /\ UNCHANGED <<exit, tries, signalled, timedOut>>
    /\ UNCHANGED <<drain, publisher, handlers, links, flow, database>>

InFlight == {r \in Request : request[r] \in Active}

\* Shutdown returns when no request is in flight, or after 10 s.
Drained ==
    /\ main = "drain"
    /\ main' = "close_publisher"
    /\ timedOut' = (InFlight # {})
    /\ UNCHANGED <<exit, tries, signalled, http>>
    /\ UNCHANGED <<drain, publisher, handlers, links, flow, database>>

\* Publisher.Close takes the mutex ...
LockToClose ==
    /\ main = "close_publisher"
    /\ mu = "free"
    /\ mu' = "main"
    /\ Goto("closing")
    /\ UNCHANGED <<tries, drain, conn, channel, handlers, links, flow, database>>

\* ... says goodbye to the broker, which waits for a socket that is blocked,
\* and leaves both fields nil.
Close ==
    /\ main = "closing"
    /\ flow = "open" \/ conn \notin open
    /\ mu' = "free" /\ conn' = 0 /\ channel' = 0
    /\ open' = open \ {conn} /\ chans' = chans \ {conn}
    /\ Goto("close_pool")
    /\ UNCHANGED <<tries, drain, handlers, orphans, flow, database>>

\* Pool.Close: no connection is given out any more ...
ClosePool ==
    /\ main = "close_pool"
    /\ poolOpen' = FALSE
    /\ Goto("closing_pool")
    /\ UNCHANGED <<tries, drain, publisher, held, request, links, flow, database>>

\* VARIANT: the connections in use are closed under their users.
ReturnAtOnce ==
    /\ main = "closing_pool"
    /\ Ends("returned")
    /\ UNCHANGED <<flow, database>>

\* ... and it returns, and main with it, when all are back.
Return ==
    /\ main = "closing_pool"
    /\ held = {}
    /\ Ends("returned")
    /\ UNCHANGED <<flow, database>>
-----------------------------------------------------------------------------
(* The relay's goroutine, from the pool through Publish and back.           *)

\* VARIANT: the pool grows instead of waiting.
FreeConnAlways == poolOpen

FreeConn == poolOpen /\ Cardinality(held) < MaxConns

RelayGoto(label) == relay' = label /\ UNCHANGED <<startup, flow, database>>

\* A tick: FetchUnpublished takes a connection.  (With a cancelled context the
\* query fails and nothing happens; the loop then ends, which is the same.)
Fetch ==
    /\ relay = "waiting"
    /\ ~signalled
    /\ FreeConn
    /\ held' = held \cup {Relay}
    /\ RelayGoto("fetching")
    /\ UNCHANGED <<rows, captured, dialled, publisher, poolOpen, request, links>>

Fetched ==
    /\ relay = "fetching"
    /\ held' = held \ {Relay}
    /\ rows' \in IF signalled THEN {0} ELSE 0..Batch
    /\ RelayGoto(IF rows' = 0 THEN "waiting" ELSE "publish")
    /\ UNCHANGED <<captured, dialled, publisher, poolOpen, request, links>>

\* Publish copies the channel under the mutex and uses it after the unlock.
ReadChannel ==
    /\ relay \in {"publish", "republish"}
    /\ mu = "free"
    /\ captured' = channel
    /\ RelayGoto(IF relay = "publish" THEN "write" ELSE "rewrite")
    /\ UNCHANGED <<rows, dialled, publisher, handlers, links>>

Written ==
    /\ relay \in {"write", "rewrite"}
    /\ captured \in chans
    /\ flow = "open"
    /\ captured' = 0
    /\ RelayGoto("mark")
    /\ UNCHANGED <<rows, dialled, publisher, handlers, links>>

\* The channel is nil or closed: one reconnect.
WriteFails ==
    /\ relay = "write"
    /\ captured \notin chans
    /\ captured' = 0
    /\ RelayGoto("reconnect")
    /\ UNCHANGED <<rows, dialled, publisher, handlers, links>>

\* Publish fails: the rest of the batch waits for another tick.
GivesUp == relay' = "waiting" /\ rows' = 0 /\ captured' = 0 /\ dialled' = 0
           /\ UNCHANGED <<startup, flow, database, handlers>>

RewriteFails ==
    /\ relay = "rewrite"
    /\ captured \notin chans
    /\ GivesUp
    /\ UNCHANGED <<publisher, links>>

\* connect holds the mutex until it returns.
LockToConnect ==
    /\ relay = "reconnect"
    /\ mu = "free"
    /\ mu' = "relay"
    /\ RelayGoto("dial")
    /\ UNCHANGED <<rows, captured, dialled, conn, channel, handlers, links>>

Dial ==
    /\ relay = "dial"
    /\ dialled' = CHOOSE k \in Link : k \notin open \cup {conn}
    /\ open' = open \cup {dialled'}
    /\ RelayGoto("declare")
    /\ UNCHANGED <<rows, captured, publisher, handlers, chans, orphans>>

\* VARIANT: the mutex is not released on this way out.
DialFailsLocked ==
    /\ relay = "dial"
    /\ GivesUp
    /\ UNCHANGED <<publisher, links>>

DialFails ==
    /\ relay = "dial"
    /\ mu' = "free"
    /\ GivesUp
    /\ UNCHANGED <<conn, channel, links>>

\* Channel and exchange are there: both fields are replaced, and whatever
\* connection they named before is left as it is.
Connected ==
    /\ relay = "declare"
    /\ dialled \in open
    /\ conn' = dialled /\ channel' = dialled
    /\ chans' = chans \cup {dialled}
    /\ orphans' = orphans \cup ({conn} \cap open)
    /\ mu' = "free"
    /\ dialled' = 0
    /\ RelayGoto("republish")
    /\ UNCHANGED <<rows, captured, handlers, open>>

\* VARIANT: a connection whose channel cannot be opened is not closed.
DeclareFailsLeaks ==
    /\ relay = "declare"
    /\ mu' = "free"
    /\ GivesUp
    /\ UNCHANGED <<conn, channel, links>>

\* Opening the channel or declaring the exchange fails: the connection is closed.
DeclareFails ==
    /\ relay = "declare"
    /\ open' = open \ {dialled}
    /\ mu' = "free"
    /\ GivesUp
    /\ UNCHANGED <<conn, channel, chans, orphans>>

NextRow == rows' = rows - 1 /\ RelayGoto(IF rows = 1 THEN "waiting" ELSE "publish")

\* MarkPublished takes a connection; a cancelled context or a closed pool fails
\* it at once.
Mark ==
    /\ relay = "mark"
    /\ ~signalled
    /\ FreeConn
    /\ held' = held \cup {Relay}
    /\ RelayGoto("marking")
    /\ UNCHANGED <<rows, captured, dialled, publisher, poolOpen, request, links>>

MarkFails ==
    /\ relay = "mark"
    /\ signalled
    /\ NextRow
    /\ UNCHANGED <<captured, dialled, publisher, handlers, links>>

\* The mark ends, well or not.
Marked ==
    /\ relay = "marking"
    /\ held' = held \ {Relay}
    /\ NextRow
    /\ UNCHANGED <<captured, dialled, publisher, poolOpen, request, links>>
-----------------------------------------------------------------------------
(* The handlers.  Their contexts do not derive from the signal's.           *)

Stage(r, from, to) ==
    /\ request[r] = from
    /\ request' = [request EXCEPT ![r] = to]
    /\ UNCHANGED <<startup, drain, publisher, links, flow, database>>

Admit(r) == http = "listening" /\ Stage(r, "none", "admitted") /\ UNCHANGED <<poolOpen, held>>

Begin(r) == FreeConn /\ Stage(r, "admitted", "tx") /\ held' = held \cup {r} /\ UNCHANGED poolOpen

\* BEGIN fails: the pool is closed, no connection came free in time, or Postgres
\* does not answer.
NoConn(r) == Stage(r, "admitted", "handled") /\ UNCHANGED <<poolOpen, held>>

\* Commit or rollback.
EndTx(r) == Stage(r, "tx", "handled") /\ held' = held \ {r} /\ UNCHANGED poolOpen

Answer(r) == Stage(r, "handled", "answered") /\ UNCHANGED <<poolOpen, held>>
-----------------------------------------------------------------------------
(* What happens to the process.                                             *)

Signal ==
    /\ main # "off"
    /\ signalled' = TRUE
    /\ UNCHANGED <<main, exit, tries, http, timedOut>>
    /\ UNCHANGED <<drain, publisher, handlers, links, flow, database>>

Kill == main # "off" /\ Aborts /\ UNCHANGED database

\* The broker goes down, and every connection with it.
BrokerDown ==
    /\ flow' = "open"
    /\ open' = {} /\ chans' = {} /\ orphans' = {}
    /\ UNCHANGED <<startup, drain, publisher, handlers, database>>

\* One connection breaks.
Break(k) ==
    /\ k \in open
    /\ open' = open \ {k} /\ chans' = chans \ {k} /\ orphans' = orphans \ {k}
    /\ UNCHANGED <<startup, drain, publisher, handlers, flow, database>>

\* The broker closes a channel and not its connection: the exchange is gone.
CloseChannel(k) ==
    /\ k \in chans
    /\ Cardinality(orphans) < MaxOrphans
    /\ chans' = chans \ {k}
    /\ UNCHANGED <<startup, drain, publisher, handlers, open, orphans, flow, database>>

\* The broker stops reading from publishers (an alarm), and goes on later.
Block ==
    /\ flow' = "blocked"
    /\ UNCHANGED <<startup, drain, publisher, handlers, links, database>>

Unblock ==
    /\ flow' = "open"
    /\ UNCHANGED <<startup, drain, publisher, handlers, links, database>>
-----------------------------------------------------------------------------
MainSteps ==
    \/ ReachDB \/ RetryDB \/ NoDB
    \/ AlreadyMigrated \/ MarkDirty \/ RunBody \/ MarkClean \/ MigrationFails
    \/ ReachBroker \/ RetryBroker \/ NoBroker
    \/ TakeSignal \/ Drained \/ LockToClose \/ Close \/ ClosePool \/ Return

RelaySteps ==
    \/ Fetch \/ Fetched \/ ReadChannel \/ Written \/ WriteFails \/ RewriteFails
    \/ LockToConnect \/ Dial \/ DialFails \/ Connected \/ DeclareFails
    \/ Mark \/ MarkFails \/ Marked

Handle(r) == Begin(r) \/ NoConn(r) \/ EndTx(r) \/ Answer(r)

Next ==
    \/ Start \/ MainSteps \/ Listen \/ ServerCrashes
    \/ RelaySteps
    \/ \E r \in Request : Admit(r) \/ Handle(r)
    \/ Signal \/ Kill
    \/ BrokerDown \/ Block \/ Unblock
    \/ \E k \in Link : Break(k) \/ CloseChannel(k)

\* Every goroutine that can run does.
Fairness ==
    /\ WF_vars(MainSteps)
    /\ WF_vars(RelaySteps)
    /\ \A r \in Request : WF_vars(Handle(r))

Spec == Init /\ [][Next]_vars
FairSpec == Spec /\ Fairness
-----------------------------------------------------------------------------
(* Properties.                                                              *)

\* Requests are taken only over a complete schema: a start on an empty, half
\* migrated or abandoned database, or one that loses Postgres on the way, does
\* not listen (main.go, steps 3-8).
ServesMigrated ==
    http = "listening" => schema = "v1" /\ version = "clean"

\* The migration is "safe to call on every service start" (migrate.go): its body,
\* which cannot run twice, meets a database it has not run on, whatever crashes
\* and retries came before.
BodyRunsOnce == [][RunBody => schema = "empty"]_vars

\* main returns only when no transaction is open, although Shutdown gives up
\* after 10 s; and when it did not have to give up, every request that was let
\* in has its answer.
CleanExit ==
    [][main # "off" /\ exit' = "returned" =>
          \A r \in Request : request[r] # "tx" /\ (request[r] \in Active => timedOut)]_vars

\* The publisher leaves no connection behind but one it replaces while open,
\* its channel closed by the broker: not when connect fails half-way, and not
\* when Close and connect meet.
OnlyReplacedLeak == open \subseteq {conn, dialled} \cup orphans

\* A signal at any point ends the process: neither the mutex, nor the pool, nor
\* a request makes main wait for ever, and a socket only while the broker does
\* not read from it.
ShutdownEnds == <>[](flow = "open") => (signalled ~> main = "off")

\* A start does not hang: it serves or gives up.
StartupEnds == main \in Starting ~> main \in {"serve", "off"}
=============================================================================
