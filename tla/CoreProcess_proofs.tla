-------------------------- MODULE CoreProcess_proofs --------------------------
(* Theorems about CoreProcess, for any number of requests, attempts, pool   *)
(* connections and rows: that requests are taken over a complete schema     *)
(* only, that the migration's body runs once, that the publisher leaves no  *)
(* connection behind but a replaced one, that main returns over no open     *)
(* transaction, and that the state keeps its types.                         *)
EXTENDS CoreProcess, FiniteSetTheorems, TLAPS

\* The migration's record says where the schema is, but while the body runs.
MigrationInv ==
    /\ version = "none" => schema = "empty"
    /\ version = "clean" => schema = "v1"
    /\ main = "apply" => version = "dirty" /\ schema = "empty"
    /\ main = "record" => version = "dirty" /\ schema = "v1"
    /\ main \in {"broker", "serve"} \cup Stopping => version = "clean"
    /\ http = "listening" => main = "serve"

\* Who is in a transaction has a connection of the pool.
PoolInv ==
    /\ request \in [Request -> {"none", "answered", "cut"} \cup Active]
    /\ \A r \in Request : request[r] = "tx" => r \in held

\* Once main drains nobody is let in, and it goes on with requests in flight
\* only if the time is up.
DrainInv ==
    /\ main # "off" => exit = "none"
    /\ main \in Stopping => http = "closed"
    /\ main \in Stopping \ {"drain"} /\ ~timedOut => InFlight = {}

ServiceInv == PoolInv /\ DrainInv

\* Only while it declares the exchange does connect hold a connection that the
\* publisher's fields do not name yet, and it does not run before main serves.
LinkInv ==
    /\ open \subseteq {conn} \cup orphans \cup (IF relay = "declare" THEN {dialled} ELSE {})
    /\ main \in {"off"} \cup Starting => relay = "off"
(* What a step leaves alone.                                                *)

\* Broker and network touch connections only.
Outside ==
    \/ BrokerDown \/ Block \/ Unblock
    \/ \E k \in Link : Break(k) \/ CloseChannel(k)

\* A step on the way up, a step on the way down, or an end without return.
Up == Start \/ ReachDB \/ RetryDB \/ AlreadyMigrated \/ MarkDirty \/ RunBody
      \/ MarkClean \/ ReachBroker \/ RetryBroker \/ Listen
Down == TakeSignal \/ Drained \/ LockToClose \/ Close \/ ClosePool
Abort == NoDB \/ MigrationFails \/ NoBroker \/ ServerCrashes \/ Kill

LEMMA StepCases ==
    ASSUME Next
    PROVE  \/ Up \/ Down \/ Return \/ Abort \/ Signal \/ RelaySteps \/ Outside
           \/ \E r \in Request : Admit(r) \/ Handle(r)
BY DEF Next, MainSteps, Up, Down, Abort, Outside

\* The relay changes nothing of main's, and nothing of Postgres' schema.
LEMMA RelayKeeps ==
    RelaySteps => UNCHANGED <<startup, database, request>>
BY DEF RelaySteps, Fetch, Fetched, ReadChannel, Written, WriteFails, RewriteFails,
       LockToConnect, Dial, DialFails, Connected, DeclareFails, Mark, MarkFails, Marked,
       RelayGoto, GivesUp, NextRow, startup, database, handlers

\* A handler changes its request and the pool.
LEMMA HandlersKeep ==
    ASSUME NEW r \in Request, Admit(r) \/ Handle(r)
    PROVE  UNCHANGED <<startup, drain, publisher, links, flow, database>>
BY DEF Handle, Admit, Begin, NoConn, EndTx, Answer, Stage

LEMMA OutsideKeeps ==
    Outside => UNCHANGED <<startup, drain, publisher, handlers, database>>
BY DEF Outside, BrokerDown, Block, Unblock, Break, CloseChannel
-----------------------------------------------------------------------------
(* The migration.                                                           *)

LEMMA InitMigration == Init => MigrationInv
BY DEF Init, MigrationInv, Stopping

LEMMA MigrationKept ==
    ASSUME MigrationInv, [Next]_vars
    PROVE  MigrationInv'
<1> USE DEF MigrationInv, Stopping
<1>1. CASE Up
  <2> USE DEF Goto
  <2>1. CASE Start BY <2>1 DEF Start, database
  <2>2. CASE ReachDB BY <2>2 DEF ReachDB, database
  <2>3. CASE RetryDB BY <2>3 DEF RetryDB, database
  <2>4. CASE AlreadyMigrated BY <2>4 DEF AlreadyMigrated, database
  <2>5. CASE MarkDirty BY <2>5 DEF MarkDirty
  <2>6. CASE RunBody BY <2>6 DEF RunBody
  <2>7. CASE MarkClean BY <2>7 DEF MarkClean
  <2>8. CASE ReachBroker BY <2>8 DEF ReachBroker, database
  <2>9. CASE RetryBroker BY <2>9 DEF RetryBroker, database
  <2>10. CASE Listen BY <2>10 DEF Listen, database
  <2> QED BY <1>1, <2>1, <2>2, <2>3, <2>4, <2>5, <2>6, <2>7, <2>8, <2>9, <2>10 DEF Up
<1>2. CASE Down
  BY <1>2 DEF Down, TakeSignal, Drained, LockToClose, Close, ClosePool, Goto, database
<1>3. CASE Return
  BY <1>3 DEF Return, Ends, database
<1>4. CASE Abort
  <2>1. main' = "off" /\ http' = "off"
    BY <1>4 DEF Abort, NoDB, MigrationFails, NoBroker, ServerCrashes, Kill, Aborts, Ends
  <2>2. CASE MigrationFails
    BY <2>1, <2>2 DEF MigrationFails
  <2>3. CASE ~MigrationFails
    <3>1. UNCHANGED database
      BY <1>4, <2>3 DEF Abort, NoDB, NoBroker, ServerCrashes, Kill
    <3> QED BY <2>1, <3>1 DEF database
  <2> QED BY <2>2, <2>3
<1>5. CASE Signal
  BY <1>5 DEF Signal, database
<1>6. CASE RelaySteps \/ Outside \/ \E r \in Request : Admit(r) \/ Handle(r)
  BY <1>6, RelayKeeps, OutsideKeeps, HandlersKeep DEF startup, database
<1>7. CASE UNCHANGED vars
  BY <1>7 DEF vars, startup, database
<1> QED BY <1>1, <1>2, <1>3, <1>4, <1>5, <1>6, <1>7, StepCases

\* Requests are taken over a complete schema only, whatever starts, crashes and
\* failed migrations came before (main.go, steps 3-8; migrate.go).
THEOREM ServesOnlyMigrated == Spec => []ServesMigrated
<1>1. MigrationInv => ServesMigrated
  BY DEF MigrationInv, ServesMigrated
<1> QED BY <1>1, InitMigration, MigrationKept, PTL DEF Spec

\* The body of 0001_init meets an empty database: golang-migrate records the version
\* as dirty first, and a dirty version stops every later start.
THEOREM MigrationRunsOnce == Spec => BodyRunsOnce
<1>1. MigrationInv => [RunBody => schema = "empty"]_vars
  BY DEF MigrationInv, RunBody
<1> QED BY <1>1, InitMigration, MigrationKept, PTL DEF Spec, BodyRunsOnce
-----------------------------------------------------------------------------
(* Requests in flight.                                                      *)

LEMMA InitService == Init => ServiceInv
BY DEF Init, ServiceInv, PoolInv, DrainInv, Stopping, Active

\* A process that ends leaves no request in flight.
LEMMA EndedService ==
    ASSUME ServiceInv, NEW how, Ends(how)
    PROVE  ServiceInv'
<1> USE DEF ServiceInv, Ends
<1>1. PoolInv'
  BY DEF PoolInv, Active
<1>2. DrainInv'
  BY DEF DrainInv, Stopping
<1> QED BY <1>1, <1>2

LEMMA ServiceKept ==
    ASSUME ServiceInv, [Next]_vars
    PROVE  ServiceInv'
<1> USE DEF ServiceInv
<1>1. CASE Up
  <2>1. UNCHANGED <<held, request>>
    BY <1>1 DEF Up, Start, ReachDB, RetryDB, AlreadyMigrated, MarkDirty, RunBody, MarkClean,
                ReachBroker, RetryBroker, Listen, handlers
  <2>2. main' \notin Stopping /\ (main' # "off" => exit' = "none")
    BY <1>1 DEF Up, Start, ReachDB, RetryDB, AlreadyMigrated, MarkDirty, RunBody, MarkClean,
                ReachBroker, RetryBroker, Listen, Goto, DrainInv, Stopping
  <2> QED BY <2>1, <2>2 DEF PoolInv, DrainInv
<1>2. CASE Down
  <2>1. UNCHANGED <<held, request>>
    BY <1>2 DEF Down, TakeSignal, Drained, LockToClose, Close, ClosePool, handlers
  <2>2. InFlight' = InFlight
    BY <2>1 DEF InFlight
  <2>3. DrainInv'
    BY <1>2, <2>2 DEF Down, TakeSignal, Drained, LockToClose, Close, ClosePool, Goto, DrainInv,
                      Stopping
  <2> QED BY <2>1, <2>3 DEF PoolInv
<1>3. CASE Return \/ Abort
  BY <1>3, EndedService DEF Return, Abort, NoDB, MigrationFails, NoBroker, ServerCrashes, Kill, Aborts
<1>4. CASE Signal
  BY <1>4 DEF Signal, handlers, PoolInv, DrainInv, InFlight
<1>5. CASE RelaySteps
  <2>1. UNCHANGED <<startup, request>>
    BY <1>5, RelayKeeps
  <2>2. held' \in {held, held \cup {Relay}, held \ {Relay}}
    BY <1>5 DEF RelaySteps, Fetch, Fetched, ReadChannel, Written, WriteFails, RewriteFails,
                LockToConnect, Dial, DialFails, Connected, DeclareFails, Mark, MarkFails, Marked,
                GivesUp, handlers
  <2>3. Relay \notin Request
    BY ProcessAssumption
  <2> QED BY <2>1, <2>2, <2>3 DEF PoolInv, DrainInv, InFlight, startup
<1>6. CASE Outside
  BY <1>6, OutsideKeeps DEF startup, handlers, PoolInv, DrainInv, InFlight
<1>7. ASSUME NEW r \in Request, Admit(r)
      PROVE  ServiceInv'
  <2> USE <1>7 DEF Admit, Stage
  <2>1. PoolInv'
    BY DEF PoolInv, Active
  <2>2. DrainInv'
    BY DEF DrainInv, startup, Stopping
  <2> QED BY <2>1, <2>2
<1>8. ASSUME NEW r \in Request, Handle(r)
      PROVE  ServiceInv'
  <2>1. UNCHANGED startup
    BY <1>8, HandlersKeep
  <2>2. PoolInv'
    <3> USE DEF Stage, PoolInv, Active
    <3>1. CASE Begin(r) BY <3>1 DEF Begin
    <3>2. CASE NoConn(r) BY <3>2 DEF NoConn
    <3>3. CASE EndTx(r) BY <3>3 DEF EndTx
    <3>4. CASE Answer(r) BY <3>4 DEF Answer
    <3> QED BY <1>8, <3>1, <3>2, <3>3, <3>4 DEF Handle
  <2>3. r \in InFlight /\ InFlight' \subseteq InFlight
    BY <1>8 DEF Handle, Begin, NoConn, EndTx, Answer, Stage, PoolInv, InFlight, Active
  <2>4. DrainInv'
    BY <2>1, <2>3 DEF DrainInv, startup
  <2> QED BY <2>2, <2>4
<1>9. CASE UNCHANGED vars
  BY <1>9 DEF vars, startup, handlers, PoolInv, DrainInv, InFlight
<1> QED BY <1>1, <1>2, <1>3, <1>4, <1>5, <1>6, <1>7, <1>8, <1>9, StepCases

\* Only Return lets main return, and the pool's Close has waited for every
\* connection by then; requests are still in flight only if Shutdown gave up.
LEMMA ReturnIsClean ==
    ASSUME ServiceInv, [Next]_vars, main # "off", exit' = "returned"
    PROVE  \A r \in Request : request[r] # "tx" /\ (request[r] \in Active => timedOut)
<1> USE DEF ServiceInv, PoolInv, DrainInv
<1>1. Return
  <2>1. exit = "none"
    OBVIOUS
  <2>2. ~Up
    BY <2>1 DEF Up, Start, ReachDB, RetryDB, AlreadyMigrated, MarkDirty, RunBody, MarkClean,
                ReachBroker, RetryBroker, Listen, Goto
  <2>3. ~Down /\ ~Signal
    BY <2>1 DEF Down, TakeSignal, Drained, LockToClose, Close, ClosePool, Goto, Signal
  <2>4. ~Abort
    BY DEF Abort, NoDB, MigrationFails, NoBroker, ServerCrashes, Kill, Aborts, Ends
  <2>5. ~UNCHANGED startup
    BY <2>1 DEF startup
  <2> QED BY <2>2, <2>3, <2>4, <2>5, StepCases, RelayKeeps, OutsideKeeps, HandlersKeep
             DEF vars
<1>2. main = "closing_pool" /\ held = {}
  BY <1>1 DEF Return
<1> QED BY <1>2 DEF Stopping, InFlight

\* main returns over no open transaction, and over no unanswered request either
\* when Shutdown did not have to give up (main.go: Shutdown, then the deferred
\* pool.Close).
THEOREM ExitIsClean == Spec => CleanExit
<1>1. ASSUME ServiceInv, [Next]_vars
      PROVE  [main # "off" /\ exit' = "returned" =>
                 \A r \in Request : request[r] # "tx" /\ (request[r] \in Active => timedOut)]_vars
  BY <1>1, ReturnIsClean
<1> QED BY <1>1, InitService, ServiceKept, PTL DEF Spec, CleanExit
-----------------------------------------------------------------------------
(* Connections.                                                             *)

LEMMA InitLink == Init => LinkInv
BY DEF Init, LinkInv

LEMMA LinkKept ==
    ASSUME LinkInv, [Next]_vars
    PROVE  LinkInv'
<1> USE DEF LinkInv, Starting, Stopping
<1>1. CASE Up
  <2>1. CASE ReachBroker
    BY <2>1 DEF ReachBroker, Goto
  <2>2. CASE ~ReachBroker
    <3>1. UNCHANGED <<drain, publisher, links>> /\ (main' = main \/ main \in {"off"} \cup Starting)
      BY <1>1, <2>2 DEF Up, Start, ReachDB, RetryDB, AlreadyMigrated, MarkDirty, RunBody,
                        MarkClean, RetryBroker, Listen
    <3> QED BY <3>1 DEF drain, publisher, links
  <2> QED BY <2>1, <2>2
<1>2. CASE Down
  <2>1. CASE Close
    BY <2>1 DEF Close, Goto, drain
  <2>2. CASE ~Close
    <3>1. UNCHANGED <<drain, conn, links>> /\ main' \in Stopping
      BY <1>2, <2>2 DEF Down, TakeSignal, Drained, LockToClose, ClosePool, Goto, publisher
    <3> QED BY <3>1 DEF drain, links
  <2> QED BY <2>1, <2>2
<1>3. CASE Return \/ Abort
  BY <1>3 DEF Return, Abort, NoDB, MigrationFails, NoBroker, ServerCrashes, Kill, Aborts, Ends
<1>4. CASE Signal
  BY <1>4 DEF Signal, drain, publisher, links
<1>5. CASE RelaySteps
  <2>0. relay # "off" /\ main' = main
    BY <1>5, RelayKeeps DEF startup, RelaySteps, Fetch, Fetched, ReadChannel, Written, WriteFails,
                            RewriteFails, LockToConnect, Dial, DialFails, Connected, DeclareFails,
                            Mark, MarkFails, Marked
  <2> USE <2>0 DEF publisher, links, RelayGoto
  <2>1. CASE Fetch BY <2>1 DEF Fetch
  <2>2. CASE Fetched BY <2>2 DEF Fetched
  <2>3. CASE ReadChannel BY <2>3 DEF ReadChannel
  <2>4. CASE Written BY <2>4 DEF Written
  <2>5. CASE WriteFails BY <2>5 DEF WriteFails
  <2>6. CASE RewriteFails BY <2>6 DEF RewriteFails, GivesUp
  <2>7. CASE LockToConnect BY <2>7 DEF LockToConnect
  <2>8. CASE Dial
    <3>1. relay = "dial" /\ relay' = "declare" /\ open' = open \cup {dialled'} /\ UNCHANGED <<conn, orphans>>
      BY <2>8 DEF Dial
    <3> QED BY <3>1
  <2>9. CASE DialFails BY <2>9 DEF DialFails, GivesUp
  <2>10. CASE Connected BY <2>10 DEF Connected
  <2>11. CASE DeclareFails BY <2>11 DEF DeclareFails, GivesUp
  <2>12. CASE Mark BY <2>12 DEF Mark
  <2>13. CASE MarkFails BY <2>13 DEF MarkFails, NextRow
  <2>14. CASE Marked BY <2>14 DEF Marked, NextRow
  <2> QED BY <1>5, <2>1, <2>2, <2>3, <2>4, <2>5, <2>6, <2>7, <2>8, <2>9, <2>10, <2>11, <2>12,
             <2>13, <2>14 DEF RelaySteps
<1>6. CASE Outside
  <2>1. UNCHANGED <<drain, publisher, main>>
    BY <1>6, OutsideKeeps DEF startup
  <2>2. CASE BrokerDown
    BY <2>1, <2>2 DEF BrokerDown, drain, publisher
  <2>3. CASE Block \/ Unblock
    BY <2>1, <2>3 DEF Block, Unblock, links, drain, publisher
  <2>4. CASE \E k \in Link : Break(k) \/ CloseChannel(k)
    BY <2>1, <2>4 DEF Break, CloseChannel, drain, publisher
  <2> QED BY <1>6, <2>2, <2>3, <2>4 DEF Outside
<1>7. CASE \E r \in Request : Admit(r) \/ Handle(r)
  BY <1>7, HandlersKeep DEF startup, drain, publisher, links
<1>8. CASE UNCHANGED vars
  BY <1>8 DEF vars, startup, drain, publisher, links
<1> QED BY <1>1, <1>2, <1>3, <1>4, <1>5, <1>6, <1>7, <1>8, StepCases

\* No connection is left open unowned when connect fails half-way or when Close and
\* connect meet (publisher.go): one that is open is the publisher's, the one being
\* set up, or one that was replaced while open.
THEOREM NoOtherLeak == Spec => []OnlyReplacedLeak
<1>1. LinkInv => OnlyReplacedLeak
  BY DEF LinkInv, OnlyReplacedLeak
<1> QED BY <1>1, InitLink, LinkKept, PTL DEF Spec
-----------------------------------------------------------------------------
(* Types.  Most of it is the same for every step; what needs an argument is *)
(* that a batch is not over-counted, that the pool is not over-drawn, and   *)
(* that there is always a number left for the connection that is dialled.   *)

MainOK ==
    /\ main \in {"off", "serve"} \cup Starting \cup Stopping
    /\ exit \in {"none", "returned", "aborted"}
    /\ tries \in 0..Attempts
    /\ signalled \in BOOLEAN
    /\ http \in {"off", "listening", "closed"}
    /\ timedOut \in BOOLEAN
    /\ flow \in {"open", "blocked"}
    /\ schema \in {"empty", "v1"}
    /\ version \in {"none", "dirty", "clean"}

\* Past the fetch a row is in hand.
BatchOK ==
    /\ relay \in {"off", "waiting", "fetching", "publish", "write", "reconnect",
                  "dial", "declare", "republish", "rewrite", "mark", "marking"}
    /\ rows \in 0..Batch
    /\ relay \notin {"off", "waiting", "fetching"} => rows # 0

PoolOK ==
    /\ poolOpen \in BOOLEAN
    /\ held \subseteq Request \cup {Relay}
    /\ IsFiniteSet(held) /\ Cardinality(held) <= MaxConns
    /\ request \in [Request -> {"none", "answered", "cut"} \cup Active]

\* The fields name one connection; who changes them holds the mutex; a relay
\* that reconnects has seen the channel closed, and so has a reader that is
\* about to.
FieldsOK ==
    /\ {captured, dialled, conn} \subseteq Link \cup {0}
    /\ channel = conn
    /\ mu \in {"free", "relay", "main"}
    /\ relay \in {"dial", "declare"} => mu = "relay"
    /\ main = "closing" => mu = "main"
    /\ relay = "write" => conn \in {captured, 0}
    /\ relay \in {"reconnect", "dial", "declare"} => conn \notin chans
    /\ relay = "declare" => dialled \in Link \ (orphans \cup {conn})
    /\ main \in {"off"} \cup Starting => conn = 0 /\ orphans = {}

\* Only the connection the fields name has a channel; the others that are open
\* were replaced, and at most MaxOrphans were, or are about to be.
RoomOK ==
    /\ open \subseteq Link /\ chans \subseteq open /\ orphans \subseteq open
    /\ chans \subseteq {conn} /\ conn \notin orphans
    /\ Cardinality(orphans) + (IF conn \in open \ chans THEN 1 ELSE 0) <= MaxOrphans

LinksOK == LinkInv /\ FieldsOK /\ RoomOK

ProcessInv == MainOK /\ BatchOK /\ PoolOK /\ LinksOK

\* A step of main, of the process or of its surroundings ends the process, or
\* leaves the relay's batch and the handlers alone.
LEMMA EndsOrKeeps ==
    ASSUME Up \/ Down \/ Return \/ Abort \/ Signal \/ Outside
    PROVE  \/ \E how \in {"returned", "aborted"} : Ends(how)
           \/ /\ UNCHANGED <<rows, captured, dialled, held, request>>
              /\ relay' = relay \/ ReachBroker
              /\ poolOpen' \in {poolOpen, TRUE, FALSE}
<1>1. CASE Up
  BY <1>1 DEF Up, Start, ReachDB, RetryDB, AlreadyMigrated, MarkDirty, RunBody, MarkClean,
              ReachBroker, RetryBroker, Listen, drain, handlers
<1>2. CASE Down
  BY <1>2 DEF Down, TakeSignal, Drained, LockToClose, Close, ClosePool, drain, handlers
<1>3. CASE Return \/ Abort
  BY <1>3 DEF Return, Abort, NoDB, MigrationFails, NoBroker, ServerCrashes, Kill, Aborts
<1>4. CASE Signal
  BY <1>4 DEF Signal, drain, handlers
<1>5. CASE Outside
  BY <1>5, OutsideKeeps DEF drain, handlers
<1> QED BY <1>1, <1>2, <1>3, <1>4, <1>5

\* The sizes are positive.
LEMMA Sizes == Attempts \in Nat \ {0} /\ MaxConns \in Nat \ {0} /\ Batch \in Nat \ {0}
BY ProcessAssumption

LEMMA MainKept ==
    ASSUME MainOK, [Next]_vars
    PROVE  MainOK'
<1> USE Sizes DEF MainOK, Starting, Stopping
<1>1. CASE Up
  <2> USE DEF Goto
  <2>1. CASE Start BY <2>1 DEF Start, database
  <2>2. CASE ReachDB BY <2>2 DEF ReachDB, database
  <2>3. CASE RetryDB BY <2>3 DEF RetryDB, database
  <2>4. CASE AlreadyMigrated BY <2>4 DEF AlreadyMigrated, database
  <2>5. CASE MarkDirty BY <2>5 DEF MarkDirty
  <2>6. CASE RunBody BY <2>6 DEF RunBody
  <2>7. CASE MarkClean BY <2>7 DEF MarkClean
  <2>8. CASE ReachBroker BY <2>8 DEF ReachBroker, database
  <2>9. CASE RetryBroker BY <2>9 DEF RetryBroker, database
  <2>10. CASE Listen BY <2>10 DEF Listen, database
  <2> QED BY <1>1, <2>1, <2>2, <2>3, <2>4, <2>5, <2>6, <2>7, <2>8, <2>9, <2>10 DEF Up
<1>2. CASE Down
  <2> USE DEF Goto, database
  <2>1. CASE TakeSignal BY <2>1 DEF TakeSignal
  <2>2. CASE Drained BY <2>2 DEF Drained
  <2>3. CASE LockToClose BY <2>3 DEF LockToClose
  <2>4. CASE Close BY <2>4 DEF Close
  <2>5. CASE ClosePool BY <2>5 DEF ClosePool
  <2> QED BY <1>2, <2>1, <2>2, <2>3, <2>4, <2>5 DEF Down
<1>3. CASE Return \/ Abort
  <2>1. PICK how \in {"returned", "aborted"} : Ends(how)
    BY <1>3 DEF Return, Abort, NoDB, MigrationFails, NoBroker, ServerCrashes, Kill, Aborts
  <2>2. flow' = flow
    BY <1>3 DEF Return, Abort, NoDB, MigrationFails, NoBroker, ServerCrashes, Kill, Aborts
  <2>3. schema' \in {"empty", "v1"}
    BY <1>3 DEF Return, Abort, NoDB, MigrationFails, NoBroker, ServerCrashes, Kill, database
  <2>4. version' \in {"none", "dirty", "clean"}
    BY <1>3 DEF Return, Abort, NoDB, MigrationFails, NoBroker, ServerCrashes, Kill, database
  <2>5. /\ main' = "off" /\ exit' = how /\ tries' = 0 /\ signalled' = FALSE /\ http' = "off"
        /\ timedOut' = FALSE
    BY <2>1 DEF Ends
  <2>6. 0 \in 0..Attempts
    OBVIOUS
  <2>7. timedOut' \in BOOLEAN /\ signalled' \in BOOLEAN
    BY <2>5
  <2> QED BY <2>2, <2>3, <2>4, <2>5, <2>6, <2>7
<1>4. CASE Signal
  BY <1>4 DEF Signal, database
<1>5. CASE RelaySteps
  <2>1. flow' = flow
    BY <1>5 DEF RelaySteps, Fetch, Fetched, ReadChannel, Written, WriteFails, RewriteFails,
                LockToConnect, Dial, DialFails, Connected, DeclareFails, Mark, MarkFails,
                Marked, RelayGoto, GivesUp, NextRow
  <2> QED BY <1>5, <2>1, RelayKeeps DEF startup, database
<1>6. CASE Outside
  <2>1. flow' \in {"open", "blocked"}
    BY <1>6 DEF Outside, BrokerDown, Block, Unblock, Break, CloseChannel
  <2> QED BY <1>6, <2>1, OutsideKeeps DEF startup, database
<1>7. CASE \E r \in Request : Admit(r) \/ Handle(r)
  BY <1>7, HandlersKeep DEF startup, database
<1>8. CASE UNCHANGED vars
  BY <1>8 DEF vars, startup, database
<1> QED BY <1>1, <1>2, <1>3, <1>4, <1>5, <1>6, <1>7, <1>8, StepCases

\* A row is counted off a batch only while there is one.
LEMMA BatchKept ==
    ASSUME BatchOK, [Next]_vars
    PROVE  BatchOK'
<1> USE Sizes DEF BatchOK
<1>1. CASE Up \/ Down \/ Return \/ Abort \/ Signal \/ Outside
  <2>1. CASE \E how \in {"returned", "aborted"} : Ends(how)
    BY <2>1 DEF Ends
  <2>2. CASE rows' = rows /\ (relay' = relay \/ ReachBroker)
    BY <2>2 DEF ReachBroker
  <2> QED BY <1>1, <2>1, <2>2, EndsOrKeeps
<1>2. CASE RelaySteps
  <2> USE DEF RelayGoto
  <2>1. CASE Fetch BY <2>1 DEF Fetch
  <2>2. CASE Fetched BY <2>2 DEF Fetched
  <2>3. CASE ReadChannel BY <2>3 DEF ReadChannel
  <2>4. CASE Written BY <2>4 DEF Written
  <2>5. CASE WriteFails BY <2>5 DEF WriteFails
  <2>6. CASE RewriteFails BY <2>6 DEF RewriteFails, GivesUp
  <2>7. CASE LockToConnect BY <2>7 DEF LockToConnect
  <2>8. CASE Dial
    <3>1. relay = "dial" /\ relay' = "declare" /\ rows' = rows
      BY <2>8 DEF Dial
    <3> QED BY <3>1
  <2>9. CASE DialFails BY <2>9 DEF DialFails, GivesUp
  <2>10. CASE Connected BY <2>10 DEF Connected
  <2>11. CASE DeclareFails BY <2>11 DEF DeclareFails, GivesUp
  <2>12. CASE Mark BY <2>12 DEF Mark
  <2>13. CASE MarkFails \/ Marked
    <3>1. /\ rows \in 1..Batch /\ rows' = rows - 1
          /\ relay' = IF rows = 1 THEN "waiting" ELSE "publish"
      BY <2>13 DEF MarkFails, Marked, NextRow
    <3> QED BY <3>1
  <2> QED BY <1>2, <2>1, <2>2, <2>3, <2>4, <2>5, <2>6, <2>7, <2>8, <2>9, <2>10, <2>11, <2>12,
             <2>13 DEF RelaySteps
<1>3. CASE \E r \in Request : Admit(r) \/ Handle(r)
  BY <1>3, HandlersKeep DEF drain
<1>4. CASE UNCHANGED vars
  BY <1>4 DEF vars, drain
<1> QED BY <1>1, <1>2, <1>3, <1>4, StepCases

\* Taking a connection while one is free, and giving one back.
LEMMA PoolCount ==
    ASSUME IsFiniteSet(held), Cardinality(held) <= MaxConns, NEW x,
           \/ held' = held \cup {x} /\ Cardinality(held) < MaxConns
           \/ held' = held \ {x}
           \/ held' = held
    PROVE  IsFiniteSet(held') /\ Cardinality(held') <= MaxConns
<1> USE Sizes
<1>1. Cardinality(held) \in Nat
  BY FS_CardinalityType
<1>2. CASE held' = held \cup {x} /\ Cardinality(held) < MaxConns
  <2>1. /\ IsFiniteSet(held \cup {x})
        /\ Cardinality(held \cup {x}) \in {Cardinality(held), Cardinality(held) + 1}
    BY FS_AddElement
  <2> QED BY <1>1, <1>2, <2>1
<1>3. CASE held' = held \ {x}
  <2>1. /\ IsFiniteSet(held \ {x})
        /\ Cardinality(held \ {x}) \in {Cardinality(held), Cardinality(held) - 1}
    BY FS_RemoveElement
  <2> QED BY <1>1, <1>3, <2>1
<1>4. CASE held' = held
  BY <1>4
<1> QED BY <1>2, <1>3, <1>4

LEMMA PoolKept ==
    ASSUME PoolOK, [Next]_vars
    PROVE  PoolOK'
<1> USE Sizes DEF PoolOK
<1>1. CASE Up \/ Down \/ Return \/ Abort \/ Signal \/ Outside
  <2>1. ASSUME NEW how, Ends(how) PROVE PoolOK'
    <3>1. /\ poolOpen' = FALSE /\ held' = {}
          /\ request' \in [Request -> {"none", "answered", "cut"} \cup Active]
      BY <2>1 DEF Ends
    <3>2. IsFiniteSet({}) /\ Cardinality({}) = 0
      BY FS_EmptySet
    <3>3. IsFiniteSet(held') /\ Cardinality(held') <= MaxConns
      BY <3>1, <3>2
    <3> QED BY <3>1, <3>3
  <2>2. CASE UNCHANGED <<held, request>> /\ poolOpen' \in BOOLEAN
    BY <2>2
  <2> QED BY <1>1, <2>1, <2>2, EndsOrKeeps
<1>2. CASE RelaySteps
  <2>1. /\ \/ held' = held \cup {Relay} /\ Cardinality(held) < MaxConns
           \/ held' = held \ {Relay}
           \/ held' = held
        /\ poolOpen' = poolOpen
    BY <1>2 DEF RelaySteps, Fetch, Fetched, ReadChannel, Written, WriteFails, RewriteFails,
                LockToConnect, Dial, DialFails, Connected, DeclareFails, Mark, MarkFails, Marked,
                GivesUp, handlers, FreeConn
  <2>2. IsFiniteSet(held') /\ Cardinality(held') <= MaxConns
    BY <2>1, PoolCount
  <2> QED BY <1>2, <2>1, <2>2, RelayKeeps
<1>3. ASSUME NEW r \in Request, Admit(r) \/ Handle(r) PROVE PoolOK'
  <2>1. /\ \/ held' = held \cup {r} /\ Cardinality(held) < MaxConns
           \/ held' = held \ {r}
           \/ held' = held
        /\ poolOpen' = poolOpen
        /\ \E to \in {"answered"} \cup Active : request' = [request EXCEPT ![r] = to]
    BY <1>3 DEF Admit, Handle, Begin, NoConn, EndTx, Answer, Stage, FreeConn, Active
  <2>2. IsFiniteSet(held') /\ Cardinality(held') <= MaxConns
    BY <2>1, PoolCount
  <2> QED BY <2>1, <2>2
<1>4. CASE UNCHANGED vars
  BY <1>4 DEF vars, handlers
<1> QED BY <1>1, <1>2, <1>3, <1>4, StepCases

\* The numbers are finite, and so are the connections that bear them.
LEMMA FiniteLinks ==
    /\ IsFiniteSet(Link) /\ Cardinality(Link) = MaxLink
    /\ \A S : S \subseteq Link => IsFiniteSet(S) /\ Cardinality(S) \in Nat
<1>1. 1 \in Int /\ MaxLink \in Int /\ MaxLink >= 2
  BY ProcessAssumption
<1>2. IsFiniteSet(1..MaxLink) /\ Cardinality(1..MaxLink) = MaxLink
  BY <1>1, FS_Interval
<1>3. IsFiniteSet(Link) /\ Cardinality(Link) = MaxLink
  BY <1>2 DEF Link
<1> QED BY <1>3, FS_Subset, FS_CardinalityType

\* When the relay dials there is a number left: the connections open are the one
\* the fields name and those that were replaced.
LEMMA NumberLeft ==
    ASSUME LinksOK, relay = "dial"
    PROVE  \E k \in Link : k \notin open \cup {conn}
<1> SUFFICES ASSUME Link \subseteq open \cup {conn} PROVE FALSE
  OBVIOUS
<1>1. Link \subseteq orphans \cup {conn}
  BY DEF LinksOK, LinkInv
<1>2. orphans \subseteq Link
  BY DEF LinksOK, RoomOK
<1>3. IsFiniteSet(orphans) /\ Cardinality(orphans) \in Nat
  BY <1>2, FiniteLinks
<1>4. /\ IsFiniteSet(orphans \cup {conn})
      /\ Cardinality(orphans \cup {conn}) \in {Cardinality(orphans), Cardinality(orphans) + 1}
  BY <1>3, FS_AddElement
<1>5. Cardinality(Link) <= Cardinality(orphans \cup {conn})
  BY <1>1, <1>4, FS_Subset
<1>6. Cardinality(orphans) <= MaxOrphans
  BY <1>3, ProcessAssumption DEF LinksOK, RoomOK
<1>7. Cardinality(Link) = MaxLink
  BY FiniteLinks
<1> QED BY <1>3, <1>4, <1>5, <1>6, <1>7, ProcessAssumption

\* A step that replaces no connection and closes no channel on its own leaves
\* at least as much room.
LEMMA RoomShrinks ==
    ASSUME RoomOK, open' \subseteq Link, chans' \subseteq open', orphans' \subseteq open',
           chans' \subseteq {conn'}, conn' \notin orphans', orphans' \subseteq orphans,
           conn' \in open' \ chans' => conn \in open \ chans
    PROVE  RoomOK'
<1>1. orphans \subseteq Link /\ orphans' \subseteq Link
  BY DEF RoomOK
<1>2. /\ IsFiniteSet(orphans) /\ Cardinality(orphans) \in Nat
      /\ Cardinality(orphans') \in Nat
  BY <1>1, FiniteLinks
<1>3. Cardinality(orphans') <= Cardinality(orphans)
  BY <1>2, FS_Subset
<1>4. Cardinality(orphans') + (IF conn' \in open' \ chans' THEN 1 ELSE 0) <= MaxOrphans
  BY <1>2, <1>3, ProcessAssumption DEF RoomOK
<1> QED BY <1>4 DEF RoomOK

\* connect replaces a connection that is open only when its channel is closed.
LEMMA RoomConnected ==
    ASSUME LinksOK, Connected
    PROVE  RoomOK'
<1>1. /\ dialled \in open /\ conn' = dialled /\ chans' = chans \cup {dialled}
      /\ orphans' = orphans \cup ({conn} \cap open) /\ open' = open
      /\ conn \notin chans /\ dialled \in Link \ (orphans \cup {conn})
  BY DEF Connected, LinksOK, FieldsOK
<1>2. /\ open \subseteq Link /\ chans \subseteq open /\ orphans \subseteq open
      /\ chans = {} /\ conn \notin orphans
      /\ Cardinality(orphans) + (IF conn \in open \ chans THEN 1 ELSE 0) <= MaxOrphans
  BY <1>1 DEF LinksOK, RoomOK
<1>3. IsFiniteSet(orphans) /\ Cardinality(orphans) \in Nat
  BY <1>2, FiniteLinks
<1>4. Cardinality(orphans') <= MaxOrphans /\ Cardinality(orphans') \in Nat
  <2>1. CASE conn \in open
    <3>1. Cardinality(orphans \cup {conn}) = Cardinality(orphans) + 1
      BY <1>2, <1>3, FS_AddElement
    <3>2. orphans' = orphans \cup {conn}
      BY <1>1, <2>1
    <3> QED BY <1>2, <1>3, <2>1, <3>1, <3>2
  <2>2. CASE conn \notin open
    <3>1. orphans' = orphans
      BY <1>1, <2>2
    <3> QED BY <1>2, <1>3, <2>2, <3>1, ProcessAssumption
  <2> QED BY <2>1, <2>2
<1>5. conn' \notin open' \ chans'
  BY <1>1
<1>6. Cardinality(orphans') + (IF conn' \in open' \ chans' THEN 1 ELSE 0) <= MaxOrphans
  BY <1>4, <1>5
<1>7. /\ open' \subseteq Link /\ chans' \subseteq open' /\ orphans' \subseteq open'
      /\ chans' \subseteq {conn'} /\ conn' \notin orphans'
  BY <1>1, <1>2
<1> QED BY <1>6, <1>7 DEF RoomOK

\* The broker closes the channel of the connection the fields name.
LEMMA RoomChannelClosed ==
    ASSUME LinksOK, NEW k \in Link, CloseChannel(k)
    PROVE  RoomOK'
<1>1. /\ k \in chans /\ Cardinality(orphans) < MaxOrphans /\ chans' = chans \ {k}
      /\ conn' = conn /\ open' = open /\ orphans' = orphans
  BY DEF CloseChannel, publisher
<1>2. orphans \subseteq Link
  BY DEF LinksOK, RoomOK
<1>3. Cardinality(orphans) \in Nat
  BY <1>2, FiniteLinks
<1>4. Cardinality(orphans') + (IF conn' \in open' \ chans' THEN 1 ELSE 0) <= MaxOrphans
  BY <1>1, <1>3, ProcessAssumption
<1> QED BY <1>1, <1>4 DEF LinksOK, RoomOK

LEMMA FieldsKept ==
    ASSUME LinksOK, [Next]_vars
    PROVE  FieldsOK'
<1> USE DEF LinksOK, FieldsOK, Starting, Stopping
<1>1. CASE Up
  <2>1. CASE ReachBroker
    <3>1. relay' = "waiting" /\ relay = "off" /\ 1 \in Link
      BY <2>1, ProcessAssumption DEF ReachBroker, LinkInv, Link
    <3> QED BY <2>1, <3>1 DEF ReachBroker, Goto
  <2>2. CASE ~ReachBroker
    <3>1. /\ UNCHANGED <<drain, publisher, links>> /\ main' # "closing"
          /\ main' = main \/ main \in {"off"} \cup Starting
      BY <1>1, <2>2 DEF Up, Start, ReachDB, RetryDB, AlreadyMigrated, MarkDirty, RunBody,
                        MarkClean, RetryBroker, Listen, Goto
    <3> QED BY <3>1 DEF drain, publisher, links
  <2> QED BY <2>1, <2>2
<1>2. CASE Down
  <2>1. CASE Close
    BY <2>1 DEF Close, Goto, drain, RoomOK, Link
  <2>2. CASE LockToClose
    BY <2>2 DEF LockToClose, Goto, drain, links
  <2>3. CASE TakeSignal \/ Drained \/ ClosePool
    <3>1. UNCHANGED <<drain, publisher, links>> /\ main' \in Stopping \ {"closing"}
      BY <2>3 DEF TakeSignal, Drained, ClosePool, Goto
    <3> QED BY <3>1 DEF drain, publisher, links
  <2> QED BY <1>2, <2>1, <2>2, <2>3 DEF Down
<1>3. CASE Return \/ Abort
  BY <1>3 DEF Return, Abort, NoDB, MigrationFails, NoBroker, ServerCrashes, Kill, Aborts, Ends
<1>4. CASE Signal
  BY <1>4 DEF Signal, drain, publisher, links
<1>5. CASE RelaySteps
  <2>1. /\ main' = main
        /\ relay # "off" /\ main \notin {"off"} \cup Starting
    BY <1>5, RelayKeeps DEF startup, LinkInv, RelaySteps, Fetch, Fetched, ReadChannel, Written,
           WriteFails, RewriteFails, LockToConnect, Dial, DialFails, Connected, DeclareFails,
           Mark, MarkFails, Marked
  <2> USE <2>1 DEF publisher, links, RelayGoto
  <2>2. CASE Fetch BY <2>2 DEF Fetch
  <2>3. CASE Fetched BY <2>3 DEF Fetched
  <2>4. CASE ReadChannel BY <2>4 DEF ReadChannel
  <2>5. CASE Written BY <2>5 DEF Written
  <2>6. CASE WriteFails BY <2>6 DEF WriteFails, RoomOK, Link
  <2>7. CASE RewriteFails BY <2>7 DEF RewriteFails, GivesUp
  <2>8. CASE LockToConnect BY <2>8 DEF LockToConnect
  <2>9. CASE Dial
    <3>1. /\ relay = "dial" /\ relay' = "declare"
          /\ dialled' = CHOOSE k \in Link : k \notin open \cup {conn}
          /\ UNCHANGED <<captured, mu, conn, channel, chans, orphans>>
      BY <2>9 DEF Dial
    <3>2. dialled' \in Link /\ dialled' \notin open \cup {conn}
      BY <3>1, NumberLeft
    <3>3. dialled' \notin orphans
      BY <3>2 DEF RoomOK
    <3> QED BY <3>1, <3>2, <3>3
  <2>10. CASE DialFails BY <2>10 DEF DialFails, GivesUp
  <2>11. CASE Connected BY <2>11 DEF Connected
  <2>12. CASE DeclareFails BY <2>12 DEF DeclareFails, GivesUp
  <2>13. CASE Mark BY <2>13 DEF Mark
  <2>14. CASE MarkFails BY <2>14 DEF MarkFails, NextRow
  <2>15. CASE Marked BY <2>15 DEF Marked, NextRow
  <2> QED BY <1>5, <2>2, <2>3, <2>4, <2>5, <2>6, <2>7, <2>8, <2>9, <2>10, <2>11, <2>12,
             <2>13, <2>14, <2>15 DEF RelaySteps
<1>6. CASE Outside
  <2>1. UNCHANGED <<drain, publisher, main>>
    BY <1>6, OutsideKeeps DEF startup
  <2>2. chans' \subseteq chans /\ orphans' \subseteq orphans
    BY <1>6 DEF Outside, BrokerDown, Block, Unblock, Break, CloseChannel, links
  <2> QED BY <2>1, <2>2 DEF drain, publisher
<1>7. CASE \E r \in Request : Admit(r) \/ Handle(r)
  BY <1>7, HandlersKeep DEF startup, drain, publisher, links
<1>8. CASE UNCHANGED vars
  BY <1>8 DEF vars, startup, drain, publisher, links
<1> QED BY <1>1, <1>2, <1>3, <1>4, <1>5, <1>6, <1>7, <1>8, StepCases

LEMMA RoomKept ==
    ASSUME LinksOK, [Next]_vars
    PROVE  RoomOK'
<1>1. ASSUME UNCHANGED <<conn, open, chans, orphans>> PROVE RoomOK'
  BY <1>1 DEF LinksOK, RoomOK
<1>2. /\ RoomOK /\ FieldsOK /\ LinkInv
      /\ open \subseteq Link /\ chans \subseteq open /\ orphans \subseteq open
      /\ chans \subseteq {conn} /\ conn \notin orphans
  BY DEF LinksOK, RoomOK
<1>3. CASE Up
  <2>1. CASE ReachBroker
    <3>1. /\ conn' = 1 /\ open' = {1} /\ chans' = {1} /\ orphans' = orphans
          /\ orphans = {} /\ 1 \in Link
      BY <1>2, <2>1, ProcessAssumption DEF ReachBroker, FieldsOK, Starting, Link
    <3> QED BY <1>2, <3>1, RoomShrinks
  <2>2. CASE ~ReachBroker
    <3>1. UNCHANGED <<publisher, links>>
      BY <1>3, <2>2 DEF Up, Start, ReachDB, RetryDB, AlreadyMigrated, MarkDirty, RunBody,
                        MarkClean, RetryBroker, Listen
    <3> QED BY <1>1, <3>1 DEF publisher, links
  <2> QED BY <2>1, <2>2
<1>4. CASE Down
  <2>1. CASE Close
    <3>1. /\ conn' = 0 /\ open' = open \ {conn} /\ chans' = chans \ {conn}
          /\ orphans' = orphans /\ 0 \notin Link
      BY <2>1 DEF Close, Link
    <3> QED BY <1>2, <3>1, RoomShrinks
  <2>2. CASE ~Close
    <3>1. UNCHANGED <<conn, links>>
      BY <1>4, <2>2 DEF Down, TakeSignal, Drained, LockToClose, ClosePool, publisher
    <3> QED BY <1>1, <3>1 DEF links
  <2> QED BY <2>1, <2>2
<1>5. CASE Return \/ Abort
  <2>1. open' = {} /\ chans' = {} /\ orphans' = {}
    BY <1>5 DEF Return, Abort, NoDB, MigrationFails, NoBroker, ServerCrashes, Kill, Aborts, Ends
  <2> QED BY <1>2, <2>1, RoomShrinks
<1>6. CASE Signal
  BY <1>1, <1>6 DEF Signal, publisher, links
<1>7. CASE RelaySteps
  <2>1. CASE Connected
    BY <2>1, RoomConnected
  <2>2. CASE Dial
    <3>1. /\ relay = "dial" /\ dialled' = CHOOSE k \in Link : k \notin open \cup {conn}
          /\ open' = open \cup {dialled'}
          /\ UNCHANGED <<conn, chans, orphans>>
      BY <2>2 DEF Dial, publisher
    <3>2. dialled' \in Link /\ dialled' \notin open \cup {conn}
      BY <3>1, NumberLeft
    <3> QED BY <1>2, <3>1, <3>2, RoomShrinks
  <2>3. CASE DeclareFails
    <3>1. /\ open' = open \ {dialled} /\ dialled \notin orphans \cup {conn}
          /\ UNCHANGED <<conn, chans, orphans>>
      BY <1>2, <2>3 DEF DeclareFails, FieldsOK
    <3> QED BY <1>2, <3>1, RoomShrinks
  <2>4. CASE ~Connected /\ ~Dial /\ ~DeclareFails
    <3>1. UNCHANGED <<conn, links>>
      BY <1>7, <2>4 DEF RelaySteps, Fetch, Fetched, ReadChannel, Written, WriteFails,
             RewriteFails, LockToConnect, DialFails, Mark, MarkFails, Marked, publisher
    <3> QED BY <1>1, <3>1 DEF links
  <2> QED BY <2>1, <2>2, <2>3, <2>4
<1>8. CASE Outside
  <2>1. conn' = conn
    BY <1>8, OutsideKeeps DEF publisher
  <2>2. CASE BrokerDown
    <3>1. open' = {} /\ chans' = {} /\ orphans' = {}
      BY <2>2 DEF BrokerDown
    <3> QED BY <1>2, <3>1, RoomShrinks
  <2>3. CASE Block \/ Unblock
    BY <1>1, <2>1, <2>3 DEF Block, Unblock, links
  <2>4. ASSUME NEW k \in Link, Break(k) PROVE RoomOK'
    <3>1. open' = open \ {k} /\ chans' = chans \ {k} /\ orphans' = orphans \ {k}
      BY <2>4 DEF Break
    <3> QED BY <1>2, <2>1, <3>1, RoomShrinks
  <2>5. ASSUME NEW k \in Link, CloseChannel(k) PROVE RoomOK'
    BY <2>5, RoomChannelClosed
  <2> QED BY <1>8, <2>2, <2>3, <2>4, <2>5 DEF Outside
<1>9. CASE \E r \in Request : Admit(r) \/ Handle(r)
  BY <1>1, <1>9, HandlersKeep DEF publisher, links
<1>10. CASE UNCHANGED vars
  BY <1>1, <1>10 DEF vars, publisher, links
<1> QED BY <1>3, <1>4, <1>5, <1>6, <1>7, <1>8, <1>9, <1>10, StepCases

LEMMA InitProcess == Init => ProcessInv
<1> SUFFICES ASSUME Init PROVE ProcessInv
  OBVIOUS
<1>1. IsFiniteSet({}) /\ Cardinality({}) = 0
  BY FS_EmptySet
<1>2. MainOK
  <2>1. 0 \in 0..Attempts
    BY Sizes
  <2> QED BY <2>1 DEF Init, MainOK
<1>3. BatchOK
  <2>1. 0 \in 0..Batch
    BY Sizes
  <2> QED BY <2>1 DEF Init, BatchOK
<1>4. PoolOK
  <2>1. IsFiniteSet(held) /\ Cardinality(held) <= MaxConns
    BY <1>1, Sizes DEF Init
  <2> QED BY <2>1 DEF Init, PoolOK, Active
<1>5. FieldsOK
  BY DEF Init, FieldsOK, Starting
<1>6. RoomOK
  <2>1. Cardinality(orphans) = 0 /\ conn \notin open \ chans
    BY <1>1 DEF Init
  <2> QED BY <2>1, ProcessAssumption DEF Init, RoomOK
<1> QED BY <1>2, <1>3, <1>4, <1>5, <1>6, InitLink DEF ProcessInv, LinksOK

LEMMA ProcessKept ==
    ASSUME ProcessInv, [Next]_vars
    PROVE  ProcessInv'
BY MainKept, BatchKept, PoolKept, LinkKept, FieldsKept, RoomKept DEF ProcessInv, LinksOK

\* Type correctness, and in it: the pool is never over-drawn, whoever takes and
\* returns its connections when the process drains or dies; a batch is never
\* counted below its last row; and the publisher's channel is always one of its
\* own connection, which no connection it left behind is taken for.
THEOREM ProcessTypes == Spec => []TypeOK
<1>1. ProcessInv => TypeOK
  BY DEF ProcessInv, MainOK, BatchOK, PoolOK, LinksOK, FieldsOK, RoomOK, TypeOK
<1> QED BY <1>1, InitProcess, ProcessKept, PTL DEF Spec
=============================================================================
