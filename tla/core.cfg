SPECIFICATION FairSpec
CONSTANTS
    Request = {r1}
    Relay = relay_goroutine
    Attempts = 2
    MaxConns = 1
    Batch = 2
    MaxLink = 3
    MaxOrphans = 1
CHECK_DEADLOCK FALSE
INVARIANTS TypeOK ServesMigrated OnlyReplacedLeak
PROPERTIES BodyRunsOnce CleanExit ShutdownEnds StartupEnds
