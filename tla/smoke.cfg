SPECIFICATION SmokeFairSpec
CONSTANTS
    Event <- Events
    Malformed = {}
    NoEvent = no_event
    Batch = 2
    MaxWire = 1
    Wanted <- WantedEvents
    MaxQueue = 1
    i1 = i1  t1 = t1
INVARIANTS SmokeTypeOK FoundIsTrue SeenInOrder
PROPERTIES PublishedIsFound
