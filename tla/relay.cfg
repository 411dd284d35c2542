SPECIFICATION FairSpec
CONSTANTS
    Event <- Events
    Malformed <- Undecodable
    NoEvent = no_event
    Batch = 2
    MaxWire = 2
    i1 = i1  i2 = i2  t1 = t1
INVARIANTS TypeOK PerIncidentOrder HeldIsUnmarked
PROPERTIES ImplementsDelivery AllPublished
