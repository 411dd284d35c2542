SPECIFICATION FairSpec
CONSTANTS
    Incident = {i1}
    Tag = {a}
    EnrichTag = enriched
    NoPatch = no_patch
    MaxQueue = 2
CHECK_DEADLOCK FALSE
INVARIANTS TypeOK HeartbeatFindsRow UneditedTags
PROPERTIES Enriches Quiesces
