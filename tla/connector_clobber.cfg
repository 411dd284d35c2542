SPECIFICATION Spec
CONSTANTS
    Incident = {i1}
    Tag = {a}
    EnrichTag = enriched
    NoPatch = no_patch
    MaxQueue = 1
CHECK_DEADLOCK FALSE
PROPERTY TagsNotClobbered
