SPECIFICATION Spec
CONSTANTS
    Incident = {i1, i2, i3}
    Connector = {c1}
    Tenant = {t1, t2}
    DefaultTenant = t1
    Header <- SomeHeaders
    Capabilities <- SomeCapabilities
    PatchStatus = {"triaged"}
    Filter <- SomeFilters
    PageLimit = 1
    MaxTime = 3
    None = none
SYMMETRY Symmetry
CHECK_DEADLOCK FALSE
INVARIANTS TypeOK WalkSeesAll CreatedIsFound OwnTenantOnly
