SPECIFICATION Spec
CONSTANTS
    Request = {r1, r2}
    Seeded = {s1}
    Tenant = {t1}
    Source = {c1}
    External = {x1}
    Value = {v1, v2, bad}
    Bad = bad
    None = none
    NoRow = no_row
    CreateInput <- IngestCreates
    PatchInput <- FewPatches
    SeedRow <- ResolvedRow
    Refused = {}
    MaxConns = 2
    s1 = s1  t1 = t1  t2 = t2  c1 = c1  x1 = x1  v1 = v1  v2 = v2
CHECK_DEADLOCK FALSE
PROPERTY LegalTransitions
