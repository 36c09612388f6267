SPECIFICATION MCSpec
CONSTANTS
    Requests = {r1, r2}
    Transports = {"gateway", "direct", "stdio"}
    Kids = {k1, k2}
    FirstKey = k1
    Tokens <- MCTokens
    Cooldown = 1
    Ttl = 2
    FetchTimeout = 1
    Skew = 0
    MaxAge = 2
    MaxLifetime = 2
    PreviousBearer = TRUE
    MaxTime = 3
    MaxRotations = 1
    Nobody = Nobody
    Never = Never
    Sites = {main, branch, lab}
    Configured = main
    PageLimit = 2
    ScanCeiling = 2
    MaxEdits = 1
    NoSite = NoSite
INVARIANTS TypeOK
PROPERTIES AdmittedIsTrusted FetchesAreSpaced KnownKeyIsServed SiteIsRight EveryRequestEnds
