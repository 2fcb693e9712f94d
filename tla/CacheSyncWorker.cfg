\* A sync worker, all resolvers, two tenants, one slug that reads like a key.
CONSTANTS
    p1 = p1
    p2 = p2
    s1 = s1
    None = None
    Pks = {p1, p2}
    Slugs = {s1, p2}
    Threads = {1}
    Chain <- AllResolvers
    Requests <- ManyRequests
    Sizes = {0, 2}
    TTL = 1
    Required = FALSE
    Failures = FALSE
    Remote = FALSE
    Transactions = TRUE
    SyncWorker = TRUE
    MaxDelay = 0
    MaxClock = 0
SPECIFICATION Spec
INVARIANTS
    TypeOK
    LocalSavesAreSeen
PROPERTY
    AnsweredAsAsked
