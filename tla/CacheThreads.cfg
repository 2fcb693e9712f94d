\* Two threads, a writer here and writers elsewhere, a full cache, failing reads.
CONSTANTS
    p1 = p1
    p2 = p2
    s1 = s1
    None = None
    Pks = {p1}
    Slugs = {s1}
    Threads = {1, 2}
    Chain <- SubdomainThenSession
    Requests <- TwoRequests
    Sizes = {0, 1}
    TTL = 1
    Required = TRUE
    Failures = TRUE
    Remote = TRUE
    Transactions = TRUE
    SyncWorker = FALSE
    MaxDelay = 1
    MaxClock = 3
SPECIFICATION Spec
INVARIANT
    CacheBounded
PROPERTY
    BoundedStaleness
