\* The same question for threads: does a committed save reach the cache?
CONSTANTS
    p1 = p1
    p2 = p2
    s1 = s1
    None = None
    Pks = {p1}
    Slugs = {s1}
    Threads = {1, 2}
    Chain <- SubdomainThenSession
    Requests <- TwoRequests
    Sizes = {1}
    TTL = 1
    Required = TRUE
    Failures = FALSE
    Remote = FALSE
    Transactions = FALSE
    SyncWorker = FALSE
    MaxDelay = 0
    MaxClock = 0
SPECIFICATION Spec
INVARIANT
    LocalSavesAreSeen
