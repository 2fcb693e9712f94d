\* Messages late, twice or lost, retries, tenants that come and go, and a pool of two.
CONSTANTS
    t1 = t1
    t2 = t2
    w1 = w1
    w2 = w2
    r1 = r1
    r2 = r2
    None = None
    Tenants = {t1, t2}
    Workers = {w1}
    Main = Main
    Runners = {r1, r2}
    JobIds = {1, 2}
    MaxRetries = 1
    MaxCopies = 1
    Decorated = TRUE
    SharedHeaders = FALSE
    RetryNested = FALSE
    Chained = FALSE
    Fork = TRUE
SPECIFICATION FairSpec
CHECK_DEADLOCK FALSE
INVARIANTS
    TypeOK
    RunsForItsTenant
    ReportIsTrue
PROPERTY
    Settles
