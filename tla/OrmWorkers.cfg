\* Two workers and their instances, on a database without row-level security.
CONSTANTS
    t1 = t1
    t2 = t2
    x = x
    y = y
    w1 = w1
    w2 = w2
    None = None
    Workers = {w1, w2}
    Tenants = {t1, t2}
    Keys = {x, y}
    MaxRows = 2
    Nullable = TRUE
    Strict = FALSE
    Declared <- OnKey
    SharedDefaults = FALSE
    Forms = FALSE
SYMMETRY Symmetric
SPECIFICATION Spec
CHECK_DEADLOCK FALSE
INVARIANT
    TypeOK
PROPERTIES
    ScopedWritesStayHome
    CallsReturnOwnRows
    KeysBlockOnlyTheirTenant
    CleanVouches
