\* A tenant in a region and one in none, pins, instances that outlive scopes, failing statements.
CONSTANTS
    t1 = t1
    t2 = t2
    NoTenant = NoTenant
    default = default
    eu = eu
    nowhere = nowhere
    Tenants = {t1, t2}
    Aliases = {default, eu}
    Default = default
    Configured = {default, eu}
    Postgres = {default, eu}
    Regions = {eu}
    RegionOf <- OneRegion
    WrapAtomic = TRUE
    SetDbSessionVar = TRUE
    FailingAliases = {eu}
    MaxDepth = 2
    Pins = {eu, nowhere}
    NoPin = NoPin
    MaxPins = 1
    MaxId = 1
    MaxRows = 2
SPECIFICATION Spec
INVARIANTS
    TypeOK
    ReadsStayHome
    UsingFindsItsRows
PROPERTY
    ChangesStayHome
