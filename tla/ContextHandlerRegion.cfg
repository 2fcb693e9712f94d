\* A request or task of a tenant with a region: is it in force on the regional alias?
CONSTANTS
    t1 = t1
    t2 = t2
    NoTenant = NoTenant
    default = default
    eu = eu
    Tenants = {t1, t2}
    Aliases = {default, eu}
    Default = default
    Configured = {default, eu}
    Postgres = {default, eu}
    Regions = {eu}
    RegionOf <- OneRegion
    WrapAtomic = TRUE
    SetDbSessionVar = TRUE
    FailingAliases = {}
    MaxDepth = 2
SPECIFICATION Spec
INVARIANTS
    HandlerIsInForce
