\* Two databases, a tenant with a region and one without, every kind of scope nested, errors in the bodies.
CONSTANTS
    t1 = t1
    t2 = t2
    NoTenant = NoTenant
    default = default
    eu = eu
    Tenants = {t1, t2}
    Aliases = {default, eu}
    Default = default
    Configured = {default, eu}
    Postgres = {default, eu}
    Regions = {eu}
    RegionOf <- OneRegion
    WrapAtomic = TRUE
    SetDbSessionVar = TRUE
    FailingAliases = {default}
    MaxDepth = 5
SPECIFICATION Spec
INVARIANTS
    TypeOK
    NothingOutlivesTheLastScope
    NoForeignScope
    NoOrphanedScope
    BodyIsInForce
    BypassIffOpen
PROPERTY
    ImplementsScopes
