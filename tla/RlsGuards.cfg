\* Two databases migrated, reversed and altered, under changing settings and roles.
CONSTANTS
    t1 = t1
    t2 = t2
    default = default
    eu = eu
    booking = booking
    email = email
    None = None
    Tenants = {t1, t2}
    Aliases = {default, eu}
    Default = default
    Columns = {booking}
    Adopted = {email}
    Chain <- Migrations
    Allowed <- NoEmailInEu
    Outcomes <- OneTimesOut
    MaxDrifts = 1
SPECIFICATION Spec
INVARIANTS
    TypeOK
    SilenceMeansIsolated
PROPERTY
    ReversalRestores
