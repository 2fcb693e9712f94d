\* The command dies while it deletes and is run again with the same export path.
CONSTANTS
    t1 = t1
    t2 = t2
    default = default
    eu = eu
    booking = booking
    invoice = invoice
    email = email
    Tenants = {t1, t2}
    Target = t1
    Scoped <- OneScoped
    Adopted <- OneAdopted
    RowIds = {1, 2}
    Aliases = {default}
    Default = default
    Regions = {}
    RegionOf <- NoRegion
    RlsForced = FALSE
    Exporting = TRUE
    Concurrent = FALSE
    MaxCrashes = 1
SPECIFICATION Spec
CHECK_DEADLOCK FALSE
INVARIANT
    ExportIsACopy
