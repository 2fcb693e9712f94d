\* The command dies twice, anywhere, and is run again; a neighbour lives in a region.
CONSTANTS
    t1 = t1
    t2 = t2
    default = default
    eu = eu
    booking = booking
    invoice = invoice
    email = email
    Tenants = {t1, t2}
    Target = t1
    Scoped <- TwoScoped
    Adopted <- OneAdopted
    RowIds = {1, 2, 3}
    Aliases = {default, eu}
    Default = default
    Regions = {eu}
    RegionOf <- NeighbourInRegion
    RlsForced = FALSE
    Exporting = TRUE
    Concurrent = FALSE
    MaxCrashes = 2
SPECIFICATION FairSpec
CHECK_DEADLOCK FALSE
INVARIANTS
    TypeOK
    NoOrphans
    NothingLeftBehind
    ExportTellsAll
PROPERTIES
    OthersUntouched
    Completes
