\* Three migrations, applied, refused, killed and reversed, while the application writes.
CONSTANTS
    t1 = t1
    t2 = t2
    email = email
    address = address
    label = label
    seat = seat
    remote = remote
    key = key
    None = None
    Tenants = {t1, t2}
    Tables = {email, address, label, seat, remote}
    Cols = {key}
    Vals = {"x", "y"}
    Original <- SeatIsTarget
    Declared <- AllDeclared
    ForeignColumn = {label}
    Ops <- Upgrade
    Allowed = {email, address, label, seat}
    Postgres = TRUE
    Session = None
    Writers = {t1, t2, None}
    RowIds = {1, 2}
    Concurrent = TRUE
    MaxReversals = 2
    MaxCrashes = 1
SPECIFICATION Spec
CHECK_DEADLOCK FALSE
INVARIANTS
    TypeOK
    WholeOrNothing
    StampedAsDeclared
    KeysStayUnique
    ReverseRestores
PROPERTY
    AppliedMeansAdopted
