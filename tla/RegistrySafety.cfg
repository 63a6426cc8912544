SPECIFICATION RegistrySpec
CONSTANTS
    PrintID = {p1}
    Image = {good, blank}
    Featureless = {blank}
    Request = {r1, r2, r3}
    Faults = {"cloud", "reject", "disk", "db_read", "db_write", "crash"}
    Changes = {"update", "delete"}
    NoPrint = NoPrint
    NoImage = NoImage
SYMMETRY Symmetry
CHECK_DEADLOCK FALSE
INVARIANTS RegistryTypeOK RegisteredPrintsAreWhole AcknowledgedIsRegistered
PROPERTIES IdentityIsImmutable
