SPECIFICATION RegistrySpec
CONSTANTS
    PrintID = {p1}
    Image = {good, blank}
    Featureless = {blank}
    Request = {r1, r2}
    Faults = {}
    Changes = {"update", "delete"}
    NoPrint = NoPrint
    NoImage = NoImage
SYMMETRY Symmetry
CHECK_DEADLOCK FALSE
PROPERTY DeletedPrintStaysDeleted
