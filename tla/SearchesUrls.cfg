SPECIFICATION Spec
CONSTANTS
    PrintID = {p1}
    Image = {1}
    Featureless = {}
    Unreadable = {}
    Request = {r1}
    Search = {s1}
    Faults = {}
    Score <- Likeness
    Threshold = 2
    PartPaths = {"url"}
    Changes = {}
    Kinds = {"overlap"}
    MaxResults = 1
    NoPrint = NoPrint
    NoImage = NoImage
SYMMETRY Symmetry
CHECK_DEADLOCK FALSE
INVARIANT OverlapSearchCompares
