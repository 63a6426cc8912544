SPECIFICATION Spec
CONSTANTS
    PrintID = {p1, p2}
    Image = {0, 1, 2, 3}
    Featureless = {0}
    Unreadable = {3}
    Request = {r1}
    Search = {s1}
    Faults = {"disk", "db_read", "db_write", "crash"}
    Score <- Likeness
    Threshold = 2
    PartPaths = {"file", "none"}
    Changes = {"update", "delete"}
    Kinds = {"overlap", "direct"}
    MaxResults = 1
    NoPrint = NoPrint
    NoImage = NoImage
SYMMETRY Symmetry
VIEW SearchView
CHECK_DEADLOCK FALSE
INVARIANTS TypeOK NothingOverlooked MatchesAreGenuine ReportedIsSaved
