SPECIFICATION Spec
CONSTANTS
    Overlap = {o1, o2}
    ImageCounts = {1, 2}
    Faults = {"store_original", "disk", "db_read", "db_write", "download", "hang", "extract", "store_separated", "reject", "crash", "shutdown"}
    NoImage = NoImage
    NoRecord = NoRecord
INVARIANT TypeOK
INVARIANT RecordedUrlsResolve
INVARIANT CompletedIsWhole
INVARIANT AcceptedIsAccountedFor
INVARIANT AuditsAreTrue
PROPERTY SettledIsFinal
PROPERTY LifecycleSpec
SYMMETRY Symmetry
CHECK_DEADLOCK FALSE
