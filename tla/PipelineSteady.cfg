SPECIFICATION SystemFairSpec
CONSTANTS
    Overlap = {o1, o2}
    Call = {o1, o2}
    Troubles = {"death", "exception"}
    ImageCounts = {1, 2}
    Faults = {"store_original", "disk", "db_read", "download", "hang", "extract", "store_separated", "reject"}
    NoImage = NoImage
    NoRecord = NoRecord
INVARIANT ServiceTypeOK
INVARIANT NoOrphanedWork
INVARIANT AuditTrailComplete
INVARIANT CompletedTellsThePicture
PROPERTY AcceptedIsSettled
PROPERTY ImplementsPipeline
CHECK_DEADLOCK FALSE
