SPECIFICATION FairSpec
CONSTANTS
    Overlap = {o1}
    ImageCounts = {1, 2}
    Faults = {"store_original"}
    NoImage = NoImage
    NoRecord = NoRecord
PROPERTY AcceptedIsSeparated
CHECK_DEADLOCK FALSE
