SPECIFICATION FairSpec
CONSTANTS
    File = {f1}
    Overlap = {o1, o2}
    ImageSets = {{}, {1, 2}}
    Faults = {"upload", "poll", "match"}
    MaxPolls = 2
    MaxTimers = 1
    NoFile = NoFile
    NoOverlap = NoOverlap
CHECK_DEADLOCK FALSE
INVARIANTS TypeOK ProcessingIsWatched ShownIsCompleted
PROPERTY ProcessingEnds
PROPERTY PollingEnds
