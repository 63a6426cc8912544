SPECIFICATION Spec
CONSTANTS
    File = {f1, f2}
    Overlap = {o1, o2}
    ImageSets = {{}, {1, 2}}
    Faults = {}
    MaxPolls = 1
    MaxTimers = 1
    NoFile = NoFile
    NoOverlap = NoOverlap
CHECK_DEADLOCK FALSE
INVARIANT ShownIsOfTheFile
