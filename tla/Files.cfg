SPECIFICATION Spec
CONSTANTS
    Job <- JobNames
    Inputs <- TwoJobs
    Workers = 2
    MaxArchive = 2
    MaxTotal = 3
    MaxMembers = 3
    MaxRatio = 3
    Slow <- OneJob
    Leftover <- OneJob
INVARIANTS NothingCutShort EveryPartAccounted FilesStay DiskWithinLimits
PROPERTIES EveryRequestEnds
CHECK_DEADLOCK FALSE
