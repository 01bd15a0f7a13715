SPECIFICATION FairSpec
CONSTANTS
    Jobs = {j1}
    Workers = {w1, w2}
    MaxFaults = 2
    Faults <- RecoverableFaults
    LockTTL = 15
    AckWait = 60
    Done = Done
    Audio = Audio
    StoredAs <- AnyName
    None = None
PROPERTIES
    KeepsPromise
    EveryJobSettles
CHECK_DEADLOCK FALSE
