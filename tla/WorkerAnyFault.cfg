SPECIFICATION Spec
CONSTANTS
    Jobs = {j1}
    Workers = {w1, w2}
    MaxFaults = 3
    Faults <- AnyFault
    LockTTL = 15
    AckWait = 60
    Done = Done
    Audio = Audio
    StoredAs <- Nothing
    None = None
SYMMETRY Symmetry
INVARIANTS
    TypeOK
    DoneIsAnswered
    AckedIsAnswered
    CompletedOnce
    OneHolder
    InProgressComesFirst
PROPERTIES
    DoneIsFinal
CHECK_DEADLOCK FALSE
