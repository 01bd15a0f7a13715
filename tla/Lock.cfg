SPECIFICATION FairSpec
CONSTANTS
    Clients = {c1, c2, c3}
    Faults <- AnyFault
    MaxFaults = 6
    Orphan = Orphan
    None = None
INVARIANTS ReadersCounted WritersExclude
PROPERTIES LocksOpen
