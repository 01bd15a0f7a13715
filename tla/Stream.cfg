SPECIFICATION FairSpec
CONSTANTS
    Workers = {w1, w2}
    MaxPosted = 3
    MaxMsgs = 2
    MaxConcurrent = 2
    Faults <- AllFaults
    MaxFaults = 2
  
PROPERTIES  PlacesComeBack EveryRequestHandled
CHECK_DEADLOCK FALSE
