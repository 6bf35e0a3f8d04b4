CONSTANTS
    Workers = {w1, w2}
    Requests <- MCRequests
    Lower <- MCLower
    Sought <- MCSought
    NoName = "none"
    NoWorker = NoWorker
    NoRequest = NoRequest
    MaxSent = 3
    MaxQueue = 2
    MaxClock = 1
    MaxCrashes = 1
SPECIFICATION FairSpec
INVARIANT TypeOK
INVARIANT OneRowPerName
 
PROPERTY EveryRequestEnds
CHECK_DEADLOCK FALSE
