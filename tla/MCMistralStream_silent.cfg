CONSTANTS
    Requests <- MCRequests
    Texts <- MCTexts
    Deltas <- MCDeltas
    Unparsable <- MCUnparsable
SPECIFICATION FairSpec
PROPERTY DeltasReachBrowser
CHECK_DEADLOCK FALSE
