CONSTANTS
    Requests <- MCRequests
    Texts <- MCTexts
    Deltas <- MCDeltas
    Unparsable <- MCUnparsable
SPECIFICATION FairSpec
INVARIANT TypeOK
INVARIANT RelayIsThatOfTheText
INVARIANT OneEndMark
PROPERTY AnsweredUnlessQuiet
CHECK_DEADLOCK FALSE
