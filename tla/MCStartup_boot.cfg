SPECIFICATION FairSpec
CONSTANTS
    HandlerRequires = {"bcapi"}
    MaxDepth = 5
    Documents <- MCDocuments
    Template <- MCTemplate
    NotNames <- MCNotNames
    MaxEdits = 2
    MaxFaults = 1
    CoreScripts <- MCCoreScripts
INVARIANTS
    TypeOK
    OneInstanceOfInstalled
    LoadsDespiteFailures
    RequiresAreWritten
    BaseIsKept
PROPERTY
    Converges
CHECK_DEADLOCK FALSE
