SPECIFICATION Spec
CONSTANTS
    HandlerRequires = {"bcapi"}
    MaxDepth = 5
    Documents <- MCDocuments
    Template <- MCTemplate
    NotNames <- MCNotNames
    MaxEdits = 2
    MaxFaults = 1
    CoreScripts <- MCCoreScripts
INVARIANT
    FailureSurfaces
CHECK_DEADLOCK FALSE
