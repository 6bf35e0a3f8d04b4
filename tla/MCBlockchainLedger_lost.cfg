CONSTANTS
    Payloads <- MCOnePayload
    NewRules <- MCNoRules
    NotFinite = NotFinite
    NoRequest = NoRequest
    MaxBlocks = 3
    MaxRules = 3
    MaxClock = 6
    MaxCrashes = 1
SPECIFICATION Spec
INVARIANT AcknowledgedIsKept
CHECK_DEADLOCK FALSE
