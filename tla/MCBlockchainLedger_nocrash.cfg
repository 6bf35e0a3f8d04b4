CONSTANTS
    Payloads <- MCPayloads
    NewRules <- MCNewRules
    NotFinite = NotFinite
    NoRequest = NoRequest
    MaxBlocks = 4
    MaxRules = 5
    MaxClock = 5
    MaxCrashes = 0
SPECIFICATION Spec
INVARIANT RuleLookupAgrees
PROPERTY ImplementsImmutableLedger
CHECK_DEADLOCK FALSE
