CONSTANTS
    Payloads <- MCPayloads
    NewRules <- MCNewRules
    NotFinite = NotFinite
    NoRequest = NoRequest
    MaxBlocks = 3
    MaxRules = 4
    MaxClock = 6
    MaxCrashes = 2
SPECIFICATION Spec
INVARIANT TypeOK
INVARIANT UniqueTransactionIds
INVARIANT ReplyIsDurable
INVARIANT ValidAfterOneCrash
PROPERTY RulesOnlyGrow
CHECK_DEADLOCK FALSE
