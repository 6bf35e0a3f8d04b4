SPECIFICATION Spec
CONSTANTS
    Words <- MCWords
    Dotted <- MCDotted
    Digits <- MCDigits
    Values <- MCValues
    Numbers <- MCNumbers
    Parameters <- MCParameters
    Tables <- MCTables
    Endpoints <- MCEndpoints
    MaxCalls = 2
INVARIANTS
    AnswerMeansItsText
    WriteCoversScope
    WriteKeepsOthers
CHECK_DEADLOCK FALSE
