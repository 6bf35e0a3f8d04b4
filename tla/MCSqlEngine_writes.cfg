CONSTANTS
    Columns <- MCColumns
    IdColumn = 2
    IndexedFields = {1}
    Values <- MCValues
    Statements <- MCStatements
    Windows <- MCWindows
    MaxCrashes = 1
SPECIFICATION Spec
INVARIANT TypeOK
INVARIANT StatementTakesEffect
INVARIANT NoTornRow
INVARIANT KeyIsId
INVARIANT EntriesHaveRows
