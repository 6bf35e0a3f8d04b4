CONSTANTS
    Projects = {p1, p2}
    Global = global
    DefaultCodes <- MCDefaults
    AddedCodes = {"1000", "9000"}
    Postings <- MCPostings
    Namings <- MCNamings
    MaxEntries = 2
    MaxAdded = 1
    MaxCrashes = 2
SPECIFICATION Spec
INVARIANT TypeOK
INVARIANT AckedIsComplete
INVARIANT JoinSeesEveryLine
INVARIANT SeededOnce
INVARIANT ImbalanceIsInterrupted
INVARIANT BooksBalance
INVARIANT ReportsAgree
