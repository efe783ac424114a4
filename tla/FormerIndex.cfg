SPECIFICATION Spec
CONSTANTS
    Chars <- MCChars
    Files <- MCFiles
    Queries <- MCQueries
    MaxTerm = 3
    FlushEvery = 2
    MaxShown = 2
    MaxRuns = 2
CHECK_DEADLOCK FALSE
INVARIANTS
    StoredIsPrefix
    ShowsNamesThatContain
