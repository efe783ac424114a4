SPECIFICATION Spec
CONSTANTS
    Chars <- MCChars
    Letters <- MCLetters
    Lower <- MCLower
    Slash = "/"
    Nul = "nul"
    High = "high"
    MaxWord = 3
    BlockSize = 3
    Checked = 2
    Contents <- MCContents
    Queries <- MCQueries
CHECK_DEADLOCK FALSE
INVARIANTS
    TypeOK
    SubstringsFound
    OneWordSurvives
    MarksTheQuery
    WordsOfTheFileFound
