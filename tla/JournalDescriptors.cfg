SPECIFICATION Spec
CONSTANTS
    Word = 32
    WordBytes = 2
    HeaderBytes = 4
    BlockBytes = 8
    Blocks <- MCBlocks
    Lists <- MCLists
    JournalBlocks = {3, 7}
    Garbage = 31
    MaxDescriptors = 3
CHECK_DEADLOCK FALSE
INVARIANTS
    RevokesFromTheList
    PrintedInOrder
