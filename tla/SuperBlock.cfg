SPECIFICATION Spec
CONSTANTS
    Word = 256
    WordBits = 8
    MinBlockSize = 8
    ByteBits = 2
    SizeofInode = 2
    SuperBlocks <- MCSuperBlocks
CHECK_DEADLOCK FALSE
INVARIANTS
    TypeOK
    InodesHaveSlots
    TablesFillBlocks
PROPERTY WellFormedPass
