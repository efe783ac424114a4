SPECIFICATION Spec
CONSTANTS
    Quarter = 4
    SizeWords = 2
    MaxLength = 3
    Inputs <- MCInputs
    Pointers <- MCPointers
CHECK_DEADLOCK FALSE
INVARIANTS
    TypeOK
    Sound
    LowBitsKept
    SmallBlocksExact
