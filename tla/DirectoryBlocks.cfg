SPECIFICATION DirectorySpec
CONSTANTS
    Objects = {o1, o2}
    Nobody = Nobody
    BlockSize = 4
    Dot = Dot
    DotDot = DotDot
    LostFound = LostFound
    a = a
    b = b
    long = long
    LongNames = {long}
    Killed = Killed
    Contents <- MCContents
CHECK_DEADLOCK FALSE
INVARIANTS
    NextFollowsRecords
    LinksAreTheDirectory
    ReadsAgree
