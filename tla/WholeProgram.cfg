SPECIFICATION WholeSpec
CONSTANTS
    r1 = r1  r2 = r2  d1 = d1  d2 = d2  q = q
    root = root  jrnl = jrnl  dirD = dirD  fileA = fileA
    a = a  b = b  d = d  s = s  t = t  textA = textA
    Runs = {r1, r2}
    Devices = {d1, d2}
    Disk <- MCDisk
    WalkLengths <- Nat
    Paths <- MCPaths
    Queries = {q}
    Matches <- MCMatches
    NoRun = NoRun
    NoDevice = NoDevice
    Null = Null
    Blocks = {root, jrnl, dirD, fileA}
    Beyond = {}
    Garbage <- MCGarbage
    Names = {a, b, d, s, t, Dot, DotDot, LostFound}
    Texts = {textA, Empty}
    Empty = Empty
    Dot = Dot
    DotDot = DotDot
    LostFound = LostFound
    NInodes = 6
    InodesPerGroup = 4
    BlockBits = 8
    UInt = 64
    MaxDepth = 3
    NoEntry = NoEntry
CHECK_DEADLOCK FALSE
INVARIANTS
    CompleteIndex
    NoPathTwice
PROPERTY ImplementsMain
