SPECIFICATION FairSpec
CONSTANTS
    root = root  lost = lost  jrnl = jrnl  dirD = dirD  dirE = dirE  fileA = fileA  fileB = fileB  new = new  far = far
    a = a  b = b  c = c  d = d  e = e  s = s  t = t
    textA = textA  textB = textB
    Blocks = {root, lost, jrnl, dirD, dirE, fileA, fileB, new, far}
    Beyond = {far}
    Names = {a, b, c, d, e, s, t, Dot, DotDot, LostFound}
    Texts = {textA, textB, Empty}
    Empty = Empty
    Dot = Dot
    DotDot = DotDot
    LostFound = LostFound
    NInodes = 8
    InodesPerGroup = 4
    BlockBits = 8
    UInt = 64
    Volumes <- MCVolumes
    Rewrites <- MCRewrites
    MaxRewrites = 2
    Garbage <- MCGarbage
    MaxDepth = 3
    NoEntry = NoEntry
CHECK_DEADLOCK FALSE
INVARIANTS
    TypeOK
    DocsAreOfTheVolume
    EachPathOnce
    ParentFirst
    
PROPERTIES
    RefusedVolumesAddNothing
    ImplementsWalk
    Terminates
