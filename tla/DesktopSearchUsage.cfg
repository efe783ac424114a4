SPECIFICATION Spec
CONSTANTS
    r1 = r1  r2 = r2  r3 = r3
    d1 = d1  d2 = d2
    a = a  b = b
    qa = qa  qall = qall
    Runs = {r1, r2}
    Paths = {a, b}
    Devices = {d1, d2}
    Queries = {qa, qall}
    Matches <- MCMatches
    WalkLengths <- MCWalkLengths
    NoRun = NoRun
    NoDevice = NoDevice
    Null = Null
CHECK_DEADLOCK FALSE
INVARIANT UsesLastPointedFile
