SPECIFICATION KeysSpec
CONSTANTS
    admin = admin
    ann = ann
    k1 = k1
    k2 = k2
    k3 = k3
    Pairs <- MCPairs
    Blank = Blank
    Names <- MCNames
    FirstAdmin = admin
    MaxRestarts = 4
INVARIANTS
    CookiesSurvive
PROPERTIES
    FileStays
CHECK_DEADLOCK FALSE
