SPECIFICATION MCSpec
CONSTANTS
    root = root
    d1 = d1
    d2 = d2
    c1 = c1
    c2 = c2
    None = None
    Dirs <- MCDirs
    Root = root
    Clients <- MCClients
    Default = c1
    MaxOpen = 2
    MaxSeen = 2
    MaxTid = 3
    MaxCalls = 1
CHECK_DEADLOCK FALSE
INVARIANTS
    DirInv
PROPERTIES
    ServesAsPromised
    TransitionEnds
