SPECIFICATION Spec
CONSTANTS
    h1 = h1
    f1 = f1
    f2 = f2
    l1 = l1
    l2 = l2
    c1 = c1
    c2 = c2
    z1 = z1
    s1 = s1
    s2 = s2
    p1 = p1
    p2 = p2
    NoId = NoId
    Handles <- MCHandles
    Flows <- MCFlows
    RequestTimeout = 1
    IdleTtl = 2
    MaxSetupTime = 3
    Launches <- MCLaunches
    Callers <- MCCallers
    Closers <- MCClosers
    MaxIds = 4
    Versions = {"old", "new", "odd"}
    Supported = {"old", "new"}
    Latest = "new"
    ClientNames = {"", "a"}
    MinLength = 2
    MaxLength = 3
    MaxBatch = 3
    Clients <- MCCallers
    SessionIds <- MCSessionIds
    Starters <- MCStarters
    Dirs <- MCDirs
    Paths <- MCPaths
    HomeDirs <- MCHomeDirs
    FixedDirs <- MCFixedDirs
    NvmListings <- MCListings
    OwnPaths <- MCOwnPaths
CHECK_DEADLOCK FALSE
INVARIANTS
    SetupInv
    JailInv
    ProtocolInv
PROPERTIES
    StdioDelivers
    SpawnKeeps
