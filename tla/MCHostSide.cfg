SPECIFICATION MCSpec
CONSTANTS
    root = root
    d1 = d1
    c1 = c1
    c2 = c2
    None = None
    Dirs <- MCDirs
    Root = root
    Owned <- MCOwned
    Clients <- MCClients
    Default = c1
    MaxOpen = 2
    MaxSeen = 2
    MaxTid = 3
    MaxCalls = 0
    Tasks = {t1, t2}
    States = {s1, s2}
    Absent = Absent
    Ttl = 1
    Skew = 1
    Lifetime = 2
    MaxNow = 3
    MaxEdits = 1
    MaxTokens = 3
    Users = {t1, t2}
    Publishable <- MCPublishable
    NamedServers <- MCNamedServers
SYMMETRY Symmetry
CHECK_DEADLOCK FALSE
INVARIANTS
    OAuthInv
    DiscoveryInv
PROPERTIES
    LifecycleKeeps
    SignInSurvives
