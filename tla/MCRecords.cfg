SPECIFICATION Spec
CONSTANTS
    o1 = o1
    o2 = o2
    w1 = w1
    t1 = t1
    t2 = t2
    t3 = t3
    k1 = k1
    k2 = k2
    q1 = q1
    q2 = q2
    r1 = r1
    u1 = u1
    u2 = u2
    u3 = u3
    None = None
    Nobody = Nobody
    Openers <- MCOpeners
    RowCount = 3
    Carried <- MCCarried
    Batch = 2
    AuditLength = 3
    Window = 2
    MaxWrites = 1
    Bases = {"b1", "b2"}
    Servers <- MCServers
    PageOf <- MCPageOf
    Fixed = {"s2", "s3"}
    MaxPages = 2
    Refresh = 1
    Cooldown = 1
    MaxTime = 2
    MaxChanges = 2
    ServerNames = {"Doc", "doc"}
    Fold <- LowerCase
    ToolNames = {"x", "y"}
    Entries <- MCEntries
    Listings <- MCListings
    MaxDeclared = 2
    MaxBuilds = 3
    Threads <- MCThreads
    Tokens <- MCTokens
    MaxActions = 2
    MaxEvents = 3
    MaxDrain = 2
    Horizon = 7
    Searches <- MCSearches
    Catalogs = {"b1", "b2"}
    Asked <- MCAsked
    Length = 3
    MaxWalk = 2
    Ttl = 1
    Rest = 1
    MatchingPages <- MCMatching
    MaxSearchTime = 1
    MaxAsked = 2
    MaxOdd = 1
    Published <- MCPublished
    MaxRows = 4
    Readers <- MCReaders
    Tools = {"put"}
    Times = {0, 1}
    DefaultLimit = 1
    MaxLimit = 2
    ReadWindow = 2
    MaxEntries = 4
    Writers <- MCWriters
    RowValues <- MCRowValues
    Absent <- MCAbsent
    First <- MCFirst
    Change <- MCChange
    Attempts = 3
    Replies = {"l1"}
    MaxLines = 4
CHECK_DEADLOCK FALSE
INVARIANTS
    EventsInv
    SearchInv
    ListingInv
    PageIsOfOneMoment
    ReplyIsTheFirst
PROPERTIES
    MigrationKeeps
    IndexKeeps
    StaticKeeps
    TableKeeps
    RowKeeps
