SPECIFICATION FairSpec
CONSTANTS
    s1 = s1
    c1 = c1
    c2 = c2
    None = None
    Servers <- MCServers
    Tasks <- MCCallers
    Callers <- MCCallers
    CallerOps <- AllOps
    Worlds <- MCWorlds
    StoreFaults = TRUE
INVARIANTS
    DisabledHasNoSession
PROPERTIES
    UninstallIsFinal
    DisableTakesEffect
