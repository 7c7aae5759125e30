\* The supervisor and one caller on one server.  Delays are 1, 2, 4, 4, ...
\* units and a tick takes 2, so a penalty outlasts a tick from the third
\* failure on.
SPECIFICATION SupFairSpec
CONSTANTS
    Sup = Sup
    None = None
    Servers = {s1}
    Tasks = {c1, Sup}
    Callers = {c1}
    CallerOps = {"connect", "disconnect", "enable", "disable"}
    Worlds = {"ok", "slow", "broken", "unauthorized"}
    StoreFaults = FALSE
    BackoffBase = 1
    BackoffMax = 4
    TickInterval = 2
    TeardownRun = 2
    FailureCap = 3
INVARIANTS
    SupInv
    DisabledIsCondemned
PROPERTIES
    ServersComeBack
