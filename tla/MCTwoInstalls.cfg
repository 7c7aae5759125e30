SPECIFICATION Spec
CONSTANTS
    i1 = i1
    i2 = i2
    i3 = i3
    None = None
    Installers <- MCInstallers
    Lease = 3
    Patience = 2
    MaxTime = 3
    MaxDeletes = 0
    MaxMishaps = 0
SYMMETRY Symmetry
CHECK_DEADLOCK FALSE
INVARIANT
    OneInstallPerName
