SPECIFICATION Spec
CONSTANTS
    i1 = i1
    i2 = i2
    i3 = i3
    None = None
    Installers <- MCInstallers
    Lease = 3
    Patience = 1
    MaxTime = 3
    MaxDeletes = 1
    MaxMishaps = 1
SYMMETRY Symmetry
CHECK_DEADLOCK FALSE
INVARIANTS
    InstallInv
    OneInstallPerName
