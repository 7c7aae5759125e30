SPECIFICATION DocSpec
CONSTANTS
    n1 = n1
    n2 = n2
    e1 = e1
    a1 = a1
    Names <- MCNames
    Dials <- MCDials
    Appliers <- MCAppliers
    MaxIds = 2
    MaxApplies = 2
    MaxOthers = 2
SYMMETRY Symmetry
CHECK_DEADLOCK FALSE
INVARIANTS
    ConfigInv
PROPERTIES
    ReapplyChangesNothing
