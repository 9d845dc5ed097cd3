SPECIFICATION Spec
CONSTANTS
    Keys = {k1, k2, k3, k4}
    Nodes = {n1, n2, n3, n4}
    Values <- Times
    minPoolSize = 2
    maxPoolSize = 3
    Expired <- TooOld
SYMMETRY Symmetry
INVARIANTS
    IndexMatchesList
    WithinPool
    KeepsMostRecent
PROPERTY
    DropsAreAnnounced
