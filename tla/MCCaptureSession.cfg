SPECIFICATION Spec
CONSTANTS
    a4 = a4
    a6 = a6
    b6 = b6
    p = p
    q = q
    Addresses = {a4, a6, b6}
    Ports = {p, q}
    Files <- CaptureFiles
    HostKey <- Key
    NoPort = NoPort
    NoFile = NoFile
    MaxLoads = 2
    MaxRestarts = 1
INVARIANTS
    DatabaseFollowsTable
    WindowShowsLastLoad
    FirstAddressStays
PROPERTIES
    LoadEnds
