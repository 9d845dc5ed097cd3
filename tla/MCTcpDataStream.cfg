SPECIFICATION Spec
CONSTANTS
    Modulus = 9
    InitialSequenceNumber = 3
    Segments <- Wire
    MaxPacketFragments = 2
    MaxTotal = 9
INVARIANTS
    FrontierArrived
    VirtualTcpDataWithinList
    HandedIsGapFree
    InOrderIsRead
PROPERTY
    HandedStaysFirst
CHECK_DEADLOCK FALSE
