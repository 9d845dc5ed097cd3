SPECIFICATION Spec
CONSTANTS
    Modulus = 9
    InitialSequenceNumber = 3
    Segments <- Wire
    MaxPacketFragments = 2
    MaxTotal = 9
INVARIANT
    ZeroMeansMissing
CHECK_DEADLOCK FALSE
