SPECIFICATION Spec
CONSTANTS
    Transfers <- Captured
    WindowSize = 2
    BlockModulus = 4
    DefaultBlksize = 2
    DefaultPort = 69
    MaxFrames = 6
INVARIANTS
    CompleteTransferIsPublished
    OneFileForEachTransfer
PROPERTY
    PublishedFilesStay
CHECK_DEADLOCK FALSE
