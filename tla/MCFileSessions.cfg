SPECIFICATION FilesSpec
CONSTANTS
    WindowSize = 2
    SmbCaptures <- SmbCapturesSeen
    SmbSessionPoolSize = 1
    SmbFilePoolSize = 2
    SmbMaxFaults = 1
    FtpCaptures <- FtpCapturesSeen
    FtpSessionPoolSize = 2
    FtpPendingPoolSize = 2
    FtpMaxFaults = 2
INVARIANTS
    PlainReadsArePublished
    PublishedFromOneAnswer
    FileOnItsConnection
    CompleteTransferIsAssembled
CHECK_DEADLOCK FALSE
