SPECIFICATION FairSpec
CONSTANTS
    FileSizes <- Sizes4
    PACKET_QUEUE_SIZE = 2
    CounterMod = 13
INVARIANTS
    NothingLost
    QueueBounded
    BytesInQueueExact
    MissesAtMostTheLast
    DestroyedIsUnused
PROPERTIES
    ImplementsChannel
    AbortStopsReader
    DestructorReturns
    FileIsDelivered
