SPECIFICATION FairSpec
CONSTANTS
    FileSizes <- Sizes3
    PACKET_QUEUE_SIZE = 2
    CounterMod = 13
PROPERTY
    ReaderStopsAtEof
