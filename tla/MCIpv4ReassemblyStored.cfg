SPECIFICATION Spec
CONSTANTS
    Files <- Captures
    Wild <- Fields
    HeaderBlocks = 1
    MaxDatagram = 6
    PoolSize = 2
    MaxLoads = 2
    Zero = Zero
    Junk = Junk
INVARIANT
    FrameDataStored
CHECK_DEADLOCK FALSE
