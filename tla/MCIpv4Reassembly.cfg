SPECIFICATION Spec
CONSTANTS
    Files <- Captures
    Wild <- Fields
    HeaderBlocks = 1
    MaxDatagram = 6
    PoolSize = 2
    MaxLoads = 2
    Zero = Zero
    Junk = Junk
INVARIANTS
    PoolHoldsUnfinished
    DeliveredWhole
    FragmentUsedOnce
    InOrderCompletes
CHECK_DEADLOCK FALSE
