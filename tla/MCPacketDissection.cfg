SPECIFICATION Spec
CONSTANTS
    FrameLengths <- FrameLengthsOf
    Lengths = {3, 5, 30}
    HeaderWords = {0, 2, 5, 6}
    ReassembledLengths = {26, 42}
    UnsetOffsets <- Unset
    MaxFields = 3
    MaxLayers = 15
INVARIANTS
    LayersNest
    LayersKept
PROPERTY
    WalkEnds
