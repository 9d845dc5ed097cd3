SPECIFICATION SearchSpec
CONSTANTS
    Bytes <- TwoBytes
    Terminators <- UpToFour
    MaxLength = 6
CHECK_DEADLOCK FALSE
INVARIANTS
    SearchesFindOccurrences
    TerminatorIsNoticed
    UsedUpToTerminator
    NothingForgotten
