SPECIFICATION EndedSpec
CONSTANTS
    BlockQwords = 10
    ReservedRecordSpace = 5
    ReservedTailSpace = 1
    SizeMax = 100
    TimeModulus = 5
    Requests <- LayoutRequests
    OldRequests <- NoRequests
    Advances = {2}
    MaxBlocks = 2
    MaxArguments = 3
    NoDestination = NoDestination
INVARIANTS
    TypeOK
    InBounds
    Ended
    RecordsWhole
    DecodedAsWritten
    InStep
    ArgumentsAsPassed
    CutIsPrefix
    TimelinesComplete
CHECK_DEADLOCK FALSE
