SPECIFICATION EndedSpec
CONSTANTS
    BlockQwords = 10
    ReservedRecordSpace = 5
    ReservedTailSpace = 1
    SizeMax = 3
    TimeModulus = 1000
    Requests <- SaturatedRequests
    OldRequests <- NoRequests
    Advances = {1}
    MaxBlocks = 1
    MaxArguments = 2
    NoDestination = NoDestination
INVARIANT
    VarArgsFormatted
CHECK_DEADLOCK FALSE
