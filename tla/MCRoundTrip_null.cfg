SPECIFICATION EndedSpec
CONSTANTS
    BlockQwords = 10
    ReservedRecordSpace = 5
    ReservedTailSpace = 1
    SizeMax = 100
    TimeModulus = 1000
    Requests <- NullRequests
    OldRequests <- NoRequests
    Advances = {1}
    MaxBlocks = 1
    MaxArguments = 2
    NoDestination = NoDestination
INVARIANT
    NullTakesItsPlace
CHECK_DEADLOCK FALSE
