SPECIFICATION EndedSpec
CONSTANTS
    BlockQwords = 13
    ReservedRecordSpace = 6
    ReservedTailSpace = 2
    SizeMax = 3
    TimeModulus = 1000
    Requests <- GuessRequests
    OldRequests <- OldGuessRequests
    Advances = {0, 1}
    MaxBlocks = 1
    MaxArguments = 2
    NoDestination = NoDestination
INVARIANTS
    DecodedAsWritten
    InStep
    ArgumentsAsPassed
CHECK_DEADLOCK FALSE
