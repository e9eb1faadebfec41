SPECIFICATION Spec
CONSTANTS
    BlockQwords = 16
    ReservedRecordSpace = 8
    ReservedTailSpace = 2
    GraphicsRecordSpace = 8
    SizeMax = 7
    TimeModulus = 5
    Requests <- ContextRequests
    Advances = {1}
    MaxBlocks = 2
    MaxEvents = 4
    MaxArguments = 2
    NoDestination = NoDestination
    NoRecord = NoRecord
INVARIANTS
    BlobIsTheEvent
    BufferFits
    CaptureLosesNothing
CHECK_DEADLOCK FALSE
