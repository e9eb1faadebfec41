SPECIFICATION SerialSpec
CONSTANTS
    Blocks = {b1, b2, b3}
    Threads = {w1, w2}
    NoThread = NoThread
INVARIANTS
    InOrder
    StoppedIsDrained
PROPERTIES
    ImplementsQueue
