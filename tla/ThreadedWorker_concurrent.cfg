SPECIFICATION Spec
CONSTANTS
    Blocks = {b1, b2, b3}
    Threads = {w1, w2}
    NoThread = NoThread
INVARIANTS
    TypeOK
    NoTerminate
    OneWorker
    NoLostWakeup
    ExactlyOnce
    NoOrphans
PROPERTIES
    CallsReturn
    ImplementsSink
