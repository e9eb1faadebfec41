SPECIFICATION RestSpec
CONSTANTS
    AppThreads = {t1, t2}
    Workers = {w1}
    NoWorker = NoWorker
    NoThread = NoThread
    MaxBlocks = 2
    BlockEvents = 2
    Commands = {"enable", "disable", "flush"}
SYMMETRY ThreadSymmetry
INVARIANTS
    TypeOK
    FlushMeetsTheLiving
    ToldTheTruth
    OneOwner
    WritesOwnBlock
    AssertionsHold
    ThreadOrder
PROPERTIES
    FlushDelivers
    SerialisesWorker
