SPECIFICATION FairLifeSpec
CONSTANTS
    AppThreads = {t1}
    Workers = {w1}
    NoWorker = NoWorker
    NoThread = NoThread
    MaxBlocks = 3
    BlockEvents = 1
    Commands = {"enable", "disable", "flush"}
INVARIANT
    ShutdownDelivers
PROPERTIES
    UsesWhatExists
    ShutdownReturns
    CommandsReturn
    TakenIsWritten
CHECK_DEADLOCK FALSE
