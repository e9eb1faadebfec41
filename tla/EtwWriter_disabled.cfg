SPECIFICATION FairSpec
CONSTANTS
    AppThreads = {t1}
    Workers = {w1}
    NoWorker = NoWorker
    NoThread = NoThread
    MaxBlocks = 3
    BlockEvents = 2
    Commands = {"enable", "disable"}
PROPERTY
    QuietWhenDisabled
