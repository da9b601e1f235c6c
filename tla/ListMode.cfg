SPECIFICATION FairSpec
CONSTANTS
    Workers <- MCWorkers
    caller <- MCCaller
    NoThread <- MCNoThread
    FifoSize = 2
    MaxTurns = 3
    MaxEvents = 4
    MaxStarts = 2
INVARIANTS
    TypeOK
    DisabledMeansStopped
    FileComplete
    FileInOrder
    LossIsMarked
PROPERTY
    DisableReturns
