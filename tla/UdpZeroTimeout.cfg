SPECIFICATION FairSpec
CONSTANTS
    caller = caller
    worker = worker
    Threads <- MCThreads
    Hosts <- MCHosts
    Timeouts <- MCZeroTimeout
    MaxTurns = 2
    MaxFrags = 1
CHECK_DEADLOCK FALSE
PROPERTY
    CallReturns
