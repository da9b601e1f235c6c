SPECIFICATION FairSpec
CONSTANTS
    caller = caller
    worker = worker
    Threads <- MCThreads
    Hosts <- MCAllHosts
    Timeouts <- MCTimeouts
    MaxTurns = 3
    MaxFrags = 3
INVARIANTS
    TypeOK
    SemaphoreConserved
    QuietStartOwnAnswer
    InStepUntilUpset
PROPERTIES
    HandlerSpec
    CallReturns
    TurnsGoOn
