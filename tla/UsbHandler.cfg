SPECIFICATION FairSpec
CONSTANTS
    Threads <- MCThreads
    SerialOf <- MCSerialOf
    Targets <- MCTargets
    Leftovers <- MCLeftovers
    MaxTurns = 2
    MaxAttempts = 2
INVARIANTS
    TypeOK
    NoFitPassedOver
    OthersClosed
    InStepUntilUpset
PROPERTIES
    HandlerSpec
    CallReturns
