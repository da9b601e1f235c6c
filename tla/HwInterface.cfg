SPECIFICATION Spec
CONSTANTS
    Threads <- MCThreads
    caller <- MCCaller
    Epoch <- MCEpoch
    Ops <- MCOps
    Ages <- MCAges
    RecvTimeout = 1
    MaxTurns = 3
    MaxTime = 2
CONSTRAINT
    MCApart
INVARIANTS
    TypeOK
    StatusNotBeforeSpectrum
    DataFresh
    AcquisitionAsCommanded
