SPECIFICATION Spec
CONSTANTS
    Threads <- MCThreads
    caller <- MCCaller
    Epoch <- MCEpoch
    Ops <- MCReads
    Ages <- MCAges
    RecvTimeout = 1
    MaxTurns = 3
    MaxTime = 2
INVARIANT
    SpectrumNotTooOld
