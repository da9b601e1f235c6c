SPECIFICATION Spec
CONSTANTS
    Threads <- MCThreads
    caller <- MCCaller
    Epoch <- MCEpoch
    Ops <- MCCommands
    Ages <- MCAge
    RecvTimeout = 1
    MaxTurns = 3
    MaxTime = 1
INVARIANT
    TrueMeansCarriedOut
