SPECIFICATION Spec
CONSTANTS
    Threads <- MCThreads
    SerialOf <- MCSerialOf
    Targets <- MCFirst
    Leftovers <- MCShort
    MaxTurns = 2
    MaxAttempts = 2
INVARIANT
    RightDevice
