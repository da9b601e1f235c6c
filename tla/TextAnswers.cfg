SPECIFICATION Spec
CONSTANTS
    MaxPacket = 8
    MaxPerRequest = 2
    BufferSize = 6
    ShortestAnswer = 1
    LongestAnswer = 2
    Sizes <- MCSizes
    MaxCommands = 3
INVARIANT
    AnswersFit
