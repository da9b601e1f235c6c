SPECIFICATION FairSpec
CONSTANTS
    Speclens <- MCSpeclens
    InitialSpeclen = 2
    AnswerSpeclen = 2
    Presets <- MCPresets
    MaxCalls = 3
    MaxEvents = 2
    MaxElapsed = 2
CONSTRAINT
    MCUsable
INVARIANTS
    CountsCoverSpectrum
    ClearEmpties
    MemorySafe
PROPERTIES
    QuietCommandPrevails
    PresetEndsAcquisition
    DestructorReturns
