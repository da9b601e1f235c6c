SPECIFICATION Spec
CONSTANTS
    Detectors <- MCDetectors
    Lengths <- MCLengths
    Values <- MCValues
    Calls <- MCCalls
    Rates <- MCRates
    Damages <- MCDamages
    Others <- MCOthers
    BufferSize = 96
INVARIANTS
    ReadsBack
    SpectrumReadsBack
    ReadingsDisjoint
    DamageNoticed
    RequestReadsBack
    RateKept
