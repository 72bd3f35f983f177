SPECIFICATION Spec
CONSTANTS
    runtime = runtime
    dev = dev
    single = single
    Frameworks = {runtime, dev, single}
    UnitOf <- MCUnitOf
    Rank <- MCRank
    NoUnit = "none"
    MaxRun = 2
    MaxFaults = 2
INVARIANTS
    WrittenUnitIsWhole
    CountedIsPromoted
PROPERTIES
    ImplementsPromotion
    MovesForward
