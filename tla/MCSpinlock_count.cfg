SPECIFICATION FairSpec
CONSTANTS
    ThreadCount = 4
    Targets = {0, 3, 6}
    Runs = 2
INVARIANTS
    MutualExclusion
    NothingLost
    CountIsExact
PROPERTIES
    Finishes
