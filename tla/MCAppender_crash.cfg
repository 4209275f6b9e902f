SPECIFICATION Spec
CONSTANTS
    t1 = t1  t2 = t2  t3 = t3
    None = None
    Threads = {t1, t2, t3}
    Kind = "file"
    Levels = {2, 5}
    MaxCalls = 1
    MaxCrashes = 1
    MayFail = TRUE
SYMMETRY Symmetry
INVARIANTS
    TypeOK
    RecordsWhole
    PromisesKept
PROPERTIES
    AppendsToOneLog
