SPECIFICATION Spec
CONSTANTS
    t1 = t1  t2 = t2
    Threads = {t1, t2}
    Main = t1
    Worlds <- MCWorlds
    MayFail = TRUE
INVARIANTS
    TypeOK
    NameIsOwn
    RestoresName
    WideConversionAgrees
    NarrowConversionAgrees
CHECK_DEADLOCK FALSE
