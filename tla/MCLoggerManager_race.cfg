SPECIFICATION FairSpec
CONSTANTS
    t1 = t1  t2 = t2  t3 = t3
    a = a  b = b
    None = None
    RootName = root
    EmptyName = empty
    Threads = {t1, t2, t3}
    Names = {root, a, b}
    MaxCalls = 1
    MayFail = TRUE
INVARIANTS
    OneLoggerPerName
    FallbackReady
PROPERTIES
    NamesAreKept
    CallsReturn
