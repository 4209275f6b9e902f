SPECIFICATION Spec
CONSTANTS
    t1 = t1  t2 = t2  a = a  b = b
    Threads = {t1, t2}
    Appenders = {a, b}
    Cout = Cout
    None = None
    MaxCalls = 2
    MaxCrashes = 2
    MayFail = TRUE
INVARIANTS
    RecordsWhole
    PromisesKept
PROPERTIES
    EachStreamIsOneLog
    CallsReturn
