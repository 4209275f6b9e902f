SPECIFICATION DateSpec
CONSTANTS
    t1 = t1  t2 = t2  f = f  g = g
    Threads = {t1, t2}
    Formats = {f}
    Uses <- OneOnly
    Seconds <- LaterSeconds
    Fits <- SometimesFits
    LocaltimeMayFail = FALSE
INVARIANTS
    ReuseIsExact
