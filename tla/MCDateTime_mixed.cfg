SPECIFICATION DateSpec
CONSTANTS
    t1 = t1  t2 = t2  f = f  g = g
    Threads = {t1, t2}
    Formats = {f, g}
    Uses <- OneAndMixed
    Seconds <- AllSeconds
    Fits <- MixedFits
    LocaltimeMayFail = TRUE
INVARIANTS
    DateIsOwn
    SecondIsOwn
