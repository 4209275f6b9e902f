SPECIFICATION Spec
CONSTANTS
    t1 = t1  t2 = t2  t3 = t3
    root = root  app = app  out = out  file = file  f = f  g = g
    None = None
    Threads = {t1, t2, t3}
    Loggers = {root, app}
    Appenders = {out, file}
    Formatters = {f}
    Root <- MCRoot
    Levels <- LevelsTwo
    InitLists <- ListsFew
    InitLevels <- LevelsAny
    InitThresholds <- ThresholdsMixed
    Default = f
    Program <- LogDrainAndChange
    MaxCalls = 1
    MayFail = FALSE
INVARIANTS
    QuietDelivery
    VerdictHeld
    DrainCovers
