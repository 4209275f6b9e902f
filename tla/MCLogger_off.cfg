SPECIFICATION Spec
CONSTANTS
    t1 = t1  t2 = t2  t3 = t3
    root = root  app = app  out = out  file = file  f = f  g = g
    None = None
    Threads = {t1}
    Loggers = {root, app}
    Appenders = {out, file}
    Formatters = {f}
    Root <- MCRoot
    Levels <- LevelsTop
    InitLists <- ListsFew
    InitLevels <- LevelsAny
    InitThresholds <- ThresholdsAny
    Default = f
    Program <- SetLevelThenLog
    MaxCalls = 2
    MayFail = FALSE
INVARIANTS
    OffSilences
