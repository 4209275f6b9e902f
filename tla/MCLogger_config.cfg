SPECIFICATION FairSpec
CONSTANTS
    t1 = t1  t2 = t2  t3 = t3
    root = root  app = app  out = out  file = file  f = f  g = g
    None = None
    Threads = {t1, t2}
    Loggers = {root, app}
    Appenders = {out, file}
    Formatters = {f, g}
    Root <- MCRoot
    Levels <- LevelsOne
    InitLists <- ListsOwn
    InitLevels <- LevelsLow
    InitThresholds <- ThresholdsMixed
    Default = f
    Program <- ConfigWhileLogging
    MaxCalls = 2
    MayFail = TRUE
INVARIANTS
    TypeOK
    ListFrozen
    CallOK
PROPERTIES
    NoLateWrite
    Delivers
    CallsReturn
