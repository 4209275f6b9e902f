SPECIFICATION FairSpec
CONSTANTS
    Alphabet <- Characters
    Patterns <- MCPatterns
    MaxRecords = 1
    MayFail = TRUE
INVARIANTS
    TypeOK
    ReadsPattern
    LiteralsMerged
    OnlyDatesMissing
PROPERTIES
    Terminates
