SPECIFICATION Spec
CONSTANTS
    E = 4
    MaxScore = 3
    MaxToken = 1
    Configs <- MCConfigs
CHECK_DEADLOCK FALSE
INVARIANTS
    TypeOK
    SelectsBest
    PaddedSilent
    SharedOnce
    Addressed
