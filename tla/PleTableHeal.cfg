SPECIFICATION Spec
CONSTANTS
    Vocab <- HealVocab
    WinStart = 1
    WinEnd = 3
    NumShards = 2
    Checkpoints <- HealCheckpoints
    Holds <- HealHolds
    Restore = TRUE
    Remove = TRUE
INVARIANTS
    TypeOK
    RewriteHeals
PROPERTY
    DataBeforeSeal
