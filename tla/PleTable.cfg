SPECIFICATION Spec
CONSTANTS
    Vocab <- MCVocab
    WinStart = 0
    WinEnd = 5
    NumShards = 3
    Checkpoints <- MCCheckpoints
    Holds <- MCHolds
    Restore = FALSE
    Remove = FALSE
INVARIANTS
    SidecarTruthful
    SealInv
    ServedTableFresh
PROPERTY
    DataBeforeSeal
