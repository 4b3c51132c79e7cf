SPECIFICATION Spec
CONSTANTS
    Vocab = 4
    WinStart = 0
    WinEnd = 4
    NumShards = 2
    Checkpoints <- PairCheckpoints
    Holds <- PairHolds
    Restore = FALSE
    Remove = TRUE
INVARIANT
    ServedTableFresh
