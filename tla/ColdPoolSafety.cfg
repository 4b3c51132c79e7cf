SPECIFICATION Spec
CONSTANTS
    E = 7
    Keep <- MCKeep
    Slots = 2
    TopK = 2
    Tensors = {"w13", "scale"}
    Unlisted = "mystery"
    Dtypes = {"bf16", "f32"}
    Tokens <- MCTokens
    Score <- MCScore
    MinRows = 0
    MaxRows = 2
    StashRows = 1
    HookPeriod = 2
    NeedHits = 1
    MaxStage = 2
    AlphaNum = 4
    AlphaDen = 5
    DecayNum = 3
    DecayDen = 4
    Unit = 2
    StageFaults = TRUE
    Degrade = FALSE
    Window = 1
INVARIANTS
    TypeOK
    RoutableIntact
    MaskedParked
    SlotsConserved
    StagedVisible
    WeakNeverStaged
    DraftUntouched
    PoolInv
