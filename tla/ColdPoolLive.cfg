SPECIFICATION LiveSpec
CONSTANTS
    E = 4
    Keep <- LiveKeep
    Slots = 1
    TopK = 2
    Tensors = {"w13"}
    Unlisted = "mystery"
    Dtypes = {"bf16"}
    Tokens <- LiveTokens
    Score <- LiveScore
    MinRows = 1
    MaxRows = 1
    StashRows = 1
    HookPeriod = 2
    NeedHits = 2
    MaxStage = 1
    AlphaNum = 4
    AlphaDen = 5
    DecayNum = 3
    DecayDen = 4
    Unit = 16
    StageFaults = FALSE
    Degrade = FALSE
    Window = 1
PROPERTY
    DemandServed
