SPECIFICATION Spec
CONSTANTS
    E = 6
    Keep <- MCKeep
    Slots = 1
    TopK = 2
    Tensors = {"w13", "scale"}
    Unlisted = "mystery"
    Dtypes = {"bf16", "f32"}
    Tokens <- MCTokens
    Score <- DegradeScore
    MinRows = 0
    MaxRows = 2
    StashRows = 2
    HookPeriod = 2
    NeedHits = 1
    MaxStage = 2
    AlphaNum = 4
    AlphaDen = 5
    DecayNum = 3
    DecayDen = 4
    Unit = 2
    StageFaults = FALSE
    Degrade = TRUE
    Window = 1
INVARIANT
    RoutableIntact
