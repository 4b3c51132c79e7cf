SPECIFICATION Spec
CONSTANTS
    E = 5
    Keep <- LiveKeep
    Slots = 2
    TopK = 2
    Tensors = {"w13"}
    Unlisted = "mystery"
    Dtypes = {"bf16"}
    Tokens <- LiveTokens
    Score <- PromoteScore
    MinRows = 2
    MaxRows = 2
    StashRows = 2
    HookPeriod = 1
    NeedHits = 1
    MaxStage = 1
    AlphaNum = 4
    AlphaDen = 5
    DecayNum = 3
    DecayDen = 4
    Unit = 2
    StageFaults = FALSE
    Degrade = TRUE
    Window = 2
INVARIANTS
    SlotsConserved
PROPERTY
    ProtectedPinned
