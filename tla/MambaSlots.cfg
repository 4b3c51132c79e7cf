SPECIFICATION Spec
CONSTANTS
    r1 = r1
    r2 = r2
    Reqs = {r1, r2}
    Text <- MCText
    PromptLen <- MCPromptLen
    Configs <- MCConfigs
    Interval = 2
    ReqSize = 2
    MambaSize = 7
    CkptSize = 2
    MaxAdmits = 2
INVARIANTS
    TypeOK
    SlotLedger
    MapCoherent
    CachedTrue
    RunningTrue
    PingPong
