SPECIFICATION Spec
CONSTANTS
    NumReqs = 2
    Text <- MCText
    PromptLen <- MCPromptLen
    Tokens = {"a", "b", "e"}
    Eos = "e"
    NgramSize = 3
    Kernel = 2
    Stride = 2
    Interval = 2
    MaxChunk = 3
    Configs <- MCConfigs
INVARIANTS
    LookupTrue
    StateTrue
    CacheTrue
