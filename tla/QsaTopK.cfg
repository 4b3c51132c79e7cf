SPECIFICATION Spec
CONSTANTS
    Ratio = 2
    BlockN = 2
    BlockQ = 2
    Split = 2
    Group = 4
    PageSize = 2
    MaxScore = 2
    Jobs <- MCJobs
CHECK_DEADLOCK FALSE
INVARIANTS
    MatchesReference
    TokensSound
