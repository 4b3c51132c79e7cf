SPECIFICATION Spec
CONSTANTS
    NumSlots = 3
    MaxLayers = 2
    Tokens = {t1, t2}
    Zero = zero
    Torn = torn
    OffloadChunk = 1
    MaxPlaces = 2
    DqSize = 10
    BlockSize = 2
    Configs <- MCConfigs
INVARIANTS
    TypeOK
    TransferVisible
    WorkspaceHolds
    SlotsBacked
    KeepsPromise
PROPERTY ImplementsStore
