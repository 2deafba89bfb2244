SPECIFICATION FairSpec
CONSTANTS
    MaxBlocks = 3
    MayBreak = TRUE
    Apis = {"upload", "download", "bidirectional"}
    Requested = {0, 1, 3}
INVARIANT TypeOK
INVARIANT ResultIsExact
INVARIANT BlocksInOrder
INVARIANT OkMeansComplete
INVARIANT AtMostOneLateWrite
PROPERTY KeepsContract
PROPERTY RpcEnds
CHECK_DEADLOCK FALSE
