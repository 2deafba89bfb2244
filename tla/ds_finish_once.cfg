SPECIFICATION Spec
CONSTANTS
    MaxBlocks = 1
    MayBreak = TRUE
    Apis = {"upload"}
    Requested = {1}
INVARIANT FinishOnce
CHECK_DEADLOCK FALSE
