SPECIFICATION FairSpec
CONSTANTS
    Interfaces = {wlan0, wlan1}
    Removable = {wlan0}
    Unmanaged = {wlan1}
    MaxChanges = 3
    MayThrow = TRUE
    WeakCas = TRUE
    MayShutdown = TRUE
INVARIANT TypeOK
INVARIANT NoDuplicates
INVARIANT PresentIsTracked
INVARIANT PhantomsExplained
INVARIANT OperationsOutliveThread
INVARIANT SelfJoinExplained
PROPERTY ArrivalTracked
PROPERTY ShutdownCompletes
CHECK_DEADLOCK FALSE
