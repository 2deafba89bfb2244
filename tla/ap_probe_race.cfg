SPECIFICATION FairSpec
CONSTANTS
    Interfaces = {wlan0}
    Removable = {}
    Unmanaged = {}
    MaxChanges = 2
    MayThrow = FALSE
    WeakCas = FALSE
    MayShutdown = FALSE
PROPERTY DepartureTracked
CHECK_DEADLOCK FALSE
