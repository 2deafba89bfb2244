SPECIFICATION FairSpec
CONSTANTS
    Owner = hostapd
    Stoppers = {s1, s2}
    Proxy = proxy
    Listeners = {proxy, l1, l2}
    MayExpire = {l1}
    MaxTokens = 3
    MaxEvents = 2
    SetupMayFail = TRUE
INVARIANT TypeOK
INVARIANT NoThreadAfterDestruction
PROPERTY LiveRegistrationKept
PROPERTY StopWriteReachesThread
PROPERTY SignalledStopReturns
CHECK_DEADLOCK FALSE
