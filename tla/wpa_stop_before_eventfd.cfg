SPECIFICATION FairSpec
CONSTANTS
    Owner = hostapd
    Stoppers = {}
    Proxy = proxy
    Listeners = {proxy}
    MayExpire = {}
    MaxTokens = 1
    MaxEvents = 3
    SetupMayFail = FALSE
PROPERTY StopListeningReturns
CHECK_DEADLOCK FALSE
