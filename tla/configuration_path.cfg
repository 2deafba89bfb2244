SPECIFICATION Spec
CONSTANTS
    TextPrefixes <- MCTextPrefixes
    Hosts <- MCHosts
    Starts <- MCStarts
    Later <- MCLater
    CommandLines <- MCCommandLines
    ApiRequests <- MCApiRequests
    MaxDisturbances = 1
    MaxUnanswered = 1
INVARIANT AskedIsGiven
INVARIANT AdvertisedIsAccepted
INVARIANT InterfacesReported
PROPERTY PrefixApplied
CHECK_DEADLOCK FALSE
