SPECIFICATION FairSpec
CONSTANTS
    Signals = {term, int}
    Calls = {c1, c2}
INVARIANT TypeOK
INVARIANT ForegroundServes
INVARIANT ServicesOutliveCalls
INVARIANT NothingLeftRegistered
PROPERTY TerminationCompletes
CHECK_DEADLOCK FALSE
