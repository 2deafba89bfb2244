SPECIFICATION Spec
CONSTANTS
    Signals = {term, int}
    Calls = {c1, c2}
INVARIANT BackgroundServes
CHECK_DEADLOCK FALSE
