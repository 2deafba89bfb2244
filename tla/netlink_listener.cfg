SPECIFICATION Spec
CONSTANTS
    Descriptors = {3, 4}
    BufferSize = 2
    MaxStarts = 2
    MaxMessages = 4
INVARIANT ListenerSafe
PROPERTY StopGetsThrough
PROPERTY ImplementsListener
