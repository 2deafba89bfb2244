SPECIFICATION Spec
CONSTANTS
    FileValue = file
    MaxRestarts = 0
    t1 = t1
    t2 = t2
    Threads <- MCThreads
    Requests <- MCSwitchRequests
PROPERTY DisabledWhenItSucceeds
CHECK_DEADLOCK FALSE
