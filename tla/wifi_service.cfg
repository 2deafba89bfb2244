SPECIFICATION FairSpec
CONSTANTS
    FileValue = file
    MaxRestarts = 1
    t1 = t1
    t2 = t2
    Threads <- MCThreads
    Requests <- MCRequests
INVARIANT TypeOK
INVARIANT RejectedLeavesNoTrace
INVARIANT OldPasswordsGone
PROPERTY SuccessIsApplied
PROPERTY EnabledAsConfigured
PROPERTY AbortsOnlyAfterApplying
PROPERTY RequestsReturn
CHECK_DEADLOCK FALSE
