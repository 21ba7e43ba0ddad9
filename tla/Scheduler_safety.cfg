CONSTANTS
    RefMsgs = {r1}
    InlineMsgs = {i1}
    Delays <- ShortDelays
    MaxRetry = 1
    RetryDelay = 1
    Retention = 1
    MaxTime = 4
    MaxAborts = 1
    MaxRestoreFaults = 1
    MaxPutFaults = 1
SPECIFICATION FairSpec
INVARIANT Accounted
INVARIANT CancelledNeverPushed
INVARIANT NeverStranded
INVARIANT IInv
PROPERTY RecordKept
PROPERTY ImplementsWindow
PROPERTY EventuallyReleased
