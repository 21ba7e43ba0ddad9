CONSTANTS
    e1 = e1
    e2 = e2
    f1 = f1
    m1 = m1
    Entries = {e1, e2, f1}
    Messages = {m1}
    Event <- MCEvent
    Follow = Follow
    Retries = 1
    LockIds <- MCLockIds
    NoLock = NoLock
    Ttl = 2
    Timeout = 1
    RetryInterval = 1
    MaxRetries = 1
    MaxTime = 4
    MayFail <- NoFault
    MaxFaults = 0
SPECIFICATION Spec
SYMMETRY MCSymmetry
INVARIANT ReleaseFrees
CHECK_DEADLOCK FALSE
