CONSTANTS
    u = u
    r = r
    e1 = e1
    e2 = e2
    All = All
    Users = {u}
    Rooms = {r}
    Events = {e1, e2}
    To <- MCTo
    BatchSize = 1
    MaxQueue = 1
    MaxRetry = 2
    MaxSockets = 2
    MaxCalls = 2
    MayFail = {"d1", "call", "crash"}
    MaxFaults = 1
SPECIFICATION FairSpec
INVARIANT NothingIsLost
INVARIANT DrainIsArmed
INVARIANT OnlineAreRegistered
PROPERTY EventuallySettled
