CONSTANTS
    a = a
    a1 = a1
    a2 = a2
    Users = {a}
    Conns = {a1, a2}
    UserOf <- MCUserOf
    TokenLife <- MCTokenLife
    MaxConns = 2
    Period = 2
    RetryBase = 1
    MaxFailures = 2
    FlushDelay = 1
    FlushAttempts = 2
    MayFail = {"d1", "put", "flush", "load", "crash"}
    MaxFaults = 1
SPECIFICATION FairSpec
INVARIANT CheckIsArmed
INVARIANT KnowsItsSockets
INVARIANT ListIsRight
INVARIANT LossBound
INVARIANT OutageEvictsNobody
PROPERTY UnwelcomeAreClosed
