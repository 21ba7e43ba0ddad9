CONSTANTS
    b1 = b1
    b2 = b2
    c1 = c1
    c2 = c2
    c3 = c3
    A = A
    Broadcasts = {b1, b2}
    Customers = {c1, c2, c3}
    Sends = {s1, s2}
    Channels = {A}
    NoCredentials = NoCredentials
    OtherPlatform = OtherPlatform
    Route <- MCRoute
    Audience <- MCAudience
    Illustrated = {b1, b2}
    ImageOnly = {b2}
    Images = Images
    Drafts = {b1}
    DailyLimit = 2
    LineLimit = 2
    Room <- MCRoom
    LastDay = 2
    MayFail <- AnyFault
    MaxFaults = 1
SPECIFICATION Spec
INVARIANT CapKept
INVARIANT SentIsTrue
INVARIANT AtMostOnce
INVARIANT FailedIsTrue
INVARIANT DraftIsUntouched
INVARIANT CountsAgree
INVARIANT NeverStuck
SYMMETRY SendSymmetry
CHECK_DEADLOCK FALSE
