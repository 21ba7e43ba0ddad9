CONSTANTS
    Msgs = {m1}
    Tokens = {t1}
    NoToken = NoToken
    Batches = 1
    MaxCopies = 1
    MaxKinds = 2
    Recalls = {q1, q2}
    MaxRetry = 1
SPECIFICATION FairSpec
INVARIANT CancelIsFinal
INVARIANT AtMostOnce
INVARIANT FailedIsTrue
INVARIANT NeverForgotten
PROPERTY UsesWindow
PROPERTY EventuallySettled
CONSTANT Budget <- AnyFault
CHECK_DEADLOCK FALSE
