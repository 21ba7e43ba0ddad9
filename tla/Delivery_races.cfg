CONSTANTS
    Msgs = {m1}
    Tokens = {t1, t2}
    NoToken = NoToken
    Batches = 2
    MaxCopies = 1
    MaxKinds = 3
SPECIFICATION DeliverySpec
INVARIANT TokenClaimedOnce
INVARIANT SentIsTrue
CONSTANT Budget <- AnyFault
CHECK_DEADLOCK FALSE
