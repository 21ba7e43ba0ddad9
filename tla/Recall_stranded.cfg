CONSTANTS
    Msgs = {m1}
    Tokens = {t1}
    NoToken = NoToken
    Batches = 1
    MaxCopies = 1
    MaxKinds = 3
    Recalls = {q1}
    MaxRetry = 1
SPECIFICATION Spec
INVARIANT BufferedHasAlarm
CONSTANT Budget <- StatementFault
CHECK_DEADLOCK FALSE
