CONSTANTS
    Req = {r1, r2}
    Tokens = {t1, t2, t3, t4, t5}
    NoToken = NoToken
    Lifetimes = {2}
    InitialTtls = {0}
    MinDelay = 1
    RetryDelay = 1
    Rotations = {TRUE, FALSE}
    LossyReplies = FALSE
    Disconnects = FALSE
SPECIFICATION Spec
CHECK_DEADLOCK FALSE
PROPERTY PreservesExistingRefreshToken
