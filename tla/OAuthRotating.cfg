CONSTANTS
    Req = {r1, r2}
    Tokens = {t1, t2, t3, t4, t5}
    NoToken = NoToken
    Lifetimes = {3}
    InitialTtls = {0, 4}
    MinDelay = 1
    RetryDelay = 2
    Rotations = {TRUE}
    LossyReplies = TRUE
    Disconnects = TRUE
SPECIFICATION FairSpec
CHECK_DEADLOCK FALSE
INVARIANTS TypeOK RefreshTokenCustody OutageBounded ServingKeepsLoop
PROPERTIES AbandonedLoopEnds BackgroundRecovers
