SPECIFICATION Spec
CONSTANTS
    Chains = {c1, c2, c3}
    Requests = {q1, q2}
    Life = 2
    MaxDelay = 2
    RetryDelay = 1
    Endpoints <- RotatingOrGarbled
    MaxFaults = 1
INVARIANTS LiveTokenHeld ChainSurvives
PROPERTY EventuallyServes OneChainIsPunctual
