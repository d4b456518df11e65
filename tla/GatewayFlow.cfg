CONSTANTS
    TokenEntries <- MCEntries
    Requests = {r1, r2}
    Messages <- MCMessages
    AccessTokens = {"t1", "bad"}
    HeaderSafe = {"t1"}
    Audit = TRUE
    Level = "info"
SPECIFICATION FairSpec
CHECK_DEADLOCK FALSE
INVARIANTS StrangersSpendNothing AuditIsTrue ForwardedHeaders AgreesWithTypeScript
PROPERTIES EveryRequestEnds
