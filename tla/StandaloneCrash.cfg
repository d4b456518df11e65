SPECIFICATION Spec
CONSTANTS
    Runs = {r1}
    MayCrash = TRUE
    WritesFail = TRUE
    Settings = {terminal, editor}
    MaxClients = 2
    MaxGateways = 3
INVARIANTS ReadyIsConsistent NothingUnattended
PROPERTIES ClientIsStable StaleOnlyLingers
