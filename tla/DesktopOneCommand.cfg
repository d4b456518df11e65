CONSTANTS
    Commands = {c1}
    Procs = {q1, q2}
    NoProc = NoProc
    Ports = {p1, p2}
    NoPort = NoPort
    Foreign = {p2}
    Polls = 2
    LateStarts = FALSE
    CallsFail = FALSE
    Crashes = FALSE
SPECIFICATION FairSpec
INVARIANTS NeverStale Supervised
PROPERTIES ImplementsLifecycle CommandsEnd
