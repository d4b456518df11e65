CONSTANTS
    Commands = {c1, c2}
    Procs = {q1, q2, q3}
    NoProc = NoProc
    Ports = {p1}
    NoPort = NoPort
    Foreign = {}
    Polls = 2
    LateStarts = TRUE
    CallsFail = TRUE
    Crashes = TRUE
SPECIFICATION Spec
SYMMETRY Symmetry
INVARIANTS RestOnlyWithoutChild RunningIsWatched
