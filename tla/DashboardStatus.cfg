SPECIFICATION Spec
CONSTANTS
    Polls = {p1, p2}
    Loads = {l1}
    Saves = {s1}
    Statuses = {"running", "failed"}
    Files = {"no token", "valid", "unreadable"}
    Tabs = {"status", "config"}
INVARIANTS DangerIsTold
PROPERTIES ToldOnce WindowCatchesUp
