SPECIFICATION Spec
CONSTANTS
    a1 = a1
    a2 = a2
    Apps = {a1, a2}
    Contents <- MCContents
    First <- MCFirst
    Profiles <- MCProfiles
    Failing = {"write", "remove", "rename"}
    LastMilli = 2
    SameMilli = FALSE
SYMMETRY AppSymmetry
INVARIANTS LostIsRecoverable 
PROPERTIES InstalledIsValid SavePersists
