SPECIFICATION Spec
CONSTANTS
    Terminals = {t1}
    Shells = {zsh}
    Written = {"first", "second"}
    MaxLines = 3
INVARIANTS
    RcFileKept
    UninstalledIsNative
    CredentialsBelongTogether
