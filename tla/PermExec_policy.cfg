SPECIFICATION Spec
CONSTANTS
    ls = ls
    rm = rm
    Hashes = {ls, rm}
    NoHash = NoHash
    EnvVars = {"PATH"}
    Allowed = {"PATH"}
    DefaultMode = "PROMPT"
    Files <- MixedFiles
    MaxFds = 3
    Faults = {"hash", "text", "memory", "write", "crash"}
    MaxOps = 5
INVARIANTS DecisionsNotReversed
PROPERTIES RestartNeverEscalates
CHECK_DEADLOCK FALSE
