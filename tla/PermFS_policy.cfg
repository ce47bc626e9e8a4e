CONSTANTS
    Flags = {"r", "w"}
    Paths <- FlatPaths
    Odd <- Sockets
    Rules <- MixedRules
    MaxOps = 3
    AllocFails = TRUE
SPECIFICATION Spec
INVARIANTS TypeOK LookupIsUnion NoGrantAfterReject GrantsWereShown
PROPERTIES PolicyOnlyGrows
