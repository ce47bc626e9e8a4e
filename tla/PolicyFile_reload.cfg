SPECIFICATION Spec
CONSTANTS
    Paths <- PathSet
    Flags <- FlagSeq
    Hashes = {"ls"}
    Keys = {"secret"}
    Rules <- RuleSet
    DefaultMode = "prompt"
    OpenModes = {"trunc", "over", "same"}
    CrashIn = {"trunc", "over", "same"}
    Faults = {"write"}
    MaxOps = 4
    MaxPrograms = 2
PROPERTIES RoundTrip LoadsWhatWasWritten PolicyKept
CHECK_DEADLOCK FALSE
