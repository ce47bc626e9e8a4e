SPECIFICATION FairSpec
CONSTANTS
    Sessions = {s1, s2}
    Names = {"f", "g"}
    InitialCap = 1
    MaxCap = 2
    MaxCalls = 3
    Overlap = {}
    NoOne = NoOne
INVARIANTS TypeOK FramesStayValid
PROPERTIES NoStall
