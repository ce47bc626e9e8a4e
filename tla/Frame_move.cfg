SPECIFICATION Spec
CONSTANTS
    Header = 2
    Initial = 4
    Page = 8
    Strings <- PlainStrings
    MaxParams = 2
    MaxAdds = 3
    MaxCalls = 2
    Movers = {"host", "sub"}
    Faults = {}
INVARIANTS DataIsMapped
CHECK_DEADLOCK FALSE
