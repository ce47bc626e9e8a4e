SPECIFICATION FairSpec
CONSTANTS
    MaxReq = 2
    MaxRpc = 1
    MaxTable = 0
    LoadErrors = TRUE
    InfoTimeouts = FALSE
    ProcessTimeouts = FALSE
    RpcFaults = FALSE
    Crashes = FALSE
    PollErrors = FALSE
    Careful = TRUE
    QuitBusy = FALSE
INVARIANT LuaErrorsStayInStatus
