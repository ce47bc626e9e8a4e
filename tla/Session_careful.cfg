SPECIFICATION FairSpec
CONSTANTS
    MaxReq = 3
    MaxRpc = 1
    MaxTable = 1
    LoadErrors = TRUE
    InfoTimeouts = TRUE
    ProcessTimeouts = TRUE
    RpcFaults = TRUE
    Crashes = TRUE
    PollErrors = TRUE
    Careful = TRUE
    QuitBusy = TRUE
INVARIANTS ResultIsOwn
PROPERTIES OperationReturns DtorReturns ServiceSpec
