SPECIFICATION FairSpec
CONSTANTS
    MaxReq = 3
    MaxRpc = 2
    MaxTable = 2
    LoadErrors = FALSE
    InfoTimeouts = FALSE
    ProcessTimeouts = FALSE
    RpcFaults = FALSE
    Crashes = FALSE
    PollErrors = FALSE
    Careful = TRUE
    QuitBusy = FALSE
INVARIANTS TypeOK ReturnIsOwn QuiescentWhenIdle CallIsAnswered
