------------------------------ MODULE Session ------------------------------
(***************************************************************************)
(* One sandbox thread: the host's gh_thread API (ghost/thread.c) talking   *)
(* to the message loop of its subjail process (jail/subjail.c) over a      *)
(* SEQPACKET socket pair (ghost/ipc.c).  Both directions are FIFO and      *)
(* lossless, so each is a sequence of messages.                            *)
(*                                                                         *)
(* The host sends one LUA* message per operation and expects a LUAINFO     *)
(* (which carries the script id) and later a LUARESULT with that id.       *)
(* While a script runs it may call host functions: FUNCTIONCALL one way,   *)
(* FUNCTIONRETURN the other.  No message names the operation it belongs    *)
(* to except by the script id; the field req is a history value that says  *)
(* which host operation caused the message, so that the properties can     *)
(* tell a right answer from a misattributed one.                           *)
(*                                                                         *)
(* Each BOOLEAN constant switches on one thing the environment may do.     *)
(***************************************************************************)
EXTENDS Integers, Sequences

CONSTANTS
    MaxReq,          \* bound: LUA* messages the host sends
    MaxRpc,          \* bound: host functions the scripts call
    MaxTable,        \* bound: length of a gh_thread_setstringtable array
    LoadErrors,      \* a script may fail to compile
    InfoTimeouts,    \* the wait for LUAINFO (1000 ms) may expire
    ProcessTimeouts, \* default_timeout_ms # GH_IPC_NOTIMEOUT, and may expire
    RpcFaults,       \* the host may fail to set up or answer a call frame
    Crashes,         \* the subjail process may die at any time
    PollErrors,      \* poll() in thread_wait may fail
    Careful,         \* the application starts an operation only when no
                     \* asynchronous script is outstanding and no operation
                     \* has failed so far
    QuitBusy         \* the application may destroy the thread while a script
                     \* is outstanding or after a failed operation

ASSUME BoundsAssumption ==
    /\ MaxReq \in Nat
    /\ MaxRpc \in Nat
    /\ MaxTable \in Nat

ASSUME SwitchesAssumption ==
    /\ LoadErrors \in BOOLEAN
    /\ InfoTimeouts \in BOOLEAN
    /\ ProcessTimeouts \in BOOLEAN
    /\ RpcFaults \in BOOLEAN
    /\ Crashes \in BOOLEAN
    /\ PollErrors \in BOOLEAN
    /\ Careful \in BOOLEAN
    /\ QuitBusy \in BOOLEAN

VARIABLES
    toSub,   \* host -> subjail socket queue
    toHost,  \* subjail -> host socket queue
    hpc,     \* where the host is inside the gh_thread API
    req,     \* number of the operation in progress
    isSync,  \* the operation in progress waits for its LUARESULT
    left,    \* entries gh_thread_setstringtable has still to send
    lost,    \* an earlier entry of the table in progress failed
    sid,     \* script_id taken from the last LUAINFO accepted
    handle,  \* set of <<script id, req>>: what the application was told
    pending, \* ids of asynchronous scripts whose result is outstanding
    failed,  \* some operation has returned one of ConnErrors
    ret,     \* what the last operation returned
    spc,     \* where the subjail process is
    job,     \* the request the subjail is working on
    idx,     \* gh_global_script_idx
    ncall,   \* FUNCTIONCALLs sent so far
    got,     \* what the last gh_ipc_call returned
    exit,    \* how the subjail ended
    ran      \* history: set of <<req, result>>, what each request led to

hostVars == <<hpc, req, isSync, left, lost, sid, handle, pending, failed, ret>>
subVars  == <<spc, job, idx, ncall, got, exit, ran>>
vars     == <<toSub, toHost, hostVars, subVars>>

(***************************************************************************)
(* Messages.  id is the script id of a LUAINFO or LUARESULT and the number *)
(* of the call in a FUNCTIONCALL or FUNCTIONRETURN.                        *)
(***************************************************************************)
Scripts  == {"LUASTRING", "LUAFILE"}
Requests == Scripts \cup {"LUAHOSTVARIABLE", "LUACALL"}
Results  == {"ok", "runtime", "syntax", "missing"}

ToSubMsg  == [type : Requests \cup {"QUIT", "FUNCTIONRETURN"},
              id : Int, req : Nat, res : Results]
ToHostMsg == [type : {"LUAINFO", "LUARESULT", "FUNCTIONCALL"},
              id : Int, req : Nat, res : Results]

Msg(t, i, n, r) == [type |-> t, id |-> i, req |-> n, res |-> r]

\* TOOLARGE is reported before anything is sent, the others after.
ConnErrors == {"EXPECTEDLUAINFO", "UNKNOWNMESSAGE", "TIMEOUT", "PEERSHUTDOWN",
               "RPCFAULT"}
Errors   == ConnErrors \cup {"TOOLARGE"}
Outcomes == Errors \cup {"none", "started", "notif", "result"}

HostPcs == {"idle", "info", "sync", "next", "process", "wait", "closed"}
SubPcs  == {"main", "begin", "bad", "exec", "rpc", "closing", "closingrpc",
            "dead"}

TypeOK ==
    /\ toSub \in Seq(ToSubMsg)
    /\ toHost \in Seq(ToHostMsg)
    /\ hpc \in HostPcs
    /\ req \in Nat
    /\ isSync \in BOOLEAN
    /\ left \in Nat
    /\ lost \in BOOLEAN
    /\ sid \in Int
    /\ handle \subseteq Int \X Nat
    /\ pending \subseteq Int
    /\ failed \in BOOLEAN
    /\ ret \in [out : Outcomes, req : Nat, origin : Nat, res : Results]
    /\ spc \in SubPcs
    /\ job \in [kind : Requests, id : Int, req : Nat]
    /\ idx \in Int
    /\ ncall \in Nat
    /\ got \in [call : Nat, id : Int]
    /\ exit \in {"none", "quit", "protocol", "crash", "killed", "hangup"}
    /\ ran \subseteq Nat \X Results

Init ==
    /\ toSub = << >>
    /\ toHost = << >>
    /\ hpc = "idle"
    /\ req = 0
    /\ isSync = FALSE
    /\ left = 0
    /\ lost = FALSE
    /\ sid = -1
    /\ handle = {}
    /\ pending = {}
    /\ failed = FALSE
    /\ ret = [out |-> "none", req |-> 0, origin |-> 0, res |-> "ok"]
    /\ spc = "main"
    /\ job = [kind |-> "LUASTRING", id |-> -1, req |-> 0]
    /\ idx = -1
    /\ ncall = 0
    /\ got = [call |-> 0, id |-> 0]
    /\ exit = "none"
    /\ ran = {}

(***************************************************************************)
(* Host: starting an operation.  gh_thread_runstring, runfile,             *)
(* sethostvariable and call all send one message and then block for a      *)
(* LUAINFO; gh_ipc_send fails with GHR_IPC_PEERSHUTDOWN if the subjail is  *)
(* gone.  (The model assumes the application ignores SIGPIPE.)             *)
(***************************************************************************)
Return(n, out, origin, res) ==
    /\ ret' = [out |-> out, req |-> n, origin |-> origin, res |-> res]
    /\ IF left > 1
         THEN \* gh_thread_setstringtable goes on, whatever the entry returned
              /\ hpc' = "next"
              /\ left' = left - 1
              /\ lost' = (lost \/ out \in Errors)
              /\ UNCHANGED failed
         ELSE /\ hpc' = "idle"
              /\ left' = 0
              /\ failed' = (failed \/ out \in ConnErrors)
              /\ UNCHANGED lost

NoReturn == UNCHANGED <<hpc, left, lost, failed, ret>>

Transmit(kind) ==
    /\ req' = req + 1
    /\ IF spc = "dead"
         THEN /\ Return(req + 1, "PEERSHUTDOWN", 0, "ok")
              /\ UNCHANGED toSub
         ELSE /\ toSub' = Append(toSub, Msg(kind, 0, req + 1, "ok"))
              /\ hpc' = "info"
              /\ UNCHANGED <<left, lost, failed, ret>>

MayStart == Careful => (~failed /\ pending = {})

\* gh_thread_runstring/runfile (async) and every *sync operation.
StartOp(kind, wait) ==
    /\ hpc = "idle"
    /\ MayStart
    /\ req < MaxReq
    /\ kind \notin Scripts => wait
    /\ isSync' = wait
    /\ Transmit(kind)
    /\ UNCHANGED <<toHost, sid, handle, pending, subVars>>

\* A string or name above its maximum is refused before anything is sent.
RefuseOp ==
    /\ hpc = "idle"
    /\ MayStart
    /\ req < MaxReq
    /\ req' = req + 1
    /\ Return(req + 1, "TOOLARGE", 0, "ok")
    /\ UNCHANGED <<toSub, toHost, isSync, sid, handle, pending, subVars>>

\* gh_thread_setstringtable with n entries enters its loop.
StartTable(n) ==
    /\ hpc = "idle"
    /\ MayStart
    /\ req + n <= MaxReq
    /\ hpc' = "next"
    /\ isSync' = TRUE
    /\ left' = n
    /\ lost' = FALSE
    /\ UNCHANGED <<toSub, toHost, req, sid, handle, pending, failed, ret, subVars>>

\* One round of that loop: thread_setlstring_table for the next entry.
NextEntry ==
    /\ hpc = "next"
    /\ Transmit("LUAHOSTVARIABLE")
    /\ UNCHANGED <<toHost, isSync, sid, handle, pending, subVars>>

RefuseEntry ==
    /\ hpc = "next"
    /\ req' = req + 1
    /\ Return(req + 1, "TOOLARGE", 0, "ok")
    /\ UNCHANGED <<toSub, toHost, isSync, sid, handle, pending, subVars>>

(***************************************************************************)
(* Host: the wait for LUAINFO.  Whatever message comes first is taken off  *)
(* the socket; anything but a LUAINFO is dropped with an error.            *)
(***************************************************************************)
RecvInfo ==
    /\ hpc = "info"
    /\ toHost # << >>
    /\ LET m == Head(toHost) IN
       IF m.type = "LUAINFO"
         THEN /\ sid' = m.id
              /\ handle' = {h \in handle : h[1] # m.id} \cup {<<m.id, req>>}
              /\ IF isSync
                   THEN /\ hpc' = "sync"
                        /\ UNCHANGED <<left, pending, ret, lost, failed>>
                   ELSE /\ pending' = pending \cup {m.id}
                        /\ Return(req, "started", 0, "ok")
         ELSE /\ Return(req, "EXPECTEDLUAINFO", 0, "ok")
              /\ UNCHANGED <<sid, handle, pending>>
    /\ toHost' = Tail(toHost)
    /\ UNCHANGED <<toSub, req, isSync, subVars>>

\* Mutant: the result of gh_ipc_recv is not checked.
InfoTimeoutUnchecked ==
    /\ hpc = "info"
    /\ InfoTimeouts
    /\ toHost = << >>
    /\ hpc' = "sync"
    /\ UNCHANGED <<toSub, toHost, req, isSync, left, lost, sid, handle, pending,
                   failed, ret, subVars>>

InfoTimeout ==
    /\ hpc = "info"
    /\ InfoTimeouts
    /\ toHost = << >>
    /\ spc # "dead"
    /\ Return(req, "TIMEOUT", 0, "ok")
    /\ UNCHANGED <<toSub, toHost, req, isSync, sid, handle, pending, subVars>>

(***************************************************************************)
(* Host: gh_thread_process, called by the application ("process"), by the  *)
(* thread_syncscript loop ("sync") and by thread_wait ("wait").            *)
(***************************************************************************)
CallProcess ==
    /\ hpc = "idle"
    /\ pending # {} \/ ~Careful
    /\ hpc' = "process"
    /\ UNCHANGED <<toSub, toHost, req, isSync, left, lost, sid, handle, pending,
                   failed, ret, subVars>>

Processing == hpc \in {"sync", "process", "wait"}

\* gh_thread_process returned GHR_OK without the awaited script result.
ProcessedOther ==
    IF hpc = "process"
      THEN Return(req, "notif", 0, "ok")
      ELSE NoReturn

\* gh_thread_process returned an error; thread_wait only remembers it.
ProcessFailed(out) ==
    IF hpc = "wait"
      THEN NoReturn
      ELSE Return(req, out, 0, "ok")

\* Mutants: a missing return after gh_rpc_respondmissing; no answer for a
\* function that is not registered.
AnswerTwice(m, res) ==
    toSub' = toSub \o << Msg("FUNCTIONRETURN", m.id, m.req, res),
                         Msg("FUNCTIONRETURN", m.id, m.req, res) >>
AnswerRegistered(m, res) ==
    toSub' = IF res = "missing" THEN toSub
             ELSE Append(toSub, Msg("FUNCTIONRETURN", m.id, m.req, res))

\* gh_rpc_respondtomsg or gh_rpc_respondmissing.
Answer(m, res) == toSub' = Append(toSub, Msg("FUNCTIONRETURN", m.id, m.req, res))

\* thread_handlemsg_functioncall: the function runs (or is not registered)
\* and the answer is sent.
Dispatch(res) ==
    /\ Processing
    /\ toHost # << >>
    /\ Head(toHost).type = "FUNCTIONCALL"
    /\ toHost' = Tail(toHost)
    /\ IF spc = "dead"
         THEN /\ ProcessFailed("PEERSHUTDOWN")
              /\ UNCHANGED toSub
         ELSE /\ Answer(Head(toHost), res)
              /\ ProcessedOther
    /\ UNCHANGED <<req, isSync, sid, handle, pending, subVars>>

\* GHR_RPC_LARGEFRAME, ARGCOPYFAIL, RETURNCOPYFAIL or a failed allocation:
\* the handler returns before it sends a FUNCTIONRETURN.
DispatchFault ==
    /\ RpcFaults
    /\ Processing
    /\ toHost # << >>
    /\ Head(toHost).type = "FUNCTIONCALL"
    /\ toHost' = Tail(toHost)
    /\ ProcessFailed("RPCFAULT")
    /\ UNCHANGED <<toSub, req, isSync, sid, handle, pending, subVars>>

\* What the application was told about script id i: the operation it names.
Believed(i) ==
    IF \E h \in handle : h[1] = i
      THEN (CHOOSE h \in handle : h[1] = i)[2]
      ELSE 0

\* A LUARESULT: ends thread_syncscript if the id is the awaited one, is
\* handed to the application by gh_thread_process, is dropped otherwise.
RecvResult ==
    /\ Processing
    /\ toHost # << >>
    /\ Head(toHost).type = "LUARESULT"
    /\ toHost' = Tail(toHost)
    /\ LET m == Head(toHost) IN
       /\ pending' = IF hpc = "process" THEN pending \ {m.id} ELSE pending
       /\ IF hpc = "process"
            THEN /\ ret' = [out |-> "result", req |-> Believed(m.id),
                            origin |-> m.req, res |-> m.res]
                 /\ hpc' = "idle"
                 /\ UNCHANGED <<left, lost, failed>>
          ELSE IF hpc = "sync" /\ m.id = sid
            THEN Return(req, "result", m.req, m.res)
            ELSE NoReturn
    /\ UNCHANGED <<toSub, req, isSync, sid, handle, subVars>>

\* Any other type: GHR_THREAD_UNKNOWNMESSAGE.
RecvUnknown ==
    /\ Processing
    /\ toHost # << >>
    /\ Head(toHost).type = "LUAINFO"
    /\ toHost' = Tail(toHost)
    /\ ProcessFailed("UNKNOWNMESSAGE")
    /\ UNCHANGED <<toSub, req, isSync, sid, handle, pending, subVars>>

ProcessTimeout ==
    /\ hpc \in {"sync", "process"}
    /\ ProcessTimeouts
    /\ toHost = << >>
    /\ spc # "dead"
    /\ Return(req, "TIMEOUT", 0, "ok")
    /\ UNCHANGED <<toSub, toHost, req, isSync, sid, handle, pending, subVars>>

\* Mutant: recv_size == 0 is taken for "no message yet".
NeverEof == FALSE

\* The subjail closed its end and every message it sent has been read.
Eof == toHost = << >> /\ spc = "dead"

PeerGone ==
    /\ hpc \in {"info", "sync", "process"}
    /\ Eof
    /\ Return(req, "PEERSHUTDOWN", 0, "ok")
    /\ UNCHANGED <<toSub, toHost, req, isSync, sid, handle, pending, subVars>>

(***************************************************************************)
(* Host: gh_thread_dtor.  thread_wait polls the pidfd and the socket, the  *)
(* pidfd first; it goes on dispatching messages (the actions above with    *)
(* hpc = "wait") until the process ends or the grace period is over.       *)
(***************************************************************************)
RequestQuit ==
    /\ hpc = "idle"
    /\ QuitBusy \/ (~failed /\ pending = {})
    /\ IF spc = "dead"
         THEN /\ hpc' = "closed"
              /\ UNCHANGED toSub
         ELSE /\ hpc' = "wait"
              /\ toSub' = Append(toSub, Msg("QUIT", 0, 0, "ok"))
    /\ UNCHANGED <<toHost, req, isSync, left, lost, sid, handle, pending, failed,
                   ret, subVars>>

WaitExited ==
    /\ hpc = "wait"
    /\ spc = "dead"
    /\ hpc' = "closed"
    /\ UNCHANGED <<toSub, toHost, req, isSync, left, lost, sid, handle, pending,
                   failed, ret, subVars>>

\* Mutant: poll() without a timeout.
GraceNeverEnds == FALSE

\* poll() returned 0: no exit and no message within the grace period.
GraceEnds == toHost = << >> /\ spc # "dead"

KillSub == spc' = "dead" /\ exit' = "killed"

\* The grace period is over: SIGKILL, GHR_THREAD_FORCEKILL.
WaitKill ==
    /\ hpc = "wait"
    /\ GraceEnds
    /\ hpc' = "closed"
    /\ KillSub
    /\ UNCHANGED <<toSub, toHost, req, isSync, left, lost, sid, handle, pending,
                   failed, ret, job, idx, ncall, got, ran>>

\* poll() failed (EINTR): thread_wait returns, the destructor goes on.
WaitFail ==
    /\ PollErrors
    /\ hpc = "wait"
    /\ hpc' = "closed"
    /\ UNCHANGED <<toSub, toHost, req, isSync, left, lost, sid, handle, pending,
                   failed, ret, subVars>>

(***************************************************************************)
(* Subjail: the message loop of gh_subjail_main and message_recv.          *)
(***************************************************************************)
SubPop == /\ toSub # << >>
          /\ toSub' = Tail(toSub)

\* gh_ipc_send to a host that still has its end open.
SubSend(m) == /\ hpc # "closed"
              /\ toHost' = Append(toHost, m)

\* Mutant: QUIT has no case of its own in message_recv.
IsRequestOrQuit(m) == m.type # "FUNCTIONRETURN"

IsRequest(m) == m.type \in Requests

\* A LUA* request: lua_sendinfomsg gives it the next script id.
SubBegin ==
    /\ spc = "main"
    /\ SubPop
    /\ IsRequest(Head(toSub))
    /\ spc' = "begin"
    /\ idx' = idx + 1
    /\ job' = [kind |-> Head(toSub).type, id |-> idx + 1, req |-> Head(toSub).req]
    /\ SubSend(Msg("LUAINFO", idx + 1, Head(toSub).req, "ok"))
    /\ UNCHANGED <<hostVars, ncall, got, exit, ran>>

\* QUIT: leave the loop and run lua_close.
SubQuit ==
    /\ spc = "main"
    /\ SubPop
    /\ Head(toSub).type = "QUIT"
    /\ spc' = "closing"
    /\ UNCHANGED <<toHost, hostVars, job, idx, ncall, got, exit, ran>>

\* FUNCTIONRETURN outside gh_ipc_call: ghr_fail(GHR_JAIL_UNSUPPORTEDMSG).
SubReject ==
    /\ spc = "main"
    /\ SubPop
    /\ Head(toSub).type = "FUNCTIONRETURN"
    /\ spc' = "dead"
    /\ exit' = "protocol"
    /\ UNCHANGED <<toHost, hostVars, job, idx, ncall, got, ran>>

SubResult(res, next) ==
    /\ SubSend(Msg("LUARESULT", job.id, job.req, res))
    /\ spc' = next
    /\ ran' = IF \E r \in Results : <<job.req, r>> \in ran
                THEN ran
                ELSE ran \cup {<<job.req, res>>}
    /\ UNCHANGED <<toSub, hostVars, job, idx, ncall, got>>

\* luaL_loadbuffer/lua_load succeeded, or the callback and its parameters
\* are on the Lua stack.
SubLoad ==
    /\ spc = "begin"
    /\ job.kind # "LUAHOSTVARIABLE"
    /\ spc' = "exec"
    /\ UNCHANGED <<toSub, toHost, hostVars, job, idx, ncall, got, exit, ran>>

\* A compile error: the result is sent, and control falls through to
\* lua_execute, which "calls" the error message left on the stack ...
SubLoadFail ==
    /\ LoadErrors
    /\ spc = "begin"
    /\ job.kind \in Scripts
    /\ SubResult("syntax", "bad")
    /\ UNCHANGED exit

\* ... and sends a second LUARESULT with the same script id.
SubExecuteBad ==
    /\ spc = "bad"
    /\ SubResult("runtime", "main")
    /\ UNCHANGED exit

SubSetHostVariable ==
    /\ spc = "begin"
    /\ job.kind = "LUAHOSTVARIABLE"
    /\ SubResult("ok", "main")
    /\ UNCHANGED exit

\* Mutant: the result is sent but the function is called all the same.
SubCallMissingFallsThrough ==
    /\ spc = "begin"
    /\ job.kind = "LUACALL"
    /\ SubResult("missing", "exec")
    /\ UNCHANGED exit

\* lua_callfunction: no such callback (GHR_JAIL_LUACALLMISSING).
SubCallMissing ==
    /\ spc = "begin"
    /\ job.kind = "LUACALL"
    /\ SubResult("missing", "main")
    /\ UNCHANGED exit

\* The script ended, normally or with a Lua error.
SubFinish(res) ==
    /\ spc = "exec"
    /\ SubResult(res, "main")
    /\ UNCHANGED exit

\* lua_callfunction cannot store the return value: it sends the error as the
\* result and then returns it, and ghr_assert ends the process.
SubCallAbort ==
    /\ Crashes
    /\ spc = "exec"
    /\ job.kind = "LUACALL"
    /\ SubResult("runtime", "dead")
    /\ exit' = "protocol"

(***************************************************************************)
(* Subjail: gh_ipc_call, made by a running script or, in lua_close, by a   *)
(* finalizer.                                                              *)
(***************************************************************************)
SubCall ==
    /\ spc \in {"exec", "closing"}
    /\ ncall < MaxRpc
    /\ ncall' = ncall + 1
    /\ SubSend(Msg("FUNCTIONCALL", ncall + 1, job.req, "ok"))
    /\ spc' = IF spc = "exec" THEN "rpc" ELSE "closingrpc"
    /\ UNCHANGED <<toSub, hostVars, job, idx, got, exit, ran>>

\* The first message to arrive ends the call: a FUNCTIONRETURN is its
\* answer, anything else is consumed and becomes GHR_JAIL_NORETURN.
SubReturn ==
    /\ spc \in {"rpc", "closingrpc"}
    /\ SubPop
    /\ got' = [call |-> ncall,
               id |-> IF Head(toSub).type = "FUNCTIONRETURN" THEN Head(toSub).id
                                                             ELSE -1]
    /\ spc' = IF spc = "rpc" THEN "exec" ELSE "closing"
    /\ UNCHANGED <<toHost, hostVars, job, idx, ncall, exit, ran>>

\* lua_close is done; gh_subjail_main returns 0.
SubExit ==
    /\ spc = "closing"
    /\ spc' = "dead"
    /\ exit' = "quit"
    /\ UNCHANGED <<toSub, toHost, hostVars, job, idx, ncall, got, ran>>

SubCrash ==
    /\ Crashes
    /\ spc # "dead"
    /\ spc' = "dead"
    /\ exit' = "crash"
    /\ UNCHANGED <<toSub, toHost, hostVars, job, idx, ncall, got, ran>>

\* The host closed its end: recv reports GHR_IPC_PEERSHUTDOWN and a send
\* raises SIGPIPE or EPIPE; every path of the loop ends the process.
SubHangup ==
    /\ hpc = "closed"
    /\ spc # "dead"
    /\ spc' = "dead"
    /\ exit' = "hangup"
    /\ UNCHANGED <<toSub, toHost, hostVars, job, idx, ncall, got, ran>>

HostStart ==
    \/ \E kind \in Requests, wait \in BOOLEAN : StartOp(kind, wait)
    \/ \E n \in 1 .. MaxTable : StartTable(n)
    \/ RefuseOp
    \/ CallProcess
    \/ RequestQuit

HostProgress ==
    \/ NextEntry \/ RefuseEntry
    \/ RecvInfo \/ InfoTimeout
    \/ \E res \in {"ok", "missing"} : Dispatch(res)
    \/ DispatchFault \/ RecvResult \/ RecvUnknown
    \/ ProcessTimeout \/ PeerGone
    \/ WaitExited \/ WaitKill

HostStep == HostProgress \/ WaitFail

SubStep ==
    \/ SubBegin \/ SubQuit \/ SubReject
    \/ SubLoad \/ SubLoadFail \/ SubExecuteBad \/ SubSetHostVariable
    \/ SubCallMissing \/ \E res \in {"ok", "runtime"} : SubFinish(res)
    \/ SubCall \/ SubReturn \/ SubExit \/ SubHangup

\* The thread is destroyed and its process is gone.
Done ==
    /\ hpc = "closed"
    /\ spc = "dead"
    /\ UNCHANGED vars

Next == HostStart \/ HostStep \/ SubStep \/ SubCallAbort \/ SubCrash \/ Done

Spec == Init /\ [][Next]_vars

\* Neither side stops in the middle of an operation: the host is a blocked
\* poll/recv or straight-line code, the subjail likewise, and scripts end
\* (each makes at most MaxRpc calls).  A failing poll() and the death of the
\* subjail may happen but nobody may count on them.
FairSpec == Spec /\ WF_vars(HostProgress) /\ WF_vars(SubStep)

(***************************************************************************)
(* Safety                                                                  *)
(***************************************************************************)
\* A result handed to the application, by a *sync operation or by
\* gh_thread_process, is the result of the operation it is reported for:
\* thread_syncscript and the LUAINFO handshake never pair an operation with
\* the answer to another one.
ResultIsOwn == ret.out = "result" => ret.origin = ret.req

\* Why ResultIsOwn holds for a careful application (the inductive
\* invariant behind it).  Before an operation starts no request and no LUAINFO
\* is in transit; while it waits for its LUAINFO at most one of the two is, and
\* it is its own; once the LUAINFO is accepted every LUARESULT in transit or
\* still to come carries the id and the operation the host waits for.  Stale
\* LUARESULTs may precede the LUAINFO: they make the operation fail.
NoneOf(types, q) == \A i \in 1 .. Len(q) : q[i].type \notin types

Free == hpc \in {"idle", "next"} /\ ~failed /\ pending = {}

WhenFree == Free => /\ NoneOf(Requests, toSub)
                    /\ NoneOf({"LUAINFO"}, toHost)

WhenInfo ==
    hpc = "info" =>
        /\ ~failed
        /\ pending = {}
        /\ \A i \in 1 .. Len(toSub) : toSub[i].type \in Requests =>
              /\ toSub[i].req = req
              /\ NoneOf({"LUAINFO"}, toHost)
              /\ \A j \in 1 .. Len(toSub) : toSub[j].type \in Requests => i = j
        /\ \A i \in 1 .. Len(toHost) : toHost[i].type = "LUAINFO" =>
              /\ toHost[i].req = req
              /\ toHost[i].id = job.id
              /\ job.req = req
              /\ NoneOf(Requests, toSub)
              /\ \A j \in 1 .. Len(toHost) :
                    /\ toHost[j].type = "LUAINFO" => i = j
                    /\ j > i /\ toHost[j].type = "LUARESULT" =>
                         toHost[j].id = job.id /\ toHost[j].req = req

Accepted == hpc \in {"sync", "process"} \/ (hpc = "idle" /\ pending # {})

WhenAccepted ==
    Accepted =>
        /\ <<sid, req>> \in handle
        /\ pending \subseteq {sid}
        /\ hpc = "sync" => (~failed /\ pending = {})
        /\ hpc = "process" => pending # {}
        /\ job.id = sid
        /\ job.req = req
        /\ NoneOf(Requests, toSub)
        /\ NoneOf({"LUAINFO"}, toHost)
        /\ \A i \in 1 .. Len(toHost) : toHost[i].type = "LUARESULT" =>
              toHost[i].id = sid /\ toHost[i].req = req

OneMeaning == \A h, k \in handle : h[1] = k[1] => h = k

NextIsFree == hpc = "next" => (~failed /\ pending = {})

Handshake ==
    /\ WhenFree
    /\ WhenInfo
    /\ WhenAccepted
    /\ OneMeaning
    /\ NextIsFree

\* gh_ipc_call: the FUNCTIONRETURN a script receives answers its latest
\* FUNCTIONCALL, and no other message is swallowed in its place.
ReturnIsOwn == got.id = got.call

\* Between operations the connection is clean: when the application is free
\* to start an operation, both queues are empty and the subjail sits in its
\* message loop (or is gone).  Every operation relies on it, since it takes
\* the first message it finds for its LUAINFO.
QuiescentWhenIdle ==
    (hpc = "idle" /\ ~failed /\ pending = {}) =>
        /\ toSub = << >>
        /\ toHost = << >>
        /\ spc \in {"main", "dead"}

\* A Lua error, a compile error included, is reported in the status of its
\* script and never makes an operation fail.
LuaErrorsStayInStatus == ret.out \notin ConnErrors

\* A call in progress has not been forgotten: its FUNCTIONCALL is still to be
\* read by the host, or an answer is on its way.
CallIsAnswered ==
    spc = "rpc" =>
        \/ \E i \in 1 .. Len(toHost) : toHost[i].type = "FUNCTIONCALL"
        \/ toSub # << >>
        \/ hpc \in {"wait", "closed"}

\* gh_thread_setstringtable reports success only if every entry was set.
TableIsComplete ==
    [][(left = 1 /\ hpc' = "idle" /\ ret'.out = "result") => ~lost]_vars

(***************************************************************************)
(* Liveness                                                                *)
(***************************************************************************)
\* Every operation returns.
OperationReturns == (hpc \in {"info", "sync", "next"}) ~> (hpc = "idle")

\* gh_thread_dtor returns, and the subjail process is gone for good.
DtorReturns == (hpc = "wait") ~> (hpc = "closed" /\ spc = "dead")

(***************************************************************************)
(* The service the API promises.                                           *)
(***************************************************************************)
\* The operations that wait for a reply: the one in progress, and the asynchronous
\* scripts whose results the application has not taken.
OpenOps ==
    (IF hpc \in {"info", "sync"} THEN {req} ELSE {})
      \cup {h[2] : h \in {k \in handle : k[1] \in pending}}

\* The result handed over last.
LastReply == IF ret.out = "result" THEN <<ret.req, ret.res>> ELSE << >>

Service == INSTANCE ScriptService WITH
    submitted <- req,
    open      <- OpenOps,
    reply     <- LastReply

ServiceSpec == Service!Spec
=============================================================================
