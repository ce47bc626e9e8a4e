--------------------------- MODULE SessionProofs ---------------------------
(***************************************************************************)
(* Proofs about one sandbox thread, for every bound and every environment. *)
(***************************************************************************)
EXTENDS Session, TLAPS

(***************************************************************************)
(* Type correctness                                                        *)
(***************************************************************************)

\* What taking the first message off a queue leaves.
LEMMA HeadTail ==
    ASSUME NEW S, NEW q \in Seq(S), q # << >>
    PROVE  /\ Head(q) \in S
           /\ Head(q) = q[1]
           /\ Tail(q) \in Seq(S)
           /\ Len(q) \in Nat \ {0}
           /\ Len(Tail(q)) = Len(q) - 1
           /\ \A i \in 1 .. Len(Tail(q)) : Tail(q)[i] = q[i + 1]
OBVIOUS

\* What appending a message gives.
LEMMA AppendOne ==
    ASSUME NEW S, NEW q \in Seq(S), NEW e \in S
    PROVE  /\ Append(q, e) \in Seq(S)
           /\ Len(q) \in Nat
           /\ Len(Append(q, e)) = Len(q) + 1
           /\ Append(q, e)[Len(q) + 1] = e
           /\ \A i \in 1 .. Len(q) : Append(q, e)[i] = q[i]
OBVIOUS

\* An operation that returns leaves the host with well-typed variables.
LEMMA ReturnTyped ==
    ASSUME TypeOK,
           NEW n \in Nat, NEW out \in Outcomes, NEW origin \in Nat,
           NEW res \in Results,
           Return(n, out, origin, res)
    PROVE  /\ hpc' \in HostPcs
           /\ left' \in Nat
           /\ lost' \in BOOLEAN
           /\ failed' \in BOOLEAN
           /\ ret' \in [out : Outcomes, req : Nat, origin : Nat, res : Results]
<1>1. lost' \in BOOLEAN /\ failed' \in BOOLEAN
  BY Zenon DEF Return, TypeOK
<1>2. ret' \in [out : Outcomes, req : Nat, origin : Nat, res : Results]
  BY DEF Return
<1>3. hpc' \in HostPcs /\ left' \in Nat
  BY DEF Return, TypeOK, HostPcs
<1> QED
  BY <1>1, <1>2, <1>3

\* Every message the two sides build is well typed.
LEMMA MsgTyped ==
    ASSUME NEW i \in Int, NEW n \in Nat, NEW r \in Results
    PROVE  /\ \A t \in Requests \cup {"QUIT", "FUNCTIONRETURN"} :
                Msg(t, i, n, r) \in ToSubMsg
           /\ \A t \in {"LUAINFO", "LUARESULT", "FUNCTIONCALL"} :
                Msg(t, i, n, r) \in ToHostMsg
BY DEF Msg, ToSubMsg, ToHostMsg

\* The three groups of TypeOK's conjuncts, so that a step need only be shown
\* to respect the group it touches.
QueueType == toSub \in Seq(ToSubMsg) /\ toHost \in Seq(ToHostMsg)

HostType ==
    /\ hpc \in HostPcs
    /\ req \in Nat
    /\ isSync \in BOOLEAN
    /\ left \in Nat
    /\ lost \in BOOLEAN
    /\ sid \in Int
    /\ handle \subseteq Int \X Nat
    /\ pending \subseteq Int
    /\ failed \in BOOLEAN
    /\ ret \in [out : Outcomes, req : Nat, origin : Nat, res : Results]

SubType ==
    /\ spc \in SubPcs
    /\ job \in [kind : Requests, id : Int, req : Nat]
    /\ idx \in Int
    /\ ncall \in Nat
    /\ got \in [call : Nat, id : Int]
    /\ exit \in {"none", "quit", "protocol", "crash", "killed", "hangup"}
    /\ ran \subseteq Nat \X Results

\* The type invariant splits by owner into the socket's part, the host's and the
\* subjail's, so that an action is checked only against the parts it changes.
LEMMA TypeGroups ==
    /\ TypeOK <=> QueueType /\ HostType /\ SubType
    /\ TypeOK' <=> QueueType' /\ HostType' /\ SubType'
BY DEF TypeOK, QueueType, HostType, SubType

\* gh_ipc_send puts a well-formed message into the socket or reports an error; either
\* way the queue and the host's variables keep their types.
LEMMA TransmitTyped ==
    ASSUME TypeOK, NEW kind \in Requests, Transmit(kind)
    PROVE  /\ toSub' \in Seq(ToSubMsg)
           /\ req' \in Nat
           /\ hpc' \in HostPcs
           /\ left' \in Nat
           /\ lost' \in BOOLEAN
           /\ failed' \in BOOLEAN
           /\ ret' \in [out : Outcomes, req : Nat, origin : Nat, res : Results]
<1>1. req \in Nat /\ req + 1 \in Nat /\ "ok" \in Results /\ 0 \in Nat
  BY DEF TypeOK, Results
<1>2. CASE spc = "dead"
  <2>1. Return(req + 1, "PEERSHUTDOWN", 0, "ok")
    BY <1>2 DEF Transmit
  <2>2. "PEERSHUTDOWN" \in Outcomes
    BY DEF Outcomes, Errors, ConnErrors
  <2> QED
    BY <1>1, <1>2, <2>1, <2>2, ReturnTyped DEF Transmit, TypeOK
<1>3. CASE spc # "dead"
  <2>1. Msg(kind, 0, req + 1, "ok") \in ToSubMsg
    BY <1>1, MsgTyped
  <2>2. toSub' \in Seq(ToSubMsg)
    BY <1>3, <2>1, AppendOne DEF Transmit, TypeOK
  <2> QED
    BY <1>1, <1>3, <2>2 DEF Transmit, TypeOK, HostPcs
<1> QED
  BY <1>2, <1>3

\* Starting an operation (gh_thread_runstring and its siblings, or a string table) keeps
\* the types.
LEMMA HostStartTyped ==
    ASSUME TypeOK, HostStart
    PROVE  TypeOK'
<1> USE TypeGroups
<1>1. ASSUME NEW kind \in Requests, NEW wait \in BOOLEAN, StartOp(kind, wait)
      PROVE  TypeOK'
  <2>1. Transmit(kind) /\ isSync' = wait
        /\ UNCHANGED <<toHost, sid, handle, pending, subVars>>
    BY <1>1 DEF StartOp
  <2> QED
    BY <2>1, TransmitTyped DEF QueueType, HostType, SubType, subVars
<1>2. ASSUME NEW n \in 1 .. MaxTable, StartTable(n)
      PROVE  TypeOK'
  <2>1. n \in Nat
    BY BoundsAssumption
  <2>2. isSync' \in BOOLEAN /\ lost' \in BOOLEAN
    BY <1>2, Zenon DEF StartTable
  <2> QED
    BY <1>2, <2>1, <2>2 DEF StartTable, QueueType, HostType, SubType, subVars, HostPcs
<1>3. CASE RefuseOp
  <2>1. Return(req + 1, "TOOLARGE", 0, "ok")
        /\ UNCHANGED <<toSub, toHost, isSync, sid, handle, pending, subVars>>
        /\ req' = req + 1
    BY <1>3 DEF RefuseOp
  <2>2. "TOOLARGE" \in Outcomes /\ "ok" \in Results /\ req + 1 \in Nat
    BY DEF Outcomes, Errors, Results, TypeOK
  <2> QED
    BY <2>1, <2>2, ReturnTyped DEF QueueType, HostType, SubType, subVars
<1>4. CASE CallProcess
  BY <1>4 DEF CallProcess, QueueType, HostType, SubType, subVars, HostPcs
<1>5. CASE RequestQuit
  <2>1. Msg("QUIT", 0, 0, "ok") \in ToSubMsg
    BY MsgTyped DEF Results
  <2>2. toSub' \in Seq(ToSubMsg) /\ hpc' \in HostPcs
    BY <1>5, <2>1, AppendOne DEF RequestQuit, QueueType, HostPcs
  <2> QED
    BY <1>5, <2>2 DEF RequestQuit, QueueType, HostType, SubType, subVars
<1> QED
  BY <1>1, <1>2, <1>3, <1>4, <1>5 DEF HostStart

\* gh_thread_process leaves the host well typed, whatever it returns.
LEMMA ProcessTyped ==
    ASSUME TypeOK, NEW out \in Outcomes, ProcessFailed(out) \/ ProcessedOther
    PROVE  /\ hpc' \in HostPcs
           /\ left' \in Nat
           /\ lost' \in BOOLEAN
           /\ failed' \in BOOLEAN
           /\ ret' \in [out : Outcomes, req : Nat, origin : Nat, res : Results]
<1>1. req \in Nat /\ "ok" \in Results /\ "notif" \in Outcomes
  BY DEF TypeOK, Results, Outcomes
<1>2. NoReturn \/ Return(req, out, 0, "ok") \/ Return(req, "notif", 0, "ok")
  BY DEF ProcessFailed, ProcessedOther
<1>3. CASE NoReturn
  BY <1>3 DEF NoReturn, TypeOK
<1> QED
  BY <1>1, <1>2, <1>3, ReturnTyped

\* Every step of an operation under way, and of the destructor, keeps the types.
LEMMA HostStepTyped ==
    ASSUME TypeOK, HostStep
    PROVE  TypeOK'
<1> USE TypeGroups
<1>0. /\ req \in Nat /\ req + 1 \in Nat /\ "ok" \in Results
      /\ ConnErrors \subseteq Outcomes /\ "TOOLARGE" \in Outcomes
      /\ {"result", "started", "notif"} \subseteq Outcomes
      /\ "LUAHOSTVARIABLE" \in Requests
  BY DEF TypeOK, Outcomes, Results, Errors, Requests
<1>1. CASE NextEntry
  <2>1. Transmit("LUAHOSTVARIABLE")
        /\ UNCHANGED <<toHost, isSync, sid, handle, pending, subVars>>
    BY <1>1 DEF NextEntry
  <2> QED
    BY <1>0, <2>1, TransmitTyped DEF QueueType, HostType, SubType, subVars
<1>2. CASE RefuseEntry
  <2>1. Return(req + 1, "TOOLARGE", 0, "ok") /\ req' = req + 1
        /\ UNCHANGED <<toSub, toHost, isSync, sid, handle, pending, subVars>>
    BY <1>2 DEF RefuseEntry
  <2> QED
    BY <1>0, <2>1, ReturnTyped DEF QueueType, HostType, SubType, subVars
<1>3. CASE RecvInfo
  <2> DEFINE m == Head(toHost)
  <2>1. m \in ToHostMsg /\ Tail(toHost) \in Seq(ToHostMsg)
    BY <1>3, HeadTail DEF RecvInfo, QueueType
  <2>2. m.id \in Int
    BY <2>1 DEF ToHostMsg
  <2>3. QueueType' /\ SubType' /\ req' \in Nat /\ isSync' \in BOOLEAN
    BY <1>3, <2>1 DEF RecvInfo, QueueType, HostType, SubType, subVars
  <2>4. CASE m.type = "LUAINFO"
    <3>1. sid' \in Int /\ handle' \subseteq Int \X Nat
      BY <1>0, <1>3, <2>2, <2>4 DEF RecvInfo, HostType
    <3>2. CASE isSync
      BY <1>3, <2>3, <2>4, <3>1, <3>2 DEF RecvInfo, HostType, HostPcs
    <3>3. CASE ~isSync
      <4>1. Return(req, "started", 0, "ok") /\ pending' = pending \cup {m.id}
        BY <1>3, <2>4, <3>3 DEF RecvInfo
      <4> QED
        BY <1>0, <2>2, <2>3, <3>1, <4>1, ReturnTyped DEF HostType
    <3> QED
      BY <3>2, <3>3
  <2>5. CASE m.type # "LUAINFO"
    <3>1. Return(req, "EXPECTEDLUAINFO", 0, "ok") /\ UNCHANGED <<sid, handle, pending>>
      BY <1>3, <2>5 DEF RecvInfo
    <3>2. "EXPECTEDLUAINFO" \in Outcomes
      BY DEF Outcomes, Errors, ConnErrors
    <3> QED
      BY <1>0, <2>3, <3>1, <3>2, ReturnTyped DEF HostType
  <2> QED
    BY <2>4, <2>5
<1>4. CASE InfoTimeout \/ ProcessTimeout \/ PeerGone
  <2>1. PICK out \in ConnErrors : Return(req, out, 0, "ok")
    BY <1>4 DEF InfoTimeout, ProcessTimeout, PeerGone, ConnErrors
  <2>2. UNCHANGED <<toSub, toHost, req, isSync, sid, handle, pending, subVars>>
    BY <1>4 DEF InfoTimeout, ProcessTimeout, PeerGone
  <2> QED
    BY <1>0, <2>1, <2>2, ReturnTyped DEF QueueType, HostType, SubType, subVars
<1>5. ASSUME NEW res \in {"ok", "missing"}, Dispatch(res)
      PROVE  TypeOK'
  <2>1. Head(toHost) \in ToHostMsg /\ Tail(toHost) \in Seq(ToHostMsg)
    BY <1>5, HeadTail DEF Dispatch, QueueType
  <2>2. Msg("FUNCTIONRETURN", Head(toHost).id, Head(toHost).req, res) \in ToSubMsg
    BY <2>1, MsgTyped, ZenonT(30) DEF ToHostMsg, Results
  <2>3. QueueType'
    BY <1>5, <2>1, <2>2, AppendOne, SMTT(30) DEF Dispatch, Answer, QueueType
  <2>4. "PEERSHUTDOWN" \in Outcomes
    BY DEF Outcomes, Errors, ConnErrors
  <2>5. ProcessFailed("PEERSHUTDOWN") \/ ProcessedOther
    BY <1>5 DEF Dispatch
  <2>6. UNCHANGED <<req, isSync, sid, handle, pending, subVars>>
    BY <1>5 DEF Dispatch
  <2> QED
    BY <2>3, <2>4, <2>5, <2>6, ProcessTyped DEF HostType, SubType, subVars
<1>6. CASE DispatchFault \/ RecvUnknown
  <2>1. toHost # << >> /\ toHost' = Tail(toHost)
        /\ UNCHANGED <<toSub, req, isSync, sid, handle, pending, subVars>>
    BY <1>6 DEF DispatchFault, RecvUnknown
  <2>2. PICK out \in ConnErrors : ProcessFailed(out)
    BY <1>6 DEF DispatchFault, RecvUnknown, ConnErrors
  <2>3. QueueType'
    BY <2>1, HeadTail DEF QueueType
  <2> QED
    BY <1>0, <2>1, <2>2, <2>3, ProcessTyped DEF HostType, SubType, subVars
<1>7. CASE RecvResult
  <2> DEFINE m == Head(toHost)
  <2>1. m \in ToHostMsg /\ Tail(toHost) \in Seq(ToHostMsg)
    BY <1>7, HeadTail DEF RecvResult, QueueType
  <2>2. m.id \in Int /\ m.req \in Nat /\ m.res \in Results
    BY <2>1 DEF ToHostMsg
  <2>3. /\ QueueType' /\ SubType'
        /\ req' \in Nat /\ isSync' \in BOOLEAN /\ sid' \in Int
        /\ handle' \subseteq Int \X Nat /\ pending' \subseteq Int
    BY <1>7, <2>1 DEF RecvResult, QueueType, HostType, SubType, subVars
  <2>4. CASE hpc = "process"
    <3>1. Believed(m.id) \in Nat
      <4>1. CASE \E h \in handle : h[1] = m.id
        BY <4>1 DEF Believed, HostType
      <4>2. CASE ~ \E h \in handle : h[1] = m.id
        BY <4>2 DEF Believed
      <4> QED
        BY <4>1, <4>2
    <3>2. ret' = [out |-> "result", req |-> Believed(m.id), origin |-> m.req,
                  res |-> m.res]
      BY <1>7, <2>4 DEF RecvResult
    <3>3. ret' \in [out : Outcomes, req : Nat, origin : Nat, res : Results]
      BY <1>0, <2>2, <3>1, <3>2
    <3> QED
      BY <1>7, <2>3, <2>4, <3>3 DEF RecvResult, HostType, HostPcs
  <2>5. CASE hpc # "process" /\ hpc = "sync" /\ m.id = sid
    <3>1. Return(req, "result", m.req, m.res)
      BY <1>7, <2>5 DEF RecvResult
    <3> QED
      BY <1>0, <2>2, <2>3, <3>1, ReturnTyped DEF HostType
  <2>6. CASE hpc # "process" /\ ~(hpc = "sync" /\ m.id = sid)
    <3>1. NoReturn
      BY <1>7, <2>6 DEF RecvResult
    <3> QED
      BY <2>3, <3>1 DEF NoReturn, HostType
  <2> QED
    BY <2>4, <2>5, <2>6
<1>8. CASE WaitExited \/ WaitFail
  BY <1>8 DEF WaitExited, WaitFail, QueueType, HostType, SubType, subVars, HostPcs
<1>9. CASE WaitKill
  BY <1>9 DEF WaitKill, KillSub, QueueType, HostType, SubType, HostPcs, SubPcs
<1> QED
  BY <1>1, <1>2, <1>3, <1>4, <1>5, <1>6, <1>7, <1>8, <1>9 DEF HostStep, HostProgress

\* Sending a LUARESULT, as lua_execute does, keeps the types.
LEMMA SubResultTyped ==
    ASSUME TypeOK, NEW res \in Results, NEW next \in SubPcs, SubResult(res, next),
           exit' \in {"none", "quit", "protocol", "crash", "killed", "hangup"}
    PROVE  TypeOK'
<1> USE TypeGroups
<1>1. job.id \in Int /\ job.req \in Nat
  BY DEF SubType
<1>2. Msg("LUARESULT", job.id, job.req, res) \in ToHostMsg
  BY <1>1, MsgTyped
<1>3. QueueType'
  BY <1>2, AppendOne DEF SubResult, SubSend, QueueType
<1>4. ran' \subseteq Nat \X Results
  BY <1>1 DEF SubResult, SubType
<1>5. HostType'
  BY DEF SubResult, HostType, hostVars
<1> QED
  BY <1>3, <1>4, <1>5 DEF SubResult, SubType

\* Every step of the subjail, its aborts and its death included, keeps the types.
LEMMA SubStepTyped ==
    ASSUME TypeOK, SubStep \/ SubCallAbort \/ SubCrash
    PROVE  TypeOK'
<1> USE TypeGroups
<1>0. /\ Results = {"ok", "runtime", "syntax", "missing"}
      /\ {"main", "bad", "exec", "dead"} \subseteq SubPcs
  BY DEF Results, SubPcs
<1>1. CASE SubBegin
  <2>1. Head(toSub) \in ToSubMsg /\ Tail(toSub) \in Seq(ToSubMsg)
    BY <1>1, HeadTail DEF SubBegin, SubPop, QueueType
  <2>2. /\ Head(toSub).req \in Nat
        /\ Head(toSub).type \in Requests
        /\ idx + 1 \in Int
    BY <1>1, <2>1, SMTT(30) DEF SubBegin, IsRequest, ToSubMsg, SubType
  <2>3. Msg("LUAINFO", idx + 1, Head(toSub).req, "ok") \in ToHostMsg
    BY <1>0, <2>2, MsgTyped
  <2>4. QueueType'
    BY <1>1, <2>1, <2>3, AppendOne DEF SubBegin, SubPop, SubSend, QueueType
  <2>5. HostType'
    BY <1>1 DEF SubBegin, HostType, hostVars
  <2> QED
    BY <1>1, <2>2, <2>4, <2>5 DEF SubBegin, SubType, SubPcs
<1>2. CASE SubQuit \/ SubReject \/ SubReturn
  <2>1. Head(toSub) \in ToSubMsg /\ Tail(toSub) \in Seq(ToSubMsg)
    BY <1>2, HeadTail DEF SubQuit, SubReject, SubReturn, SubPop, QueueType
  <2>2. QueueType' /\ HostType'
    BY <1>2, <2>1 DEF SubQuit, SubReject, SubReturn, SubPop, QueueType, HostType, hostVars
  <2>3. CASE SubQuit \/ SubReject
    BY <2>2, <2>3 DEF SubQuit, SubReject, SubType, SubPcs
  <2>4. CASE SubReturn
    <3>1. Head(toSub).id \in Int
      BY <2>1 DEF ToSubMsg
    <3> QED
      BY <2>2, <2>4, <3>1 DEF SubReturn, SubType, SubPcs
  <2> QED
    BY <1>2, <2>3, <2>4
<1>3. CASE SubLoad \/ SubExit \/ SubHangup \/ SubCrash
  BY <1>3 DEF SubLoad, SubExit, SubHangup, SubCrash, QueueType, HostType, SubType,
              hostVars, SubPcs
<1>4. CASE SubLoadFail \/ SubExecuteBad \/ SubSetHostVariable \/ SubCallMissing
           \/ \E res \in {"ok", "runtime"} : SubFinish(res)
  <2>1. PICK res \in Results, next \in SubPcs : SubResult(res, next)
    BY <1>0, <1>4 DEF SubLoadFail, SubExecuteBad, SubSetHostVariable, SubCallMissing,
                      SubFinish
  <2>2. exit' = exit
    BY <1>4 DEF SubLoadFail, SubExecuteBad, SubSetHostVariable, SubCallMissing, SubFinish
  <2> QED
    BY <2>1, <2>2, SubResultTyped DEF SubType
<1>5. CASE SubCallAbort
  BY <1>0, <1>5, SubResultTyped DEF SubCallAbort
<1>6. CASE SubCall
  <2>1. job.req \in Nat /\ ncall + 1 \in Nat
    BY DEF SubType
  <2>2. Msg("FUNCTIONCALL", ncall + 1, job.req, "ok") \in ToHostMsg
    BY <1>0, <2>1, MsgTyped
  <2>3. QueueType' /\ HostType'
    BY <1>6, <2>2, AppendOne DEF SubCall, SubSend, QueueType, HostType, hostVars
  <2> QED
    BY <1>6, <2>1, <2>3 DEF SubCall, SubType, SubPcs
<1> QED
  BY <1>1, <1>2, <1>3, <1>4, <1>5, <1>6 DEF SubStep

\* Every variable of the host and of the subjail keeps its type in every
\* environment: in particular no message is ever read that its reader cannot
\* take apart, and gh_thread_setstringtable's counter never goes below zero.
THEOREM TypeCorrect == Spec => []TypeOK
<1>1. Init => TypeOK
  <2> SUFFICES ASSUME Init PROVE TypeOK
    OBVIOUS
  <2>1. isSync \in BOOLEAN /\ lost \in BOOLEAN /\ failed \in BOOLEAN
    BY Zenon DEF Init
  <2>2. /\ ret \in [out : Outcomes, req : Nat, origin : Nat, res : Results]
        /\ job \in [kind : Requests, id : Int, req : Nat]
        /\ got \in [call : Nat, id : Int]
    BY DEF Init, Outcomes, Results, Requests, Scripts
  <2> QED
    BY <2>1, <2>2 DEF Init, TypeOK, HostPcs, SubPcs
<1>2. TypeOK /\ [Next]_vars => TypeOK'
  <2> SUFFICES ASSUME TypeOK, [Next]_vars PROVE TypeOK'
    OBVIOUS
  <2>1. CASE UNCHANGED vars
    BY <2>1 DEF vars, hostVars, subVars, TypeOK
  <2>2. CASE Done
    BY <2>2 DEF Done, vars, hostVars, subVars, TypeOK
  <2> QED
    BY <2>1, <2>2, HostStartTyped, HostStepTyped, SubStepTyped DEF Next
<1> QED
  BY <1>1, <1>2, PTL DEF Spec
(***************************************************************************)
(* Results are paired with their own operations.                           *)
(*                                                                         *)
(* ResultIsOwn is not inductive: whether the next result is the right one  *)
(* depends on what is in transit.  Handshake says what may be in transit   *)
(* in each state of the host.  The first lemmas say what the subjail's     *)
(* steps do to the queues; the host's steps follow one by one.             *)
(***************************************************************************)
LEMMA NoneAppend ==
    ASSUME NEW S, NEW q \in Seq(S), NEW e \in S, NEW T,
           NoneOf(T, q), e.type \notin T
    PROVE  NoneOf(T, Append(q, e))
<1> SUFFICES ASSUME NEW i \in 1 .. Len(Append(q, e))
             PROVE  Append(q, e)[i].type \notin T
  BY DEF NoneOf
<1>1. CASE i \in 1 .. Len(q)
  BY <1>1, AppendOne DEF NoneOf
<1>2. CASE i = Len(q) + 1
  BY <1>2, AppendOne
<1> QED
  BY <1>1, <1>2, AppendOne

\* A socket without a message of some kinds still has none after gh_ipc_recv takes the
\* first message.
LEMMA NoneTail ==
    ASSUME NEW S, NEW q \in Seq(S), q # << >>, NEW T, NoneOf(T, q)
    PROVE  NoneOf(T, Tail(q))
<1> SUFFICES ASSUME NEW i \in 1 .. Len(Tail(q))
             PROVE  Tail(q)[i].type \notin T
  BY DEF NoneOf
<1>1. i + 1 \in 1 .. Len(q) /\ Tail(q)[i] = q[i + 1]
  BY HeadTail
<1> QED
  BY <1>1 DEF NoneOf

\* The subjail reads a message and does not start a job.
LEMMA SubReads ==
    ASSUME TypeOK, Handshake, toSub # << >>, toSub' = Tail(toSub),
           UNCHANGED <<toHost, hostVars, job>>
    PROVE  Handshake'
<1>0. toSub \in Seq(ToSubMsg)
  BY DEF TypeOK
<1>1. NoneOf(Requests, toSub) => NoneOf(Requests, toSub')
  BY <1>0, NoneTail
<1>2. /\ Len(toSub') = Len(toSub) - 1 /\ Len(toSub) \in Nat
      /\ \A i \in 1 .. Len(toSub') : toSub'[i] = toSub[i + 1]
  BY <1>0, HeadTail
<1>3. UNCHANGED <<toHost, hpc, req, sid, handle, pending, failed, job>>
  BY DEF hostVars
<1>4. WhenFree' /\ WhenAccepted' /\ OneMeaning' /\ NextIsFree'
  BY <1>1, <1>3 DEF Handshake, WhenFree, Free, WhenAccepted, Accepted, OneMeaning,
                    NextIsFree, NoneOf
<1>5. WhenInfo'
  <2> SUFFICES ASSUME hpc = "info" PROVE WhenInfo'
    BY <1>3 DEF WhenInfo
  <2> USE DEF Handshake, WhenInfo
  <2>1. ASSUME NEW i \in 1 .. Len(toSub'), toSub'[i].type \in Requests
        PROVE  /\ toSub'[i].req = req
               /\ NoneOf({"LUAINFO"}, toHost)
               /\ \A j \in 1 .. Len(toSub') : toSub'[j].type \in Requests => i = j
    <3>1. i + 1 \in 1 .. Len(toSub)
      BY <1>2
    <3>2. ASSUME NEW j \in 1 .. Len(toSub'), toSub'[j].type \in Requests
          PROVE  i = j
      <4>1. j + 1 \in 1 .. Len(toSub)
        BY <1>2
      <4> QED
        BY <1>2, <2>1, <3>1, <3>2, <4>1
    <3> QED
      BY <1>2, <2>1, <3>1, <3>2
  <2> QED
    BY <1>1, <1>3, <2>1 DEF NoneOf
<1> QED
  BY <1>4, <1>5 DEF Handshake

\* The subjail sends a FUNCTIONCALL, or the result of the job it works on.
LEMMA SubSends ==
    ASSUME TypeOK, Handshake, NEW m \in ToHostMsg,
           m.type # "LUAINFO",
           m.type = "LUARESULT" => m.id = job.id /\ m.req = job.req,
           toHost' = Append(toHost, m),
           UNCHANGED <<toSub, hostVars, job>>
    PROVE  Handshake'
<1>0. toHost \in Seq(ToHostMsg)
  BY DEF TypeOK
<1>1. NoneOf({"LUAINFO"}, toHost) => NoneOf({"LUAINFO"}, toHost')
  BY <1>0, NoneAppend
<1>2. /\ Len(toHost') = Len(toHost) + 1 /\ Len(toHost) \in Nat
      /\ toHost'[Len(toHost) + 1] = m
      /\ \A i \in 1 .. Len(toHost) : toHost'[i] = toHost[i]
  BY <1>0, AppendOne
<1>3. UNCHANGED <<toSub, hpc, req, sid, handle, pending, failed, job>>
  BY DEF hostVars
<1>4. \A i \in 1 .. Len(toHost') : i \in 1 .. Len(toHost) \/ i = Len(toHost) + 1
  BY <1>2
<1>5. WhenFree' /\ OneMeaning' /\ NextIsFree'
  BY <1>1, <1>3 DEF Handshake, WhenFree, Free, OneMeaning, NextIsFree, NoneOf
<1>6. WhenAccepted'
  BY <1>1, <1>2, <1>3, <1>4 DEF Handshake, WhenAccepted, Accepted, NoneOf
<1>7. WhenInfo'
  <2> SUFFICES ASSUME hpc = "info" PROVE WhenInfo'
    BY <1>3 DEF WhenInfo
  <2> USE DEF Handshake, WhenInfo
  <2>1. ASSUME NEW i \in 1 .. Len(toHost'), toHost'[i].type = "LUAINFO"
        PROVE  /\ toHost'[i].req = req
               /\ toHost'[i].id = job.id
               /\ job.req = req
               /\ NoneOf(Requests, toSub)
               /\ \A j \in 1 .. Len(toHost') :
                    /\ toHost'[j].type = "LUAINFO" => i = j
                    /\ j > i /\ toHost'[j].type = "LUARESULT" =>
                         toHost'[j].id = job.id /\ toHost'[j].req = req
    <3>1. i \in 1 .. Len(toHost) /\ toHost'[i] = toHost[i]
      BY <1>2, <1>4, <2>1
    <3>2. job.req = req
      BY <2>1, <3>1
    <3>3. ASSUME NEW j \in 1 .. Len(toHost')
          PROVE  /\ toHost'[j].type = "LUAINFO" => i = j
                 /\ j > i /\ toHost'[j].type = "LUARESULT" =>
                      toHost'[j].id = job.id /\ toHost'[j].req = req
      <4>1. CASE j \in 1 .. Len(toHost)
        BY <1>2, <2>1, <3>1, <4>1
      <4>2. CASE j = Len(toHost) + 1
        BY <1>2, <3>2, <4>2
      <4> QED
        BY <1>4, <4>1, <4>2
    <3> QED
      BY <2>1, <3>1, <3>3
  <2> QED
    BY <1>1, <1>3, <2>1 DEF NoneOf
<1> QED
  BY <1>5, <1>6, <1>7 DEF Handshake
\* The subjail takes a request off its queue and announces it.  Requests are
\* in transit only while the host waits for a LUAINFO or has given up.
LEMMA SubBegins ==
    ASSUME TypeOK, Handshake, SubBegin
    PROVE  Handshake'
<1> DEFINE r == Head(toSub)
           m == Msg("LUAINFO", idx + 1, r.req, "ok")
<1>0. toSub \in Seq(ToSubMsg) /\ toHost \in Seq(ToHostMsg)
  BY DEF TypeOK
<1>1. /\ toSub # << >> /\ toSub' = Tail(toSub)
      /\ r.type \in Requests
      /\ toHost' = Append(toHost, m)
      /\ job' = [kind |-> r.type, id |-> idx + 1, req |-> r.req]
      /\ UNCHANGED <<hpc, req, sid, handle, pending, failed>>
  BY DEF SubBegin, SubPop, SubSend, IsRequest, hostVars
<1>2. m \in ToHostMsg
  <2>1. r \in ToSubMsg
    BY <1>0, <1>1, HeadTail
  <2> QED
    BY <2>1, MsgTyped DEF ToSubMsg, TypeOK, Results
<1>3. /\ r = toSub[1] /\ Len(toSub) \in Nat \ {0}
      /\ Len(toSub') = Len(toSub) - 1
      /\ \A i \in 1 .. Len(toSub') : toSub'[i] = toSub[i + 1]
  BY <1>0, <1>1, HeadTail
<1>4. /\ Len(toHost') = Len(toHost) + 1 /\ Len(toHost) \in Nat
      /\ toHost'[Len(toHost) + 1] = m
      /\ \A i \in 1 .. Len(toHost) : toHost'[i] = toHost[i]
  BY <1>0, <1>1, <1>2, AppendOne
<1>5. ~ NoneOf(Requests, toSub)
  BY <1>1, <1>3 DEF NoneOf
<1>6. ~Free /\ ~Accepted
  BY <1>5 DEF Handshake, WhenFree, WhenAccepted
<1>7. WhenFree' /\ WhenAccepted' /\ OneMeaning' /\ NextIsFree'
  BY <1>1, <1>6 DEF Handshake, WhenFree, Free, WhenAccepted, Accepted, OneMeaning,
                    NextIsFree
<1>8. WhenInfo'
  <2> SUFFICES ASSUME hpc = "info" PROVE WhenInfo'
    BY <1>1 DEF WhenInfo
  <2>1. /\ ~failed /\ pending = {}
        /\ r.req = req
        /\ NoneOf({"LUAINFO"}, toHost)
        /\ \A j \in 1 .. Len(toSub) : toSub[j].type \in Requests => j = 1
    BY <1>1, <1>3 DEF Handshake, WhenInfo
  <2>2. NoneOf(Requests, toSub')
    BY <1>3, <2>1 DEF NoneOf
  <2>3. /\ m.type = "LUAINFO" /\ m.id = job'.id /\ m.req = req /\ job'.req = req
    BY <1>1, <2>1 DEF Msg
  <2>4. ASSUME NEW i \in 1 .. Len(toHost'), toHost'[i].type = "LUAINFO"
        PROVE  i = Len(toHost) + 1
    BY <1>4, <2>1, <2>4 DEF NoneOf
  <2> QED
    BY <1>1, <1>4, <2>1, <2>2, <2>3, <2>4 DEF WhenInfo, NoneOf
<1> QED
  BY <1>7, <1>8 DEF Handshake

\* No step of the subjail breaks the handshake invariant: LUAINFO goes out once per
\* request and before any LUARESULT.
LEMMA SubKeepsHandshake ==
    ASSUME TypeOK, Handshake, SubStep \/ SubCallAbort \/ SubCrash
    PROVE  Handshake'
<1>0. job.id \in Int /\ job.req \in Nat /\ ncall + 1 \in Nat /\ "ok" \in Results
  BY DEF TypeOK, Results
<1>1. CASE SubQuit \/ SubReject \/ SubReturn
  BY <1>1, SubReads DEF SubQuit, SubReject, SubReturn, SubPop
<1>2. CASE SubLoad \/ SubExit \/ SubHangup \/ SubCrash
  BY <1>2 DEF SubLoad, SubExit, SubHangup, SubCrash, hostVars, Handshake, WhenFree, Free,
              WhenInfo, WhenAccepted, Accepted, OneMeaning, NextIsFree, NoneOf
<1>3. CASE SubLoadFail \/ SubExecuteBad \/ SubSetHostVariable \/ SubCallMissing
           \/ SubCallAbort \/ \E res \in {"ok", "runtime"} : SubFinish(res)
  <2>1. PICK res \in Results, next \in SubPcs : SubResult(res, next)
    BY <1>3 DEF SubLoadFail, SubExecuteBad, SubSetHostVariable, SubCallMissing,
                SubFinish, SubCallAbort, Results, SubPcs
  <2> DEFINE m == Msg("LUARESULT", job.id, job.req, res)
  <2>2. m \in ToHostMsg
    BY <1>0, MsgTyped
  <2>3. m.type = "LUARESULT" /\ m.id = job.id /\ m.req = job.req
    BY DEF Msg
  <2>4. toHost' = Append(toHost, m) /\ UNCHANGED <<toSub, hostVars, job>>
    BY <2>1 DEF SubResult, SubSend
  <2> HIDE DEF m
  <2> QED
    BY <2>2, <2>3, <2>4, SubSends
<1>4. CASE SubCall
  <2> DEFINE m == Msg("FUNCTIONCALL", ncall + 1, job.req, "ok")
  <2>1. m \in ToHostMsg
    BY <1>0, MsgTyped
  <2>2. m.type = "FUNCTIONCALL"
    BY DEF Msg
  <2>3. toHost' = Append(toHost, m) /\ UNCHANGED <<toSub, hostVars, job>>
    BY <1>4 DEF SubCall, SubSend
  <2> HIDE DEF m
  <2> QED
    BY <2>1, <2>2, <2>3, SubSends
<1>5. CASE SubBegin
  BY <1>5, SubBegins
<1> QED
  BY <1>1, <1>2, <1>3, <1>4, <1>5 DEF SubStep
\* The inductive invariant, for applications that use tables of at most one
\* entry (a longer table goes on after an entry failed).
Inv == Handshake /\ ResultIsOwn /\ left \in {0, 1}

\* Outside the table loop an operation that returns leaves the host idle.
LEMMA ReturnIdle ==
    ASSUME left \in {0, 1}, NEW n, NEW out, NEW origin, NEW res,
           Return(n, out, origin, res)
    PROVE  /\ hpc' = "idle"
           /\ left' = 0
           /\ failed' = (failed \/ out \in ConnErrors)
           /\ ret' = [out |-> out, req |-> n, origin |-> origin, res |-> res]
BY DEF Return

\* gh_thread_process consumed a message and returned something other than the
\* awaited result.
LEMMA ProcessKeeps ==
    ASSUME TypeOK, Inv, Processing,
           toHost # << >>, toHost' = Tail(toHost),
           NoneOf(Requests, toSub) => NoneOf(Requests, toSub'),
           UNCHANGED <<req, sid, handle, pending, job>>,
           \/ NoReturn
           \/ hpc # "wait" /\ \E out \in ConnErrors : Return(req, out, 0, "ok")
           \/ hpc = "process" /\ Return(req, "notif", 0, "ok")
    PROVE  Inv'
<1>0. toHost \in Seq(ToHostMsg) /\ left \in {0, 1}
  BY DEF TypeOK, Inv
<1>1. /\ Len(toHost') = Len(toHost) - 1 /\ Len(toHost) \in Nat
      /\ \A i \in 1 .. Len(toHost') : toHost'[i] = toHost[i + 1]
  BY <1>0, HeadTail
<1>2. NoneOf({"LUAINFO"}, toHost) => NoneOf({"LUAINFO"}, toHost')
  BY <1>0, NoneTail
<1>3. OneMeaning'
  BY DEF Inv, Handshake, OneMeaning
<1>4. CASE hpc # "wait"
  <2>1. /\ Accepted
        /\ <<sid, req>> \in handle
        /\ pending \subseteq {sid}
        /\ hpc = "sync" => (~failed /\ pending = {})
        /\ hpc = "process" => pending # {}
        /\ job.id = sid
        /\ job.req = req
        /\ NoneOf(Requests, toSub')
        /\ NoneOf({"LUAINFO"}, toHost')
    BY <1>2, <1>4 DEF Inv, Handshake, WhenAccepted, Accepted, Processing
  <2>2. \A i \in 1 .. Len(toHost) : toHost[i].type = "LUARESULT" =>
          toHost[i].id = sid /\ toHost[i].req = req
    BY <2>1 DEF Inv, Handshake, WhenAccepted
  <2>3. \A i \in 1 .. Len(toHost') : toHost'[i].type = "LUARESULT" =>
          toHost'[i].id = sid /\ toHost'[i].req = req
    <3> TAKE i \in 1 .. Len(toHost')
    <3>1. i + 1 \in 1 .. Len(toHost)
      BY <1>1
    <3> QED
      BY <1>1, <2>2, <3>1
  <2>4. CASE NoReturn
    <3>1. UNCHANGED <<hpc, left, failed, ret>>
      BY <2>4 DEF NoReturn
    <3>2. WhenFree' /\ WhenInfo' /\ NextIsFree'
      BY <1>4, <3>1 DEF WhenFree, Free, WhenInfo, NextIsFree, Processing
    <3>3. WhenAccepted'
      BY <2>1, <2>3, <3>1 DEF WhenAccepted
    <3> QED
      BY <1>0, <1>3, <3>1, <3>2, <3>3 DEF Inv, Handshake, ResultIsOwn
  <2>5. ASSUME NEW out \in ConnErrors, Return(req, out, 0, "ok")
        PROVE  Inv'
    <3>0. failed' = (failed \/ out \in ConnErrors)
      BY <1>0, <2>5, ReturnIdle
    <3>1. hpc' = "idle" /\ left' = 0 /\ failed' = TRUE /\ ret'.out = out
      <4>1. failed' = TRUE
        BY <2>5, <3>0, Zenon
      <4>2. hpc' = "idle" /\ left' = 0 /\ ret'.out = out
        BY <1>0, <2>5, ReturnIdle
      <4> QED
        BY <4>1, <4>2
    <3>2. out # "result"
      BY DEF ConnErrors
    <3>3. WhenFree' /\ WhenInfo' /\ NextIsFree' /\ ResultIsOwn'
      BY <3>1, <3>2 DEF WhenFree, Free, WhenInfo, NextIsFree, ResultIsOwn
    <3>4. WhenAccepted'
      BY <2>1, <2>3, <3>1 DEF WhenAccepted, Accepted
    <3> QED
      BY <1>3, <3>1, <3>3, <3>4 DEF Inv, Handshake
  <2>6. CASE hpc = "process" /\ Return(req, "notif", 0, "ok")
    <3>1. hpc' = "idle" /\ left' = 0 /\ ret'.out = "notif"
      BY <1>0, <2>6, ReturnIdle
    <3>2. pending' # {}
      BY <2>1, <2>6
    <3>3. WhenFree' /\ WhenInfo' /\ NextIsFree' /\ ResultIsOwn'
      BY <3>1, <3>2 DEF WhenFree, Free, WhenInfo, NextIsFree, ResultIsOwn
    <3>4. WhenAccepted'
      BY <2>1, <2>3, <3>1 DEF WhenAccepted, Accepted
    <3> QED
      BY <1>3, <3>1, <3>3, <3>4 DEF Inv, Handshake
  <2> QED
    BY <2>4, <2>5, <2>6
<1>5. CASE hpc = "wait"
  <2>1. UNCHANGED <<hpc, left, failed, ret>>
    BY <1>5 DEF NoReturn
  <2> QED
    BY <1>0, <1>3, <1>5, <2>1 DEF Inv, Handshake, WhenFree, Free, WhenInfo, WhenAccepted,
                            Accepted, NextIsFree, ResultIsOwn
<1> QED
  BY <1>4, <1>5
\* An operation failed with a connection error and nothing else happened, or a
\* failed operation of a free host was counted.
LEMMA FailKeeps ==
    ASSUME TypeOK, Inv, NEW n, NEW out \in ConnErrors, Return(n, out, 0, "ok"),
           hpc \in {"info", "sync", "process", "idle", "next"},
           hpc \in {"idle", "next"} => Free,
           hpc \in {"sync", "process"} => req' = req,
           UNCHANGED <<toSub, toHost, sid, handle, pending, job>>
    PROVE  Inv'
<1>0. left \in {0, 1}
  BY DEF Inv
<1>1. failed' = TRUE
  <2>1. failed' = (failed \/ out \in ConnErrors)
    BY <1>0, ReturnIdle
  <2> QED
    BY <2>1, Zenon
<1>2. hpc' = "idle" /\ left' = 0 /\ ret'.out = out
  BY <1>0, ReturnIdle
<1>3. out # "result"
  BY DEF ConnErrors
<1>4. WhenFree' /\ WhenInfo' /\ NextIsFree' /\ ResultIsOwn' /\ OneMeaning'
  BY <1>1, <1>2, <1>3 DEF WhenFree, Free, WhenInfo, NextIsFree, ResultIsOwn, Inv, Handshake,
                          OneMeaning
<1>5. WhenAccepted'
  <2>1. CASE hpc \in {"info", "idle", "next"}
    <3>1. pending' = {}
      BY <2>1 DEF Inv, Handshake, WhenInfo, Free
    <3> QED
      BY <1>2, <3>1 DEF WhenAccepted, Accepted
  <2>2. CASE hpc \in {"sync", "process"}
    BY <1>2, <2>2 DEF Inv, Handshake, WhenAccepted, Accepted, NoneOf
  <2> QED
    BY <2>1, <2>2
<1> QED
  BY <1>2, <1>4, <1>5 DEF Inv, Handshake

\* A free host sends a request.
LEMMA TransmitKeeps ==
    ASSUME TypeOK, Inv, Free, NEW kind \in Requests, Transmit(kind),
           UNCHANGED <<toHost, sid, handle, pending, job>>
    PROVE  Inv'
<1>1. CASE spc = "dead"
  <2>1. Return(req + 1, "PEERSHUTDOWN", 0, "ok") /\ UNCHANGED toSub
    BY <1>1 DEF Transmit
  <2>2. "PEERSHUTDOWN" \in ConnErrors
    BY DEF ConnErrors
  <2>3. hpc \in {"idle", "next"}
    BY DEF Free
  <2> QED
    BY <2>1, <2>2, <2>3, FailKeeps
<1>2. CASE spc # "dead"
  <2> DEFINE m == Msg(kind, 0, req + 1, "ok")
  <2>1. /\ toSub' = Append(toSub, m) /\ hpc' = "info" /\ req' = req + 1
        /\ UNCHANGED <<left, failed, ret>>
    BY <1>2 DEF Transmit
  <2>2. m \in ToSubMsg
    BY MsgTyped DEF TypeOK, Results
  <2>3. m.req = req'
    BY <2>1 DEF Msg
  <2>4. NoneOf(Requests, toSub) /\ NoneOf({"LUAINFO"}, toHost') /\ ~failed /\ pending = {}
    BY DEF Inv, Handshake, WhenFree, Free
  <2>5. /\ Len(toSub') = Len(toSub) + 1 /\ Len(toSub) \in Nat
        /\ toSub'[Len(toSub) + 1] = m
        /\ \A i \in 1 .. Len(toSub) : toSub'[i] = toSub[i]
    BY <2>1, <2>2, AppendOne DEF TypeOK
  <2>6. \A i \in 1 .. Len(toSub') : toSub'[i].type \in Requests => i = Len(toSub) + 1
    BY <2>4, <2>5 DEF NoneOf
  <2> HIDE DEF m
  <2>7. WhenInfo'
    BY <2>1, <2>3, <2>4, <2>5, <2>6 DEF WhenInfo, NoneOf
  <2>8. WhenFree' /\ WhenAccepted' /\ NextIsFree'
    BY <2>1 DEF WhenFree, Free, WhenAccepted, Accepted, NextIsFree
  <2> QED
    BY <2>1, <2>7, <2>8 DEF Inv, Handshake, OneMeaning, ResultIsOwn
<1> QED
  BY <1>1, <1>2

\* An entry or an argument above its maximum is refused.
LEMMA RefuseKeeps ==
    ASSUME TypeOK, Inv, Free, NEW n, Return(n, "TOOLARGE", 0, "ok"),
           UNCHANGED <<toSub, toHost, sid, handle, pending, job>>
    PROVE  Inv'
<1>1. hpc' = "idle" /\ left' = 0 /\ ret'.out = "TOOLARGE"
  BY ReturnIdle DEF Inv
<1>2. NoneOf(Requests, toSub') /\ NoneOf({"LUAINFO"}, toHost') /\ pending' = {}
  BY DEF Inv, Handshake, WhenFree, Free
<1> QED
  BY <1>1, <1>2 DEF Inv, Handshake, WhenFree, WhenInfo, WhenAccepted, Accepted, NextIsFree,
                    OneMeaning, ResultIsOwn

\* Starting an operation keeps the invariant: an application that stops at its first
\* failure starts only on a quiet socket.
LEMMA HostStartKeeps ==
    ASSUME TypeOK, Inv, Careful, MaxTable <= 1, HostStart
    PROVE  Inv'
<1>0. Careful = TRUE
  BY SwitchesAssumption
<1>1. ASSUME NEW kind \in Requests, NEW wait \in BOOLEAN, StartOp(kind, wait)
      PROVE  Inv'
  <2>1. /\ Free
        /\ Transmit(kind)
        /\ UNCHANGED <<toHost, sid, handle, pending, job>>
    BY <1>0, <1>1 DEF StartOp, MayStart, Free, subVars
  <2> QED
    BY <2>1, TransmitKeeps
<1>2. ASSUME NEW n \in 1 .. MaxTable, StartTable(n)
      PROVE  Inv'
  <2>1. n = 1
    BY BoundsAssumption
  <2>2. /\ Free
        /\ hpc' = "next" /\ left' = 1
        /\ UNCHANGED <<toSub, toHost, pending, failed, handle, ret>>
    BY <1>0, <1>2, <2>1 DEF StartTable, MayStart, Free
  <2> QED
    BY <2>2 DEF Inv, Handshake, WhenFree, Free, WhenInfo, WhenAccepted, Accepted, NextIsFree,
                OneMeaning, ResultIsOwn, NoneOf
<1>3. CASE RefuseOp
  <2>1. /\ Free
        /\ Return(req + 1, "TOOLARGE", 0, "ok")
        /\ UNCHANGED <<toSub, toHost, sid, handle, pending, job>>
    BY <1>0, <1>3 DEF RefuseOp, MayStart, Free, subVars
  <2> QED
    BY <2>1, RefuseKeeps
<1>4. CASE CallProcess
  <2>1. /\ hpc = "idle" /\ pending # {} /\ hpc' = "process"
        /\ UNCHANGED <<toSub, toHost, req, left, sid, handle, pending, failed, ret, job>>
    BY <1>0, <1>4 DEF CallProcess, subVars
  <2>2. WhenAccepted'
    BY <2>1 DEF Inv, Handshake, WhenAccepted, Accepted, NoneOf
  <2> QED
    BY <2>1, <2>2 DEF Inv, Handshake, WhenFree, Free, WhenInfo, NextIsFree, OneMeaning,
                      ResultIsOwn
<1>5. CASE RequestQuit
  <2>1. /\ hpc' \in {"wait", "closed"}
        /\ UNCHANGED <<left, handle, ret>>
    BY <1>5 DEF RequestQuit
  <2> QED
    BY <2>1 DEF Inv, Handshake, WhenFree, Free, WhenInfo, WhenAccepted, Accepted, NextIsFree,
                OneMeaning, ResultIsOwn
<1> QED
  BY <1>1, <1>2, <1>3, <1>4, <1>5 DEF HostStart
\* The LUAINFO handshake accepts only the host's own LUAINFO.
LEMMA RecvInfoKeeps ==
    ASSUME TypeOK, Inv, RecvInfo
    PROVE  Inv'
<1> DEFINE m == Head(toHost)
<1>0. /\ hpc = "info" /\ toHost # << >> /\ toHost' = Tail(toHost)
      /\ UNCHANGED <<toSub, req, job>>
      /\ left \in {0, 1} /\ ~failed /\ pending = {}
  BY DEF RecvInfo, subVars, Inv, Handshake, WhenInfo
<1>1. /\ m = toHost[1] /\ Len(toHost) \in Nat \ {0}
      /\ Len(toHost') = Len(toHost) - 1
      /\ \A i \in 1 .. Len(toHost') : toHost'[i] = toHost[i + 1]
  BY <1>0, HeadTail DEF TypeOK
<1>2. CASE m.type # "LUAINFO"
  <2>1. /\ Return(req, "EXPECTEDLUAINFO", 0, "ok")
        /\ UNCHANGED <<sid, handle, pending>>
    BY <1>2 DEF RecvInfo
  <2>2. hpc' = "idle" /\ left' = 0 /\ ret'.out = "EXPECTEDLUAINFO"
    BY <1>0, <2>1, ReturnIdle
  <2>3. failed' = TRUE
    <3>1. failed' = (failed \/ "EXPECTEDLUAINFO" \in ConnErrors)
      BY <1>0, <2>1, ReturnIdle
    <3>2. "EXPECTEDLUAINFO" \in ConnErrors
      BY DEF ConnErrors
    <3> QED
      BY <3>1, <3>2, Zenon
  <2> QED
    BY <1>0, <2>1, <2>2, <2>3 DEF Inv, Handshake, WhenFree, Free, WhenInfo, WhenAccepted,
          Accepted, NextIsFree, OneMeaning, ResultIsOwn
<1>3. CASE m.type = "LUAINFO"
  <2>1. 1 \in 1 .. Len(toHost) /\ toHost[1].type = "LUAINFO"
    BY <1>1, <1>3
  <2>2. /\ m.req = req /\ m.id = job.id /\ job.req = req
        /\ NoneOf(Requests, toSub)
        /\ \A j \in 1 .. Len(toHost) :
              /\ toHost[j].type = "LUAINFO" => 1 = j
              /\ j > 1 /\ toHost[j].type = "LUARESULT" =>
                   toHost[j].id = job.id /\ toHost[j].req = req
    BY <1>0, <1>1, <2>1 DEF Inv, Handshake, WhenInfo
  <2>3. /\ NoneOf({"LUAINFO"}, toHost')
        /\ \A i \in 1 .. Len(toHost') : toHost'[i].type = "LUARESULT" =>
              toHost'[i].id = job.id /\ toHost'[i].req = req
    <3>1. \A i \in 1 .. Len(toHost') : i + 1 \in 1 .. Len(toHost) /\ i + 1 > 1
      BY <1>1
    <3> QED
      BY <1>1, <2>2, <3>1 DEF NoneOf
  <2>4. /\ sid' = job.id
        /\ handle' = {h \in handle : h[1] # job.id} \cup {<<job.id, req>>}
    BY <1>3, <2>2 DEF RecvInfo
  <2>5. OneMeaning' /\ <<sid', req>> \in handle'
    BY <2>4 DEF Inv, Handshake, OneMeaning
  <2>6. CASE isSync
    <3>1. hpc' = "sync" /\ UNCHANGED <<left, pending, ret, failed>>
      BY <1>3, <2>6 DEF RecvInfo
    <3>2. WhenAccepted'
      BY <1>0, <2>2, <2>3, <2>4, <2>5, <3>1 DEF WhenAccepted, Accepted
    <3> QED
      BY <1>0, <2>5, <3>1, <3>2 DEF Inv, Handshake, WhenFree, Free, WhenInfo, NextIsFree,
                                    ResultIsOwn
  <2>7. CASE ~isSync
    <3>1. Return(req, "started", 0, "ok") /\ pending' = {job.id}
      BY <1>0, <1>3, <2>2, <2>7 DEF RecvInfo
    <3>2. hpc' = "idle" /\ left' = 0 /\ ret'.out = "started"
      BY <1>0, <3>1, ReturnIdle
    <3>3. WhenAccepted'
      BY <1>0, <2>2, <2>3, <2>4, <2>5, <3>1, <3>2 DEF WhenAccepted, Accepted
    <3> QED
      BY <2>5, <3>1, <3>2, <3>3 DEF Inv, Handshake, WhenFree, Free, WhenInfo, NextIsFree,
                                    ResultIsOwn
  <2> QED
    BY <2>6, <2>7
<1> QED
  BY <1>2, <1>3

\* A result is handed over: it is the one the host waits for.
LEMMA RecvResultKeeps ==
    ASSUME TypeOK, Inv, RecvResult
    PROVE  Inv'
<1> DEFINE m == Head(toHost)
<1>0. /\ Processing /\ toHost # << >> /\ toHost' = Tail(toHost)
      /\ m.type = "LUARESULT"
      /\ UNCHANGED <<toSub, req, sid, handle, job>>
      /\ left \in {0, 1}
  BY DEF RecvResult, subVars, Inv
<1>1. /\ m = toHost[1] /\ Len(toHost) \in Nat \ {0} /\ 1 \in 1 .. Len(toHost)
      /\ toHost \in Seq(ToHostMsg)
  BY <1>0, HeadTail DEF TypeOK
<1>2. NoneOf({"LUAINFO"}, toHost) => NoneOf({"LUAINFO"}, toHost')
  BY <1>0, <1>1, NoneTail
<1>3. hpc \in {"sync", "process"} =>
        /\ m.id = sid /\ m.req = req
        /\ <<sid, req>> \in handle /\ pending \subseteq {sid}
        /\ hpc = "sync" => (~failed /\ pending = {})
        /\ NoneOf(Requests, toSub) /\ NoneOf({"LUAINFO"}, toHost')
  BY <1>0, <1>1, <1>2 DEF Inv, Handshake, WhenAccepted, Accepted
<1>4. OneMeaning'
  BY <1>0 DEF Inv, Handshake, OneMeaning
<1>5. ASSUME hpc' = "idle", pending' = {}, left' \in {0, 1},
             ret'.origin = ret'.req, hpc \in {"sync", "process"}
      PROVE  Inv'
  BY <1>0, <1>3, <1>4, <1>5 DEF Inv, Handshake, WhenFree, Free, WhenInfo, WhenAccepted,
        Accepted, NextIsFree, ResultIsOwn
<1>6. CASE hpc = "process"
  <2>1. /\ hpc' = "idle" /\ pending' = pending \ {m.id} /\ left' = left
        /\ ret' = [out |-> "result", req |-> Believed(m.id), origin |-> m.req,
                   res |-> m.res]
    BY <1>6 DEF RecvResult
  <2>2. Believed(m.id) = req
    <3>1. /\ <<sid, req>> \in handle /\ m.id = sid
          /\ \A h \in handle : h[1] = sid => h = <<sid, req>>
      BY <1>3, <1>6 DEF Inv, Handshake, OneMeaning
    <3> QED
      BY <3>1 DEF Believed
  <2> QED
    BY <1>0, <1>3, <1>5, <1>6, <2>1, <2>2
<1>7. CASE hpc = "sync" /\ m.id = sid
  <2>1. Return(req, "result", m.req, m.res) /\ pending' = pending
    BY <1>7 DEF RecvResult
  <2>2. hpc' = "idle" /\ left' = 0 /\ ret'.origin = m.req /\ ret'.req = req
    BY <1>0, <2>1, ReturnIdle
  <2> QED
    BY <1>3, <1>5, <1>7, <2>1, <2>2
<1>8. CASE hpc # "process" /\ ~(hpc = "sync" /\ m.id = sid)
  <2>1. NoReturn /\ pending' = pending
    BY <1>8 DEF RecvResult
  <2> QED
    BY <1>0, <2>1, ProcessKeeps
<1> QED
  BY <1>6, <1>7, <1>8

\* No step of gh_thread_call, gh_thread_process or the destructor breaks the invariant.
LEMMA HostStepKeeps ==
    ASSUME TypeOK, Inv, HostStep
    PROVE  Inv'
<1>1. CASE NextEntry
  <2>1. /\ Free
        /\ Transmit("LUAHOSTVARIABLE")
        /\ UNCHANGED <<toHost, sid, handle, pending, job>>
    BY <1>1 DEF NextEntry, Free, Inv, Handshake, NextIsFree, subVars
  <2> QED
    BY <2>1, TransmitKeeps DEF Requests
<1>2. CASE RefuseEntry
  <2>1. /\ Free
        /\ Return(req + 1, "TOOLARGE", 0, "ok")
        /\ UNCHANGED <<toSub, toHost, sid, handle, pending, job>>
    BY <1>2 DEF RefuseEntry, Free, Inv, Handshake, NextIsFree, subVars
  <2> QED
    BY <2>1, RefuseKeeps
<1>3. CASE InfoTimeout \/ ProcessTimeout \/ PeerGone
  <2>1. PICK out \in ConnErrors : Return(req, out, 0, "ok")
    BY <1>3 DEF InfoTimeout, ProcessTimeout, PeerGone, ConnErrors
  <2>2. /\ UNCHANGED <<toSub, toHost, req, sid, handle, pending, job>>
        /\ hpc \in {"info", "sync", "process"}
    BY <1>3 DEF InfoTimeout, ProcessTimeout, PeerGone, subVars
  <2> QED
    BY <2>1, <2>2, FailKeeps
<1>4. ASSUME NEW res \in {"ok", "missing"}, Dispatch(res)
      PROVE  Inv'
  <2> DEFINE m == Msg("FUNCTIONRETURN", Head(toHost).id, Head(toHost).req, res)
  <2>1. /\ Processing /\ toHost # << >> /\ toHost' = Tail(toHost)
        /\ UNCHANGED <<req, sid, handle, pending, job>>
        /\ toSub' = toSub \/ toSub' = Append(toSub, m)
    BY <1>4 DEF Dispatch, Answer, subVars
  <2>2. m \in ToSubMsg /\ m.type \notin Requests
    <3>1. Head(toHost) \in ToHostMsg
      BY <2>1, HeadTail DEF TypeOK
    <3>2. m \in ToSubMsg
      BY <3>1, MsgTyped, ZenonT(30) DEF ToHostMsg, Results
    <3> QED
      BY <3>2 DEF Msg, Requests, Scripts
  <2> HIDE DEF m
  <2>3. NoneOf(Requests, toSub) => NoneOf(Requests, toSub')
    <3>1. CASE toSub' = toSub
      BY <3>1
    <3>2. CASE toSub' = Append(toSub, m)
      <4>1. toSub \in Seq(ToSubMsg)
        BY DEF TypeOK
      <4> QED
        BY <2>2, <3>2, <4>1, NoneAppend
    <3> QED
      BY <2>1, <3>1, <3>2
  <2>4. ProcessFailed("PEERSHUTDOWN") \/ ProcessedOther
    BY <1>4 DEF Dispatch
  <2> QED
    BY <2>1, <2>3, <2>4, ProcessKeeps DEF ProcessFailed, ProcessedOther, ConnErrors
<1>5. CASE DispatchFault \/ RecvUnknown
  <2>1. /\ Processing /\ toHost # << >> /\ toHost' = Tail(toHost)
        /\ UNCHANGED <<toSub, req, sid, handle, pending, job>>
    BY <1>5 DEF DispatchFault, RecvUnknown, subVars
  <2>2. PICK out \in ConnErrors : ProcessFailed(out)
    BY <1>5 DEF DispatchFault, RecvUnknown, ConnErrors
  <2> QED
    BY <2>1, <2>2, ProcessKeeps DEF ProcessFailed
<1>6. CASE WaitExited \/ WaitKill \/ WaitFail
  <2>1. hpc' = "closed" /\ UNCHANGED <<left, handle, ret>>
    BY <1>6 DEF WaitExited, WaitKill, WaitFail
  <2> QED
    BY <2>1 DEF Inv, Handshake, WhenFree, Free, WhenInfo, WhenAccepted, Accepted, NextIsFree,
                OneMeaning, ResultIsOwn
<1> QED
  BY <1>1, <1>2, <1>3, <1>4, <1>5, <1>6, RecvInfoKeeps, RecvResultKeeps DEF HostStep, HostProgress

\* For an application that starts an operation only when none is outstanding
\* and none has failed, every result gh_thread hands over belongs to the
\* operation it is reported for, whatever compile errors, timeouts, failed
\* calls or crashes occur, and the handshake invariant behind it holds.
THEOREM OwnResults ==
    ASSUME Careful, MaxTable <= 1
    PROVE  Spec => [](ResultIsOwn /\ Handshake)
<1>1. Init => Inv
  BY DEF Init, Inv, Handshake, WhenFree, Free, WhenInfo, WhenAccepted, Accepted, OneMeaning,
         NextIsFree, ResultIsOwn, NoneOf
<1>2. TypeOK /\ Inv /\ [Next]_vars => Inv'
  <2> SUFFICES ASSUME TypeOK, Inv, [Next]_vars PROVE Inv'
    OBVIOUS
  <2>1. CASE UNCHANGED vars
    BY <2>1 DEF vars, hostVars, subVars, Inv, Handshake, WhenFree, Free, WhenInfo,
                WhenAccepted, Accepted, OneMeaning, NextIsFree, ResultIsOwn, NoneOf
  <2>2. CASE Done
    BY <2>1, <2>2 DEF Done
  <2>3. CASE SubStep \/ SubCallAbort \/ SubCrash
    <3>1. Handshake'
      BY <2>3, SubKeepsHandshake DEF Inv
    <3>2. UNCHANGED hostVars
      BY <2>3 DEF SubStep, SubCallAbort, SubCrash, SubBegin, SubQuit, SubReject, SubLoad,
                  SubLoadFail, SubExecuteBad, SubSetHostVariable, SubCallMissing, SubFinish,
                  SubCall, SubReturn, SubExit, SubHangup, SubResult
    <3> QED
      BY <3>1, <3>2 DEF Inv, ResultIsOwn, hostVars
  <2> QED
    BY <2>1, <2>2, <2>3, HostStartKeeps, HostStepKeeps DEF Next
<1>3. Inv => ResultIsOwn /\ Handshake
  BY DEF Inv
<1> QED
  BY <1>1, <1>2, <1>3, TypeCorrect, PTL DEF Spec

(***************************************************************************)
(* The service                                                             *)
(*                                                                         *)
(* A reply must carry what the request led to.  A script that does not     *)
(* compile sends two results, of which the first counts, so the invariant  *)
(* says of the results in transit that the first one after the LUAINFO is  *)
(* the recorded one, and that there is one if and only if one is recorded. *)
(***************************************************************************)
Executed(n, done) == \E r \in Results : <<n, r>> \in done

\* Request n and the messages of queue q behind place k.
ResultsSince(q, k, n, done) ==
    /\ Executed(n, done) <=> \E i \in 1 .. Len(q) : i > k /\ q[i].type = "LUARESULT"
    /\ \A i \in 1 .. Len(q) :
          /\ i > k /\ q[i].type = "LUARESULT"
          /\ \A j \in 1 .. Len(q) : j > k /\ q[j].type = "LUARESULT" => i <= j
          => <<n, q[i].res>> \in done

\* Only requests that were made are worked on and executed.
Numbered ==
    /\ \A x \in ran : x[1] <= req
    /\ job.req <= req
    /\ spc \in {"begin", "bad", "exec", "rpc"} => job.req >= 1
    /\ \A i \in 1 .. Len(toSub) : toSub[i].type \in Requests => toSub[i].req \in 1 .. req

\* What the host waits for is not executed before it is received, and its result comes
\* after its LUAINFO.
Answered ==
    /\ hpc = "info" =>
          /\ \A i \in 1 .. Len(toSub) :
                toSub[i].type \in Requests => ~Executed(req, ran) /\ job.req # req
          /\ \A i \in 1 .. Len(toHost) :
                toHost[i].type = "LUAINFO" => ResultsSince(toHost, i, req, ran)
    /\ Accepted => ResultsSince(toHost, 0, req, ran)

\* Taking the first message off a queue, if it is not a result that counts.
LEMMA SinceTail ==
    ASSUME NEW q \in Seq(ToHostMsg), q # << >>, NEW k \in Nat, NEW n, NEW done,
           k >= 1 \/ Head(q).type # "LUARESULT",
           ResultsSince(q, k, n, done)
    PROVE  ResultsSince(Tail(q), IF k >= 1 THEN k - 1 ELSE 0, n, done)
<1> DEFINE t == Tail(q)
           l == IF k >= 1 THEN k - 1 ELSE 0
<1>1. /\ Len(q) \in Nat \ {0} /\ Len(t) = Len(q) - 1
      /\ \A i \in 1 .. Len(t) : t[i] = q[i + 1]
      /\ Head(q) = q[1]
  BY HeadTail
<1> HIDE DEF t
<1>2. \A i \in 1 .. Len(t) : i + 1 \in 1 .. Len(q) /\ (i > l <=> i + 1 > k)
  BY <1>1
<1>3. ASSUME NEW i \in 1 .. Len(q), i > k, q[i].type = "LUARESULT"
      PROVE  i - 1 \in 1 .. Len(t) /\ i - 1 > l /\ t[i - 1] = q[i]
  <2>1. i # 1
    BY <1>1, <1>3
  <2> QED
    BY <1>1, <1>3, <2>1
<1>4. Executed(n, done) <=> \E i \in 1 .. Len(t) : i > l /\ t[i].type = "LUARESULT"
  <2>1. ASSUME NEW i \in 1 .. Len(t), i > l, t[i].type = "LUARESULT"
        PROVE  Executed(n, done)
    BY <1>1, <1>2, <2>1 DEF ResultsSince
  <2>2. ASSUME Executed(n, done)
        PROVE  \E i \in 1 .. Len(t) : i > l /\ t[i].type = "LUARESULT"
    <3>1. PICK i \in 1 .. Len(q) : i > k /\ q[i].type = "LUARESULT"
      BY <2>2 DEF ResultsSince
    <3> QED
      BY <1>3, <3>1
  <2> QED
    BY <2>1, <2>2
<1>5. ASSUME NEW i \in 1 .. Len(t), i > l, t[i].type = "LUARESULT",
             \A j \in 1 .. Len(t) : j > l /\ t[j].type = "LUARESULT" => i <= j
      PROVE  <<n, t[i].res>> \in done
  <2>1. i + 1 \in 1 .. Len(q) /\ i + 1 > k /\ q[i + 1] = t[i]
    BY <1>1, <1>2, <1>5
  <2>2. ASSUME NEW j \in 1 .. Len(q), j > k, q[j].type = "LUARESULT"
        PROVE  i + 1 <= j
    BY <1>1, <1>3, <1>5, <2>2
  <2> QED
    BY <1>5, <2>1, <2>2 DEF ResultsSince
<1> QED
  BY <1>4, <1>5 DEF ResultsSince, t

\* A message that is not a result.
LEMMA SinceOther ==
    ASSUME NEW q \in Seq(ToHostMsg), NEW m \in ToHostMsg, m.type # "LUARESULT",
           NEW k \in Nat, NEW n, NEW done, ResultsSince(q, k, n, done)
    PROVE  ResultsSince(Append(q, m), k, n, done)
<1> DEFINE a == Append(q, m)
<1>1. /\ Len(q) \in Nat /\ Len(a) = Len(q) + 1 /\ a[Len(q) + 1] = m
      /\ \A i \in 1 .. Len(q) : a[i] = q[i]
  BY AppendOne
<1> HIDE DEF a
<1>2. \A i \in 1 .. Len(a) : a[i].type = "LUARESULT" => i \in 1 .. Len(q) /\ a[i] = q[i]
  BY <1>1
<1>3. \A i \in 1 .. Len(q) : i \in 1 .. Len(a) /\ a[i] = q[i]
  BY <1>1
<1>4. ResultsSince(a, k, n, done)
  BY <1>2, <1>3 DEF ResultsSince
<1> QED
  BY <1>4 DEF a

\* The result of request n itself: the first one is recorded.
LEMMA SinceResult ==
    ASSUME NEW q \in Seq(ToHostMsg), NEW m \in ToHostMsg, m.type = "LUARESULT",
           NEW k \in 0 .. Len(q), NEW n, NEW done, ResultsSince(q, k, n, done)
    PROVE  ResultsSince(Append(q, m), k, n,
                        IF Executed(n, done) THEN done ELSE done \cup {<<n, m.res>>})
<1> DEFINE a == Append(q, m)
           new == IF Executed(n, done) THEN done ELSE done \cup {<<n, m.res>>}
<1>1. /\ Len(q) \in Nat /\ Len(a) = Len(q) + 1 /\ a[Len(q) + 1] = m
      /\ \A i \in 1 .. Len(q) : a[i] = q[i]
  BY AppendOne
<1>2. m.res \in Results
  BY DEF ToHostMsg
<1> HIDE DEF a
<1>3. Len(q) + 1 \in 1 .. Len(a) /\ Len(q) + 1 > k
  BY <1>1
<1>4. Executed(n, new)
  BY <1>2 DEF Executed
<1>5. ASSUME NEW i \in 1 .. Len(a), i > k, a[i].type = "LUARESULT",
             \A j \in 1 .. Len(a) : j > k /\ a[j].type = "LUARESULT" => i <= j
      PROVE  <<n, a[i].res>> \in new
  <2>1. CASE Executed(n, done)
    <3>1. PICK j \in 1 .. Len(q) : j > k /\ q[j].type = "LUARESULT"
      BY <2>1 DEF ResultsSince
    <3>2. i \in 1 .. Len(q) /\ a[i] = q[i]
      BY <1>1, <1>5, <3>1
    <3>3. \A x \in 1 .. Len(q) : x > k /\ q[x].type = "LUARESULT" => i <= x
      BY <1>1, <1>5
    <3>4. <<n, q[i].res>> \in done
      BY <1>5, <3>2, <3>3 DEF ResultsSince
    <3> QED
      BY <2>1, <3>2, <3>4
  <2>2. CASE ~Executed(n, done)
    <3>1. i = Len(q) + 1
      BY <1>1, <1>5, <2>2 DEF ResultsSince
    <3> QED
      BY <1>1, <2>2, <3>1
  <2> QED
    BY <2>1, <2>2
<1>6. ResultsSince(a, k, n, new)
  BY <1>1, <1>3, <1>4, <1>5 DEF ResultsSince
<1> QED
  BY <1>6 DEF a

\* The subjail takes a message off its queue and answers nothing.
LEMMA SubReadsAnswered ==
    ASSUME TypeOK, Numbered, Answered, toSub # << >>, toSub' = Tail(toSub),
           spc' = "rpc" => spc = "rpc", spc' = "exec" => spc = "rpc",
           spc' \notin {"begin", "bad"},
           UNCHANGED <<toHost, hostVars, job, ran>>
    PROVE  Numbered' /\ Answered'
<1>1. /\ Len(toSub') = Len(toSub) - 1 /\ Len(toSub) \in Nat
      /\ \A i \in 1 .. Len(toSub') : i + 1 \in 1 .. Len(toSub) /\ toSub'[i] = toSub[i + 1]
  BY HeadTail DEF TypeOK
<1>2. UNCHANGED <<toHost, hpc, req, pending, job, ran>>
  BY DEF hostVars
<1>3. Numbered'
  BY <1>1, <1>2 DEF Numbered
<1>4. Answered'
  BY <1>1, <1>2 DEF Answered, Accepted
<1> QED
  BY <1>3, <1>4

\* The subjail calls a host function.
LEMMA SubCallAnswered ==
    ASSUME TypeOK, Numbered, Answered, SubCall
    PROVE  Numbered' /\ Answered'
<1> DEFINE m == Msg("FUNCTIONCALL", ncall + 1, job.req, "ok")
<1>1. /\ toHost' = Append(toHost, m)
      /\ UNCHANGED <<toSub, hpc, req, pending, job, ran>>
      /\ spc \in {"exec", "closing"}
      /\ spc' \in {"rpc", "closingrpc"} /\ (spc' = "rpc" => spc = "exec")
  BY DEF SubCall, SubSend, hostVars
<1>2. m \in ToHostMsg /\ m.type = "FUNCTIONCALL"
  <2>1. job.req \in Nat /\ ncall + 1 \in Int /\ "ok" \in Results
    BY DEF TypeOK, Results
  <2>2. m \in ToHostMsg
    BY <2>1, MsgTyped
  <2> QED
    BY <2>2 DEF Msg
<1> HIDE DEF m
<1>3. toHost \in Seq(ToHostMsg)
  BY DEF TypeOK
<1>4. Numbered'
  BY <1>1 DEF Numbered
<1>5. ASSUME NEW k \in Nat, ResultsSince(toHost, k, req, ran)
      PROVE  ResultsSince(toHost', k, req', ran')
  BY <1>1, <1>2, <1>3, <1>5, SinceOther
<1>6. \A i \in 1 .. Len(toHost') :
        toHost'[i].type = "LUAINFO" => i \in 1 .. Len(toHost) /\ toHost'[i] = toHost[i]
  BY <1>1, <1>2, <1>3, AppendOne
<1>7. Answered'
  BY <1>1, <1>5, <1>6 DEF Answered, Accepted
<1> QED
  BY <1>4, <1>7

\* The subjail sends a result of the request it works on.
LEMMA SubResultAnswered ==
    ASSUME TypeOK, Handshake, Numbered, Answered,
           NEW res \in Results, NEW next \in {"main", "bad", "exec", "dead"},
           SubResult(res, next), spc \in {"begin", "bad", "exec"}
    PROVE  Numbered' /\ Answered'
<1> DEFINE m == Msg("LUARESULT", job.id, job.req, res)
<1>1. /\ toHost' = Append(toHost, m)
      /\ ran' = IF Executed(job.req, ran) THEN ran ELSE ran \cup {<<job.req, res>>}
      /\ spc' = next
      /\ UNCHANGED <<toSub, hpc, req, pending, job>>
  BY DEF SubResult, SubSend, hostVars, Executed
<1>2. m \in ToHostMsg /\ m.type = "LUARESULT" /\ m.res = res
  <2>1. job.req \in Nat /\ job.id \in Int
    BY DEF TypeOK
  <2>2. m \in ToHostMsg
    BY <2>1, MsgTyped
  <2> QED
    BY <2>2 DEF Msg
<1> HIDE DEF m
<1>3. toHost \in Seq(ToHostMsg) /\ req \in Nat /\ job.req \in Nat
  BY DEF TypeOK
<1>4. Numbered'
  <2>1. job.req >= 1 /\ job.req <= req
    BY DEF Numbered
  <2>2. \A x \in ran' : x[1] <= req'
    BY <1>1, <2>1 DEF Numbered
  <2> QED
    BY <1>1, <2>1, <2>2 DEF Numbered
<1>5. ASSUME NEW k \in 0 .. Len(toHost), ResultsSince(toHost, k, req, ran), job.req = req
      PROVE  ResultsSince(toHost', k, req', ran')
  BY <1>1, <1>2, <1>3, <1>5, SinceResult
<1>6. ASSUME NEW i \in 1 .. Len(toHost'), toHost'[i].type = "LUAINFO"
      PROVE  i \in 1 .. Len(toHost) /\ toHost[i].type = "LUAINFO"
  BY <1>1, <1>2, <1>3, <1>6, AppendOne
<1>7. Accepted' => ResultsSince(toHost', 0, req', ran')
  <2>1. Accepted' => Accepted /\ job.req = req
    BY <1>1 DEF Accepted, Handshake, WhenAccepted
  <2>2. 0 \in 0 .. Len(toHost)
    BY <1>3
  <2> QED
    BY <1>5, <2>1, <2>2 DEF Answered
<1>8. ASSUME hpc' = "info"
      PROVE  /\ \A i \in 1 .. Len(toSub') :
                   toSub'[i].type \in Requests => ~Executed(req', ran') /\ job'.req # req'
             /\ \A i \in 1 .. Len(toHost') :
                   toHost'[i].type = "LUAINFO" => ResultsSince(toHost', i, req', ran')
  <2>1. ASSUME NEW i \in 1 .. Len(toSub'), toSub'[i].type \in Requests
        PROVE  ~Executed(req', ran') /\ job'.req # req'
    <3>1. ~Executed(req, ran) /\ job.req # req
      BY <1>1, <1>8, <2>1 DEF Answered
    <3>2. ran' = ran \/ ran' = ran \cup {<<job.req, res>>}
      BY <1>1
    <3> QED
      BY <1>1, <3>1, <3>2 DEF Executed
  <2>2. ASSUME NEW i \in 1 .. Len(toHost'), toHost'[i].type = "LUAINFO"
        PROVE  ResultsSince(toHost', i, req', ran')
    <3>1. i \in 1 .. Len(toHost) /\ toHost[i].type = "LUAINFO"
      BY <1>6, <2>2
    <3>2. ResultsSince(toHost, i, req, ran) /\ job.req = req
      BY <1>1, <1>8, <3>1 DEF Answered, Handshake, WhenInfo
    <3>3. i \in 0 .. Len(toHost)
      BY <1>3, <3>1
    <3> QED
      BY <1>5, <3>2, <3>3
  <2> QED
    BY <2>1, <2>2
<1> QED
  BY <1>4, <1>7, <1>8 DEF Answered

\* The subjail takes a request and announces it.
LEMMA SubBeginAnswered ==
    ASSUME TypeOK, Handshake, Numbered, Answered, SubBegin
    PROVE  Numbered' /\ Answered'
<1> DEFINE r == Head(toSub)
           m == Msg("LUAINFO", idx + 1, r.req, "ok")
<1>1. /\ toSub # << >> /\ toSub' = Tail(toSub)
      /\ r.type \in Requests
      /\ toHost' = Append(toHost, m)
      /\ job' = [kind |-> r.type, id |-> idx + 1, req |-> r.req]
      /\ spc' = "begin"
      /\ UNCHANGED <<hpc, req, pending, ran>>
  BY DEF SubBegin, SubPop, SubSend, IsRequest, hostVars
<1>2. toHost \in Seq(ToHostMsg) /\ toSub \in Seq(ToSubMsg)
  BY DEF TypeOK
<1>3. /\ r = toSub[1] /\ r \in ToSubMsg /\ Len(toSub) \in Nat \ {0}
      /\ \A i \in 1 .. Len(toSub') : i + 1 \in 1 .. Len(toSub) /\ toSub'[i] = toSub[i + 1]
  BY <1>1, <1>2, HeadTail
<1>4. m \in ToHostMsg /\ m.type = "LUAINFO"
  <2>1. r.req \in Nat /\ idx + 1 \in Int /\ "ok" \in Results
    BY <1>3 DEF TypeOK, ToSubMsg, Results
  <2>2. m \in ToHostMsg
    BY <2>1, MsgTyped
  <2> QED
    BY <2>2 DEF Msg
<1>5. /\ Len(toHost) \in Nat /\ Len(toHost') = Len(toHost) + 1
      /\ \A i \in 1 .. Len(toHost) : toHost'[i] = toHost[i]
  BY <1>1, <1>2, <1>4, AppendOne
<1>6. 1 \in 1 .. Len(toSub) /\ toSub[1].type \in Requests
  BY <1>1, <1>3
<1>7. Numbered'
  <2>1. r.req \in 1 .. req
    BY <1>3, <1>6 DEF Numbered
  <2> QED
    BY <1>1, <1>3, <2>1 DEF Numbered, TypeOK
<1>8. ~Accepted'
  <2>1. ~Accepted
    BY <1>6 DEF Handshake, WhenAccepted, NoneOf
  <2> QED
    BY <1>1, <2>1 DEF Accepted
<1>9. ASSUME hpc' = "info"
      PROVE  /\ \A i \in 1 .. Len(toSub') :
                   toSub'[i].type \in Requests => ~Executed(req', ran') /\ job'.req # req'
             /\ \A i \in 1 .. Len(toHost') :
                   toHost'[i].type = "LUAINFO" => ResultsSince(toHost', i, req', ran')
  <2>1. hpc = "info" /\ ~Executed(req, ran)
    BY <1>1, <1>6, <1>9 DEF Answered
  <2>2. /\ NoneOf({"LUAINFO"}, toHost)
        /\ \A j \in 1 .. Len(toSub) : toSub[j].type \in Requests => 1 = j
    BY <1>6, <2>1 DEF Handshake, WhenInfo
  <2>3. \A i \in 1 .. Len(toSub') : toSub'[i].type \notin Requests
    BY <1>3, <2>2
  <2>4. ASSUME NEW i \in 1 .. Len(toHost'), toHost'[i].type = "LUAINFO"
        PROVE  ResultsSince(toHost', i, req', ran')
    <3>1. i = Len(toHost')
      BY <1>5, <2>2, <2>4 DEF NoneOf
    <3> QED
      BY <1>1, <1>5, <2>1, <3>1 DEF ResultsSince
  <2> QED
    BY <2>3, <2>4
<1> QED
  BY <1>7, <1>8, <1>9 DEF Answered

\* No step of the subjail loses a result or makes one up.
LEMMA SubKeepsAnswered ==
    ASSUME TypeOK, Handshake, Numbered, Answered, SubStep \/ SubCallAbort \/ SubCrash
    PROVE  Numbered' /\ Answered'
<1>1. CASE SubQuit \/ SubReject \/ SubReturn
  <2>1. /\ toSub # << >> /\ toSub' = Tail(toSub)
        /\ UNCHANGED <<toHost, hostVars, job, ran>>
        /\ spc' \notin {"begin", "bad", "rpc"} /\ (spc' = "exec" => spc = "rpc")
    BY <1>1 DEF SubQuit, SubReject, SubReturn, SubPop
  <2> QED
    BY <2>1, SubReadsAnswered
<1>2. CASE SubLoad \/ SubExit \/ SubHangup \/ SubCrash
  BY <1>2 DEF SubLoad, SubExit, SubHangup, SubCrash, hostVars, Numbered, Answered, Accepted
<1>3. CASE SubLoadFail \/ SubExecuteBad \/ SubSetHostVariable \/ SubCallMissing
           \/ SubCallAbort \/ \E res \in {"ok", "runtime"} : SubFinish(res)
  <2>1. PICK res \in Results, next \in {"main", "bad", "exec", "dead"} : SubResult(res, next)
    BY <1>3 DEF SubLoadFail, SubExecuteBad, SubSetHostVariable, SubCallMissing,
                SubFinish, SubCallAbort, Results
  <2>2. spc \in {"begin", "bad", "exec"}
    BY <1>3 DEF SubLoadFail, SubExecuteBad, SubSetHostVariable, SubCallMissing,
                SubFinish, SubCallAbort
  <2> QED
    BY <2>1, <2>2, SubResultAnswered
<1> QED
  BY <1>1, <1>2, <1>3, SubBeginAnswered, SubCallAnswered DEF SubStep

\* A step of the host makes at most one request, and numbers it.
LEMMA HostNumbered ==
    ASSUME TypeOK, Numbered, UNCHANGED <<ran, job>>, spc' \in {spc, "dead"},
           req' \in {req, req + 1},
           \/ toSub' = toSub
           \/ \E m \in ToSubMsg : /\ toSub' = Append(toSub, m)
                                  /\ m.type \in Requests => m.req = req + 1 /\ req' = req + 1
    PROVE  Numbered'
<1>1. req \in Nat /\ req' \in Nat /\ req' >= req /\ ran \subseteq Nat \X Results /\ job.req \in Nat
  BY DEF TypeOK
<1>2. \A x \in ran' : x[1] <= req'
  <2>1. ASSUME NEW x \in ran PROVE x[1] <= req'
    <3>1. x[1] \in Nat /\ x[1] <= req
      BY <1>1 DEF Numbered
    <3> QED
      BY <1>1, <3>1
  <2> QED
    BY <2>1
<1>3. job'.req <= req' /\ (spc' \in {"begin", "bad", "exec", "rpc"} => job'.req >= 1)
  <2>1. job.req <= req /\ (spc \in {"begin", "bad", "exec", "rpc"} => job.req >= 1)
    BY DEF Numbered
  <2>2. job.req <= req'
    BY <1>1, <2>1
  <2>3. spc' \in {"begin", "bad", "exec", "rpc"} => spc \in {"begin", "bad", "exec", "rpc"}
    OBVIOUS
  <2>4. job' = job
    OBVIOUS
  <2> QED
    BY <2>1, <2>2, <2>3, <2>4
<1>4. ASSUME NEW i \in 1 .. Len(toSub'), toSub'[i].type \in Requests
      PROVE  toSub'[i].req \in 1 .. req'
  <2>1. CASE toSub' = toSub
    BY <1>1, <1>4, <2>1 DEF Numbered
  <2>2. CASE toSub' # toSub
    <3>1. PICK m \in ToSubMsg : /\ toSub' = Append(toSub, m)
                                /\ m.type \in Requests => m.req = req + 1 /\ req' = req + 1
      BY <2>2
    <3>2. /\ Len(toSub') = Len(toSub) + 1 /\ Len(toSub) \in Nat
          /\ toSub'[Len(toSub) + 1] = m
          /\ \A j \in 1 .. Len(toSub) : toSub'[j] = toSub[j]
      BY <3>1, AppendOne DEF TypeOK
    <3>3. CASE i = Len(toSub) + 1
      <4>1. toSub'[i] = m
        BY <3>2, <3>3
      <4>2. m.req = req + 1 /\ req' = req + 1
        BY <1>4, <3>1, <4>1
      <4> QED
        BY <1>1, <4>1, <4>2
    <3>4. CASE i \in 1 .. Len(toSub)
      <4>1. toSub[i].req \in 1 .. req /\ toSub'[i] = toSub[i]
        BY <1>4, <3>2, <3>4 DEF Numbered
      <4> QED
        BY <1>1, <4>1
    <3> QED
      BY <3>2, <3>3, <3>4
  <2> QED
    BY <2>1, <2>2
<1> QED
  BY <1>2, <1>3, <1>4 DEF Numbered

\* The host waits on, or stops waiting; no result was taken.
LEMMA WaitAnswered ==
    ASSUME TypeOK, Answered, Accepted, hpc' # "info", UNCHANGED <<req, ran>>,
           \/ toHost' = toHost
           \/ toHost # << >> /\ Head(toHost).type # "LUARESULT" /\ toHost' = Tail(toHost)
    PROVE  Answered'
<1>1. ResultsSince(toHost, 0, req, ran)
  BY DEF Answered
<1>2. toHost \in Seq(ToHostMsg)
  BY DEF TypeOK
<1>3. ResultsSince(toHost', 0, req', ran')
  <2>1. CASE toHost' = toHost
    BY <1>1, <2>1
  <2>2. CASE toHost # << >> /\ Head(toHost).type # "LUARESULT" /\ toHost' = Tail(toHost)
    <3>1. ResultsSince(Tail(toHost), IF 0 >= 1 THEN 0 - 1 ELSE 0, req, ran)
      BY <1>1, <1>2, <2>2, SinceTail
    <3>2. (IF 0 >= 1 THEN 0 - 1 ELSE 0) = 0
      OBVIOUS
    <3> QED
      BY <2>2, <3>1, <3>2
  <2> QED
    BY <2>1, <2>2
<1> QED
  BY <1>3 DEF Answered

\* A free host sends a request: nothing has been done for it yet.
LEMMA TransmitAnswered ==
    ASSUME TypeOK, Inv, Numbered, Free, NEW kind \in Requests, Transmit(kind),
           UNCHANGED <<toHost, pending, spc, job, ran>>
    PROVE  Numbered' /\ Answered'
<1>0. req \in Nat /\ req' = req + 1 /\ left \in {0, 1} /\ pending' = {}
  BY DEF TypeOK, Transmit, Inv, Free
<1>1. CASE spc = "dead"
  <2>1. Return(req + 1, "PEERSHUTDOWN", 0, "ok") /\ UNCHANGED toSub
    BY <1>1 DEF Transmit
  <2>2. hpc' = "idle"
    BY <1>0, <2>1, ReturnIdle
  <2>3. Numbered'
    BY <1>0, <2>1, HostNumbered
  <2> QED
    BY <1>0, <2>2, <2>3 DEF Answered, Accepted
<1>2. CASE spc # "dead"
  <2> DEFINE m == Msg(kind, 0, req + 1, "ok")
  <2>1. toSub' = Append(toSub, m) /\ hpc' = "info"
    BY <1>2 DEF Transmit
  <2>2. m \in ToSubMsg
    BY MsgTyped DEF TypeOK, Results
  <2>3. m.req = req + 1
    BY DEF Msg
  <2> HIDE DEF m
  <2>4. Numbered'
    BY <1>0, <2>1, <2>2, <2>3, HostNumbered
  <2>5. ~Executed(req', ran') /\ job'.req # req'
    <3>1. job.req \in Nat /\ job.req <= req /\ \A x \in ran : x[1] <= req
      BY DEF TypeOK, Numbered
    <3>2. \A r \in Results : <<req + 1, r>> \notin ran
      BY <1>0, <3>1
    <3>3. job.req # req + 1
      BY <1>0, <3>1
    <3> QED
      BY <1>0, <3>2, <3>3 DEF Executed
  <2>6. NoneOf({"LUAINFO"}, toHost')
    BY DEF Inv, Handshake, WhenFree
  <2>7. ~Accepted'
    BY <2>1 DEF Accepted
  <2> QED
    BY <2>4, <2>5, <2>6, <2>7 DEF Answered, NoneOf
<1> QED
  BY <1>1, <1>2

\* The LUAINFO is taken: the results behind it are the ones the host waits for.
LEMMA RecvInfoAnswered ==
    ASSUME TypeOK, Inv, Numbered, Answered, RecvInfo
    PROVE  Numbered' /\ Answered'
<1> DEFINE m == Head(toHost)
<1>0. /\ hpc = "info" /\ toHost # << >> /\ toHost' = Tail(toHost)
      /\ UNCHANGED <<toSub, req, spc, job, ran>>
      /\ left \in {0, 1} /\ pending = {} /\ toHost \in Seq(ToHostMsg)
  BY DEF RecvInfo, subVars, Inv, Handshake, WhenInfo, TypeOK
<1>1. m = toHost[1] /\ Len(toHost) \in Nat \ {0}
  BY <1>0, HeadTail
<1>2. Numbered'
  BY <1>0, HostNumbered
<1>3. CASE m.type # "LUAINFO"
  <2>1. Return(req, "EXPECTEDLUAINFO", 0, "ok") /\ UNCHANGED pending
    BY <1>3 DEF RecvInfo
  <2>2. hpc' = "idle"
    BY <1>0, <2>1, ReturnIdle
  <2> QED
    BY <1>0, <1>2, <2>1, <2>2 DEF Answered, Accepted
<1>4. CASE m.type = "LUAINFO"
  <2>1. 1 \in 1 .. Len(toHost) /\ toHost[1].type = "LUAINFO"
    BY <1>1, <1>4
  <2>2. ResultsSince(toHost, 1, req, ran)
    BY <1>0, <2>1 DEF Answered
  <2>3. ResultsSince(Tail(toHost), IF 1 >= 1 THEN 1 - 1 ELSE 0, req, ran)
    BY <1>0, <2>2, SinceTail
  <2>4. (IF 1 >= 1 THEN 1 - 1 ELSE 0) = 0
    OBVIOUS
  <2>5. ResultsSince(toHost', 0, req', ran')
    BY <1>0, <2>3, <2>4
  <2>6. hpc' # "info"
    <3>1. CASE isSync
      BY <1>4, <3>1 DEF RecvInfo
    <3>2. CASE ~isSync
      <4>1. Return(req, "started", 0, "ok")
        BY <1>4, <3>2 DEF RecvInfo
      <4> QED
        BY <1>0, <4>1, ReturnIdle
    <3> QED
      BY <3>1, <3>2
  <2> QED
    BY <1>2, <2>5, <2>6 DEF Answered
<1> QED
  BY <1>3, <1>4

\* Starting an operation.
LEMMA HostStartAnswered ==
    ASSUME TypeOK, Inv, Numbered, Answered, Careful, MaxTable <= 1, HostStart
    PROVE  Numbered' /\ Answered'
<1>0. Careful = TRUE /\ left \in {0, 1}
  BY SwitchesAssumption DEF Inv
<1>1. ASSUME NEW kind \in Requests, NEW wait \in BOOLEAN, StartOp(kind, wait)
      PROVE  Numbered' /\ Answered'
  <2>1. /\ Free
        /\ Transmit(kind)
        /\ UNCHANGED <<toHost, pending, spc, job, ran>>
    BY <1>0, <1>1 DEF StartOp, MayStart, Free, subVars
  <2> QED
    BY <2>1, TransmitAnswered
<1>2. ASSUME NEW n \in 1 .. MaxTable, StartTable(n)
      PROVE  Numbered' /\ Answered'
  <2>1. hpc' = "next" /\ UNCHANGED <<toSub, req, spc, job, ran>>
    BY <1>2 DEF StartTable, subVars
  <2> QED
    BY <2>1, HostNumbered DEF Answered, Accepted
<1>3. CASE RefuseOp
  <2>1. /\ pending' = {} /\ req' = req + 1
        /\ Return(req + 1, "TOOLARGE", 0, "ok")
        /\ UNCHANGED <<toSub, spc, job, ran>>
    BY <1>0, <1>3 DEF RefuseOp, MayStart, subVars
  <2>2. hpc' = "idle"
    BY <1>0, <2>1, ReturnIdle
  <2> QED
    BY <2>1, <2>2, HostNumbered DEF Answered, Accepted
<1>4. CASE CallProcess
  <2>1. /\ hpc = "idle" /\ pending # {} /\ hpc' = "process"
        /\ UNCHANGED <<toSub, toHost, req, spc, job, ran>>
    BY <1>0, <1>4 DEF CallProcess, subVars
  <2>2. Accepted
    BY <2>1 DEF Accepted
  <2> QED
    BY <2>1, <2>2, HostNumbered, WaitAnswered
<1>5. CASE RequestQuit
  <2> DEFINE m == Msg("QUIT", 0, 0, "ok")
  <2>1. /\ hpc' \in {"wait", "closed"}
        /\ toSub' = toSub \/ toSub' = Append(toSub, m)
        /\ UNCHANGED <<req, spc, job, ran>>
    BY <1>5 DEF RequestQuit, subVars
  <2>2. m \in ToSubMsg /\ m.type \notin Requests
    BY DEF Msg, ToSubMsg, Requests, Scripts, Results
  <2> HIDE DEF m
  <2>3. Numbered'
    BY <2>1, <2>2, HostNumbered
  <2> QED
    BY <2>1, <2>3 DEF Answered, Accepted
<1> QED
  BY <1>1, <1>2, <1>3, <1>4, <1>5 DEF HostStart

\* gh_thread_process took a message that is not a result, or none.
LEMMA ProcessAnswered ==
    ASSUME TypeOK, Inv, Answered, Processing, UNCHANGED <<req, ran>>,
           \/ toHost' = toHost
           \/ toHost # << >> /\ Head(toHost).type # "LUARESULT" /\ toHost' = Tail(toHost),
           \/ NoReturn
           \/ hpc # "wait" /\ \E out \in Outcomes : Return(req, out, 0, "ok")
    PROVE  Answered'
<1>1. CASE hpc = "wait"
  <2>1. hpc' = "wait"
    BY <1>1 DEF NoReturn
  <2> QED
    BY <2>1 DEF Answered, Accepted
<1>2. CASE hpc # "wait"
  <2>1. hpc' # "info"
    BY <1>2, ReturnIdle DEF NoReturn, Processing, Inv
  <2>2. Accepted
    BY <1>2 DEF Accepted, Processing
  <2> QED
    BY <2>1, <2>2, WaitAnswered
<1> QED
  BY <1>1, <1>2

\* The other steps of the host.
LEMMA HostStepAnswered ==
    ASSUME TypeOK, Inv, Numbered, Answered, HostStep
    PROVE  Numbered' /\ Answered'
<1>0. left \in {0, 1}
  BY DEF Inv
<1>1. CASE NextEntry
  <2>1. /\ Free
        /\ Transmit("LUAHOSTVARIABLE")
        /\ UNCHANGED <<toHost, pending, spc, job, ran>>
    BY <1>1 DEF NextEntry, Free, Inv, Handshake, NextIsFree, subVars
  <2> QED
    BY <2>1, TransmitAnswered DEF Requests
<1>2. CASE RefuseEntry
  <2>1. /\ pending' = {} /\ req' = req + 1
        /\ Return(req + 1, "TOOLARGE", 0, "ok")
        /\ UNCHANGED <<toSub, spc, job, ran>>
    BY <1>2 DEF RefuseEntry, Inv, Handshake, NextIsFree, subVars
  <2>2. hpc' = "idle"
    BY <1>0, <2>1, ReturnIdle
  <2> QED
    BY <2>1, <2>2, HostNumbered DEF Answered, Accepted
<1>3. CASE InfoTimeout \/ ProcessTimeout \/ PeerGone
  <2>1. PICK out \in Outcomes : Return(req, out, 0, "ok")
    BY <1>3 DEF InfoTimeout, ProcessTimeout, PeerGone, Outcomes, Errors, ConnErrors
  <2>2. /\ UNCHANGED <<toSub, toHost, req, pending, spc, job, ran>>
        /\ hpc \in {"info", "sync", "process"}
    BY <1>3 DEF InfoTimeout, ProcessTimeout, PeerGone, subVars
  <2>3. Numbered'
    BY <2>2, HostNumbered
  <2>4. CASE hpc = "info"
    <3>1. hpc' = "idle" /\ pending' = {}
      BY <1>0, <2>1, <2>2, <2>4, ReturnIdle DEF Inv, Handshake, WhenInfo
    <3> QED
      BY <2>3, <3>1 DEF Answered, Accepted
  <2>5. CASE hpc # "info"
    BY <2>1, <2>2, <2>3, <2>5, ProcessAnswered DEF Processing
  <2> QED
    BY <2>4, <2>5
<1>4. ASSUME NEW res \in {"ok", "missing"}, Dispatch(res)
      PROVE  Numbered' /\ Answered'
  <2> DEFINE m == Msg("FUNCTIONRETURN", Head(toHost).id, Head(toHost).req, res)
  <2>1. /\ Processing /\ toHost # << >> /\ toHost' = Tail(toHost)
        /\ Head(toHost).type = "FUNCTIONCALL"
        /\ UNCHANGED <<req, spc, job, ran>>
        /\ toSub' = toSub \/ toSub' = Append(toSub, m)
    BY <1>4 DEF Dispatch, Answer, subVars
  <2>2. m \in ToSubMsg /\ m.type \notin Requests
    <3>1. Head(toHost) \in ToHostMsg
      BY <2>1, HeadTail DEF TypeOK
    <3>2. m \in ToSubMsg
      BY <3>1, MsgTyped, ZenonT(30) DEF ToHostMsg, Results
    <3> QED
      BY <3>2 DEF Msg, Requests, Scripts
  <2> HIDE DEF m
  <2>3. Numbered'
    BY <2>1, <2>2, HostNumbered
  <2>4. ProcessFailed("PEERSHUTDOWN") \/ ProcessedOther
    BY <1>4 DEF Dispatch
  <2>5. \/ NoReturn
        \/ hpc # "wait" /\ \E out \in Outcomes : Return(req, out, 0, "ok")
    BY <2>4 DEF ProcessFailed, ProcessedOther, Outcomes, Errors, ConnErrors
  <2> QED
    BY <2>1, <2>3, <2>5, ProcessAnswered
<1>5. CASE DispatchFault \/ RecvUnknown
  <2>1. /\ Processing /\ toHost # << >> /\ toHost' = Tail(toHost)
        /\ Head(toHost).type # "LUARESULT"
        /\ UNCHANGED <<toSub, req, spc, job, ran>>
    BY <1>5 DEF DispatchFault, RecvUnknown, subVars
  <2>2. \/ NoReturn
        \/ hpc # "wait" /\ \E out \in Outcomes : Return(req, out, 0, "ok")
    BY <1>5 DEF DispatchFault, RecvUnknown, ProcessFailed, Outcomes, Errors, ConnErrors
  <2> QED
    BY <2>1, <2>2, HostNumbered, ProcessAnswered
<1>6. CASE WaitExited \/ WaitKill \/ WaitFail
  <2>1. hpc' = "closed" /\ spc' \in {spc, "dead"} /\ UNCHANGED <<toSub, req, job, ran>>
    BY <1>6 DEF WaitExited, WaitKill, WaitFail, KillSub, subVars
  <2> QED
    BY <2>1, HostNumbered DEF Answered, Accepted
<1>7. CASE RecvResult
  <2>1. Processing /\ UNCHANGED <<toSub, req, spc, job, ran>>
    BY <1>7 DEF RecvResult, subVars
  <2>2. Numbered'
    BY <2>1, HostNumbered
  <2>3. CASE hpc = "wait"
    <3>1. hpc' = "wait"
      BY <1>7, <2>3 DEF RecvResult, NoReturn
    <3> QED
      BY <2>2, <3>1 DEF Answered, Accepted
  <2>4. CASE hpc # "wait"
    <3>1. Head(toHost) = toHost[1] /\ 1 \in 1 .. Len(toHost)
      BY <1>7, HeadTail DEF RecvResult, TypeOK
    <3>2. Head(toHost).id = sid /\ pending \subseteq {sid} /\ (hpc = "sync" => pending = {})
      BY <1>7, <2>1, <2>4, <3>1 DEF RecvResult, Inv, Handshake, WhenAccepted, Accepted,
                                  Processing
    <3>3. hpc' = "idle" /\ pending' = {}
      <4>1. CASE hpc = "process"
        BY <1>7, <3>2, <4>1 DEF RecvResult
      <4>2. CASE hpc = "sync"
        BY <1>0, <1>7, <3>2, <4>2, ReturnIdle DEF RecvResult
      <4> QED
        BY <2>1, <2>4, <4>1, <4>2 DEF Processing
    <3> QED
      BY <2>2, <3>3 DEF Answered, Accepted
  <2> QED
    BY <2>3, <2>4
<1> QED
  BY <1>1, <1>2, <1>3, <1>4, <1>5, <1>6, <1>7, RecvInfoAnswered DEF HostStep, HostProgress

\* What is open, by where the host is.
OpenByState ==
    /\ hpc \in {"info", "sync"} \/ Accepted => OpenOps = {req}
    /\ hpc \in {"idle", "next"} /\ pending = {} => OpenOps = {}

\* An id the application knows names one operation.
LEMMA OneOpen ==
    ASSUME NEW s, NEW n, NEW H, NEW P, <<s, n>> \in H, P \subseteq {s},
           \A h, k \in H : h[1] = k[1] => h = k
    PROVE  {h[2] : h \in {k \in H : k[1] \in P}} = IF P = {} THEN {} ELSE {n}
<1>1. CASE P = {}
  BY <1>1
<1>2. CASE P # {}
  <2>1. P = {s}
    BY <1>2
  <2>2. \A k \in H : k[1] = s => k = <<s, n>>
    OBVIOUS
  <2>3. {k \in H : k[1] \in P} = {<<s, n>>}
    BY <2>1, <2>2
  <2> QED
    BY <1>2, <2>3
<1> QED
  BY <1>1, <1>2

\* The application waits for at most one operation, the last it made.
LEMMA OpenSet == (Inv => OpenByState) /\ (Inv' => OpenByState')
<1>1. ASSUME Inv PROVE OpenByState
  <2>1. CASE Accepted
    <3>1. <<sid, req>> \in handle /\ pending \subseteq {sid} /\ (hpc # "sync" => pending # {})
      BY <1>1, <2>1 DEF Inv, Handshake, WhenAccepted, Accepted
    <3>2. \A h, k \in handle : h[1] = k[1] => h = k
      BY <1>1 DEF Inv, Handshake, OneMeaning
    <3>3. {h[2] : h \in {k \in handle : k[1] \in pending}}
            = IF pending = {} THEN {} ELSE {req}
      BY <3>1, <3>2, OneOpen
    <3> QED
      BY <2>1, <3>1, <3>3 DEF OpenByState, OpenOps, Accepted
  <2>2. CASE ~Accepted
    <3>1. hpc = "info" => pending = {}
      BY <1>1 DEF Inv, Handshake, WhenInfo
    <3> QED
      BY <2>2, <3>1 DEF OpenByState, OpenOps, Accepted
  <2> QED
    BY <2>1, <2>2
<1>2. ASSUME Inv' PROVE OpenByState'
  <2>1. CASE Accepted'
    <3>1. <<sid', req'>> \in handle' /\ pending' \subseteq {sid'}
            /\ (hpc' # "sync" => pending' # {})
      BY <1>2, <2>1 DEF Inv, Handshake, WhenAccepted, Accepted
    <3>2. \A h, k \in handle' : h[1] = k[1] => h = k
      BY <1>2 DEF Inv, Handshake, OneMeaning
    <3>3. {h[2] : h \in {k \in handle' : k[1] \in pending'}}
            = IF pending' = {} THEN {} ELSE {req'}
      BY <3>1, <3>2, OneOpen
    <3> QED
      BY <2>1, <3>1, <3>3 DEF OpenByState, OpenOps, Accepted
  <2>2. CASE ~Accepted'
    <3>1. hpc' = "info" => pending' = {}
      BY <1>2 DEF Inv, Handshake, WhenInfo
    <3> QED
      BY <2>2, <3>1 DEF OpenByState, OpenOps, Accepted
  <2> QED
    BY <2>1, <2>2
<1> QED
  BY <1>1, <1>2

\* A step of the service, or none.
Serves == [Service!Next]_(Service!vars)

\* What the service does not see: no operation is opened or closed, nothing is executed or returned.
LEMMA Rests ==
    ASSUME UNCHANGED <<req, ran, ret>>, OpenOps' = OpenOps
    PROVE  Serves
BY DEF Serves, Service!vars, LastReply

\* The host submits an operation, or fails to.
LEMMA Submits ==
    ASSUME req' = req + 1, UNCHANGED ran,
           \/ OpenOps' = OpenOps \cup {req + 1} /\ UNCHANGED ret
           \/ OpenOps' = OpenOps /\ ret'.out # "result"
    PROVE  Serves
BY DEF Serves, Service!Next, Service!Submit, LastReply

\* The host returns without a result.
LEMMA GivesUp ==
    ASSUME UNCHANGED <<req, ran>>, OpenOps' \subseteq OpenOps, ret'.out # "result"
    PROVE  Serves
<1>1. OpenOps' = OpenOps \ (OpenOps \ OpenOps') /\ OpenOps \ OpenOps' \in SUBSET OpenOps
  OBVIOUS
<1>2. LastReply' = << >>
  BY DEF LastReply
<1> QED
  BY <1>1, <1>2 DEF Serves, Service!Next, Service!GiveUp

\* The host returns the result of its open operation.
LEMMA Delivers ==
    ASSUME UNCHANGED <<req, ran>>, NEW r \in Results, OpenOps = {req}, OpenOps' = {},
           <<req, r>> \in ran, ret'.out = "result", ret'.req = req, ret'.res = r
    PROVE  Serves
<1>1. LastReply' = <<req, r>>
  BY DEF LastReply
<1>2. req \in OpenOps /\ OpenOps' = OpenOps \ {req}
  OBVIOUS
<1> QED
  BY <1>1, <1>2 DEF Serves, Service!Next, Service!Deliver

\* The subjail executes an operation.
LEMMA Executes ==
    ASSUME UNCHANGED <<req, ret>>, OpenOps' = OpenOps, NEW n \in 1 .. req, NEW r \in Results,
           ~Executed(n, ran), ran' = ran \cup {<<n, r>>}
    PROVE  Serves
BY DEF Serves, Service!Next, Service!Execute, Executed, LastReply

\* A free host sends a request.
LEMMA TransmitServes ==
    ASSUME TypeOK, Inv, Inv', Free, NEW kind \in Requests, Transmit(kind),
           UNCHANGED <<handle, pending, ran>>
    PROVE  Serves
<1>0. req' = req + 1 /\ OpenOps = {} /\ pending' = {} /\ left \in {0, 1}
  BY OpenSet DEF Transmit, Free, OpenByState, Inv
<1>1. CASE spc = "dead"
  <2>1. Return(req + 1, "PEERSHUTDOWN", 0, "ok")
    BY <1>1 DEF Transmit
  <2>2. hpc' = "idle" /\ ret'.out = "PEERSHUTDOWN"
    BY <1>0, <2>1, ReturnIdle
  <2>3. OpenOps' = {}
    BY <1>0, <2>2, OpenSet DEF OpenByState
  <2> QED
    BY <1>0, <2>2, <2>3, Submits
<1>2. CASE spc # "dead"
  <2>1. hpc' = "info" /\ UNCHANGED ret
    BY <1>2 DEF Transmit
  <2>2. OpenOps' = {req'}
    BY <2>1, OpenSet DEF OpenByState
  <2> QED
    BY <1>0, <2>1, <2>2, Submits
<1> QED
  BY <1>1, <1>2

\* A request is refused before it is sent.
LEMMA RefuseServes ==
    ASSUME TypeOK, Inv, Inv', Free, Return(req + 1, "TOOLARGE", 0, "ok"), req' = req + 1,
           UNCHANGED <<pending, ran>>
    PROVE  Serves
<1>0. OpenOps = {} /\ pending' = {} /\ left \in {0, 1}
  BY OpenSet DEF Free, OpenByState, Inv
<1>1. hpc' = "idle" /\ ret'.out = "TOOLARGE"
  BY <1>0, ReturnIdle
<1>2. OpenOps' = {}
  BY <1>0, <1>1, OpenSet DEF OpenByState
<1> QED
  BY <1>0, <1>1, <1>2, Submits

\* An operation is given up, or goes on.
LEMMA FailServes ==
    ASSUME Inv, Inv', UNCHANGED <<req, handle, pending, ran>>, NEW out \in Outcomes \ {"result"},
           Return(req, out, 0, "ok"), hpc \in {"info", "sync", "process"}
    PROVE  Serves
<1>0. OpenOps = {req} /\ left \in {0, 1}
  BY OpenSet DEF OpenByState, Inv, Accepted
<1>1. hpc' = "idle" /\ ret'.out = out
  BY <1>0, ReturnIdle
<1>2. OpenOps' = {} \/ OpenOps' = {req}
  BY <1>1, OpenSet DEF OpenByState, Accepted
<1> QED
  BY <1>0, <1>1, <1>2, GivesUp

\* gh_thread_process took a message other than the awaited result.
LEMMA ProcessServes ==
    ASSUME Inv, Inv', UNCHANGED <<req, handle, pending, ran>>, Processing,
           \/ NoReturn
           \/ /\ hpc # "wait"
              /\ \E out \in Outcomes \ {"result"} : Return(req, out, 0, "ok")
    PROVE  Serves
<1>1. CASE NoReturn
  <2>1. UNCHANGED <<hpc, ret>>
    BY <1>1 DEF NoReturn
  <2>2. OpenOps' = OpenOps
    BY <2>1 DEF OpenOps
  <2> QED
    BY <2>1, <2>2, Rests
<1>2. CASE /\ hpc # "wait"
           /\ \E out \in Outcomes \ {"result"} : Return(req, out, 0, "ok")
  <2>1. hpc \in {"info", "sync", "process"}
    BY <1>2 DEF Processing
  <2> QED
    BY <1>2, <2>1, FailServes
<1> QED
  BY <1>1, <1>2

\* The LUAINFO is taken or the operation is given up; the operation stays open if its
\* result is still to come.
LEMMA RecvInfoServes ==
    ASSUME TypeOK, Inv, Inv', RecvInfo
    PROVE  Serves
<1> DEFINE m == Head(toHost)
<1>0. /\ hpc = "info" /\ UNCHANGED <<req, ran>>
      /\ left \in {0, 1} /\ pending = {} /\ OpenOps = {req}
  BY OpenSet DEF RecvInfo, subVars, Inv, Handshake, WhenInfo, OpenByState
<1>1. CASE m.type # "LUAINFO"
  <2>1. Return(req, "EXPECTEDLUAINFO", 0, "ok") /\ UNCHANGED <<handle, pending>>
    BY <1>1 DEF RecvInfo
  <2>2. "EXPECTEDLUAINFO" \in Outcomes \ {"result"}
    BY DEF Outcomes, Errors, ConnErrors
  <2> QED
    BY <1>0, <2>1, <2>2, FailServes
<1>2. CASE m.type = "LUAINFO" /\ isSync
  <2>1. hpc' = "sync" /\ UNCHANGED ret
    BY <1>2 DEF RecvInfo
  <2>2. OpenOps' = {req'}
    BY <2>1, OpenSet DEF OpenByState
  <2> QED
    BY <1>0, <2>1, <2>2, Rests
<1>3. CASE m.type = "LUAINFO" /\ ~isSync
  <2>1. Return(req, "started", 0, "ok") /\ pending' = pending \cup {m.id}
    BY <1>3 DEF RecvInfo
  <2>2. hpc' = "idle" /\ ret'.out = "started" /\ pending' # {}
    BY <1>0, <2>1, ReturnIdle
  <2>3. OpenOps' = {req'}
    BY <2>2, OpenSet DEF OpenByState, Accepted
  <2> QED
    BY <1>0, <2>2, <2>3, GivesUp
<1> QED
  BY <1>1, <1>2, <1>3

\* A result handed over is what the operation led to.
LEMMA RecvResultServes ==
    ASSUME TypeOK, Inv, Inv', Answered, RecvResult
    PROVE  Serves
<1> DEFINE m == Head(toHost)
<1>0. /\ Processing /\ toHost # << >> /\ m.type = "LUARESULT"
      /\ UNCHANGED <<req, handle, ran>>
      /\ left \in {0, 1}
  BY DEF RecvResult, subVars, Inv
<1>1. /\ m = toHost[1] /\ m \in ToHostMsg /\ Len(toHost) \in Nat \ {0} /\ 1 \in 1 .. Len(toHost)
  BY <1>0, HeadTail DEF TypeOK
<1>2. CASE hpc = "wait"
  <2>1. NoReturn /\ pending' = pending
    BY <1>2 DEF RecvResult
  <2> QED
    BY <1>0, <2>1, ProcessServes
<1>3. CASE hpc \in {"sync", "process"}
  <2>1. Accepted
    BY <1>3 DEF Accepted
  <2>2. /\ m.id = sid /\ m.req = req
        /\ <<sid, req>> \in handle /\ pending \subseteq {sid}
        /\ hpc = "sync" => pending = {}
    BY <1>0, <1>1, <2>1 DEF Inv, Handshake, WhenAccepted
  <2>3. OpenOps = {req}
    BY <2>1, OpenSet DEF OpenByState
  <2>4. m.res \in Results
    BY <1>1 DEF ToHostMsg
  <2>5. <<req, m.res>> \in ran
    <3>1. ResultsSince(toHost, 0, req, ran)
      BY <2>1 DEF Answered
    <3>2. \A j \in 1 .. Len(toHost) : 1 <= j
      BY <1>1
    <3> QED
      BY <1>0, <1>1, <3>1, <3>2 DEF ResultsSince
  <2>6. /\ hpc' = "idle" /\ pending' = {}
        /\ ret'.out = "result" /\ ret'.req = req /\ ret'.res = m.res
    <3>1. CASE hpc = "process"
      <4>1. /\ hpc' = "idle" /\ pending' = pending \ {m.id}
            /\ ret' = [out |-> "result", req |-> Believed(m.id), origin |-> m.req,
                       res |-> m.res]
        BY <3>1 DEF RecvResult
      <4>2. Believed(m.id) = req
        <5>1. \A h \in handle : h[1] = sid => h = <<sid, req>>
          BY <2>2 DEF Inv, Handshake, OneMeaning
        <5> QED
          BY <2>2, <5>1 DEF Believed
      <4> QED
        BY <2>2, <4>1, <4>2
    <3>2. CASE hpc = "sync"
      <4>1. Return(req, "result", m.req, m.res) /\ pending' = pending
        BY <2>2, <3>2 DEF RecvResult
      <4>2. /\ hpc' = "idle"
            /\ ret' = [out |-> "result", req |-> req, origin |-> m.req, res |-> m.res]
        BY <1>0, <4>1, ReturnIdle
      <4> QED
        BY <2>2, <3>2, <4>1, <4>2
    <3> QED
      BY <1>3, <3>1, <3>2
  <2>7. OpenOps' = {}
    BY <2>6, OpenSet DEF OpenByState
  <2> QED
    BY <1>0, <2>3, <2>4, <2>5, <2>6, <2>7, Delivers
<1> QED
  BY <1>0, <1>2, <1>3 DEF Processing

\* Every step of the host is a step of the service, or invisible.
LEMMA HostStartServes ==
    ASSUME TypeOK, Inv, Inv', Careful, HostStart
    PROVE  Serves
<1>0. Careful = TRUE
  BY SwitchesAssumption
<1>1. ASSUME NEW kind \in Requests, NEW wait \in BOOLEAN, StartOp(kind, wait)
      PROVE  Serves
  <2>1. /\ Free
        /\ Transmit(kind)
        /\ UNCHANGED <<handle, pending, ran>>
    BY <1>0, <1>1 DEF StartOp, MayStart, Free, subVars
  <2> QED
    BY <2>1, TransmitServes
<1>2. CASE RefuseOp
  <2>1. /\ Free /\ req' = req + 1
        /\ Return(req + 1, "TOOLARGE", 0, "ok")
        /\ UNCHANGED <<pending, ran>>
    BY <1>0, <1>2 DEF RefuseOp, MayStart, Free, subVars
  <2> QED
    BY <2>1, RefuseServes
<1>3. CASE \/ \E n \in 1 .. MaxTable : StartTable(n)
           \/ CallProcess
           \/ RequestQuit
  <2>1. /\ UNCHANGED <<req, ret, handle, pending, ran>>
        /\ hpc \notin {"info", "sync"} /\ hpc' \notin {"info", "sync"}
    BY <1>3 DEF StartTable, CallProcess, RequestQuit, subVars
  <2>2. OpenOps' = OpenOps
    BY <2>1 DEF OpenOps
  <2> QED
    BY <2>1, <2>2, Rests
<1> QED
  BY <1>1, <1>2, <1>3 DEF HostStart

\* Every step of the host is one of the service, or none.
LEMMA HostStepServes ==
    ASSUME TypeOK, Inv, Inv', Answered, HostStep
    PROVE  Serves
<1>1. CASE NextEntry
  <2>1. /\ Free
        /\ Transmit("LUAHOSTVARIABLE")
        /\ UNCHANGED <<handle, pending, ran>>
    BY <1>1 DEF NextEntry, Free, Inv, Handshake, NextIsFree, subVars
  <2> QED
    BY <2>1, TransmitServes DEF Requests
<1>2. CASE RefuseEntry
  <2>1. /\ Free /\ req' = req + 1
        /\ Return(req + 1, "TOOLARGE", 0, "ok")
        /\ UNCHANGED <<pending, ran>>
    BY <1>2 DEF RefuseEntry, Free, Inv, Handshake, NextIsFree, subVars
  <2> QED
    BY <2>1, RefuseServes
<1>3. CASE InfoTimeout \/ ProcessTimeout \/ PeerGone
  <2>1. PICK out \in Outcomes \ {"result"} : Return(req, out, 0, "ok")
    BY <1>3 DEF InfoTimeout, ProcessTimeout, PeerGone, Outcomes, Errors, ConnErrors
  <2>2. /\ UNCHANGED <<req, handle, pending, ran>>
        /\ hpc \in {"info", "sync", "process"}
    BY <1>3 DEF InfoTimeout, ProcessTimeout, PeerGone, subVars
  <2> QED
    BY <2>1, <2>2, FailServes
<1>4. CASE \/ \E res \in {"ok", "missing"} : Dispatch(res)
           \/ DispatchFault
           \/ RecvUnknown
  <2>1. Processing /\ UNCHANGED <<req, handle, pending, ran>>
    BY <1>4 DEF Dispatch, DispatchFault, RecvUnknown, subVars
  <2>2. \/ NoReturn
        \/ /\ hpc # "wait"
           /\ \E out \in Outcomes \ {"result"} : Return(req, out, 0, "ok")
    BY <1>4 DEF Dispatch, DispatchFault, RecvUnknown, ProcessFailed, ProcessedOther,
                Outcomes, Errors, ConnErrors
  <2> QED
    BY <2>1, <2>2, ProcessServes
<1>5. CASE WaitExited \/ WaitKill \/ WaitFail
  <2>1. /\ UNCHANGED <<req, ret, handle, pending, ran>>
        /\ hpc \notin {"info", "sync"} /\ hpc' \notin {"info", "sync"}
    BY <1>5 DEF WaitExited, WaitKill, WaitFail, subVars
  <2>2. OpenOps' = OpenOps
    BY <2>1 DEF OpenOps
  <2> QED
    BY <2>1, <2>2, Rests
<1> QED
  BY <1>1, <1>2, <1>3, <1>4, <1>5, RecvInfoServes, RecvResultServes DEF HostStep, HostProgress

\* The subjail executes requests and nothing else that the application can see.
LEMMA SubServes ==
    ASSUME TypeOK, Numbered, SubStep \/ SubCallAbort \/ SubCrash
    PROVE  Serves
<1>1. CASE SubLoadFail \/ SubExecuteBad \/ SubSetHostVariable \/ SubCallMissing
           \/ SubCallAbort \/ \E res \in {"ok", "runtime"} : SubFinish(res)
  <2>1. PICK res, next : res \in Results /\ SubResult(res, next)
    BY <1>1 DEF SubLoadFail, SubExecuteBad, SubSetHostVariable, SubCallMissing,
                SubFinish, SubCallAbort, Results
  <2>2. spc \in {"begin", "bad", "exec"}
    BY <1>1 DEF SubLoadFail, SubExecuteBad, SubSetHostVariable, SubCallMissing,
                SubFinish, SubCallAbort
  <2>3. job.req \in 1 .. req
    BY <2>2 DEF Numbered, TypeOK
  <2>4. /\ ran' = IF Executed(job.req, ran) THEN ran ELSE ran \cup {<<job.req, res>>}
        /\ UNCHANGED <<hpc, req, ret, handle, pending>>
    BY <2>1 DEF SubResult, hostVars, Executed
  <2>5. OpenOps' = OpenOps
    BY <2>4 DEF OpenOps
  <2>6. CASE Executed(job.req, ran)
    BY <2>4, <2>5, <2>6, Rests
  <2>7. CASE ~Executed(job.req, ran)
    BY <2>1, <2>3, <2>4, <2>5, <2>7, Executes
  <2> QED
    BY <2>6, <2>7
<1>2. CASE SubBegin \/ SubQuit \/ SubReject \/ SubLoad \/ SubCall \/ SubReturn \/ SubExit
           \/ SubHangup \/ SubCrash
  <2>1. UNCHANGED <<hpc, req, ret, handle, pending, ran>>
    BY <1>2 DEF SubBegin, SubQuit, SubReject, SubLoad, SubCall, SubReturn, SubExit,
                SubHangup, SubCrash, hostVars
  <2>2. OpenOps' = OpenOps
    BY <2>1 DEF OpenOps
  <2> QED
    BY <2>1, <2>2, Rests
<1> QED
  BY <1>1, <1>2 DEF SubStep

\* The gh_thread API and the subjail together implement the service, for an application
\* that is careful in the sense of OwnResults: every request is executed at most once and
\* has one result, even when the subjail sends two, and each operation is answered at most
\* once and with its own result, whatever fails.
THEOREM ServiceRefined ==
    ASSUME Careful, MaxTable <= 1
    PROVE  Spec => ServiceSpec
<1> DEFINE Complete == Inv /\ Numbered /\ Answered
<1>1. Init => Service!Init
  BY DEF Init, Service!Init, OpenOps, LastReply
<1>2. Init => Complete
  <2>1. Init => Inv
    BY DEF Init, Inv, Handshake, WhenFree, Free, WhenInfo, WhenAccepted, Accepted, OneMeaning,
           NextIsFree, ResultIsOwn, NoneOf
  <2>2. Init => Numbered /\ Answered
    BY DEF Init, Numbered, Answered, Accepted
  <2> QED
    BY <2>1, <2>2
<1>3. TypeOK /\ Complete /\ [Next]_vars => Complete' /\ Serves
  <2> SUFFICES ASSUME TypeOK, Complete, [Next]_vars PROVE Complete' /\ Serves
    OBVIOUS
  <2>0. Inv /\ Numbered /\ Answered
    OBVIOUS
  <2>1. CASE UNCHANGED vars
    <3>1. Inv'
      BY <2>0, <2>1 DEF vars, hostVars, subVars, Inv, Handshake, WhenFree, Free, WhenInfo,
                WhenAccepted, Accepted, OneMeaning, NextIsFree, ResultIsOwn, NoneOf
    <3>2. Numbered' /\ Answered'
      BY <2>0, <2>1 DEF vars, hostVars, subVars, Numbered, Answered, Accepted
    <3>3. UNCHANGED <<req, ran, ret>> /\ OpenOps' = OpenOps
      BY <2>1 DEF vars, hostVars, subVars, OpenOps
    <3> QED
      BY <3>1, <3>2, <3>3, Rests
  <2>2. CASE Done
    BY <2>1, <2>2 DEF Done
  <2>3. CASE SubStep \/ SubCallAbort \/ SubCrash
    <3>1. Handshake'
      BY <2>0, <2>3, SubKeepsHandshake DEF Inv
    <3>2. UNCHANGED hostVars
      BY <2>3 DEF SubStep, SubCallAbort, SubCrash, SubBegin, SubQuit, SubReject, SubLoad,
                  SubLoadFail, SubExecuteBad, SubSetHostVariable, SubCallMissing, SubFinish,
                  SubCall, SubReturn, SubExit, SubHangup, SubResult
    <3>3. Inv'
      BY <2>0, <3>1, <3>2 DEF Inv, ResultIsOwn, hostVars
    <3>4. Numbered' /\ Answered'
      BY <2>0, <2>3, SubKeepsAnswered DEF Inv
    <3> QED
      BY <2>0, <2>3, <3>3, <3>4, SubServes
  <2>4. CASE HostStart
    <3>1. Inv'
      BY <2>0, <2>4, HostStartKeeps
    <3>2. Numbered' /\ Answered'
      BY <2>0, <2>4, HostStartAnswered
    <3> QED
      BY <2>0, <2>4, <3>1, <3>2, HostStartServes
  <2>5. CASE HostStep
    <3>1. Inv'
      BY <2>0, <2>5, HostStepKeeps
    <3>2. Numbered' /\ Answered'
      BY <2>0, <2>5, HostStepAnswered
    <3> QED
      BY <2>0, <2>5, <3>1, <3>2, HostStepServes
  <2> QED
    BY <2>1, <2>2, <2>3, <2>4, <2>5 DEF Next
<1> QED
  BY <1>1, <1>2, <1>3, TypeCorrect, PTL DEF Spec, ServiceSpec, Service!Spec, Serves

(***************************************************************************)
(* Without faults                                                          *)
(*                                                                         *)
(* When nothing fails, the two queues hold at most what the protocol is    *)
(* about: one request, one call or its answer, or a LUAINFO and behind it  *)
(* one call or the result.  Phases says which of these it is, by where     *)
(* the host and the subjail are.                                           *)
(***************************************************************************)
Faultless ==
    /\ Careful
    /\ ~LoadErrors /\ ~InfoTimeouts /\ ~ProcessTimeouts /\ ~RpcFaults
    /\ ~Crashes /\ ~PollErrors /\ ~QuitBusy

\* The queue holds one message, of one of the given types.
One(q, types) == Len(q) = 1 /\ q[1].type \in types

\* A call has been sent and waits behind k messages, or its answer is on the way.
Calling(k) ==
    \/ /\ toSub = << >> /\ Len(toHost) = k + 1
       /\ toHost[k + 1].type = "FUNCTIONCALL" /\ toHost[k + 1].id = ncall
    \/ /\ Len(toHost) = k
       /\ One(toSub, {"FUNCTIONRETURN"}) /\ toSub[1].id = ncall

\* The subjail works on a request; k messages are in front of what it sends.
Working(k) ==
    \/ spc \in {"begin", "exec"} /\ toSub = << >> /\ Len(toHost) = k
    \/ spc = "rpc" /\ Calling(k)
    \/ /\ spc = "main" /\ toSub = << >> /\ Len(toHost) = k + 1
       /\ toHost[k + 1].type = "LUARESULT" /\ toHost[k + 1].id = job.id

\* The subjail has been told to end.
Leaving ==
    \/ spc = "main" /\ One(toSub, {"QUIT"}) /\ toHost = << >>
    \/ spc \in {"closing", "dead"} /\ toSub = << >> /\ toHost = << >>
    \/ spc = "closingrpc" /\ Calling(0)

\* Nothing is under way.
Quiet == spc = "main" /\ toSub = << >> /\ toHost = << >>

\* The host waits for LUAINFO: its request is on the way, or was taken up and answered.
Waiting ==
    \/ spc = "main" /\ One(toSub, Requests) /\ toHost = << >>
    \/ /\ Working(1)
       /\ toHost[1].type = "LUAINFO" /\ toHost[1].id = job.id

\* Where the subjail and the queues are at each place of the host.
InPhase ==
    /\ Free => Quiet
    /\ hpc = "info" => Waiting
    /\ Accepted => Working(0) /\ job.id = sid
    /\ hpc = "wait" => Leaving
    /\ hpc = "closed" => spc = "dead"

\* What the host keeps while nothing fails.
Steady ==
    /\ ~failed
    /\ ret.out \notin ConnErrors
    /\ hpc \in {"next", "info", "sync"} => pending = {}
    /\ hpc = "process" => pending # {}
    /\ hpc \in {"process", "idle"} => pending \subseteq {sid} /\ left = 0
    /\ left > 0 => isSync

\* The inductive invariant of an exchange without faults.
Phases == InPhase /\ Steady /\ ReturnIsOwn

\* Only an empty queue has no messages.
LEMMA NoMessage ==
    ASSUME NEW S, NEW q \in Seq(S)
    PROVE  Len(q) = 0 <=> q = << >>
OBVIOUS

\* A queue of one message.
LEMMA OneTail ==
    ASSUME NEW S, NEW q \in Seq(S), Len(q) = 1
    PROVE  q # << >> /\ Head(q) = q[1] /\ Tail(q) = << >>
<1>1. q # << >>
  BY NoMessage
<1>2. Head(q) = q[1] /\ Tail(q) \in Seq(S) /\ Len(Tail(q)) = 0
  BY <1>1, HeadTail
<1> QED
  BY <1>1, <1>2, NoMessage

\* A message sent over an empty connection.
LEMMA OneAppend ==
    ASSUME NEW S, NEW e \in S
    PROVE  Len(Append(<< >>, e)) = 1 /\ Append(<< >>, e)[1] = e
<1>1. << >> \in Seq(S) /\ Len(<< >>) = 0
  OBVIOUS
<1> QED
  BY <1>1, AppendOne

\* The host is in one of the phases.
LEMMA PhaseCases ==
    ASSUME TypeOK, Phases
    PROVE  Free \/ hpc = "info" \/ Accepted \/ hpc = "wait" \/ hpc = "closed"
BY DEF TypeOK, HostPcs, Phases, Steady, Free, Accepted

\* A request is being worked on only while the host waits for it.
LEMMA BusyPhase ==
    ASSUME TypeOK, Phases, spc \in {"begin", "bad", "exec", "rpc"}
    PROVE  /\ spc # "bad"
           /\ \/ /\ hpc = "info" /\ Working(1)
                 /\ toHost[1].type = "LUAINFO" /\ toHost[1].id = job.id
              \/ Accepted /\ Working(0) /\ job.id = sid
<1>1. CASE Free
  BY <1>1 DEF Phases, InPhase, Quiet
<1>2. CASE hpc = "info"
  BY <1>2 DEF Phases, InPhase, Waiting, Working
<1>3. CASE Accepted
  BY <1>3 DEF Phases, InPhase, Working
<1>4. CASE hpc = "wait"
  BY <1>4 DEF Phases, InPhase, Leaving
<1>5. CASE hpc = "closed"
  BY <1>5 DEF Phases, InPhase
<1> QED
  BY <1>1, <1>2, <1>3, <1>4, <1>5, PhaseCases

\* A step of a busy subjail that goes on with the same request.
LEMMA BusyKeeps ==
    ASSUME TypeOK, Phases, spc \in {"begin", "bad", "exec", "rpc"},
           UNCHANGED <<hostVars, job>>, ReturnIsOwn',
           \A k \in {0, 1} : Working(k) => Working(k)' /\ (k = 1 => toHost'[1] = toHost[1])
    PROVE  Phases'
<1>0. UNCHANGED <<hpc, isSync, left, sid, pending, failed, ret, job>>
  BY DEF hostVars
<1>1. Steady'
  BY <1>0 DEF Phases, Steady
<1>2. CASE hpc = "info" /\ Working(1) /\ toHost[1].type = "LUAINFO" /\ toHost[1].id = job.id
  <2>1. Working(1)' /\ toHost'[1] = toHost[1]
    BY <1>2
  <2>2. Waiting'
    BY <1>0, <1>2, <2>1 DEF Waiting
  <2>3. hpc' = "info" /\ ~Free' /\ ~Accepted'
    BY <1>0, <1>2 DEF Free, Accepted
  <2> QED
    BY <1>1, <2>2, <2>3 DEF Phases, InPhase
<1>3. CASE Accepted /\ Working(0) /\ job.id = sid
  <2>1. Working(0)'
    BY <1>3
  <2>2. Accepted' /\ ~Free' /\ hpc' \notin {"info", "wait", "closed"}
    BY <1>0, <1>3 DEF Free, Accepted
  <2> QED
    BY <1>0, <1>1, <1>3, <2>1, <2>2 DEF Phases, InPhase
<1> QED
  BY <1>2, <1>3, BusyPhase

\* The result is sent.
LEMMA ResultPhase ==
    ASSUME TypeOK, Phases, spc \in {"begin", "exec"}, NEW res \in Results,
           SubResult(res, "main")
    PROVE  Phases'
<1> DEFINE m == Msg("LUARESULT", job.id, job.req, res)
<1>1. /\ toHost' = Append(toHost, m) /\ spc' = "main"
      /\ UNCHANGED <<toSub, hostVars, job, got>>
  BY DEF SubResult, SubSend
<1>2. m \in ToHostMsg /\ m.type = "LUARESULT" /\ m.id = job.id
  <2>1. job.req \in Nat /\ job.id \in Int
    BY DEF TypeOK
  <2>2. m \in ToHostMsg
    BY <2>1, MsgTyped
  <2> QED
    BY <2>2 DEF Msg
<1> HIDE DEF m
<1>3. /\ Len(toHost') = Len(toHost) + 1 /\ Len(toHost) \in Nat
      /\ toHost'[Len(toHost) + 1] = m
      /\ \A i \in 1 .. Len(toHost) : toHost'[i] = toHost[i]
  BY <1>1, <1>2, AppendOne DEF TypeOK
<1>4. ASSUME NEW k \in {0, 1}, Working(k)
      PROVE  Working(k)' /\ (k = 1 => toHost'[1] = toHost[1])
  <2>1. toSub = << >> /\ Len(toHost) = k
    BY <1>4 DEF Working
  <2> QED
    BY <1>1, <1>2, <1>3, <2>1 DEF Working
<1>5. ReturnIsOwn'
  BY <1>1 DEF Phases, ReturnIsOwn
<1> QED
  BY <1>1, <1>4, <1>5, BusyKeeps

\* A function call, by a script or in lua_close.
LEMMA CallPhase ==
    ASSUME TypeOK, Phases, SubCall
    PROVE  Phases'
<1> DEFINE m == Msg("FUNCTIONCALL", ncall + 1, job.req, "ok")
<1>1. /\ toHost' = Append(toHost, m) /\ ncall' = ncall + 1
      /\ spc \in {"exec", "closing"} /\ spc' = IF spc = "exec" THEN "rpc" ELSE "closingrpc"
      /\ UNCHANGED <<toSub, hostVars, job, got>>
  BY DEF SubCall, SubSend
<1>2. m \in ToHostMsg /\ m.type = "FUNCTIONCALL" /\ m.id = ncall'
  <2>1. job.req \in Nat /\ ncall + 1 \in Int /\ "ok" \in Results
    BY DEF TypeOK, Results
  <2>2. m \in ToHostMsg
    BY <2>1, MsgTyped
  <2> QED
    BY <1>1, <2>2 DEF Msg
<1> HIDE DEF m
<1>3. /\ Len(toHost') = Len(toHost) + 1 /\ Len(toHost) \in Nat
      /\ toHost'[Len(toHost) + 1] = m
      /\ \A i \in 1 .. Len(toHost) : toHost'[i] = toHost[i]
  BY <1>1, <1>2, AppendOne DEF TypeOK
<1>4. ASSUME NEW k \in {0, 1}, Len(toHost) = k, toSub = << >>
      PROVE  Calling(k)' /\ (k = 1 => toHost'[1] = toHost[1])
  BY <1>1, <1>2, <1>3, <1>4 DEF Calling
<1>5. ReturnIsOwn'
  BY <1>1 DEF Phases, ReturnIsOwn
<1>6. CASE spc = "exec"
  <2>1. ASSUME NEW k \in {0, 1}, Working(k)
        PROVE  Working(k)' /\ (k = 1 => toHost'[1] = toHost[1])
    <3>1. toSub = << >> /\ Len(toHost) = k
      BY <1>6, <2>1 DEF Working
    <3> QED
      BY <1>1, <1>4, <1>6, <3>1 DEF Working
  <2> QED
    BY <1>1, <1>5, <1>6, <2>1, BusyKeeps
<1>7. CASE spc = "closing"
  <2>1. hpc = "wait" /\ Leaving
    BY <1>7, PhaseCases DEF Phases, InPhase, Quiet, Waiting, Working
  <2>2. toSub = << >> /\ toHost = << >>
    BY <1>7, <2>1 DEF Leaving
  <2>3. Calling(0)'
    BY <1>3, <1>4, <2>2
  <2>4. UNCHANGED <<hpc, isSync, left, sid, pending, failed, ret>>
    BY <1>1 DEF hostVars
  <2> QED
    BY <1>1, <1>5, <1>7, <2>1, <2>3, <2>4 DEF Phases, InPhase, Leaving, Steady, Free, Accepted
<1> QED
  BY <1>1, <1>6, <1>7

\* The answer to the call is received, and it is the answer to this call.
LEMMA ReturnPhase ==
    ASSUME TypeOK, Phases, SubReturn
    PROVE  Phases'
<1>1. /\ toSub # << >> /\ toSub' = Tail(toSub)
      /\ spc \in {"rpc", "closingrpc"} /\ spc' = IF spc = "rpc" THEN "exec" ELSE "closing"
      /\ got' = [call |-> ncall,
                 id |-> IF Head(toSub).type = "FUNCTIONRETURN" THEN Head(toSub).id ELSE -1]
      /\ UNCHANGED <<toHost, hostVars, job, ncall>>
  BY DEF SubReturn, SubPop
<1>2. ASSUME NEW k \in {0, 1}, Calling(k)
      PROVE  toSub' = << >> /\ Len(toHost') = k /\ ReturnIsOwn'
  <2>1. Len(toHost) = k /\ One(toSub, {"FUNCTIONRETURN"}) /\ toSub[1].id = ncall
    BY <1>1, <1>2 DEF Calling
  <2>2. Head(toSub) = toSub[1] /\ toSub' = << >>
    BY <1>1, <2>1, OneTail DEF One, TypeOK
  <2>3. Head(toSub).type = "FUNCTIONRETURN"
    BY <2>1, <2>2 DEF One
  <2> QED
    BY <1>1, <2>1, <2>2, <2>3 DEF ReturnIsOwn
<1>3. CASE spc = "rpc"
  <2>1. ASSUME NEW k \in {0, 1}, Working(k)
        PROVE  Working(k)' /\ ReturnIsOwn'
    <3>1. Calling(k)
      BY <1>3, <2>1 DEF Working
    <3> QED
      BY <1>1, <1>2, <1>3, <3>1 DEF Working
  <2>2. ReturnIsOwn'
    BY <1>3, <2>1, BusyPhase
  <2> QED
    BY <1>1, <1>3, <2>1, <2>2, BusyKeeps
<1>4. CASE spc = "closingrpc"
  <2>1. hpc = "wait" /\ Leaving
    BY <1>4, PhaseCases DEF Phases, InPhase, Quiet, Waiting, Working
  <2>2. Calling(0)
    BY <1>4, <2>1 DEF Leaving
  <2>3. toSub' = << >> /\ toHost' = << >> /\ ReturnIsOwn'
    <3>1. toSub' = << >> /\ Len(toHost') = 0 /\ ReturnIsOwn'
      BY <1>2, <2>2
    <3> QED
      BY <1>1, <3>1, NoMessage DEF TypeOK
  <2>4. UNCHANGED <<hpc, isSync, left, sid, pending, failed, ret>>
    BY <1>1 DEF hostVars
  <2> QED
    BY <1>1, <1>4, <2>1, <2>3, <2>4 DEF Phases, InPhase, Leaving, Steady, Free, Accepted
<1> QED
  BY <1>1, <1>3, <1>4

\* A subjail in its message loop has something to read only if it was sent a request or
\* told to end.
LEMMA MainPhase ==
    ASSUME TypeOK, Phases, spc = "main", toSub # << >>
    PROVE  /\ toHost = << >> /\ Head(toSub) = toSub[1] /\ Tail(toSub) = << >>
           /\ \/ hpc = "info" /\ toSub[1].type \in Requests
              \/ hpc = "wait" /\ toSub[1].type = "QUIT"
<1>1. \/ hpc = "info" /\ One(toSub, Requests) /\ toHost = << >>
      \/ hpc = "wait" /\ One(toSub, {"QUIT"}) /\ toHost = << >>
  BY PhaseCases DEF Phases, InPhase, Quiet, Waiting, Working, Leaving
<1> QED
  BY <1>1, OneTail DEF One, TypeOK

\* No step of the subjail leaves the protocol.
LEMMA SubPhase ==
    ASSUME TypeOK, Phases, Faultless, SubStep \/ SubCallAbort \/ SubCrash
    PROVE  Phases'
<1>1. CASE SubBegin
  <2> DEFINE m == Msg("LUAINFO", idx + 1, Head(toSub).req, "ok")
  <2>1. /\ spc = "main" /\ toSub # << >> /\ toSub' = Tail(toSub)
        /\ Head(toSub).type \in Requests /\ spc' = "begin"
        /\ job' = [kind |-> Head(toSub).type, id |-> idx + 1, req |-> Head(toSub).req]
        /\ toHost' = Append(toHost, m)
        /\ UNCHANGED <<hpc, isSync, left, sid, pending, failed, ret, got>>
    BY <1>1 DEF SubBegin, SubPop, SubSend, IsRequest, hostVars
  <2>2. toHost = << >> /\ toSub' = << >> /\ hpc = "info"
    BY <2>1, MainPhase DEF Requests, Scripts
  <2>3. m \in ToHostMsg /\ m.type = "LUAINFO" /\ m.id = job'.id
    <3>0. Head(toSub) \in ToSubMsg
      BY <2>1, HeadTail DEF TypeOK
    <3>1. Head(toSub).req \in Nat /\ idx + 1 \in Int /\ "ok" \in Results
      BY <3>0 DEF TypeOK, ToSubMsg, Results
    <3>2. m \in ToHostMsg
      BY <3>1, MsgTyped
    <3>3. m.type = "LUAINFO" /\ m.id = idx + 1
      BY DEF Msg
    <3>4. job'.id = idx + 1
      BY <2>1
    <3> QED
      BY <3>2, <3>3, <3>4
  <2> HIDE DEF m
  <2>4. Len(toHost') = 1 /\ toHost'[1] = m
    BY <2>1, <2>2, <2>3, OneAppend
  <2>5. Waiting'
    BY <2>1, <2>2, <2>3, <2>4 DEF Waiting, Working
  <2> QED
    BY <2>1, <2>2, <2>5 DEF Phases, InPhase, Steady, ReturnIsOwn, Free, Accepted
<1>2. CASE SubQuit
  <2>1. /\ spc = "main" /\ toSub # << >> /\ toSub' = Tail(toSub)
        /\ Head(toSub).type = "QUIT" /\ spc' = "closing"
        /\ UNCHANGED <<toHost, hpc, isSync, left, sid, pending, failed, ret, got>>
    BY <1>2 DEF SubQuit, SubPop, hostVars
  <2>2. toHost = << >> /\ toSub' = << >> /\ hpc = "wait"
    BY <2>1, MainPhase DEF Requests, Scripts
  <2> QED
    BY <2>1, <2>2 DEF Phases, InPhase, Steady, ReturnIsOwn, Free, Accepted, Leaving
<1>3. CASE SubReject
  BY <1>3, MainPhase DEF SubReject, SubPop, Requests, Scripts
<1>4. CASE SubLoad
  <2>1. /\ spc = "begin" /\ spc' = "exec"
        /\ UNCHANGED <<toSub, toHost, hostVars, job, ncall, got>>
    BY <1>4 DEF SubLoad
  <2>2. ReturnIsOwn' /\ \A k \in {0, 1} : Working(k) => Working(k)'
    BY <2>1 DEF Phases, ReturnIsOwn, Working
  <2> QED
    BY <2>1, <2>2, BusyKeeps
<1>5. CASE SubLoadFail \/ SubCallAbort \/ SubCrash
  BY <1>5 DEF Faultless, SubLoadFail, SubCallAbort, SubCrash
<1>6. CASE SubExecuteBad
  BY <1>6, BusyPhase DEF SubExecuteBad
<1>7. CASE SubSetHostVariable \/ SubCallMissing \/ \E res \in {"ok", "runtime"} : SubFinish(res)
  <2>1. PICK res \in Results : SubResult(res, "main")
    BY <1>7 DEF SubSetHostVariable, SubCallMissing, SubFinish, Results
  <2>2. spc \in {"begin", "exec"}
    BY <1>7 DEF SubSetHostVariable, SubCallMissing, SubFinish
  <2> QED
    BY <2>1, <2>2, ResultPhase
<1>8. CASE SubExit
  <2>1. /\ spc = "closing" /\ spc' = "dead"
        /\ UNCHANGED <<toSub, toHost, hpc, isSync, left, sid, pending, failed, ret, got>>
    BY <1>8 DEF SubExit, hostVars
  <2>2. hpc = "wait" /\ Leaving
    BY <2>1, PhaseCases DEF Phases, InPhase, Quiet, Waiting, Working
  <2> QED
    BY <2>1, <2>2 DEF Phases, InPhase, Steady, ReturnIsOwn, Free, Accepted, Leaving
<1>9. CASE SubHangup
  BY <1>9 DEF SubHangup, Phases, InPhase
<1> QED
  BY <1>1, <1>2, <1>3, <1>4, <1>5, <1>6, <1>7, <1>8, <1>9, CallPhase, ReturnPhase DEF SubStep

\* An operation returns without a connection error.
LEMMA ReturnSteady ==
    ASSUME TypeOK, Steady, NEW n, NEW out, NEW origin, NEW res,
           Return(n, out, origin, res), out \notin ConnErrors
    PROVE  /\ failed' = FALSE /\ ret'.out = out
           /\ hpc' \in {"idle", "next"}
           /\ hpc' = "idle" => left' = 0
           /\ hpc' = "next" => left > 1
           /\ left' > 0 => left > 1
<1>1. ret'.out = out
  BY DEF Return
<1>2. CASE left > 1
  <2>1. hpc' = "next" /\ failed' = failed
    BY <1>2 DEF Return
  <2> QED
    BY <1>1, <1>2, <2>1 DEF Steady, TypeOK
<1>3. CASE ~(left > 1)
  <2>1. hpc' = "idle" /\ left' = 0 /\ failed' = (failed \/ out \in ConnErrors)
    BY <1>3 DEF Return
  <2>2. failed' = FALSE
    BY <2>1, Zenon DEF Steady
  <2> QED
    BY <1>1, <1>3, <2>1, <2>2 DEF TypeOK
<1> QED
  BY <1>2, <1>3

\* A request is sent over a quiet connection.
LEMMA TransmitPhase ==
    ASSUME TypeOK, Phases, Free, NEW kind \in Requests, Transmit(kind),
           isSync' = isSync \/ left = 0,
           UNCHANGED <<toHost, sid, pending, spc, got>>
    PROVE  Phases'
<1> DEFINE m == Msg(kind, 0, req + 1, "ok")
<1>1. Quiet
  BY DEF Phases, InPhase
<1>2. /\ toSub' = Append(toSub, m) /\ hpc' = "info"
      /\ UNCHANGED <<left, failed, ret>>
  BY <1>1 DEF Transmit, Quiet
<1>3. m \in ToSubMsg /\ m.type \in Requests
  <2>0. req + 1 \in Nat /\ 0 \in Int /\ "ok" \in Results
    BY DEF TypeOK, Results
  <2>1. m \in ToSubMsg
    BY <2>0, MsgTyped
  <2>2. m.type = kind
    BY DEF Msg
  <2> QED
    BY <2>1, <2>2
<1> HIDE DEF m
<1>4. One(toSub', Requests)
  <2>1. toSub = << >>
    BY <1>1 DEF Quiet
  <2>2. Len(toSub') = 1 /\ toSub'[1] = m
    BY <1>2, <1>3, <2>1, OneAppend
  <2> QED
    BY <1>3, <2>2 DEF One
<1>5. Waiting'
  BY <1>1, <1>4 DEF Waiting, Quiet
<1>6. Steady'
  BY <1>2 DEF Phases, Steady, Free
<1> QED
  BY <1>2, <1>5, <1>6 DEF Phases, InPhase, ReturnIsOwn, Free, Accepted

\* A request is refused.
LEMMA RefusePhase ==
    ASSUME TypeOK, Phases, Free, Return(req + 1, "TOOLARGE", 0, "ok"),
           UNCHANGED <<toSub, toHost, isSync, sid, pending, spc, got>>
    PROVE  Phases'
<1>1. Quiet' /\ pending' = {}
  BY DEF Phases, InPhase, Quiet, Free
<1>2. "TOOLARGE" \notin ConnErrors
  BY DEF ConnErrors
<1>3. /\ failed' = FALSE /\ ret'.out = "TOOLARGE"
      /\ hpc' \in {"idle", "next"}
      /\ hpc' = "idle" => left' = 0
      /\ left' > 0 => left > 1
  BY <1>2, ReturnSteady DEF Phases
<1>4. Steady'
  BY <1>1, <1>2, <1>3 DEF Phases, Steady, TypeOK
<1> QED
  BY <1>1, <1>3, <1>4 DEF Phases, InPhase, ReturnIsOwn, Accepted

\* An operation starts in the phase it needs.
LEMMA HostStartPhase ==
    ASSUME TypeOK, Phases, Faultless, HostStart
    PROVE  Phases'
<1>0. Careful = TRUE
  BY SwitchesAssumption DEF Faultless
<1>1. ASSUME NEW kind \in Requests, NEW wait \in BOOLEAN, StartOp(kind, wait)
      PROVE  Phases'
  <2>1. /\ Free /\ left = 0
        /\ Transmit(kind)
        /\ UNCHANGED <<toHost, sid, pending, spc, got>>
    BY <1>0, <1>1 DEF StartOp, MayStart, Free, subVars, Phases, Steady
  <2> QED
    BY <2>1, TransmitPhase
<1>2. ASSUME NEW n \in 1 .. MaxTable, StartTable(n)
      PROVE  Phases'
  <2>1. /\ Free /\ hpc' = "next" /\ isSync' = TRUE
        /\ UNCHANGED <<toSub, toHost, sid, pending, failed, ret, spc, got>>
    BY <1>0, <1>2 DEF StartTable, MayStart, Free, subVars
  <2>2. Quiet' /\ pending' = {}
    BY <2>1 DEF Phases, InPhase, Quiet, Free
  <2>3. Steady'
    BY <2>1, <2>2 DEF Phases, Steady
  <2> QED
    BY <2>1, <2>2, <2>3 DEF Phases, InPhase, ReturnIsOwn, Accepted
<1>3. CASE RefuseOp
  <2>1. /\ Free
        /\ Return(req + 1, "TOOLARGE", 0, "ok")
        /\ UNCHANGED <<toSub, toHost, isSync, sid, pending, spc, got>>
    BY <1>0, <1>3 DEF RefuseOp, MayStart, Free, subVars
  <2> QED
    BY <2>1, RefusePhase
<1>4. CASE CallProcess
  <2>1. /\ hpc = "idle" /\ pending # {} /\ hpc' = "process"
        /\ UNCHANGED <<toSub, toHost, isSync, left, sid, pending, failed, ret, spc, job,
                       ncall, got>>
    BY <1>0, <1>4 DEF CallProcess, subVars
  <2>2. Working(0)' /\ job'.id = sid'
    BY <2>1 DEF Phases, InPhase, Accepted, Working, Calling, One
  <2>3. Steady'
    BY <2>1 DEF Phases, Steady
  <2> QED
    BY <2>1, <2>2, <2>3 DEF Phases, InPhase, ReturnIsOwn, Free
<1>5. CASE RequestQuit
  <2> DEFINE m == Msg("QUIT", 0, 0, "ok")
  <2>1. /\ Free
        /\ UNCHANGED <<toHost, isSync, left, sid, pending, failed, ret, spc, got>>
    BY <1>5 DEF RequestQuit, Free, Faultless, subVars
  <2>2. Quiet
    BY <2>1 DEF Phases, InPhase
  <2>3. hpc' = "wait" /\ toSub' = Append(toSub, m)
    BY <1>5, <2>2 DEF RequestQuit, Quiet
  <2>4. m \in ToSubMsg /\ m.type = "QUIT"
    BY DEF Msg, ToSubMsg, Results
  <2> HIDE DEF m
  <2>5. One(toSub', {"QUIT"})
    BY <2>2, <2>3, <2>4, OneAppend DEF Quiet, One
  <2>6. Leaving'
    BY <2>1, <2>2, <2>5 DEF Leaving, Quiet
  <2>7. Steady'
    BY <2>1, <2>3 DEF Phases, Steady
  <2> QED
    BY <2>1, <2>3, <2>6, <2>7 DEF Phases, InPhase, ReturnIsOwn, Free, Accepted
<1> QED
  BY <1>1, <1>2, <1>3, <1>4, <1>5 DEF HostStart

\* The LUAINFO arrives, and is the one the host waits for.
LEMMA RecvInfoPhase ==
    ASSUME TypeOK, Phases, RecvInfo
    PROVE  Phases'
<1>1. /\ hpc = "info" /\ toHost # << >> /\ toHost' = Tail(toHost)
      /\ UNCHANGED <<toSub, isSync, spc, job, ncall, got>>
  BY DEF RecvInfo, subVars
<1>2. /\ Working(1) /\ toHost[1].type = "LUAINFO" /\ toHost[1].id = job.id /\ pending = {}
  BY <1>1 DEF Phases, InPhase, Steady, Waiting
<1>3. /\ Head(toHost) = toHost[1] /\ Len(toHost) \in Nat \ {0}
      /\ Len(toHost') = Len(toHost) - 1
      /\ \A i \in 1 .. Len(toHost') : toHost'[i] = toHost[i + 1]
  BY <1>1, HeadTail DEF TypeOK
<1>4. Working(0)'
  <2>1. Len(toHost) = 2 => toHost'[1] = toHost[2]
    BY <1>3
  <2>2. CASE Len(toHost) = 1
    BY <1>1, <1>2, <1>3, <2>2 DEF Working, Calling, One
  <2>3. CASE Len(toHost) = 2
    <3>0. UNCHANGED <<toSub, spc, job, ncall>>
      BY <1>1
    <3>1. Len(toHost') = 1 /\ toHost'[1] = toHost[2]
      BY <1>3, <2>1, <2>3
    <3>2. /\ toSub = << >>
          /\ \/ /\ spc = "rpc"
                /\ toHost[2].type = "FUNCTIONCALL" /\ toHost[2].id = ncall
             \/ /\ spc = "main"
                /\ toHost[2].type = "LUARESULT" /\ toHost[2].id = job.id
      BY <1>2, <2>3 DEF Working, Calling
    <3>3. CASE spc = "rpc"
      <4>1. Calling(0)'
        BY <3>0, <3>1, <3>2, <3>3 DEF Calling
      <4> QED
        BY <3>0, <3>3, <4>1 DEF Working
    <3>4. CASE spc = "main"
      <4>1. /\ spc' = "main" /\ toSub' = << >> /\ Len(toHost') = 0 + 1
            /\ toHost'[0 + 1].type = "LUARESULT" /\ toHost'[0 + 1].id = job'.id
        BY <3>0, <3>1, <3>2, <3>4
      <4> QED
        BY <4>1 DEF Working
    <3> QED
      BY <3>2, <3>3, <3>4
  <2> QED
    BY <1>2, <2>2, <2>3 DEF Working, Calling
<1>5. sid' = job'.id
  BY <1>1, <1>2, <1>3 DEF RecvInfo
<1>6. CASE isSync
  <2>1. hpc' = "sync" /\ UNCHANGED <<left, pending, ret, failed>>
    BY <1>2, <1>3, <1>6 DEF RecvInfo
  <2>2. Steady'
    BY <1>1, <1>2, <1>6, <2>1 DEF Phases, Steady
  <2> QED
    BY <1>1, <1>4, <1>5, <2>1, <2>2 DEF Phases, InPhase, ReturnIsOwn, Free
<1>7. CASE ~isSync
  <2>1. Return(req, "started", 0, "ok") /\ pending' = {job.id}
    BY <1>2, <1>3, <1>7 DEF RecvInfo
  <2>2. "started" \notin ConnErrors
    BY DEF ConnErrors
  <2>3. ~(left > 0)
    BY <1>7 DEF Phases, Steady
  <2>4. /\ failed' = FALSE /\ ret'.out = "started" /\ hpc' \in {"idle", "next"}
        /\ hpc' = "idle" => left' = 0
        /\ hpc' = "next" => left > 1
        /\ left' > 0 => left > 1
    BY <2>1, <2>2, ReturnSteady DEF Phases
  <2>5. hpc' = "idle" /\ left' = 0 /\ ~(left' > 0)
    BY <2>3, <2>4 DEF TypeOK
  <2>6. Steady'
    BY <1>1, <1>5, <2>1, <2>2, <2>4, <2>5 DEF Steady
  <2> QED
    BY <1>1, <1>4, <1>5, <2>1, <2>5, <2>6 DEF Phases, InPhase, ReturnIsOwn, Free
<1> QED
  BY <1>6, <1>7

\* A host that processes messages waits for a result, or for the subjail to end.
LEMMA ProcessingPhase ==
    ASSUME TypeOK, Phases, Processing
    PROVE  \/ hpc # "wait" /\ Accepted /\ Working(0) /\ job.id = sid
           \/ hpc = "wait" /\ Leaving
BY DEF Processing, Phases, InPhase, Accepted

\* gh_thread_process answers a call.
LEMMA DispatchPhase ==
    ASSUME TypeOK, Phases, NEW res \in {"ok", "missing"}, Dispatch(res)
    PROVE  Phases'
<1> DEFINE c == Head(toHost)
           m == Msg("FUNCTIONRETURN", c.id, c.req, res)
<1>1. /\ Processing /\ toHost # << >> /\ c.type = "FUNCTIONCALL" /\ toHost' = Tail(toHost)
      /\ UNCHANGED <<isSync, sid, pending, spc, job, ncall, got>>
  BY DEF Dispatch, subVars
<1>2. c = toHost[1] /\ c \in ToHostMsg /\ Len(toHost) \in Nat \ {0}
  BY <1>1, HeadTail DEF TypeOK
<1>3. Calling(0) /\ spc \in {"rpc", "closingrpc"} /\ (spc = "rpc" <=> hpc # "wait")
  BY <1>1, <1>2, ProcessingPhase DEF Working, Leaving
<1>4. toSub = << >> /\ Len(toHost) = 1 /\ c.id = ncall
  BY <1>1, <1>2, <1>3 DEF Calling
<1>5. toHost' = << >>
  BY <1>1, <1>4, OneTail DEF TypeOK
<1>6. toSub' = Append(toSub, m) /\ ProcessedOther
  BY <1>3 DEF Dispatch, Answer
<1>7. m \in ToSubMsg /\ m.type = "FUNCTIONRETURN" /\ m.id = ncall
  <2>1. c.id \in Int /\ c.req \in Nat /\ res \in Results
    BY <1>2 DEF ToHostMsg, Results
  <2>2. m \in ToSubMsg
    BY <2>1, MsgTyped
  <2>3. m.type = "FUNCTIONRETURN" /\ m.id = c.id
    BY DEF Msg
  <2> QED
    BY <1>4, <2>2, <2>3
<1> HIDE DEF m
<1>8. Len(toSub') = 1 /\ toSub'[1] = m
  BY <1>4, <1>6, <1>7, OneAppend
<1>9. Calling(0)'
  BY <1>1, <1>5, <1>7, <1>8 DEF Calling, One
<1>10. CASE hpc = "process"
  <2>1. Return(req, "notif", 0, "ok")
    BY <1>6, <1>10 DEF ProcessedOther
  <2>2. "notif" \notin ConnErrors
    BY DEF ConnErrors
  <2>3. left = 0 /\ pending' # {} /\ pending' \subseteq {sid'}
    BY <1>1, <1>10 DEF Phases, Steady
  <2>4. failed' = FALSE /\ ret'.out = "notif" /\ hpc' = "idle" /\ left' = 0
    <3>1. /\ failed' = FALSE /\ ret'.out = "notif" /\ hpc' \in {"idle", "next"}
          /\ hpc' = "idle" => left' = 0
          /\ hpc' = "next" => left > 1
      BY <2>1, <2>2, ReturnSteady DEF Phases
    <3>2. ~(left > 1)
      BY <2>3
    <3> QED
      BY <3>1, <3>2
  <2>5. Steady'
    BY <1>1, <2>2, <2>3, <2>4 DEF Steady
  <2>6. Working(0)' /\ job'.id = sid'
    BY <1>1, <1>3, <1>9, <1>10, ProcessingPhase DEF Working
  <2> QED
    BY <1>1, <2>3, <2>4, <2>5, <2>6 DEF Phases, InPhase, ReturnIsOwn, Free
<1>11. CASE hpc # "process"
  <2>1. UNCHANGED <<hpc, left, failed, ret>>
    BY <1>6, <1>11 DEF ProcessedOther, NoReturn
  <2>2. Steady'
    BY <1>1, <2>1 DEF Phases, Steady
  <2>3. CASE hpc = "sync"
    <3>1. Working(0)' /\ job'.id = sid'
      BY <1>1, <1>3, <1>9, <2>3, ProcessingPhase DEF Working
    <3> QED
      BY <1>1, <2>1, <2>2, <2>3, <3>1 DEF Phases, InPhase, ReturnIsOwn, Free
  <2>4. CASE hpc = "wait"
    <3>1. Leaving'
      BY <1>1, <1>3, <1>9, <2>4 DEF Leaving
    <3> QED
      BY <1>1, <2>1, <2>2, <2>4, <3>1 DEF Phases, InPhase, ReturnIsOwn, Free, Accepted
  <2> QED
    BY <1>1, <1>11, <2>3, <2>4 DEF Processing
<1> QED
  BY <1>10, <1>11

\* The awaited result arrives and leaves the connection quiet.
LEMMA RecvResultPhase ==
    ASSUME TypeOK, Phases, RecvResult
    PROVE  Phases'
<1> DEFINE m == Head(toHost)
<1>1. /\ Processing /\ toHost # << >> /\ m.type = "LUARESULT" /\ toHost' = Tail(toHost)
      /\ UNCHANGED <<toSub, isSync, sid, spc, got>>
  BY DEF RecvResult, subVars
<1>2. m = toHost[1]
  BY <1>1, HeadTail DEF TypeOK
<1>3. /\ hpc # "wait" /\ spc = "main" /\ toSub = << >> /\ Len(toHost) = 1 /\ m.id = sid
  <2>1. ~Calling(0)
    BY <1>1, <1>2 DEF Calling, TypeOK
  <2>2. Len(toHost) # 0
    BY <1>1, NoMessage DEF TypeOK
  <2> QED
    BY <1>1, <1>2, <2>1, <2>2, ProcessingPhase DEF Working, Leaving
<1>4. Quiet'
  BY <1>1, <1>3, OneTail DEF Quiet, TypeOK
<1>5. "result" \notin ConnErrors
  BY DEF ConnErrors
<1>6. CASE hpc = "process"
  <2>1. /\ pending' = pending \ {m.id} /\ hpc' = "idle" /\ ret'.out = "result"
        /\ UNCHANGED <<left, failed>>
    BY <1>6 DEF RecvResult
  <2>2. pending' = {}
    BY <1>3, <1>6, <2>1 DEF Phases, Steady
  <2>3. Steady'
    BY <1>1, <1>5, <1>6, <2>1, <2>2 DEF Phases, Steady
  <2> QED
    BY <1>1, <1>4, <2>1, <2>2, <2>3 DEF Phases, InPhase, ReturnIsOwn, Accepted
<1>7. CASE hpc = "sync"
  <2>1. Return(req, "result", m.req, m.res) /\ pending' = {}
    BY <1>3, <1>7 DEF RecvResult, Phases, Steady
  <2>2. /\ failed' = FALSE /\ ret'.out = "result" /\ hpc' \in {"idle", "next"}
        /\ hpc' = "idle" => left' = 0
        /\ left' > 0 => left > 1
    BY <1>5, <2>1, ReturnSteady DEF Phases
  <2>3. Steady'
    BY <1>1, <1>5, <2>1, <2>2 DEF Phases, Steady, TypeOK
  <2> QED
    BY <1>1, <1>4, <2>1, <2>2, <2>3 DEF Phases, InPhase, ReturnIsOwn, Accepted
<1> QED
  BY <1>1, <1>3, <1>6, <1>7 DEF Processing

\* No step of the host leaves the protocol.
LEMMA HostStepPhase ==
    ASSUME TypeOK, Phases, Faultless, HostStep
    PROVE  Phases'
<1>1. CASE NextEntry
  <2>1. /\ Free
        /\ Transmit("LUAHOSTVARIABLE")
        /\ UNCHANGED <<toHost, isSync, sid, pending, spc, got>>
    BY <1>1 DEF NextEntry, Free, Phases, Steady, subVars
  <2> QED
    BY <2>1, TransmitPhase DEF Requests
<1>2. CASE RefuseEntry
  <2>1. /\ Free
        /\ Return(req + 1, "TOOLARGE", 0, "ok")
        /\ UNCHANGED <<toSub, toHost, isSync, sid, pending, spc, got>>
    BY <1>2 DEF RefuseEntry, Free, Phases, Steady, subVars
  <2> QED
    BY <2>1, RefusePhase
<1>3. CASE InfoTimeout \/ ProcessTimeout \/ DispatchFault \/ WaitFail
  BY <1>3 DEF InfoTimeout, ProcessTimeout, DispatchFault, WaitFail, Faultless
<1>4. CASE PeerGone
  <2>1. hpc \in {"info", "sync", "process"} /\ spc = "dead"
    BY <1>4 DEF PeerGone, Eof
  <2> QED
    BY <2>1 DEF Phases, InPhase, Accepted, Waiting, Working
<1>5. CASE RecvUnknown
  <2>1. Processing /\ toHost # << >> /\ toHost[1].type = "LUAINFO"
    BY <1>5, HeadTail DEF RecvUnknown, TypeOK
  <2>2. Len(toHost) # 0
    BY <2>1, NoMessage DEF TypeOK
  <2>3. ~Calling(0)
    BY <2>1, <2>2 DEF Calling
  <2> QED
    BY <2>1, <2>2, <2>3, ProcessingPhase DEF Working, Leaving
<1>6. CASE WaitExited \/ WaitKill
  <2>1. /\ hpc' = "closed" /\ spc' = "dead"
        /\ UNCHANGED <<isSync, left, sid, pending, failed, ret, got>>
    BY <1>6 DEF WaitExited, WaitKill, KillSub, subVars
  <2>2. Steady'
    BY <2>1 DEF Phases, Steady
  <2> QED
    BY <2>1, <2>2 DEF Phases, InPhase, ReturnIsOwn, Free, Accepted
<1> QED
  BY <1>1, <1>2, <1>3, <1>4, <1>5, <1>6, RecvInfoPhase, DispatchPhase, RecvResultPhase
  DEF HostStep, HostProgress

\* When nothing fails, a function call returns its own answer and never stays unanswered,
\* the connection is quiet between operations, and no operation fails: the messages of one
\* operation are consumed before the next one starts, tables of any length included.
THEOREM NominalExchange ==
    ASSUME Faultless
    PROVE  Spec => [](ReturnIsOwn /\ QuiescentWhenIdle /\ CallIsAnswered
                        /\ LuaErrorsStayInStatus)
<1>1. Init => Phases
  BY DEF Init, Phases, InPhase, Steady, ReturnIsOwn, Quiet, Free, Accepted, ConnErrors
<1>2. TypeOK /\ Phases /\ [Next]_vars => Phases'
  <2> SUFFICES ASSUME TypeOK, Phases, [Next]_vars PROVE Phases'
    OBVIOUS
  <2>1. CASE UNCHANGED vars
    BY <2>1 DEF vars, hostVars, subVars, Phases, InPhase, Steady, ReturnIsOwn, Quiet, Free,
                Accepted, Waiting, Working, Leaving, Calling, One
  <2>2. CASE Done
    BY <2>1, <2>2 DEF Done
  <2> QED
    BY <2>1, <2>2, HostStartPhase, HostStepPhase, SubPhase DEF Next
<1>3. TypeOK /\ Phases => ReturnIsOwn /\ QuiescentWhenIdle /\ CallIsAnswered
                            /\ LuaErrorsStayInStatus
  <2> SUFFICES ASSUME TypeOK, Phases
               PROVE  ReturnIsOwn /\ QuiescentWhenIdle /\ CallIsAnswered
                        /\ LuaErrorsStayInStatus
    OBVIOUS
  <2>1. ReturnIsOwn /\ LuaErrorsStayInStatus
    BY DEF Phases, Steady, LuaErrorsStayInStatus
  <2>2. QuiescentWhenIdle
    BY DEF QuiescentWhenIdle, Phases, InPhase, Free, Quiet
  <2>3. CallIsAnswered
    <3> SUFFICES ASSUME spc = "rpc" PROVE CallIsAnswered
      BY DEF CallIsAnswered
    <3>1. PICK k \in {0, 1} : Calling(k)
      BY BusyPhase DEF Working
    <3>2. CASE toSub # << >>
      BY <3>2 DEF CallIsAnswered
    <3>3. CASE toSub = << >>
      <4>1. ~One(toSub, {"FUNCTIONRETURN"})
        BY <3>3 DEF One
      <4>2. k + 1 \in 1 .. Len(toHost) /\ toHost[k + 1].type = "FUNCTIONCALL"
        BY <3>1, <4>1 DEF Calling
      <4> QED
        BY <4>2 DEF CallIsAnswered
    <3> QED
      BY <3>2, <3>3
  <2> QED
    BY <2>1, <2>2, <2>3
<1> QED
  BY <1>1, <1>2, <1>3, TypeCorrect, PTL DEF Spec

\* When nothing fails, the sockets are empty and the subjail is idle between two operations.
THEOREM QuietBetween ==
    ASSUME Faultless
    PROVE  Spec => []QuiescentWhenIdle
BY NominalExchange, PTL

\* When nothing fails, gh_thread_process never drops a function call: the host has still to
\* read it, or its FUNCTIONRETURN is on the way.
THEOREM CallsAreAnswered ==
    ASSUME Faultless
    PROVE  Spec => []CallIsAnswered
BY NominalExchange, PTL

=============================================================================
