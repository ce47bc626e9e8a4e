---------------------------- MODULE RpcRegistry ----------------------------
(***************************************************************************)
(* One gh_rpc (ghost/rpc.c) shared by several gh_threads, each driven by   *)
(* an operating-system thread of its own.  The registry is a growing array *)
(* of functions with no lock: gh_rpc_register relies on thread_refcount to *)
(* keep away from sessions that look functions up.  A call holds a pointer *)
(* into the array (frame->function) from the lookup to the unlock, and     *)
(* runs the function under the function's own mutex, the registry's global *)
(* mutex or none, as the function was registered.                          *)
(***************************************************************************)
EXTENDS Integers, Sequences, FiniteSets

CONSTANTS
    Sessions,    \* the gh_threads that share the registry
    Names,       \* function names scripts may ask for
    InitialCap,  \* GH_RPC_INITIALCAPACITY
    MaxCap,      \* the max_capacity of rpc_daopts
    MaxCalls,    \* bound: calls dispatched
    Overlap,     \* what gh_rpc_register may overlap: "ctor", a gh_thread_ctor,
                 \* and "quit", a gh_thread_dtor
    NoOne        \* the owner of a mutex that is not locked

ASSUME SessionsAssumption == IsFiniteSet(Sessions) /\ NoOne \notin Sessions
ASSUME CapAssumption == InitialCap \in Nat \ {0} /\ MaxCap \in Nat
ASSUME CallsAssumption == MaxCalls \in Nat /\ Overlap \subseteq {"ctor", "quit"}

Safeties == {"LOCAL", "GLOBAL", "SAFE"}
Owners == Sessions \cup {NoOne}
Functions == [name : Names, safety : Safeties, owner : Owners]

\* A frame before gh_rpc_newframefrommsg and after gh_rpc_disposeframe.
Frames == [name : Names \cup {"-"}, fn : Nat, cap : Nat]
NoFrame == [name |-> "-", fn |-> 0, cap |-> 0]

VARIABLES
    table,   \* rpc->buffer up to rpc->size; owner is the holder of mutex
    cap,     \* rpc->capacity; the buffer moves exactly when it changes
    refs,    \* rpc->thread_refcount
    global,  \* the holder of rpc->global_mutex
    reg,     \* the gh_rpc_register in progress and the last one's result
    sess,    \* per session: the stage of its gh_thread
    call,    \* per session: the stage of gh_rpc_callframe
    frame,   \* per session: the name asked for, the function found and the
             \* capacity (hence the buffer) it was found in
    done     \* calls completed

vars == <<table, cap, refs, global, reg, sess, call, frame, done>>

Stages == {"none", "ctor", "open", "quit", "closed"}
RegStages == {"idle", "append", "init"}
RegResults == {"none", "OK", "INUSE", "MAXCAPACITY"}

\* The shape of the registry and of what its users do.
TypeOK ==
    /\ table \in Seq(Functions)
    /\ cap \in Nat
    /\ refs \in Nat
    /\ global \in Owners
    /\ reg \in [at : RegStages, name : Names \cup {"-"}, safety : Safeties,
               res : RegResults]
    /\ reg.at # "idle" => reg.name \in Names
    /\ sess \in [Sessions -> Stages]
    /\ call \in [Sessions -> {"none", "lock", "run"}]
    /\ frame \in [Sessions -> Frames]
    /\ done \in Nat

Init ==
    /\ table = << >>
    /\ cap = InitialCap
    /\ refs = 0
    /\ global = NoOne
    /\ reg = [at |-> "idle", name |-> "-", safety |-> "SAFE", res |-> "none"]
    /\ frame = [s \in Sessions |-> NoFrame]
    /\ sess = [s \in Sessions |-> "none"]
    /\ call = [s \in Sessions |-> "none"]
    /\ done = 0

-----------------------------------------------------------------------------
(***************************************************************************)
(* gh_rpc_register: the check, the append, the mutex.                      *)
(***************************************************************************)

\* A disciplined application registers its functions while no gh_thread is
\* being built or destroyed.
MayRegister == \A s \in Sessions : sess[s] \in {"ctor", "quit"} => sess[s] \in Overlap
MayEnter(stage) == stage \in Overlap \/ reg.at = "idle"

Registered(res) == [at |-> "idle", name |-> "-", safety |-> "SAFE", res |-> res]

\* Mutant: gh_rpc_isinuse is not consulted.
RegisterCheckSkipped(name, safety) ==
    /\ reg.at = "idle"
    /\ MayRegister
    /\ reg' = [at |-> "append", name |-> name, safety |-> safety, res |-> "none"]
    /\ UNCHANGED <<table, cap, refs, global, sess, call, frame, done>>

RegisterCheck(name, safety) ==
    /\ reg.at = "idle"
    /\ MayRegister
    /\ reg' = IF refs > 0
                THEN Registered("INUSE")
                ELSE [at |-> "append", name |-> name, safety |-> safety, res |-> "none"]
    /\ UNCHANGED <<table, cap, refs, global, sess, call, frame, done>>

\* gh_dynamicarray_append of one element: a full array doubles, and moves.
Fits == Len(table) + 1 <= cap

RegisterAppend ==
    /\ reg.at = "append"
    /\ IF ~Fits /\ 2 * cap > MaxCap
         THEN /\ reg' = Registered("MAXCAPACITY")
              /\ UNCHANGED <<table, cap>>
         ELSE /\ table' = Append(table, [name |-> reg.name, safety |-> reg.safety,
                                         owner |-> NoOne])
              /\ cap' = IF Fits THEN cap ELSE 2 * cap
              /\ reg' = IF reg.safety = "LOCAL"
                          THEN [reg EXCEPT !.at = "init"]
                          ELSE Registered("OK")
    /\ UNCHANGED <<refs, global, sess, call, frame, done>>

\* pthread_mutex_init of the entry that was appended: whatever was done with
\* the (zeroed, hence lockable) mutex since is forgotten.
RegisterInit ==
    /\ reg.at = "init"
    /\ table' = [table EXCEPT ![Len(table)].owner = NoOne]
    /\ reg' = Registered("OK")
    /\ UNCHANGED <<cap, refs, global, sess, call, frame, done>>

-----------------------------------------------------------------------------
(***************************************************************************)
(* Sessions.  gh_thread_ctor takes its reference last; gh_thread_dtor      *)
(* drops it first, and then goes on dispatching calls in thread_wait.      *)
(***************************************************************************)
OpenBegin(s) ==
    /\ sess[s] = "none"
    /\ MayEnter("ctor")
    /\ sess' = [sess EXCEPT ![s] = "ctor"]
    /\ UNCHANGED <<table, cap, refs, global, reg, call, frame, done>>

OpenDone(s) ==
    /\ sess[s] = "ctor"
    /\ sess' = [sess EXCEPT ![s] = "open"]
    /\ refs' = refs + 1
    /\ UNCHANGED <<table, cap, global, reg, call, frame, done>>

\* A failed constructor takes no reference; the gh_thread is not used.
OpenFail(s) ==
    /\ sess[s] = "ctor"
    /\ sess' = [sess EXCEPT ![s] = "closed"]
    /\ UNCHANGED <<table, cap, refs, global, reg, call, frame, done>>

QuitBegin(s) ==
    /\ sess[s] = "open"
    /\ call[s] = "none"
    /\ MayEnter("quit")
    /\ sess' = [sess EXCEPT ![s] = "quit"]
    /\ refs' = refs - 1
    /\ UNCHANGED <<table, cap, global, reg, call, frame, done>>

\* Mutant: the reference is dropped (again) when the destructor is done.
QuitEndDecref(s) ==
    /\ sess[s] = "quit"
    /\ call[s] = "none"
    /\ sess' = [sess EXCEPT ![s] = "closed"]
    /\ refs' = refs - 1
    /\ UNCHANGED <<table, cap, global, reg, call, frame, done>>

QuitEnd(s) ==
    /\ sess[s] = "quit"
    /\ call[s] = "none"
    /\ sess' = [sess EXCEPT ![s] = "closed"]
    /\ UNCHANGED <<table, cap, refs, global, reg, call, frame, done>>

-----------------------------------------------------------------------------
(***************************************************************************)
(* A FUNCTIONCALL: gh_rpc_newframefrommsg, gh_rpc_callframe,               *)
(* gh_rpc_respondtomsg and gh_rpc_disposeframe.                            *)
(***************************************************************************)
Dispatching(s) == sess[s] \in {"open", "quit"} /\ call[s] = "none"

Calls == done + Cardinality({s \in Sessions : call[s] # "none"})

\* The loop stops at the first function of that name.
Matches(name) == {i \in 1 .. Len(table) : table[i].name = name}
First(name) == {i \in Matches(name) : \A j \in Matches(name) : i <= j}

Dispatch(s, name) ==
    /\ Dispatching(s)
    /\ Calls < MaxCalls
    /\ \E fn \in First(name) :
          frame' = [frame EXCEPT ![s] = [name |-> name, fn |-> fn, cap |-> cap]]
    /\ call' = [call EXCEPT ![s] = "lock"]
    /\ UNCHANGED <<table, cap, refs, global, reg, sess, done>>

\* GHR_RPC_MISSINGFUNC: gh_rpc_respondmissing.
DispatchMissing(s, name) ==
    /\ Dispatching(s)
    /\ Calls < MaxCalls
    /\ Matches(name) = {}
    /\ done' = done + 1
    /\ UNCHANGED <<table, cap, refs, global, reg, sess, call, frame>>

Target(s) == table[frame[s].fn]

\* pthread_mutex_lock, and the function starts.
Lock(s) ==
    /\ call[s] = "lock"
    /\ \/ /\ Target(s).safety = "LOCAL"
          /\ Target(s).owner = NoOne
          /\ table' = [table EXCEPT ![frame[s].fn].owner = s]
          /\ UNCHANGED global
       \/ /\ Target(s).safety = "GLOBAL"
          /\ global = NoOne
          /\ global' = s
          /\ UNCHANGED table
       \/ /\ Target(s).safety = "SAFE"
          /\ UNCHANGED <<global, table>>
    /\ call' = [call EXCEPT ![s] = "run"]
    /\ UNCHANGED <<cap, refs, reg, sess, frame, done>>

\* Mutant: the function's own mutex is unlocked, the global one is not.
FinishKeepsGlobal(s) ==
    /\ call[s] = "run"
    /\ table' = IF Target(s).safety = "LOCAL"
                  THEN [table EXCEPT ![frame[s].fn].owner = NoOne] ELSE table
    /\ call' = [call EXCEPT ![s] = "none"]
    /\ frame' = [frame EXCEPT ![s] = NoFrame]
    /\ done' = done + 1
    /\ UNCHANGED <<cap, refs, global, reg, sess>>

\* The function returned: unlock, answer, dispose of the frame.
Finish(s) ==
    /\ call[s] = "run"
    /\ table' = IF Target(s).safety = "LOCAL"
                  THEN [table EXCEPT ![frame[s].fn].owner = NoOne] ELSE table
    /\ global' = IF Target(s).safety = "GLOBAL" THEN NoOne ELSE global
    /\ call' = [call EXCEPT ![s] = "none"]
    /\ frame' = [frame EXCEPT ![s] = NoFrame]
    /\ done' = done + 1
    /\ UNCHANGED <<cap, refs, reg, sess>>

-----------------------------------------------------------------------------
Register ==
    \/ \E name \in Names, safety \in Safeties : RegisterCheck(name, safety)
    \/ RegisterAppend
    \/ RegisterInit

Progress(s) == Lock(s) \/ Finish(s)

Session(s) ==
    \/ OpenBegin(s) \/ OpenDone(s) \/ OpenFail(s)
    \/ QuitBegin(s) \/ QuitEnd(s)
    \/ \E name \in Names : Dispatch(s, name) \/ DispatchMissing(s, name)
    \/ Progress(s)

Next == Register \/ \E s \in Sessions : Session(s)

Spec == Init /\ [][Next]_vars

\* A host function returns, and a free mutex is granted to some waiter
\* (pthread mutexes promise no order among the waiters).
FairSpec == Spec /\ WF_vars(\E s \in Sessions : Progress(s))

-----------------------------------------------------------------------------
(***************************************************************************)
(* Properties                                                              *)
(***************************************************************************)

\* gh_rpc_callframe: no two sessions run the same THREADUNSAFELOCAL function
\* at a time, nor any two THREADUNSAFEGLOBAL functions.
MutexExclusion ==
    \A s, t \in Sessions :
        s # t /\ call[s] = "run" /\ call[t] = "run" =>
            /\ ~(Target(s).safety = "LOCAL" /\ frame[s].fn = frame[t].fn)
            /\ ~(Target(s).safety = "GLOBAL" /\ Target(t).safety = "GLOBAL")

\* The pointer a call frame holds stays good from lookup to unlock: the array
\* has not moved since, and the entry is the first one of the name asked for.
FramesStayValid ==
    \A s \in Sessions :
        call[s] # "none" =>
            /\ frame[s].cap = cap
            /\ frame[s].fn \in First(frame[s].name)

\* While some call waits for a mutex, calls keep completing: the mutexes of
\* gh_rpc_callframe never leave every session waiting.
NoStall ==
    \A k \in 0 .. MaxCalls :
        ((\E s \in Sessions : call[s] = "lock") /\ done = k) ~> (done > k)

\* The reason behind the two invariants, itself inductive: thread_refcount
\* counts the open sessions; while an entry is being registered no session is
\* past "none" unless closed, hence no call is in progress; a mutex is held by
\* exactly the session that runs under it.
RefsExact == refs = Cardinality({s \in Sessions : sess[s] = "open"})

Quiet == reg.at # "idle" => \A s \in Sessions : sess[s] \in {"none", "closed"}

CallsInSession == \A s \in Sessions : call[s] # "none" => sess[s] \in {"open", "quit"}

LocksMatch ==
    \A s \in Sessions : call[s] = "run" =>
        /\ Target(s).safety = "LOCAL" => Target(s).owner = s
        /\ Target(s).safety = "GLOBAL" => global = s

=============================================================================
