----------------------------- MODULE Lifecycle -----------------------------
(***************************************************************************)
(* Processes and descriptors: gh_sandbox (ghost/sandbox.c) and gh_thread   *)
(* (ghost/thread.c) as they are built and destroyed by the host, the jail  *)
(* process of each sandbox (jail/jail.c) and the subjail process of each   *)
(* thread (jail/subjail.c).                                                *)
(*                                                                         *)
(* Every sandbox and thread has a socket pair: the host's end <<o, "h">>   *)
(* and the end of its process <<o, "p">>.  A process notices that the      *)
(* other side is gone only when nobody holds the other end any more.       *)
(* Descriptors are copied by fork (no descriptor is close-on-exec) and     *)
(* travel inside NEWSUBJAIL messages, so ends are held by more processes   *)
(* than the two that use them.                                             *)
(*                                                                         *)
(* An object names its process too: s is the jail of sandbox s, t the      *)
(* subjail of thread t.  The model assumes that the application ignores    *)
(* SIGPIPE; the jail processes die of it, as they do of EPIPE.  Closing a  *)
(* descriptor that is open does not fail.                                  *)
(***************************************************************************)
EXTENDS Seccomp, FiniteSets

CONSTANTS
    Sandboxes,   \* gh_sandbox objects the application builds
    Threads,     \* gh_thread objects the application builds
    Home,        \* the sandbox that each thread is built in
    Host,        \* the application's process
    Crashes,     \* jails and subjails may die at any time
    Parallel     \* the application's threads run constructors and
                 \* destructors at the same time

Objects == Sandboxes \cup Threads
Procs   == Objects \cup {Host}

ASSUME ObjectsAssumption ==
    /\ Sandboxes \cap Threads = {}
    /\ Host \notin Objects
    /\ Home \in [Threads -> Sandboxes]
    /\ Crashes \in BOOLEAN
    /\ Parallel \in BOOLEAN

VARIABLES
    obj,      \* what the application has done with each object
    pc,       \* where each jail and subjail process is
    holds,    \* the descriptors each process has open
    filters,  \* the seccomp filters in force in each process
    toProc,   \* messages on their way to the process of an object
    toHost,   \* SUBJAILALIVE messages on their way to the host
    fd,       \* per jail: the local sockfd of message_recv
    reaped    \* jails that the host has waited for

vars == <<obj, pc, holds, filters, toProc, toHost, fd, reaped>>

Ends == Objects \X {"h", "p", "pidfd"}

h(o)     == <<o, "h">>
p(o)     == <<o, "p">>
pidfd(o) == <<o, "pidfd">>

NEWSUBJAIL(t) == [type |-> "NEWSUBJAIL", sockfd |-> t]
HELLO         == [type |-> "HELLO"]
QUIT          == [type |-> "QUIT"]
Messages      == {HELLO, QUIT} \cup {NEWSUBJAIL(t) : t \in Threads}

Phases  == {"none", "pair", "forked", "wait", "live", "pidfd", "quit", "closed", "failed"}
Waiting == {"pair", "forked", "wait", "pidfd", "quit"}
Points  == {"none", "start", "init", "hello", "loop", "close", "dead"}

Running(q) == pc[q] \notin {"none", "dead"}

\* No message in toProc is received once the process that holds the
\* receiving end is gone: the kernel frees the queue with its descriptors.
Holders(e) == {q \in Procs : e \in holds[q]}
InFlight(e) ==
    \E t \in Threads :
        /\ e = p(t)
        /\ Holders(p(Home[t])) # {}
        /\ \E i \in DOMAIN toProc[Home[t]] : toProc[Home[t]][i] = NEWSUBJAIL(t)
Open(e) == Holders(e) # {} \/ InFlight(e)

HostRuns == pc[Host] = "loop"

TypeOK ==
    /\ obj \in [Objects -> Phases]
    /\ pc \in [Procs -> Points]
    /\ holds \in [Procs -> SUBSET Ends]
    /\ filters \in [Procs -> SUBSET {"jail", "subjail"}]
    /\ toProc \in [Objects -> Seq(Messages)]
    /\ toHost \in [Threads -> BOOLEAN]
    /\ fd \in [Sandboxes -> SUBSET Threads]
    /\ reaped \subseteq Sandboxes
    /\ \A q \in Procs : ~Running(q) => holds[q] = {}

Init ==
    /\ obj = [o \in Objects |-> "none"]
    /\ pc = [q \in Procs |-> IF q = Host THEN "loop" ELSE "none"]
    /\ holds = [q \in Procs |-> {}]
    /\ filters = [q \in Procs |-> {}]
    /\ toProc = [o \in Objects |-> << >>]
    /\ toHost = [t \in Threads |-> FALSE]
    /\ fd = [s \in Sandboxes |-> {}]
    /\ reaped = {}

----------------------------------------------------------------------------
(* Steps shared by several operations. *)

\* Mutant: what a process held stays open when it ends.
DieKeeping(q) ==
    /\ pc' = [pc EXCEPT ![q] = "dead"]
    /\ filters' = [filters EXCEPT ![q] = {}]
    /\ UNCHANGED <<holds, fd>>

Die(q) ==
    /\ pc' = [pc EXCEPT ![q] = "dead"]
    /\ holds' = [holds EXCEPT ![q] = {}]
    /\ filters' = [filters EXCEPT ![q] = {}]
    /\ fd' = IF q \in Sandboxes THEN [fd EXCEPT ![q] = {}] ELSE fd

Goto(q, point) == pc' = [pc EXCEPT ![q] = point]

Becomes(o, phase) == obj' = [obj EXCEPT ![o] = phase]

HostCloses(es) == holds' = [holds EXCEPT ![Host] = @ \ es]

\* The host is not inside another operation, or has a thread to spare.
Free(o) ==
    /\ HostRuns
    /\ Parallel \/ \A other \in Objects \ {o} : obj[other] \notin Waiting

----------------------------------------------------------------------------
(* gh_sandbox_ctor: gh_ipc_ctor; fork; in the parent, close(child_sockfd)  *)
(* and a HELLO.                                                            *)

SandboxPair(s) ==
    /\ Free(s)
    /\ obj[s] = "none"
    /\ Becomes(s, "pair")
    /\ holds' = [holds EXCEPT ![Host] = @ \cup {h(s), p(s)}]
    /\ UNCHANGED <<pc, filters, toProc, toHost, fd, reaped>>

\* Mutant: the child keeps its copy of the host's end.
ChildDescriptorsKept(s) == holds[Host]

\* The child closes the parent's end and executes the jail, which inherits
\* everything else.
ChildDescriptors(s) == holds[Host] \ {h(s)}

SandboxFork(s) ==
    /\ Free(s)
    /\ obj[s] = "pair"
    /\ Becomes(s, "forked")
    /\ Goto(s, "start")
    /\ holds' = [holds EXCEPT ![s] = ChildDescriptors(s)]
    /\ UNCHANGED <<filters, toProc, toHost, fd, reaped>>

\* fork returns -1, which is taken for the pid of a child.
SandboxForkFails(s) ==
    /\ Free(s)
    /\ obj[s] = "pair"
    /\ Becomes(s, "forked")
    /\ UNCHANGED <<pc, holds, filters, toProc, toHost, fd, reaped>>

\* When the jail is gone already, gh_ipc_send fails, and sandbox->ipc stays
\* open.
SandboxHello(s) ==
    /\ HostRuns
    /\ obj[s] = "forked"
    /\ HostCloses({p(s)})
    /\ IF Holders(p(s)) \ {Host} # {}
       THEN Becomes(s, "live") /\ toProc' = [toProc EXCEPT ![s] = Append(@, HELLO)]
       ELSE Becomes(s, "failed") /\ UNCHANGED toProc
    /\ UNCHANGED <<pc, filters, toHost, fd, reaped>>

(* gh_sandbox_dtor *)

\* sandbox_requestquit.  A jail that is gone is not waited for; without a
\* child (its pid is -1) pidfd_open fails.
SandboxQuit(s) ==
    /\ Free(s)
    /\ obj[s] = "live"
    /\ IF Open(p(s)) /\ pc[s] # "none"
       THEN /\ Becomes(s, "quit")
            /\ toProc' = [toProc EXCEPT ![s] = Append(@, QUIT)]
            /\ holds' = [holds EXCEPT ![Host] = @ \cup {pidfd(s)}]
       ELSE /\ Becomes(s, "closed")
            /\ HostCloses({h(s)})
            /\ UNCHANGED toProc
    /\ UNCHANGED <<pc, filters, toHost, fd, reaped>>

\* sandbox_wait: the jail ended in time.
SandboxExited(s) ==
    /\ HostRuns
    /\ obj[s] = "quit"
    /\ pc[s] = "dead"
    /\ reaped' = reaped \cup {s}
    /\ Becomes(s, "closed")
    /\ HostCloses({h(s)})
    /\ UNCHANGED <<pc, filters, toProc, toHost, fd>>

\* sandbox_wait: GH_SANDBOX_TIMETOQUITMS are over; SIGKILL, waitid.
SandboxKill(s) ==
    /\ HostRuns
    /\ obj[s] = "quit"
    /\ Running(s)
    /\ reaped' = reaped \cup {s}
    /\ Becomes(s, "closed")
    /\ Goto(s, "dead")
    /\ holds' = [holds EXCEPT ![s] = {}, ![Host] = @ \ {h(s)}]
    /\ filters' = [filters EXCEPT ![s] = {}]
    /\ fd' = [fd EXCEPT ![s] = {}]
    /\ UNCHANGED <<toProc, toHost>>

----------------------------------------------------------------------------
(* gh_thread_ctor *)

\* NEWSUBJAIL carries the peer's end to the jail.  When the jail is gone
\* (fail_send) direct_ipc is closed and direct_peerfd is not.
ThreadOpen(t) ==
    /\ Free(t)
    /\ obj[t] = "none"
    /\ obj[Home[t]] = "live"
    /\ IF Open(p(Home[t]))
       THEN /\ Becomes(t, "wait")
            /\ toProc' = [toProc EXCEPT ![Home[t]] = Append(@, NEWSUBJAIL(t))]
            /\ holds' = [holds EXCEPT ![Host] = @ \cup {h(t), p(t)}]
       ELSE /\ Becomes(t, "failed")
            /\ holds' = [holds EXCEPT ![Host] = @ \cup {p(t)}]
            /\ UNCHANGED toProc
    /\ UNCHANGED <<pc, filters, toHost, fd, reaped>>

\* SUBJAILALIVE came: close(direct_peerfd) and a HELLO; when that fails
\* (fail_hello) the process is killed, which is gone already.
ThreadAlive(t) ==
    /\ HostRuns
    /\ obj[t] = "wait"
    /\ toHost[t]
    /\ toHost' = [toHost EXCEPT ![t] = FALSE]
    /\ IF (Holders(p(t)) \ {Host}) # {}
       THEN /\ Becomes(t, "live")
            /\ HostCloses({p(t)})
            /\ toProc' = [toProc EXCEPT ![t] = Append(@, HELLO)]
       ELSE /\ Becomes(t, "failed")
            /\ HostCloses({p(t), h(t)})
            /\ UNCHANGED toProc
    /\ UNCHANGED <<pc, filters, fd, reaped>>

\* Mutant: gh_ipc_recv with GH_IPC_NOTIMEOUT.
ThreadTimeoutNever(t) ==
    /\ FALSE
    /\ UNCHANGED vars

\* Mutant: fail_recv forgets gh_ipc_dtor.
ThreadTimeoutKeeping(t) ==
    /\ HostRuns
    /\ obj[t] = "wait"
    /\ Becomes(t, "failed")
    /\ UNCHANGED <<pc, holds, filters, toProc, toHost, fd, reaped>>

\* GH_SANDBOX_MAXWAITSUBJAILMS are over (fail_recv): direct_ipc is closed
\* and direct_peerfd is not.  The host holds the peer's end itself, so a
\* jail or subjail that dies here is noticed only by this timeout.
ThreadTimeout(t) ==
    /\ HostRuns
    /\ obj[t] = "wait"
    /\ Becomes(t, "failed")
    /\ HostCloses({h(t)})
    /\ toHost' = [toHost EXCEPT ![t] = FALSE]
    /\ UNCHANGED <<pc, filters, toProc, fd, reaped>>

(* gh_thread_dtor *)

\* thread_requestquit: a subjail that is gone is not waited for.
ThreadQuit(t) ==
    /\ Free(t)
    /\ obj[t] = "live"
    /\ IF Open(p(t))
       THEN /\ Becomes(t, "pidfd")
            /\ toProc' = [toProc EXCEPT ![t] = Append(@, QUIT)]
            /\ UNCHANGED holds
       ELSE /\ Becomes(t, "closed")
            /\ HostCloses({h(t)})
            /\ UNCHANGED toProc
    /\ UNCHANGED <<pc, filters, toHost, fd, reaped>>

\* thread_wait opens the process by its number.  The jail ignores SIGCHLD,
\* so the number is free as soon as the subjail has ended.
ThreadPidfd(t) ==
    /\ HostRuns
    /\ obj[t] = "pidfd"
    /\ IF Running(t)
       THEN /\ Becomes(t, "quit")
            /\ holds' = [holds EXCEPT ![Host] = @ \cup {pidfd(t)}]
       ELSE /\ Becomes(t, "closed")
            /\ HostCloses({h(t)})
    /\ UNCHANGED <<pc, filters, toProc, toHost, fd, reaped>>

ThreadExited(t) ==
    /\ HostRuns
    /\ obj[t] = "quit"
    /\ ~Running(t)
    /\ Becomes(t, "closed")
    /\ HostCloses({h(t)})
    /\ UNCHANGED <<pc, filters, toProc, toHost, fd, reaped>>

ThreadKill(t) ==
    /\ HostRuns
    /\ obj[t] = "quit"
    /\ Running(t)
    /\ Becomes(t, "closed")
    /\ Goto(t, "dead")
    /\ holds' = [holds EXCEPT ![t] = {}, ![Host] = @ \ {h(t)}]
    /\ filters' = [filters EXCEPT ![t] = {}]
    /\ UNCHANGED <<toProc, toHost, fd, reaped>>

----------------------------------------------------------------------------
(* The jail process. *)

\* main up to gh_jail_lockdown.
JailLockdown(s) ==
    /\ pc[s] = "start"
    /\ filters' = [filters EXCEPT ![s] = {"jail"}]
    /\ Goto(s, "hello")
    /\ UNCHANGED <<obj, holds, toProc, toHost, fd, reaped>>

\* The executable, its options or the lockdown fail: exit.
JailStartFails(s) ==
    /\ pc[s] = "start"
    /\ Die(s)
    /\ UNCHANGED <<obj, toProc, toHost, reaped>>

\* The head of a socket's queue, and the queue without it.
Receives(q, msgs) ==
    /\ toProc[q] # << >>
    /\ Head(toProc[q]) \in msgs
    /\ toProc' = [toProc EXCEPT ![q] = Tail(@)]

JailHello(s) ==
    /\ pc[s] = "hello"
    /\ Receives(s, {HELLO})
    /\ Goto(s, "loop")
    /\ UNCHANGED <<obj, holds, filters, toHost, fd, reaped>>

\* GH_IPCMSG_NEWSUBJAIL: the jail has the peer's end now, and gh_subjail_spawn
\* forks a process with all descriptors of the jail.  A failing fork goes
\* unnoticed.
JailSpawn(s) ==
    \E t \in Threads, forks \in BOOLEAN :
        /\ pc[s] = "loop"
        /\ Receives(s, {NEWSUBJAIL(t)})
        /\ fd' = [fd EXCEPT ![s] = {t}]
        /\ LET have == holds[s] \cup {p(t)}
           IN  IF forks
               THEN /\ pc' = [pc EXCEPT ![s] = "close", ![t] = "start"]
                    /\ holds' = [holds EXCEPT ![s] = have, ![t] = have]
                    /\ filters' = [filters EXCEPT ![t] = filters[s]]
               ELSE /\ Goto(s, "close")
                    /\ holds' = [holds EXCEPT ![s] = have]
                    /\ UNCHANGED filters
        /\ UNCHANGED <<obj, toHost, reaped>>

\* Mutant: message_recv leaves sockfd to the subjail.
JailCloseForgotten(s) ==
    /\ pc[s] = "close"
    /\ Goto(s, "loop")
    /\ fd' = [fd EXCEPT ![s] = {}]
    /\ UNCHANGED <<obj, holds, filters, toProc, toHost, reaped>>

\* close(sockfd) after gh_subjail_spawn.
JailClose(s) ==
    /\ pc[s] = "close"
    /\ Goto(s, "loop")
    /\ holds' = [holds EXCEPT ![s] = @ \ {p(t) : t \in fd[s]}]
    /\ fd' = [fd EXCEPT ![s] = {}]
    /\ UNCHANGED <<obj, filters, toProc, toHost, reaped>>

JailQuit(s) ==
    /\ pc[s] = "loop"
    /\ Receives(s, {QUIT})
    /\ Die(s)
    /\ UNCHANGED <<obj, toHost, reaped>>

----------------------------------------------------------------------------
(* The subjail process: gh_subjail_main. *)

\* Mutant: the child of a fork starts without filters of its own.
SubjailLockdownAlone(t) ==
    /\ pc[t] = "start"
    /\ holds' = [holds EXCEPT ![t] = @ \ {p(Home[t])}]
    /\ filters' = [filters EXCEPT ![t] = {"subjail"}]
    /\ Goto(t, "init")
    /\ UNCHANGED <<obj, toProc, toHost, fd, reaped>>

\* The copy of the jail's own socket is closed, then the second filter is
\* installed.
SubjailLockdown(t) ==
    /\ pc[t] = "start"
    /\ holds' = [holds EXCEPT ![t] = @ \ {p(Home[t])}]
    /\ filters' = [filters EXCEPT ![t] = @ \cup {"subjail"}]
    /\ Goto(t, "init")
    /\ UNCHANGED <<obj, toProc, toHost, fd, reaped>>

\* lua_init and SUBJAILALIVE, which fails when the host has given up.
SubjailInit(t) ==
    /\ pc[t] = "init"
    /\ IF Open(h(t))
       THEN /\ toHost' = [toHost EXCEPT ![t] = TRUE]
            /\ Goto(t, "hello")
            /\ UNCHANGED <<holds, filters, fd>>
       ELSE /\ Die(t)
            /\ UNCHANGED toHost
    /\ UNCHANGED <<obj, toProc, reaped>>

\* lua_init fails: exit code 1.
SubjailInitFails(t) ==
    /\ pc[t] = "init"
    /\ Die(t)
    /\ UNCHANGED <<obj, toProc, toHost, reaped>>

SubjailHello(t) ==
    /\ pc[t] = "hello"
    /\ Receives(t, {HELLO})
    /\ Goto(t, "loop")
    /\ UNCHANGED <<obj, holds, filters, toHost, fd, reaped>>

SubjailQuit(t) ==
    /\ pc[t] = "loop"
    /\ Receives(t, {QUIT})
    /\ Die(t)
    /\ UNCHANGED <<obj, toHost, reaped>>

----------------------------------------------------------------------------
(* Both kinds of process. *)

\* gh_ipc_recv sees the end of the stream: exit.
Hangup(o) ==
    /\ pc[o] \in {"hello", "loop"}
    /\ toProc[o] = << >>
    /\ ~Open(h(o))
    /\ Die(o)
    /\ UNCHANGED <<obj, toProc, toHost, reaped>>

\* GH_JAIL_HELLOTIMEOUTMS are over before a HELLO: exit.
HelloTimeout(o) ==
    /\ pc[o] = "hello"
    /\ toProc[o] = << >>
    /\ Die(o)
    /\ UNCHANGED <<obj, toProc, toHost, reaped>>

Crash(o) ==
    /\ Crashes
    /\ Running(o)
    /\ Die(o)
    /\ UNCHANGED <<obj, toProc, toHost, reaped>>

\* The application ends or crashes: its objects are gone with it.
HostEnds ==
    /\ HostRuns
    /\ Die(Host)
    /\ obj' = [o \in Objects |-> "none"]
    /\ toHost' = [t \in Threads |-> FALSE]
    /\ reaped' = {}
    /\ UNCHANGED toProc

HostNext(o) ==
    \/ o \in Sandboxes /\
       \/ SandboxFork(o) \/ SandboxForkFails(o) \/ SandboxHello(o)
       \/ SandboxExited(o) \/ SandboxKill(o)
    \/ o \in Threads /\
       \/ ThreadAlive(o) \/ ThreadTimeout(o) \/ ThreadPidfd(o)
       \/ ThreadExited(o) \/ ThreadKill(o)

ProcNext(o) ==
    \/ o \in Sandboxes /\
       \/ JailLockdown(o) \/ JailStartFails(o) \/ JailHello(o)
       \/ JailSpawn(o) \/ JailClose(o) \/ JailQuit(o)
    \/ o \in Threads /\
       \/ SubjailLockdown(o) \/ SubjailInit(o) \/ SubjailInitFails(o)
       \/ SubjailHello(o) \/ SubjailQuit(o)
    \/ Hangup(o)
    \/ HelloTimeout(o)

Next ==
    \/ \E s \in Sandboxes : SandboxPair(s) \/ SandboxQuit(s)
    \/ \E t \in Threads : ThreadOpen(t) \/ ThreadQuit(t)
    \/ \E o \in Objects : HostNext(o) \/ ProcNext(o) \/ Crash(o)
    \/ HostEnds

Spec == Init /\ [][Next]_vars

\* Both sides are straight-line code between blocking calls, and poll ends
\* after its timeout.  Scripts end.  Opening and closing is up to the
\* application; failures and crashes need not happen.
FairSpec ==
    /\ Spec
    /\ \A o \in Objects : WF_vars(HostNext(o)) /\ WF_vars(ProcNext(o))

----------------------------------------------------------------------------
(* Properties *)

\* A constructed object's peer end is held by its own process only, except
\* for the moment between the jail's fork and the close that follows it in
\* the jail (of the subjail's socket) and in the new subjail (of the jail's).
\* So when the process of the object dies, the host's next gh_ipc_send or
\* gh_ipc_recv reports GHR_IPC_PEERSHUTDOWN instead of waiting for ever.
DeathIsSeen ==
    \A o \in Objects :
        obj[o] \in {"live", "pidfd", "quit"} =>
            \A q \in Holders(p(o)) \ {o} :
                \/ q \in Sandboxes /\ o \in fd[q]
                \/ q \in Threads /\ pc[q] = "start" /\ Home[q] = o

\* The host's descriptors are those of the objects in use, and what the
\* constructors and destructors are known to leave behind: direct_peerfd of a
\* gh_thread_ctor that failed before its close, the socket of a gh_sandbox_ctor
\* whose HELLO failed, and the pidfd of every destructor that waited.
HostLedger ==
    HostRuns =>
        /\ {o \in Objects : h(o) \in holds[Host]} =
              {o \in Objects : obj[o] \in Waiting \cup {"live"}}
                \cup {s \in Sandboxes : obj[s] = "failed"}
        /\ {o \in Objects : p(o) \in holds[Host]} \subseteq
              {o \in Objects : obj[o] \in {"pair", "forked", "wait"}}
                \cup {t \in Threads : obj[t] = "failed"}
        /\ {o \in Objects : pidfd(o) \in holds[Host]} \subseteq
              {o \in Objects : obj[o] \in {"quit", "closed"}}

\* In every process and at every moment the filters in force decide as their
\* lists read: each jump of gh_jail_lockdown's and gh_subjail_lockdown's
\* programs lands where it should, for every call and argument.
LockdownExact ==
    \A q \in Objects : \A f \in filters[q] : ListIsEnforced[f]

\* A jail handles messages only under its filter, and a subjail runs Lua only under both:
\* it inherits the first one from the jail that forked it, and installs the second one
\* before anything else.  A jail has no filter before that, or could not set itself up.
FiltersInForce ==
    /\ \A s \in Sandboxes :
          /\ pc[s] \in {"none", "start"} => filters[s] = {}
          /\ pc[s] \in {"hello", "loop", "close"} => filters[s] = {"jail"}
    /\ \A t \in Threads :
          /\ pc[t] = "start" => filters[t] = {"jail"}
          /\ pc[t] \in {"init", "hello", "loop"} => filters[t] = {"jail", "subjail"}

\* What each process does before its next blocking call; the rest of the
\* C library and LuaJIT are not listed.
JailCalls ==
    [start |-> {"read", "prctl", "seccomp"},
     hello |-> {"poll", "recvmsg", "exit_group"},
     loop  |-> {"recvmsg", "getpid", "clone", "set_robust_list", "exit_group"},
     close |-> {"close", "write"}]
SubjailCalls ==
    [start |-> {"close", "seccomp", "write"},
     init  |-> {"mmap", "mprotect", "munmap", "brk", "getpid", "sendmsg"},
     hello |-> {"poll", "recvmsg", "exit_group"},
     loop  |-> {"sendmsg", "recvmsg", "exit_group", "mremap", "ftruncate", "msync",
                "fsync", "lseek", "read", "write", "fstat", "futex", "close"}]

\* No process makes a system call that a filter already in force would kill it
\* for: the lockdowns come after the last call that needs more, and the second
\* filter can be installed under the first.
CallsPermitted ==
    /\ \A s \in Sandboxes : pc[s] \in DOMAIN JailCalls =>
          \A f \in filters[s] : JailCalls[pc[s]] \subseteq Permitted[f]
    /\ \A t \in Threads : pc[t] \in DOMAIN SubjailCalls =>
          \A f \in filters[t] : SubjailCalls[pc[t]] \subseteq Permitted[f]

\* Constructors and destructors return, whatever the processes do.
CtorDtorReturn ==
    \A o \in Objects : obj[o] \in Waiting ~> (obj[o] \notin Waiting \/ ~HostRuns)

\* When the host ends, every jail and subjail ends, although each holds copies
\* of host ends that it inherited from the host or from its jail.
HostDeathEndsAll ==
    ~HostRuns ~> \A q \in Procs : ~Running(q)

\* Stated and not checked by a run; see the README.  A destroyed sandbox
\* leaves no zombie behind.
NoZombie == \A s \in Sandboxes : obj[s] = "closed" => s \in reaped
=============================================================================
