# Verification of libghost in TLA+

libghost embeds Lua scripts in a C application and runs them in separate, locked-down
processes. This directory holds TLA+ models of its core, the TLC configurations that check
them on small instances, and TLAPS proofs of the results that hold for every instance.

Paths such as `ghost/thread.c` are below `src/src/`; headers are below `src/include/`.

## 1. The system

The application (the *host*) creates a `gh_sandbox`, which starts the *jail* process. For
each `gh_thread` the jail forks a *subjail*, which runs one LuaJIT state and listens on a
`SOCK_SEQPACKET` socket pair. Host and subjail exchange fixed-format messages: the host
sends work (`LUASTRING`, `LUAFILE`, `LUACALL`, `LUAHOSTVARIABLE`, `QUIT`), the subjail answers
with `LUAINFO` (a script id) and `LUARESULT`, and while a script runs it may call host functions
(`FUNCTIONCALL` / `FUNCTIONRETURN`). Host functions that touch files or start programs ask the
thread's permission handlers first, which may ask the user and remember the answer.

| Component | Source | State | Operations | Talks to |
|---|---|---|---|---|
| Session, host side | `ghost/thread.c`, `thread.h` | socket, pid, script ids told to the application | `runstring[sync]`, `runfile[sync]`, `set*`, `setstringtable`, `call`, `process`, `dtor` | subjail by messages; RPC registry by calls |
| Session, subjail side | `jail/subjail.c` | Lua state, `gh_global_script_idx` | message loop, execute, call, `gh_ipc_call` | host by messages |
| IPC transport | `ghost/ipc.c` | socket | `send`, `recv` with timeout, `call` | both |
| RPC registry | `ghost/rpc.c` | function array, reference count, one global mutex, one mutex per function | `register`, `newframefrommsg`, `callframe`, `respondtomsg`, `disposeframe` | shared by all threads of the application |
| Call frames, shared memory | `ghost/fdmem.c`, `ghost/thread.c`, `jail/subjail.c` | a memory file, one mapping per process, argument pointers | `new`, `sync`, `seal`, `realptr`, `virtptr`, `callframe_*` | both processes map one file |
| permfs | `ghost/perms/permfs.c` | list of (path, self modes, children modes) | `add`, `getmode`, `gatefile`, `requestnode`, parse, write | prompter, policy file |
| permexec | `ghost/perms/permexec.c`, `ghost/stdlib.c` | list of (hash, mode) | `gate`, parse, write, `gh_std_execute` | prompter, policy file |
| Policy file | `ghost/perms/parser.c`, `writer.c`, `perms.c` | text, registered generic permission systems | `gh_perms_readfd`, `gh_perms_readbuffer`, `gh_perms_write`, `gh_perms_registergeneric` | all handlers |
| Prompter | `ghost/perms/prompt.c` | none | ask the user | terminal |
| Containers | `dynamic_array.c`, `flexible_list.c`, `byte_buffer.c` | buffers | append, grow, remove, iterate | everyone |
| Sandbox and jail | `ghost/sandbox.c`, `jail/jail.c` | processes, sockets, descriptors | `gh_sandbox_ctor`, fork subjail, quit, wait, kill | subjails |
| Seccomp filters | `jail/jail.c`, `jail/subjail.c` | one or two BPF programs per process | lockdown | kernel |
| procfd, pathfd | `ghost/perms/procfd.c`, `pathfd.c` | descriptors, a path buffer | open, canonical path, reopen | kernel |
| Standard library | `ghost/stdlib.c` | none of its own; the process's descriptors | open, opentemp, rename, remove, fsrequest, fshas, execute, popen | scripts by RPC; permission handlers; kernel |
| Type system, allocator, strings, embedded jail, LuaJIT glue | remaining files | small or none | registration, formatting, plumbing | - |

What is hard about it:

* *Order of messages.* No message names the operation it belongs to, apart from the script
  id, which the host learns from the first `LUAINFO` it happens to read. A late, doubled or
  missing message shifts every later pairing.
* *Timeouts and death.* The host gives up after 1000 ms without `LUAINFO`, or after
  `default_timeout_ms`; the subjail may die between any two messages; a script may wait for
  an answer that the host failed to produce; `QUIT` may arrive in the middle of a call.
* *Threads.* Sessions on several operating-system threads share the function array, which
  moves when it grows, and mutexes around host functions.
* *Two mappings of one file.* Either process may grow the file that carries a call's
  arguments and result; the host must not read the result while the other can still write.
* *Long histories.* A policy is the sum of loaded files and remembered answers; whether a
  decision still stands depends on the order in which entries came and on lookup rules.
* *Persistence.* Policies are written, possibly torn, and read by a later process.
* *Processes and descriptors.* Sockets are inherited by every fork and travel inside messages;
  who still holds an end decides whether a death is noticed at all.
* *Check, then use.* A path is checked, perhaps with a prompt in between, and used afterwards,
  while other processes rename and replace what it names and other sessions open and close
  descriptors in the same table.

## 2. Modules

| Module | Models | Extends / instantiates |
|---|---|---|
| `Session` | one `gh_thread` and its subjail | instantiates `ScriptService` |
| `ScriptService` | what `gh_thread` promises: each submitted operation is answered at most once, with its own result | |
| `SessionProofs` | proofs about `Session` | |
| `RpcRegistry` | function registry shared by several sessions | |
| `RpcRegistryProofs` | proofs about `RpcRegistry` | |
| `CallFrame`, `MCCallFrame` | arguments and results in shared memory | |
| `CallFrameProofs` | proofs about `CallFrame` | |
| `PermFS`, `MCPermFS` | filesystem policy, gate, requests, prompts | |
| `PermFSProofs` | proofs about `PermFS` | |
| `PermExec`, `MCPermExec` | program policy, gate, saved policy | |
| `PermExecProofs` | proofs about `PermExec` | |
| `Seccomp` | the two filters as BPF programs, and an interpreter | |
| `Lifecycle`, `MCLifecycle` | processes, sockets, start-up and shutdown of sandboxes and threads | extends `Seccomp` |
| `LifecycleProofs` | proofs about `Lifecycle` | |
| `PolicyFile`, `MCPolicyFile` | text of the policy file, parser, writer, saves and loads | |
| `PolicyReader` | what the proofs about `PolicyFile` speak of: reading as one machine, the meaning of a text, the invariant | extends `PolicyFile` |
| `PolicyFileProofs` | proofs about `PolicyFile` | extends `PolicyReader` |
| `StdFs`, `MCStdFs` | the standard library's functions, PathFDs, the descriptor table | |
| `StdFsProofs` | proofs about `StdFs` | |

Definitions whose comment begins with "Mutant" or "A mutant" are deliberately wrong
versions of the definition that follows them; no specification uses them. Each one shows
that a property notices a plausible mistake in the code.

### Session

The host is a program counter `hpc` (`idle`, `info` while it waits for `LUAINFO`, `sync` in
`thread_syncscript`, `process` in `gh_thread_process`, `next` between the entries of a string
table, `wait` in `thread_wait`, `closed`); the subjail is `spc`. Each direction of the socket is
a sequence of messages. One action stands for one handler or for one blocking call with the
code up to the next one. The field `req` of a message is a history value that says which
operation caused it; no guard reads it. BOOLEAN constants switch on what the environment may
do: scripts that do not compile (`LoadErrors`), the two timeouts, failures while a call frame
is set up or answered (`RpcFaults`), death of the subjail, failing `poll`, an application that
destroys the thread while a script still runs (`QuitBusy`). `Careful` is the
discipline of the application: it starts an operation only while no asynchronous script is
outstanding and none of its operations has failed. Message contents, script text and error
texts are left out; a script does some calls and ends with success or an error.

`ScriptService` is the promise to the application. `Session` implements it (`ServiceSpec`) under
`submitted <- req`, `open <-` the operations the application still waits for, `reply <-` what the
last operation returned.

### RpcRegistry

Sessions are model values. Registration is split where the code is: the check of the
reference count, the append (which may move the array and so bumps its generation), and the
initialisation of the function's mutex. A dispatched call holds the index and the
generation of the function it found; the two mutex kinds are owner variables. `Overlap` says
whether the application may register functions while a thread is being constructed
(`"ctor"`) or destroyed (`"quit"`), where the reference count does not cover it.

### CallFrame

The memory file is a function from offsets to cells plus the seal; each process has its
`gh_fdmem` (`data`, `size`, `occupied`) and, separately, the mappings the kernel really gave it. A
`gh_variant` is `Header` cells and one cell per character, so block sizes, growth by doubling,
pointers that are off by one, and what `strncpy` does to a null byte are all visible. `Movers`
names the processes whose mappings `mremap` may have to move. The kernel's rules (a seal is
refused while a writable mapping exists, a sealed file can be neither grown nor mapped for
writing, `munmap` of nothing succeeds) are external definitions. A call that fails leaves the frame
`timedout` (the host gave up; its memory is as it was) or `unmapped` (`gh_fdmem_sync` or `gh_fdmem_seal` failed after its
`munmap`; `data` and `size` keep their old values). The application may go on to add arguments to it, as
`gh_thread_callframe_*` allow, and a process that writes where nothing is mapped or past the end of the file has `crashed`.
`gh_fdmem_new` and the writes of its caller are one step. Another call with a failed frame is not modelled.

### PermFS and PermExec

Paths are sequences of components, modes sets of flags. A prompt splits a gate into two
steps; in between the question is on screen. `decided` collects what the user asked to be
remembered. `PermFS!Lookup` is the loop of `gh_permfs_getmode`; `SelfModeset` and
`ChildrenModeset` are its closed form, which the proofs use, and `LookupIsUnion` (proved) says that
they agree. In `PermExec` a hash stands for an executable with its arguments, and the policy file is
a sequence of lines that keep the kind of token the writer printed. `Restart` is a new process that
reads the file; `RestartInSave` leaves the file torn.

### Lifecycle and Seccomp

Every sandbox and thread is an object with a phase (how far its constructor or destructor
has come) and a process with a program counter. `holds` says which process has which end of which
socket pair open; `fork` copies the set, a `NEWSUBJAIL` message carries one end. A process sees the
end of the stream only when nobody holds the other end, in a process or in a message. The jail's
step from the fork to `close(sockfd)` is split, so that a crash in between is possible.
Constructors and destructors block the application (`Free`), unless `Parallel` lets its threads run them side
by side. `Seccomp` has both filters instruction by instruction, with the jump offsets of the
source, and the kernel's interpreter: `Execute` is one instruction, `Run` its repetition. Jumps only lead
forward, so a program has ended after as many steps as it has instructions. `Listed` and `Unnamed` are what
the lists are meant to say. A process in
`Lifecycle` carries the names of the filters in force, and `JailCalls` and `SubjailCalls` say which system calls
it makes at each point.

### PolicyFile

A text is a sequence of cells: words, braces, quotes. `Text` is what `gh_perms_write` prints for the
policy in memory, `Tokens` and `ParseStep` are the lexer and the grammar with the callbacks of the
filesystem, exec and generic resources, and `Load` parses the file into the policy in memory, up to
the first error. How the application opens the file for saving (`habit`) matters: truncated, over
the old text, or on the descriptor it was read from, where writing starts at the end.
`RestartInSave` leaves any prefix of the new text, perhaps with half a word. `written` and `whole` are
history: whose policies the cells in the file come from. So is `damaged`, the set of things that saves have done to the
file: a crash that leaves the rest of an older text behind part of the new one (`torn`), and saves that report success
and leave the rest of a longer text (`remains`), null bytes in front (`gap`) or a path without one of its cells
(`dropped`).

### StdFs

Threads make calls side by side. A call is a record: which descriptors it has open, which it will
close on its error path, what it was granted (`gates`), what it did (`access`). A step is one system
call. The kernel's part is external: directories have locations, nodes have a name in a
directory, the lowest free descriptor is given out, other processes create, remove and move.
`Granted` keeps the node or the directory and name that the user was asked about, and the path shown.
Whether a request is granted is left open; that is the subject of `PermFS` and `PermExec`.
A descriptor that no path of the code closes any more is marked `nobody`, with the place where it was lost.
`gh_std_unlinkat` closes the PathFD also when it could not open it, which closes descriptor 0: of the application, of
a call on another thread, or nothing, if the application runs with descriptor 0 closed (`AppFds`). The history value
`robbed` marks a call whose descriptor was closed in this way while the call still uses it.

## 3. Runs

Passing runs (finished by TLC without an error):

| Run | What it shows | Bounds, and why they suffice |
|---|---|---|
| `session_nominal` | Without faults the exchange is clean: the sockets are empty between operations and calls get their own answer, which they all get | 3 operations, 2 calls, tables of 2: a leftover of one operation has two later ones to disturb |
| `session_careful` | With every fault, a careful application never gets another operation's result (`ResultIsOwn`; the invariant `Handshake` explains it and is proved); operations and the destructor return; `ServiceSpec` | 3 operations, 1 call: the first may fail in each way, and asynchronous scripts overlap the destructor. `MaxTable = 1` |
| `rpc_shared` | Frames point to live functions, some call always completes | 2 sessions, 2 names, capacity 1 growing to 2, 3 calls: one growth and one contention of each kind |
| `frame_call` | Arguments and results arrive, the seal is never refused, and no process writes where nothing is mapped unless a call with the frame has failed before (`FaultsFollowFailure`), as long as mappings grow in place | Initial capacity 4 cells, page 8: blocks of 2, 3, 7 and 8 cells grow the file zero to two times on either side; 3 attempts for 2 parameters, also after a failure; 2 calls with one frame |
| `permfs_policy` | Lookup equals its closed form, a remembered rejection is never granted, a prompt shows what it grants or the flags of a prompt rule that applies (`GrantsWereShown`), the policy only grows | A directory, a file in it, a socket; 2 flags; 3 operations; 2 rules, of which one accepts and rejects and one leaves a flag to the prompter |
| `permexec_policy` | No remembered decision is reversed, no restart accepts more than the written policy | 2 programs, 4 policy files, 3 descriptors, 5 operations including saves, restarts and crashes |
| `lifecycle_shutdown` | The host learns of every death (`DeathIsSeen`); its descriptors are those of the objects in use plus the three known leaks (`HostLedger`); no jail handles a message and no subjail runs Lua before its filters are in force (`FiltersInForce`); the filters decide as their lists read and permit what each process does (`LockdownExact`, `CallsPermitted`); constructors and destructors return; when the host ends, all processes end | 2 sandboxes, a thread in each: the second jail is forked while the host holds the ends of the first pair. Every process may crash at every step. All listed calls, some unlisted ones, three values of the argument |
| `policyfile_reload` | A saved policy is loaded as it was, or refused (`RoundTrip`); after a crash a load brings in nothing that was not written, and one that succeeds has each block whole or not at all (`LoadsWhatWasWritten`); nothing is taken out of the policy in memory (`PolicyKept`). The files left out are those that `damaged` describes | 2 paths of 1 and 2 cells, so that one is a prefix of the other; 2 rules, 1 program, 1 generic key; 4 additions and saves, with a restart, a failing write or a crash anywhere, in each of the three ways of opening the file; loads as often as one likes. One flag: the writer treats each flag alike. The faults `drop` and `retry` are left to the theorems |
| `stdfs_calls` | What `ghost.open` returns is the node that was asked about (`OpenedIsGated`); nothing is done or changed that was not granted (`AccessIsGated`, `ChangesAreGated`); the one way to close a descriptor of somebody else is descriptor 0 after a `ghost.remove` without a directory (`OwnedOnly`); descriptors are lost in known places only (`LostKnown`) | 2 threads, 2 calls, 2 directories, 3 locations, 2 files, 2 changes by other processes: the name can be taken away and given to another node between check and use. 5 descriptors of which the application has none or 3, so that the table fills up at every step and descriptor 0 may belong to a call. All kinds of flags, `O_RDONLY \| O_TRUNC` included |

Several of these properties name what the code does not keep, and show that there is nothing else:
`OwnedOnly` names the descriptor 0 that `ghost.remove` closes, `AccessIsGated` the truncation and `ghost.opentemp`,
`ChangesAreGated` `ghost.opentemp`, `LostKnown` and `HostLedger` the known leaks, `GrantsWereShown` the prompt rules,
`FaultsFollowFailure` the failed frame. `OpenedIsGated` and `ChangesAreGated` say nothing of a call that was robbed. The
properties without the exceptions are in the table of disagreements below. `rpc_shared` is a run for applications that do
not register functions while a thread is constructed or destroyed (`Overlap = {}`).

Deadlock is checked in the `session_*`, `rpc_*` and `permfs_*` passing runs, where finished
behaviours stutter in an explicit `Done` step. The other models simply end (the frame is
destroyed, all objects have been closed, the operations are used up) and say
`CHECK_DEADLOCK FALSE`.

Runs in which the code does not do what its documentation says; each checks one property and
TLC shows the shortest way to break it (`PROJECT.json`, "findings", quotes the text):

| Run | What happens |
|---|---|
| `session_loaderror` | A script that does not compile yields two `LUARESULT`s; the next operation reads the second where it expects `LUAINFO` and fails |
| `frame_move` | `ipcfdmem_resize` drops the address that `mremap` returns |
| `stdfs_longpath` | `gh_procfd_fdpathctor` enlarges its buffer and does not read the link again: a path of 128 bytes and more comes out empty |

Other disagreements met while modelling are stated in the modules but have no run of their
own. Each shows up when its property is checked with the constants given here:

| Property | Constants | What happens |
|---|---|---|
| `Session!TableIsComplete` | `MaxTable = 2`, no faults | `gh_thread_setstringtable` reports only the last entry's result |
| `Session!ResultIsOwn` | `MaxReq = 2`, `InfoTimeouts = TRUE`, `Careful = FALSE` | after a `LUAINFO` timeout the next operation is paired with the late answer of the earlier one (`thread.h:197`) |
| `RpcRegistry!FramesStayValid` | `Overlap = {"quit"}` | the destructor drops its reference before it dispatches the last calls, so registration may move the array under them (`gh_error.csv:138`) |
| `Session!CallIsAnswered` | `RpcFaults = TRUE` | a failure while a call frame is set up or its result copied leaves the script waiting |
| `CallFrame!NoFault` | those of `frame_call` | after a failing `gh_fdmem_sync` or `gh_fdmem_seal`, or in a file that the other process has cut short, the next argument is written to memory that is gone (`fdmem.c:114`, `thread.c:464`) |
| `CallFrame!ReturnArrives` | `Strings <- ZeroStrings` | strings are copied with `strncpy`: what follows a null byte is lost |
| `CallFrame!StringIsReadable` | `Strings <- EndStrings` | `gh_thread_callframe_getstring` fails for a string that ends in a null byte |
| `PermFS!GrantsWereListed` | `Rules <- MixedRules` | with a prompt rule, the prompt lists the rule's flags and grants the requested ones |
| `PermFS!NoPromptForRejected` | `Paths <- DeepPaths`, `Rules <- BelowRules` | a directory entry overwrites the children modes collected before it |
| `PermFS!RememberedBelow` | `Paths <- DeepPaths`, `Odd = {}`, `Rules <- BelowRules` | a remembered answer about the nodes below an existing entry lands in the entry's own modes (`permfs.h:158`) |
| `PermExec!SavedIsReadable` | `Files = {}`, `Faults = {}`, `MaxFds = 2` | rejections are saved as strings and read as identifiers: a policy with one is saved with success and refused by the next load |
| `PermExec!DecisionsObeyed` | `Files <- PromptFiles` | a remembered answer is appended behind the prompt entry that asked, and never found |
| `PermExec!EnvIsFiltered` | any | `allowed_env` filters the prompt and not the program's environment |
| `PermExec!AcceptedRuns` | no faults | every gate leaks a descriptor until accepted programs are refused |
| `Lifecycle!DeathIsSeen`, `HostDeathEndsAll` | `Parallel = TRUE` | a jail forked while another thread is inside a constructor inherits an end that its owner closes a moment later: a death goes unnoticed, and processes keep each other alive |
| `Lifecycle!NoZombie` | any | `sandbox_requestquit` returns without waiting when the jail is gone already |
| `PolicyFile!RoundTrip` without its condition on `damaged` | `Faults = {"retry"}` | after the emergency `ftruncate` the offset is not reset: a second attempt on the same descriptor leaves null bytes in front |
| `PolicyFile!LoadsWhatWasWritten`, likewise | `Faults = {"drop"}` | `gh_permwriter_beginentry` ignores the result of writing the path (`writer.c:64`): another path is saved |
| `PolicyFile!LoadsWhatWasWritten`, likewise | `CrashIn = {"over"}` | written over a longer text without `O_TRUNC`, as the examples do, a crash leaves a mixture that loads |
| `PolicyFile!RoundTrip` | `Paths <- QuotedPathSet` | `permwriter_writeescaped` escapes nothing |
| `StdFs!ClosesItsOwn` | any | `gh_std_unlinkat` closes the PathFD it could not open, that is, descriptor 0 |
| `StdFs!OpenedIsGated` | `Nodes = {f, g, link}`, `Links = {link}` | a symbolic link that appears under a missing name between check and use is followed |
| `StdFs!TruncationIsGated` | `OpenFlags <- AllFlags` | `O_TRUNC` is dropped from the question and kept in the call |
| `StdFs!TempIsGated` | `TempFlags <- ReadOnlyTemporaryFlags`, also `TemporaryFlags` | `gh_std_opentemp` opens by name with `O_RDWR \| O_CREAT`, whatever was asked |

### Fairness

`Session!FairSpec` assumes weak fairness of the host's steps within an operation and of the
subjail's steps. Both are single-threaded straight-line code between blocking calls, so an
enabled step is taken eventually; starting operations is up to the application and not
fair. Timeouts, crashes and failures are not assumed to happen, except that `thread_wait`'s
grace period ends: it is a bounded `poll`. A Lua script that never ends is outside these
runs: each script makes at most `MaxRpc` calls and stops, which is the one assumption the
code cannot enforce. `RpcRegistry!FairSpec` assumes that host functions return and that a free
mutex is given to some waiter, not to a particular one, as POSIX mutexes do.
`NoStall` accordingly promises that some call completes, not that each does.
`Lifecycle!FairSpec` assumes weak fairness of what the host does inside a constructor or destructor and of
each process: straight-line code between blocking calls, and each `poll` ends after its timeout. Scripts
end. Opening and closing objects, crashes and the end of the host are not fair. `PolicyFile` and
`StdFs` are checked for safety only and state no fairness.

## 4. Proofs

All proofs are checked by TLAPS with SMT, Zenon and, for the last step, PTL. A statement below
stands under the assumptions on the constants that its module makes by name (bounds are natural
numbers, switches Booleans) and those in the last column.

| Theorem | Statement | Further assumptions |
|---|---|---|
| `SessionProofs!TypeCorrect` | `Spec => []TypeOK` | |
| `SessionProofs!OwnResults` | `Spec => [](ResultIsOwn /\ Handshake)` | `Careful`, `MaxTable <= 1` |
| `SessionProofs!ServiceRefined` | `Spec => ServiceSpec` | `Careful`, `MaxTable <= 1` |
| `SessionProofs!NominalExchange` | `Spec => [](ReturnIsOwn /\ QuiescentWhenIdle /\ CallIsAnswered /\ LuaErrorsStayInStatus)` | `Faultless` |
| `SessionProofs!QuietBetween`, `CallsAreAnswered` | its parts `QuiescentWhenIdle` and `CallIsAnswered` | `Faultless` |
| `RpcRegistryProofs!RegistryTyped` | `Spec => [](TypeOK /\ RefsExact)` | |
| `RpcRegistryProofs!SharedCalls` | `Spec => [](MutexExclusion /\ FramesStayValid)` | `Overlap = {}` |
| `CallFrameProofs!FrameTyped` | `Spec => []TypeOK` | `Movers = {}`, `CStrings` |
| `CallFrameProofs!ArgumentsArrive` | `Spec => []ArgsArrive` | the same |
| `CallFrameProofs!ValueArrives` | `Spec => []ReturnArrives` | the same |
| `CallFrameProofs!WritesAreMapped` | `Spec => FaultsFollowFailure` | the same |
| `CallFrameProofs!SealIsGiven` | `Spec => []SealAlone` | the same |
| `PermFSProofs!PolicyTyped` | `Spec => []TypeOK` | |
| `PermFSProofs!OneEntry` | `Spec => []OneEntryPerPath` | |
| `PermFSProofs!OnlyGrows` | `Spec => PolicyOnlyGrows` | |
| `PermFSProofs!DecisionsStand` | `Spec => [](Remembered /\ NoGrantAfterReject /\ NeverAskedAgain)` | |
| `PermFSProofs!LoopIsUnion` | `Spec => []LookupIsUnion` | |
| `PermFSProofs!GrantsShown` | `Spec => []GrantsWereShown` | |
| `PermExecProofs!ExecTyped` | `Spec => []TypeOK` | |
| `PermExecProofs!DecisionsStay` | `Spec => []DecisionsNotReversed` | |
| `PermExecProofs!NoEscalation` | `Spec => RestartNeverEscalates` | `DefaultMode # "ACCEPT"` |
| `LifecycleProofs!LifecycleTyped` | `Spec => []TypeOK` | |
| `LifecycleProofs!Confined` | `Spec => []FiltersInForce` | |
| `LifecycleProofs!LedgerHolds` | `Spec => []HostLedger` | |
| `LifecycleProofs!DeathsAreSeen` | `Spec => []DeathIsSeen` | `~Parallel` |
| `LifecycleProofs!FiltersDecide` | the verdicts of both filters, for every system call number and argument | |
| `LifecycleProofs!ListsDecide` | `Spec => []LockdownExact` | |
| `LifecycleProofs!NotKilledByFilters` | `Spec => []CallsPermitted` | |
| `PolicyFileProofs!FileTyped` | `Spec => []TypeOK` | |
| `PolicyFileProofs!NothingTakenOut` | `Spec => PolicyKept` | |
| `PolicyFileProofs!WrittenPolicyLoads` | `Spec => RoundTrip` | `PlainNames`, `OpenModes \subseteq {"trunc", "same"}` |
| `PolicyFileProofs!NothingLoadedUnwritten` | `Spec => LoadsWhatWasWritten` | `PlainNames` |
| `StdFsProofs!StdFsTyped` | `Spec => []TypeOK` | |
| `StdFsProofs!LossesKnown` | `Spec => []LostKnown` | |
| `StdFsProofs!OwnDescriptors` | `Spec => OwnedOnly` | |
| `StdFsProofs!ChangesAsked` | `Spec => ChangesAreGated` | |
| `StdFsProofs!OpenedAsked` | `Spec => []OpenedIsGated` | `Links = {}` |
| `StdFsProofs!AccessAsked` | `Spec => []AccessIsGated` | |

They hold for any number of operations, calls, sessions, functions, paths, flags, rules,
processes and descriptors, and for every combination of faults that the last column leaves
open. Each assumption there that restricts the environment is needed:
sections 3 and 5 say what happens without it: `Careful` and `MaxTable` (late answers, string tables), `Overlap`,
`Movers` and `CStrings` (strings without null bytes), `DefaultMode`, `~Parallel`, `Links`,
`PlainNames` (no path, flag, program or key has a quote, a backslash or a null byte, none of which the writer escapes,
or is the word `generic`). The exception is the assumption on `OpenModes` of `WrittenPolicyLoads`: the run
`policyfile_reload` also has the application that writes over the old text, and the proof does not.
`Faultless` is `Careful` without load errors, timeouts, RPC failures, crashes, failing `poll` and early
destruction; tables may have any length.

The arguments, and why the property alone does not carry them:

* `OwnResults`. `ResultIsOwn` alone is not inductive: a `LUARESULT` in transit may belong to
  anyone. `Handshake` says what is in the two sockets in each phase of an operation: nothing
  that could be mistaken before it starts; its own request or its own `LUAINFO`, never both,
  while it waits; and after that only results with its id. The proof shows for the
  subjail's steps, the start of an operation and the host's other steps that they keep it.
  `MaxTable <= 1` because the entries of a longer table are sent after a failed one.
* `ServiceRefined`. The refinement mapping is the one of section 2. `Numbered` (only requests that
  were made are under way or executed) and `Answered` (what the host waits for is not executed before the subjail
  takes it up, and its result follows its `LUAINFO`) are added to `Handshake`; then the initial states
  map to initial states, and each action maps to one service step or to none.
* `NominalExchange`. `Phases` fixes, for each place of the host's program, where the subjail
  is and what the two queues contain. The host's and the subjail's actions then move from phase to phase; the
  only choice left is whether the script calls again or ends.
* `SharedCalls`. The strengthening says that a frame in use belongs to an open session, that an
  open session is counted, that a registration past its check found the count zero, and that
  whoever runs a function owns the mutex its mode requires. `Overlap = {}` is the discipline that
  the code does not enforce.
* The theorems about `CallFrame` share one invariant: the shape of the file and of the two processes'
  views of it, one call at a time, what each process takes for occupied is mapped and in the file (`Sizes`,
  `Mapped`), the seal and the writable mappings exclude each other (`Sealing`), and the blocks of
  the arguments and of the value lie where the pointers say (`ArgsStored`, `ValueStored`). That is `UseInv`, which holds
  while no call has failed. After a failed call the two processes no longer take turns, and `LateInv` says what is
  left of it: the host's memory is mapped if it timed out and gone if it is `unmapped`, the subjail works in its own
  mapping until it notices, and each may cut the file under the other (`LateSizes`, `LateMapped`); the
  arguments of before the call are still carried (`LateArgs`). So a write outside the file needs a failed call.
  The doubling loop of `gh_fdmem_new` ends because a least sufficient size exists.
* `DecisionsStand`. A remembered decision about a node is in the effective modes of that node;
  `OnlyGrows` keeps it there; rejection is tested before acceptance, so a node that is rejected
  for good is neither granted nor asked about.
* `LoopIsUnion`. The closed form satisfies the recurrence of the loop. If loop and closed form
  differed somewhere there would be a least index where they do, and there the recurrence contradicts it.
* `GrantsShown`. A question on screen is accounted for by the policy (`PromptIsAccounted`): it lists every
  requested flag that the policy does not accept, or it lists flags of prompt rules for the node and
  one of the requested flags is on the list. The answer adds entries, and accounts only grow (`OnlyGrows`).
* `DecisionsStay`, `NoEscalation`. Decisions have to be followed through the file: the entries
  in memory stand for what was decided, the text of the last save stands for what was decided
  then, and a question is on screen only while the mode in force is to prompt. What a torn or complete
  file yields is a prefix of what was written.
* `Confined` needs that a subjail which the jail has not forked yet has no process; `LedgerHolds` is a ledger
  for each object, one entry per phase. `DeathsAreSeen` (`OwnEndsInv`) says for every pair of
  processes that one holds the peer end of the other only with an excuse: the constructor failed, the jail has not
  yet closed the end it received, or the subjail has just been forked. Requests for a subjail reach only the jail of its
  sandbox, and the jail's local descriptor is in use only until it is closed.
* `FiltersDecide`. For any call, listed or not: the head of a program loads the number (`Begins`), each
  comparison of the list leads to the next one or, by its offset, to the return it names (`Jumps`, `Returns`; the
  offsets of the generated part are `33 - i`, so that every `i` lands on the same instruction), and a number that matches nothing
  falls through to the last return. `Reaches` chains the steps, the loops over the lists are inductions on the position.
  `ListsDecide` and `NotKilledByFilters` follow: the call is in the list that decides, and what each process does at
  each point is in its list.
* The theorems about `StdFs` share one invariant with a conjunct per question about a call: which
  descriptors it holds at each point of its program and which of them it will close (`Holding`,
  `Progress`, `Temporary`), what they refer to (`Source`, `Target`), and that this is what the granted question was
  about (`SourceAsked`, `TargetAsked`, `OpenGated`, `AccessGated`). Other processes move nodes and directories, and never change
  what a descriptor refers to, which is why checking descriptors is enough where checking names would not be.
  The exception is descriptor 0: `Strays` are the steps that may close it for somebody else, whoever loses it becomes
  `robbed`, and of a robbed call the invariant keeps what does not depend on the table (`Astray`): what it was granted, what
  it did, and that it closes nothing but its own numbers and 0.
* `FileTyped`, `NothingTakenOut`. Nothing is assumed of the text: lexer and parser run over any
  sequence of cells. `Parsed` holds at every state of the parser: one entry for a path, the policy that
  was there before is still there, and an exec entry under construction was added by this text. That
  the parser's loop yields a state at all, and a good one, is shown like `LoopIsUnion`, by a least counterexample.
* `WrittenPolicyLoads`, `NothingLoadedUnwritten`. Reading has to undo writing for policies of any size, and for what a
  crash leaves of them. The argument has four parts.
  *Reading is a fold.* Lexer and parser together are one machine, `Reader`, that takes a cell at a time; its state is
  the place in the grammar (`Control`) and what was read (`Effect`), and the parser's state is at every token the
  image of that (`EntriesCorrespond`, `ParseReads`). What it reads does not depend on the policy in memory: it is what it
  would read into an empty one, added to it (`OutAdded`). Two loops that start in step stay in step (`FoldsRelated`).
  *The writer's text reads back.* `Tr` says that a piece of text leads the reader from one set of states to another, and
  that everything on the way is part of the policy that is written. Tokens, fields, entries and blocks are composed
  (`ModeReads`, `FsEntryReads`, `ExecBlockReads`), up to `TextReads`: the text of a policy reads as that policy, unless a
  program has a mode that is written as a string, where the reader stops.
  *Texts cut short.* Because `Tr` speaks of every beginning of the text, a text cut anywhere, with half a word behind
  it or not, has brought in only parts of the policy, and at the end of a block only whole blocks (`CutReads`, `TornFile`).
  *The invariant.* Until a save has harmed the file (`Intact`), `FileInv` holds. It says that everything a reader takes from the file is of a policy in `written`
  (`FileTraced`), that a whole file says exactly its policy (`FileSays`), that a block of an unregistered system is
  refused (`GenericRefused`), and that after a successful load the policy in memory holds all that the file says, and
  its lists of programs agree with it (`InMemory`). The last part is what saving on the descriptor that was read
  needs: the new text comes behind the old one, and a load reads both. Without it the old text might give a program
  another mode than the new one, and the first entry for a program decides. Writing over a text that is not longer
  gives the file that writing into an empty one gives, and a crash in it either leaves the rest of the old text, and the file
  is damaged, or a beginning of the new one. That is why `NothingLoadedUnwritten` needs no assumption on how the
  file is opened or which writes fail. `RoundTrip` also speaks of a file with the rest of a longer text, and
  `WrittenPolicyLoads` leaves the way of opening out in which that can happen (`NothingRemains`).

Only model-checked:

* all liveness: `OperationReturns`, `DtorReturns`, `NoStall`, `CtorDtorReturn`, `HostDeathEndsAll`;
* `RoundTrip` of `PolicyFile` for an application that writes over the old text without truncating it: the claim
  includes files where the rest of a longer text remains, and what such a file says needs the lengths of the two texts,
  an induction over sizes beside the one over contents.

## 5. Not modelled, and why

* Contents of scripts, RPC arguments, prompts' wording: data that no property tells apart.
* Heap blocks: leaks on error paths (`rpc.c:185`, `permfs.c:435`, `permexec.c:286`).
* Time: a timeout may happen or not. The arithmetic of `thread_wait` (`thread.c:140`: a negative timeout
  means none, and the elapsed time is subtracted from it) is not covered.
* Process numbers: an object names its process. That `thread_wait` opens the subjail by a number
  that may have been given to another process (`thread.c:91`) is a hazard without a property.
* `GH_SANDBOX_DISABLED`, `PR_SET_NO_NEW_PRIVS`, the memory limit. The second filter names `fork`, while the C
  library's `fork` uses `clone`, which both filters allow: the list is modelled as it is.
* In `PolicyFile`: a `#` inside a string, which the lexer takes for a comment; tokens whose text lies in
  a buffer that moves when it grows (`parser.c:132`); blanks, comments and positions; the emergency `ftruncate` of
  `gh_perms_write` failing as well (`perms.c:167`).
* In `CallFrame`: another call with a frame whose call has failed; the exchange after a failure is the subject of `Session`.
* In `StdFs`: hard links, mount points, node types, permission bits of created files, the
  environment and status of programs; a `close` that fails although the descriptor is open.
* `lua.c`/`luajit-glue.c`, the prompter's terminal interface, allocator and string helpers: plumbing.
  The type system and the flexible list are used by no other file of the library.
* `RpcRegistry` gives each session one frame. A host function that drives another session on
  the same operating-system thread needs a stack of frames.
* A default mode of `ACCEPT` in `PermExec`: then an entry that cannot be read back is
  accepted, so `RestartNeverEscalates` is stated for policies that ask by default.

## 6. Plan

In order of importance:

1. Composition: `StdFs` with the policy of `PermFS` in place of the free choice, so that a
   remembered rejection can be followed to the system call; `CallFrame` under the message exchange
   of `Session`.
2. Nested calls in `RpcRegistry` (`rpc.c:208`).
3. `RoundTrip` where the old text is written over, in TLAPS: the text of a policy that has grown is not shorter.
4. The capacity arithmetic of the dynamic array against an abstract sequence; the time
   budget of `thread_wait`.
