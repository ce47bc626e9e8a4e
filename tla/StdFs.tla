-------------------------------- MODULE StdFs --------------------------------
(***************************************************************************)
(* The file functions of the standard library (stdlib.c) and the PathFDs   *)
(* they are made of (pathfd.c, procfd.c), with the translation of open(2)  *)
(* flags into permissions (permfs.c).                                      *)
(*                                                                         *)
(* The functions are registered as thread safe: calls of several sessions  *)
(* run side by side in one process, whose descriptor table they share, and *)
(* over a file system that other processes change all the time.  A step is *)
(* one system call with the local work before it.                          *)
(*                                                                         *)
(* A directory is at a location and may be moved; a node has one name in   *)
(* one directory, which a deleted node remembers, as the links in          *)
(* /proc/self/fd do.  Whether a request is granted is left open here, it   *)
(* is what PermFS and PermExec are about.                                  *)
(***************************************************************************)
EXTENDS Integers, FiniteSets

CONSTANTS
    Threads,    \* host threads, each with its session
    Dirs,       \* directories
    Locs,       \* paths at which a directory may be
    AtStart,    \* where each directory is at first
    Names,      \* names in a directory
    Nodes,      \* files and symbolic links
    Links,      \* those nodes that are symbolic links
    LinkTo,     \* the file that they lead to
    LongLocs,   \* locations with paths of 128 bytes and more
    BigNames,   \* names that exceed GH_PATHFD_TRAILINGNAMEMAX
    OpenFlags,  \* flags of ghost.open
    TempFlags,  \* flags of ghost.opentemp
    TmpDir,     \* the directory of temporary files
    Nowhere,    \* no directory, no node
    MaxFd,      \* the largest descriptor (RLIMIT_NOFILE)
    AppFds,     \* how many descriptors the application may hold, from 0 on
    MaxCalls,   \* bound: calls in one behaviour
    MaxWorld    \* bound: changes that other processes make

Flags == [acc : {"r", "w", "rw"}, append : BOOLEAN, creat : BOOLEAN, trunc : BOOLEAN]
Fds == 0 .. MaxFd
NoFd == -1
NoName == ""

ASSUME StdFsAssumption ==
    /\ Links \subseteq Nodes /\ LinkTo \in Nodes \ Links
    /\ LongLocs \subseteq Locs /\ BigNames \subseteq Names
    /\ OpenFlags \subseteq Flags /\ TempFlags \subseteq Flags
    /\ AtStart \in [Dirs -> Locs] /\ \A d, e \in Dirs : AtStart[d] = AtStart[e] => d = e
    /\ TmpDir \in Dirs /\ NoName \notin Names /\ Nowhere \notin Dirs \cup Nodes
    /\ Threads \cap {"app", "nobody", "none"} = {}
    /\ MaxFd \in Nat /\ AppFds \subseteq 0 .. MaxFd /\ MaxCalls \in Nat /\ MaxWorld \in Nat

VARIABLES
    at,      \* location of each directory
    place,   \* directory and name of each node, and whether it is (still) there
    table,   \* the process's descriptors: what each refers to and who holds it
    call,    \* the call in progress of each thread; robbed is history: another thread has
             \* closed a descriptor of this call
    calls, world

vars == <<at, place, table, call, calls, world>>

NoOne == [op |-> "none", pc |-> "none", result |-> "none"]
Object(what, id, owner) == [what |-> what, id |-> id, owner |-> owner, lostBy |-> NoOne]
Free == Object("free", Nowhere, "none")
NoPlace == [dir |-> Nowhere, name |-> NoName, live |-> FALSE]

\* gh_pathfd pathfd = {0}: the descriptor is 0 and the name is empty.
ZeroPathfd == [fd |-> 0, name |-> NoName]

Idle == [op |-> "none", pc |-> "idle", loc |-> "", name |-> NoName, toLoc |-> "", toName |-> NoName,
         flags |-> [acc |-> "r", append |-> FALSE, creat |-> FALSE, trunc |-> FALSE],
         a |-> ZeroPathfd, b |-> ZeroPathfd, close |-> {}, gates |-> {},
         access |-> {}, found |-> [dir |-> Nowhere, name |-> NoName], ret |-> NoFd, result |-> "OK",
         robbed |-> FALSE]

-----------------------------------------------------------------------------
(* The file system and the descriptor table. *)

DirAt(loc) == IF \E d \in Dirs : at[d] = loc THEN CHOOSE d \in Dirs : at[d] = loc ELSE Nowhere

Entry(d, name) == {n \in Nodes : place[n] = [dir |-> d, name |-> name, live |-> TRUE]}
Exists(d, name) == Entry(d, name) # {}
NodeAt(d, name) == CHOOSE n \in Entry(d, name) : TRUE
Unused == {n \in Nodes \ Links : place[n] = NoPlace}

FreeFds == {fd \in Fds : table[fd] = Free}
Full == FreeFds = {}
Lowest(fds) == CHOOSE fd \in fds : \A other \in fds : fd <= other

\* A system call that opens something gets the lowest free descriptor.
NewFd == Lowest(FreeFds)
Opened(t, what, id) == [table EXCEPT ![NewFd] = Object(what, id, t)]

\* The directory that a descriptor refers to.
DirOf(fd) == IF table[fd].what = "dir" THEN table[fd].id ELSE Nowhere

Go(t, c) == call' = [call EXCEPT ![t] = c]

\* The same, for a step that closes descriptors: a call on another thread that holds one of
\* them has lost it.
GoClosing(t, c, fds) ==
    call' = [u \in Threads |->
        IF u = t THEN c
        ELSE [call[u] EXCEPT !.robbed = @ \/ \E fd \in fds : table[fd].owner = u]]

KeepFs == UNCHANGED <<at, place>>
KeepBounds == UNCHANGED <<calls, world>>

\* A descriptor that nobody will ever close, and where it was lost.
Lost(object, c) ==
    [object EXCEPT !.owner = "nobody", !.lostBy = [op |-> c.op, pc |-> c.pc, result |-> c.result]]

\* What the call returns with.  When a descriptor is not open any more, close(2) fails; then
\* so does the call, and what it has opened for the script is not returned.
Closed(c) ==
    IF \E fd \in c.close : table[fd] = Free THEN [c EXCEPT !.result = "ERROR", !.ret = NoFd] ELSE c

Returning(c) ==
    [Idle EXCEPT !.op = c.op, !.pc = "respond", !.ret = c.ret, !.result = c.result,
                 !.gates = c.gates, !.access = c.access, !.robbed = c.robbed]

\* Mutant: the descriptor to be returned is closed as well.
FinishAll(t, c) ==
    /\ table' = [fd \in Fds |-> IF fd \in c.close \cup {c.ret} THEN Free ELSE table[fd]]
    /\ GoClosing(t, Returning(c), c.close)

\* The call returns: it closes what its error path closes, and what it still holds then is
\* lost, except the descriptor to be returned.
Finish(t, c) ==
    LET end == Closed(c) IN
    /\ table' = [fd \in Fds |->
          IF fd \in c.close THEN Free
          ELSE IF table[fd].owner = t /\ fd # end.ret THEN Lost(table[fd], end)
          ELSE table[fd]]
    /\ GoClosing(t, Returning(end), c.close)

Fail(t, c) == Finish(t, [c EXCEPT !.result = "ERROR", !.gates = {}]) /\ KeepFs /\ KeepBounds

At(t, pc) == call[t].pc = pc

-----------------------------------------------------------------------------
(* gh_permfs_fcntlflags2permfsmode *)

Access(acc) == CASE acc = "r" -> {"READ"} [] acc = "w" -> {"WRITE"} [] acc = "rw" -> {"READ", "WRITE"}

\* Mutant: the write permission is only asked for when the access mode is O_WRONLY.
OpenModeReading(flags, exists) ==
    (IF flags.acc = "w" THEN {"WRITE"} ELSE {"READ"})
    \cup (IF flags.creat /\ ~exists THEN {"CREATEFILE"} ELSE {})

\* What is asked for: O_TRUNC asks for nothing, O_CREAT only where the file may be missing.
OpenMode(flags, exists) ==
    Access(flags.acc)
    \cup (IF flags.append THEN {"WRITE"} ELSE {})
    \cup (IF flags.creat /\ ~exists THEN {"CREATEFILE"} ELSE {})

\* What open(2) does with the flags.
OpenUse(flags, created) ==
    Access(flags.acc)
    \cup (IF flags.append THEN {"WRITE"} ELSE {})
    \cup (IF flags.trunc THEN {"TRUNCATE"} ELSE {})
    \cup (IF created THEN {"CREATEFILE"} ELSE {})

-----------------------------------------------------------------------------
(* The start of a call. *)

Start(t, c) ==
    /\ At(t, "idle")
    /\ calls < MaxCalls /\ calls' = calls + 1
    /\ Go(t, c)
    /\ UNCHANGED <<at, place, table, world>>

\* ghost_open, ghost_opentemp, ghost_remove, ghost_rename, ghost_fsrequest and ghost_fshas,
\* ghost_execute and ghost_popen.
CallOpen(t) ==
    \E loc \in Locs, name \in Names, flags \in OpenFlags :
       Start(t, [Idle EXCEPT !.op = "open", !.pc = "look", !.loc = loc, !.name = name, !.flags = flags])

CallTemp(t) ==
    \E name \in Names \ BigNames, flags \in TempFlags :
       Start(t, [Idle EXCEPT !.op = "opentemp", !.pc = "tmp", !.name = name, !.flags = flags])

CallRemove(t) ==
    \E loc \in Locs, name \in Names :
       Start(t, [Idle EXCEPT !.op = "remove", !.pc = "trailing", !.loc = loc, !.name = name])

CallRename(t) ==
    \E loc, toLoc \in Locs, name, toName \in Names :
       Start(t, [Idle EXCEPT !.op = "rename", !.pc = "trailing", !.loc = loc, !.name = name,
                             !.toLoc = toLoc, !.toName = toName])

CallRequest(t) ==
    \E loc \in Locs, name \in Names :
       Start(t, [Idle EXCEPT !.op = "fsrequest", !.pc = "look", !.loc = loc, !.name = name])

CallExecute(t) ==
    \E op \in {"execute", "popen"} : Start(t, [Idle EXCEPT !.op = op, !.pc = "shell"])

\* An argument is missing or too large.
CallRefused(t) ==
    Start(t, [Idle EXCEPT !.op = "refused", !.pc = "respond", !.result = "ERROR"])

-----------------------------------------------------------------------------
(* gh_pathfd_open and gh_pathfd_opentrailing. *)

\* gh_std_opentemp opens /tmp, and closes that descriptor at the end.
OpenTmp(t) ==
    /\ At(t, "tmp")
    /\ IF Full THEN Fail(t, call[t])
       ELSE /\ table' = Opened(t, "dir", TmpDir)
            /\ Go(t, [call[t] EXCEPT !.pc = "look", !.b.fd = NewFd, !.close = {NewFd}])
            /\ KeepFs /\ KeepBounds

\* The directory in which a path is looked up.
Parent(c) == IF c.op = "opentemp" THEN DirOf(c.b.fd) ELSE DirAt(c.loc)

\* GH_PATHFD_ALLOWMISSING, and the error is that the path names nothing, not that the
\* descriptor it is relative to is not a directory.
AllowMissing(c) ==
    /\ c.op = "fsrequest" \/ c.flags.creat
    /\ c.op = "opentemp" => Parent(c) # Nowhere

\* O_PATH | O_NOFOLLOW: the node that the path names now, also when it is a link.
Look(t) ==
    LET c == call[t]
        d == Parent(c)
        keep == IF c.op = "opentemp" THEN c.close ELSE {NewFd}
    IN  /\ At(t, "look")
        /\ \/ /\ Full \/ c.name \in BigNames \/ (~Exists(d, c.name) /\ ~AllowMissing(c))
              /\ Fail(t, c)
           \/ /\ ~Full /\ c.name \notin BigNames /\ ~Exists(d, c.name) /\ AllowMissing(c)
              /\ Go(t, [c EXCEPT !.pc = "trailing"])
              /\ UNCHANGED table /\ KeepFs /\ KeepBounds
           \/ /\ ~Full /\ Exists(d, c.name)
              /\ table' = Opened(t, "node", NodeAt(d, c.name))
              /\ Go(t, [c EXCEPT !.pc = "gate", !.a.fd = NewFd, !.close = keep])
              /\ KeepFs /\ KeepBounds

\* What a call closes when its path cannot be opened: gh_std_unlinkat the descriptor of the
\* PathFD that was not filled in, which is 0, whoever holds that.
Unopened(c) == IF c.op = "remove" THEN {ZeroPathfd.fd} ELSE c.close

\* The directory of the path, which stays the reference, and the last component.  A path that
\* ends in ".", ".." or "/" fails like one whose directory is missing.
Trailing(t) ==
    LET c == call[t]
        d == Parent(c)
        keep == IF c.op = "opentemp" THEN c.close ELSE {NewFd}
    IN  /\ At(t, "trailing")
        /\ \/ /\ Full \/ d = Nowhere
              /\ Fail(t, [c EXCEPT !.close = Unopened(c)])
           \/ /\ ~Full /\ d # Nowhere /\ c.name \in BigNames
              /\ table' = Opened(t, "dir", d)
              /\ Go(t, [c EXCEPT !.pc = "toolarge", !.close = Unopened(c)])
              /\ KeepFs /\ KeepBounds
           \/ /\ ~Full /\ d # Nowhere /\ c.name \notin BigNames 
              /\ table' = Opened(t, "dir", d)
              /\ Go(t, [c EXCEPT !.pc = "gate", !.a = [fd |-> NewFd, name |-> c.name], !.close = keep])
              /\ KeepFs /\ KeepBounds

\* The second path of a rename.  When it cannot be opened, gh_std_rename returns at once.
TrailingTo(t) ==
    LET c == call[t]
        d == DirAt(c.toLoc)
    IN  /\ At(t, "trailingTo")
        /\ \/ /\ Full \/ d = Nowhere
              /\ Fail(t, [c EXCEPT !.close = {}])
           \/ /\ ~Full /\ d # Nowhere /\ c.toName \in BigNames
              /\ table' = Opened(t, "dir", d)
              /\ Go(t, [c EXCEPT !.pc = "toolarge", !.close = {}])
              /\ KeepFs /\ KeepBounds
           \/ /\ ~Full /\ d # Nowhere /\ c.toName \notin BigNames 
              /\ table' = Opened(t, "dir", d)
              /\ Go(t, [c EXCEPT !.pc = "gateTo", !.b = [fd |-> NewFd, name |-> c.toName],
                                 !.close = @ \cup {NewFd}])
              /\ KeepFs /\ KeepBounds

\* GHR_PATHFD_LARGETRAILINGNAME: the directory stays open.
TooLarge(t) == At(t, "toolarge") /\ Fail(t, call[t])

-----------------------------------------------------------------------------
(* gh_perms_gatefile, gh_perms_fsrequest and gh_perms_gateexec. *)

\* Where a descriptor's directory or node is, or was when it was deleted.
Referenced(pathfd) ==
    LET object == table[pathfd.fd] IN
    IF object.what = "dir" THEN [dir |-> object.id, name |-> pathfd.name]
    ELSE IF object.what = "node" THEN [dir |-> place[object.id].dir, name |-> place[object.id].name]
    ELSE [dir |-> Nowhere, name |-> NoName]

TruePath(ref) == [loc |-> IF ref.dir = Nowhere THEN "" ELSE at[ref.dir], name |-> ref.name]

\* gh_procfd_fdpathctor: a link of 128 bytes and more reads as the empty string, to which
\* only the trailing name is added.
fdpathctor(pathfd) ==
    LET path == TruePath(Referenced(pathfd)) IN
    IF path.loc \in LongLocs THEN [loc |-> "", name |-> pathfd.name] ELSE path

\* A request that the policy or the user grants: what was shown, what it stands for.
Granted(pathfd, mode) ==
    [path |-> fdpathctor(pathfd), true |-> TruePath(Referenced(pathfd)),
     id |-> table[pathfd.fd].id, name |-> pathfd.name, mode |-> mode]

GateMode(c) ==
    CASE c.op \in {"open", "opentemp"} -> OpenMode(c.flags, c.a.name = NoName)
      [] c.op = "rename" -> {"MOVE"}
      [] c.op = "remove" -> {"UNLINK"}
      [] c.op = "fsrequest" -> {"REQUEST"}

Gate(t) ==
    LET c == call[t] IN
    /\ At(t, "gate")
    /\ \/ Fail(t, c)
       \/ /\ c.op = "fsrequest"
          /\ Finish(t, c)
          /\ KeepFs /\ KeepBounds
       \/ /\ c.op # "fsrequest"
          /\ Go(t, [c EXCEPT !.pc = IF c.op = "rename" THEN "trailingTo" ELSE "act",
                             !.gates = {Granted(c.a, GateMode(c))}])
          /\ UNCHANGED table /\ KeepFs /\ KeepBounds

\* Mutant: a rejected target leaves both directories open.
GateToReturning(t) ==
    LET c == call[t] IN
    /\ At(t, "gateTo")
    /\ \/ Fail(t, [c EXCEPT !.close = {}])
       \/ /\ Go(t, [c EXCEPT !.pc = "act", !.gates = @ \cup {Granted(c.b, {"CREATEFILE"})}])
          /\ UNCHANGED table /\ KeepFs /\ KeepBounds

GateTo(t) ==
    LET c == call[t] IN
    /\ At(t, "gateTo")
    /\ \/ Fail(t, c)
       \/ /\ Go(t, [c EXCEPT !.pc = "act", !.gates = @ \cup {Granted(c.b, {"CREATEFILE"})}])
          /\ UNCHANGED table /\ KeepFs /\ KeepBounds

-----------------------------------------------------------------------------
(* The operation itself. *)

\* The call ends with a descriptor that gh_rpc_respondtomsg will send.
Return(t, c, what, id, where, use) ==
    /\ table' = Opened(t, what, id)
    /\ Go(t, [c EXCEPT !.pc = "close", !.ret = NewFd, !.access = use,
                       !.found = [dir |-> where.dir, name |-> where.name]])
    /\ KeepBounds

\* openat(dir, name, O_CREAT): the file that is there, the file that a link there leads to,
\* or a new file.
OpenByName(t, c, d, name, flags) ==
    \/ /\ d = Nowhere
       /\ Fail(t, c)
    \/ /\ Exists(d, name)
       /\ LET node == IF NodeAt(d, name) \in Links THEN LinkTo ELSE NodeAt(d, name)
          IN  Return(t, c, "node", node, place[node], OpenUse(flags, FALSE))
       /\ KeepFs
    \/ /\ d # Nowhere /\ ~Exists(d, name) /\ Unused # {}
       /\ LET node == CHOOSE n \in Unused : TRUE
          IN  /\ Return(t, c, "node", node, [dir |-> d, name |-> name], OpenUse(flags, TRUE))
              /\ place' = [place EXCEPT ![node] = [dir |-> d, name |-> name, live |-> TRUE]]
       /\ UNCHANGED at

\* Mutant: the node is opened again by its path.
ReopenByPath(t, c) == OpenByName(t, c, DirAt(c.loc), c.name, c.flags)

\* gh_procfd_reopen: an existing node through /proc/self/fd, which refuses a link; a missing
\* one by its name in the directory.  The descriptor may by then be another one, or none.
Reopen(t, c) ==
    LET object == table[c.a.fd] IN
    \/ /\ c.a.name = NoName
       /\ object.what = "node" /\ object.id \notin Links
       /\ Return(t, c, "node", object.id, place[object.id], OpenUse(c.flags, FALSE))
       /\ KeepFs
    \/ /\ c.a.name = NoName
       /\ object.what \notin {"node", "free"}
       /\ Return(t, c, object.what, object.id, NoPlace, OpenUse(c.flags, FALSE))
       /\ KeepFs
    \/ /\ c.a.name = NoName
       /\ object.what # "node" \/ object.id \in Links
       /\ Fail(t, c)
    \/ /\ c.a.name # NoName
       /\ OpenByName(t, c, DirOf(c.a.fd), c.a.name, c.flags)

ActOpen(t) ==
    /\ At(t, "act") /\ call[t].op = "open"
    /\ IF Full THEN Fail(t, call[t]) ELSE Reopen(t, call[t])

\* gh_std_opentemp opens the file by its name with flags of its own.
ActTemp(t) ==
    LET c == call[t] IN
    /\ At(t, "act") /\ c.op = "opentemp"
    /\ IF Full THEN Fail(t, c)
       ELSE OpenByName(t, c, DirOf(c.b.fd), c.name,
                       [c.flags EXCEPT !.acc = "rw", !.trunc = FALSE, !.append = FALSE])

\* Mutant: the name is looked up again from the path.
RemovedByPath(c) == Entry(DirAt(c.loc), c.name)

\* unlinkat(pathfd.fd, pathfd.trailing_name).
Removed(c) == Entry(DirOf(c.a.fd), c.a.name)

\* When unlinkat fails gh_std_unlinkat returns at once.
ActRemove(t) ==
    LET c == call[t] IN
    /\ At(t, "act") /\ c.op = "remove"
    /\ IF Removed(c) = {} THEN Fail(t, [c EXCEPT !.close = {}])
       ELSE /\ place' = [n \in Nodes |-> IF n \in Removed(c) THEN [place[n] EXCEPT !.live = FALSE] ELSE place[n]]
            /\ Finish(t, [c EXCEPT !.access = {"UNLINK"}])
            /\ UNCHANGED at /\ KeepBounds

\* Mutant: renameat, which takes a name that is in use.
MovableAnyway(from, name, to, toName) == Exists(from, name) /\ to # Nowhere

\* Whether the move can be made.
Movable(from, name, to, toName) ==
    Exists(from, name) /\ to # Nowhere /\ ~Exists(to, toName)

\* renameat2 with RENAME_NOREPLACE.
ActRename(t) ==
    LET c == call[t]
        from == DirOf(c.a.fd)
        to == DirOf(c.b.fd)
    IN  /\ At(t, "act") /\ c.op = "rename"
        /\ IF ~Movable(from, c.a.name, to, c.b.name) THEN Fail(t, c)
           ELSE /\ place' = [place EXCEPT ![NodeAt(from, c.a.name)] =
                               [dir |-> to, name |-> c.b.name, live |-> TRUE]]
                /\ Finish(t, [c EXCEPT !.access = {"MOVE", "CREATEFILE"}])
                /\ UNCHANGED at /\ KeepBounds

Close(t) == At(t, "close") /\ Finish(t, call[t]) /\ KeepFs /\ KeepBounds

-----------------------------------------------------------------------------
(* gh_std_execute. *)

OpenShell(t) ==
    LET c == call[t] IN
    /\ At(t, "shell")
    /\ IF Full THEN Fail(t, c)
       ELSE /\ table' = Opened(t, "shell", Nowhere)
            /\ Go(t, [c EXCEPT !.pc = "gateexec", !.a.fd = NewFd, !.close = {NewFd}])
            /\ KeepFs /\ KeepBounds

\* gh_permexec_gate opens the program for reading and does not close it.
GateExec(t) ==
    LET c == call[t] IN
    /\ At(t, "gateexec")
    /\ IF Full \/ table[c.a.fd] = Free THEN Fail(t, c)
       ELSE /\ table' = Opened(t, "shell", Nowhere)
            /\ \E pc \in {"run", "rejected"} : Go(t, [c EXCEPT !.pc = pc])
            /\ KeepFs /\ KeepBounds

Rejected(t) == At(t, "rejected") /\ Fail(t, call[t])

\* openpty, fork and, for ghost.execute, waitpid.  The slave end is closed again; the master
\* end is returned.
Run(t) ==
    LET c == call[t] IN
    /\ At(t, "run")
    /\ \/ /\ c.op = "execute"
          /\ Finish(t, c)
          /\ KeepFs /\ KeepBounds
       \/ /\ c.op = "popen" /\ Cardinality(FreeFds) >= 2
          /\ table' = Opened(t, "pty", Nowhere)
          /\ Go(t, [c EXCEPT !.pc = "close", !.ret = NewFd])
          /\ KeepFs /\ KeepBounds
       \/ /\ c.op = "popen" /\ Cardinality(FreeFds) < 2
          /\ Fail(t, c)

-----------------------------------------------------------------------------
\* gh_rpc_respondtomsg: the descriptor goes to the script and the host's copy is closed.
Respond(t) ==
    LET fds == {call[t].ret} \cap Fds IN
    /\ At(t, "respond")
    /\ table' = [fd \in Fds |-> IF fd \in fds THEN Free ELSE table[fd]]
    /\ GoClosing(t, Idle, fds)
    /\ KeepFs /\ KeepBounds

\* The message cannot be sent, or the path of a temporary file cannot be copied into the
\* script's memory: the function returns before it has closed the descriptor.
RespondFails(t) ==
    LET c == call[t] IN
    /\ At(t, "respond") /\ c.ret # NoFd
    /\ table' = [table EXCEPT ![c.ret] = IF @.owner = t THEN Lost(@, c) ELSE @]
    /\ Go(t, Idle)
    /\ KeepFs /\ KeepBounds

-----------------------------------------------------------------------------
(* Other processes. *)

Changes == world < MaxWorld /\ world' = world + 1 /\ UNCHANGED <<table, call, calls>>

OtherCreates ==
    /\ Changes
    /\ \E n \in Nodes, d \in Dirs, name \in Names \ BigNames :
          /\ place[n] = NoPlace /\ ~Exists(d, name)
          /\ place' = [place EXCEPT ![n] = [dir |-> d, name |-> name, live |-> TRUE]]
    /\ UNCHANGED at

OtherRemoves ==
    /\ Changes
    /\ \E n \in Nodes : place[n].live /\ place' = [place EXCEPT ![n].live = FALSE]
    /\ UNCHANGED at

OtherMoves ==
    /\ Changes
    /\ \E n \in Nodes, d \in Dirs, name \in Names \ BigNames :
          /\ place[n].live /\ ~Exists(d, name)
          /\ place' = [place EXCEPT ![n] = [dir |-> d, name |-> name, live |-> TRUE]]
    /\ UNCHANGED at

OtherMovesDir ==
    /\ Changes
    /\ \E d \in Dirs, loc \in Locs : DirAt(loc) = Nowhere /\ at' = [at EXCEPT ![d] = loc]
    /\ UNCHANGED place

-----------------------------------------------------------------------------
\* The application holds its standard input, descriptor 0, and perhaps more, or has closed it.
Init ==
    /\ at = AtStart
    /\ place = [n \in Nodes |-> NoPlace]
    /\ \E app \in AppFds :
          table = [fd \in Fds |-> IF fd < app THEN Object("app", Nowhere, "app") ELSE Free]
    /\ call = [t \in Threads |-> Idle]
    /\ calls = 0 /\ world = 0

Next ==
    \/ \E t \in Threads :
          \/ CallOpen(t) \/ CallTemp(t) \/ CallRemove(t) \/ CallRename(t) \/ CallRequest(t)
          \/ CallExecute(t) \/ CallRefused(t)
          \/ OpenTmp(t) \/ Look(t) \/ Trailing(t) \/ TooLarge(t) \/ TrailingTo(t) \/ Gate(t) \/ GateTo(t)
          \/ ActOpen(t) \/ ActTemp(t) \/ ActRemove(t) \/ ActRename(t) \/ Close(t)
          \/ OpenShell(t) \/ GateExec(t) \/ Rejected(t) \/ Run(t)
          \/ Respond(t) \/ RespondFails(t)
    \/ OtherCreates \/ OtherRemoves \/ OtherMoves \/ OtherMovesDir

Spec == Init /\ [][Next]_vars

-----------------------------------------------------------------------------
\* Types; a descriptor that is free has no owner, and one in use has.
TypeOK ==
    /\ at \in [Dirs -> Locs] /\ \A d, e \in Dirs : at[d] = at[e] => d = e
    /\ \A n \in Nodes : place[n] = NoPlace \/ (place[n].dir \in Dirs /\ place[n].name \in Names)
    /\ \A n, m \in Nodes : place[n] = place[m] /\ place[n].live => n = m
    /\ \A fd \in Fds : table[fd].owner \in Threads \cup {"app", "nobody"} \/ table[fd] = Free
    /\ \A t \in Threads : call[t].close \subseteq Fds /\ call[t].ret \in Fds \cup {NoFd}
    /\ calls \in 0 .. MaxCalls /\ world \in 0 .. MaxWorld

\* What ghost.open returns is what was asked about: the very node, however names have changed
\* since; or, for a path that named nothing, the file of that name in that very directory,
\* wherever the directory has been moved.  Unless another thread has closed the descriptor
\* that the call had checked.
OpenedIsGated ==
    \A t \in Threads : call[t].op = "open" /\ call[t].pc = "close" /\ ~call[t].robbed =>
       \E gate \in call[t].gates :
          IF gate.name = NoName THEN table[call[t].ret].id = gate.id
          ELSE call[t].found = [dir |-> gate.id, name |-> gate.name]

\* What a call asked for.
Asked(t) == UNION {gate.mode : gate \in call[t].gates}

\* No call reads, writes, creates, moves or removes without having asked for it, also when it
\* was robbed of its descriptor; except for ghost.opentemp, which opens its file by name and
\* with flags of its own, and except that ghost.open truncates a file without a permission
\* (gh_permfs_fcntlflags2permfsmode asks for nothing when it meets O_TRUNC).
AccessIsGated ==
    \A t \in Threads : call[t].op # "opentemp" =>
       call[t].access \subseteq Asked(t) \cup IF call[t].op = "open" THEN {"TRUNCATE"} ELSE {}

\* A call, ghost.opentemp again excepted, changes the file system in no other place than it
\* asked about, unless it was robbed of the directory that it had checked.
ChangesAreGated ==
    [][\A n \in Nodes, t \in Threads :
          place'[n] # place[n] /\ call'[t].pc # call[t].pc
             /\ call[t].op # "opentemp" /\ ~call[t].robbed =>
             \A p \in {place[n], place'[n]} \ {NoPlace} :
                \E gate \in call[t].gates : p.dir = gate.id /\ p.name = gate.name]_vars

\* A call closes a descriptor that it did not open, one of the application or of a call on
\* another thread, in no other way than this: the descriptor is 0, and the call is a
\* ghost.remove that could not open the directory of its path (gh_std_unlinkat then closes the
\* PathFD that it has not filled in), or it had been robbed of 0 in this way itself.
OwnedOnly ==
    [][\A fd \in Fds, t \in Threads :
          call'[t].pc # call[t].pc /\ table[fd] # Free /\ table'[fd] = Free =>
             \/ table[fd].owner = t
             \/ /\ fd = 0
                /\ \/ call[t].op = "remove" /\ call[t].pc \in {"trailing", "toolarge"}
                   \/ call[t].robbed]_vars

\* The ways in which a call loses a descriptor: the directory of a name that is too long, the
\* source of a rename without a target, a file that is not there to be removed, a descriptor
\* that cannot be sent to the script, the file that was opened when the PathFD turns out to be
\* closed already, and, always, the PathFD of a temporary file and the program that the exec
\* gate has read.  Every other way through the functions closes what it opened.
LostKnown ==
    \A fd \in Fds : table[fd].owner = "nobody" =>
       LET by == table[fd].lostBy
       IN  \/ by.op \in {"opentemp", "execute", "popen"}
           \/ by.pc \in {"toolarge", "respond"}
           \/ by.op = "rename" /\ by.pc = "trailingTo"
           \/ by.op = "remove" /\ by.pc = "act" /\ by.result = "ERROR"
           \/ by.op = "open" /\ by.pc = "close" /\ by.result = "ERROR"

\* A call closes only what it opened.
ClosesItsOwn ==
    [][\A fd \in Fds, t \in Threads :
          call'[t].pc # call[t].pc /\ table[fd] # Free /\ table'[fd] = Free =>
             table[fd].owner = t]_vars

\* A truncation is asked for.
TruncationIsGated == \A t \in Threads : "TRUNCATE" \in call[t].access => "WRITE" \in Asked(t)

\* No call does what it has not asked for, ghost.opentemp included.
TempIsGated == \A t \in Threads : call[t].access \ {"TRUNCATE"} \subseteq Asked(t)

\* gh_procfd_fdpathctor gives the path of the node or of the name in its directory.
CanonicalPath == \A t \in Threads : \A gate \in call[t].gates : gate.path = gate.true
=============================================================================
