------------------------------ MODULE Seccomp ------------------------------
(***************************************************************************)
(* The two seccomp filters (jail/jail.c, jail/subjail.c) as classic BPF    *)
(* programs, and the kernel's interpreter for them.  A jump offset counts  *)
(* the instructions to skip, so inserting or removing a line of the jump   *)
(* table changes the meaning of every line above it.                       *)
(*                                                                         *)
(* A system call is a record of the fields that the filters look at.       *)
(***************************************************************************)
EXTENDS Integers, Sequences

Call(nr) == [arch |-> "x86_64", nr |-> nr, arg1 |-> "0"]

LD(field)     == [op |-> "LD", k |-> field, jt |-> 0, jf |-> 0]
JEQ(k, t, f)  == [op |-> "JEQ", k |-> k, jt |-> t, jf |-> f]
RET(verdict)  == [op |-> "RET", k |-> verdict, jt |-> 0, jf |-> 0]

(***************************************************************************)
(* What the kernel does with a program: execution starts at the first      *)
(* instruction and stays at a RET.  Jumps lead forwards, so that a program *)
(* has ended after as many steps as it has instructions.                   *)
(***************************************************************************)
Execute(prog, call, s) ==
    LET ins == prog[s.at]
    IN  CASE ins.op = "LD"  -> [at |-> s.at + 1, acc |-> call[ins.k], verdict |-> s.verdict]
          [] ins.op = "JEQ" -> [s EXCEPT !.at = @ + 1 + IF s.acc = ins.k THEN ins.jt ELSE ins.jf]
          [] ins.op = "RET" -> [s EXCEPT !.verdict = ins.k]

Run(prog, call) ==
    LET run[n \in 0 .. Len(prog)] ==
            IF n = 0 THEN [at |-> 1, acc |-> "0", verdict |-> "none"]
                     ELSE Execute(prog, call, run[n - 1])
    IN  run

Verdict(prog, call) == Run(prog, call)[Len(prog)].verdict

(***************************************************************************)
(* gh_jail_lockdown.  Lines that allow a call by jumping to the last       *)
(* instruction, with their offsets.                                        *)
(***************************************************************************)

\* Mutant: a line that is commented out below mmap put back, and the lines
\* above it not counted again.
JumpTableUncommented ==
    << <<"clock_gettime", 32>>, <<"mremap", 31>>, <<"ftruncate", 30>>,
       <<"fsync", 29>>, <<"lseek", 28>>, <<"seccomp", 27>>, <<"wait4", 26>>,
       <<"kill", 25>>, <<"futex", 24>>, <<"recvmsg", 23>>, <<"sendmsg", 22>>,
       <<"close", 21>>, <<"set_robust_list", 20>>, <<"clone", 19>>,
       <<"poll", 18>>, <<"fstat", 17>>, <<"msync", 16>>, <<"munmap", 15>>,
       <<"mprotect", 14>>, <<"mmap", 13>>, <<"rt_sigprocmask", 13>>,
       <<"gettid", 12>>, <<"getpid", 11>>, <<"recvfrom", 10>>, <<"recvmsg", 9>>,
       <<"sendto", 8>>, <<"clock_nanosleep", 7>>, <<"getrandom", 6>>,
       <<"brk", 5>>, <<"write", 4>>, <<"read", 3>>, <<"exit", 2>>,
       <<"exit_group", 1>> >>

JumpTable ==
    << <<"clock_gettime", 32>>, <<"mremap", 31>>, <<"ftruncate", 30>>,
       <<"fsync", 29>>, <<"lseek", 28>>, <<"seccomp", 27>>, <<"wait4", 26>>,
       <<"kill", 25>>, <<"futex", 24>>, <<"recvmsg", 23>>, <<"sendmsg", 22>>,
       <<"close", 21>>, <<"set_robust_list", 20>>, <<"clone", 19>>,
       <<"poll", 18>>, <<"fstat", 17>>, <<"msync", 16>>, <<"munmap", 15>>,
       <<"mprotect", 14>>, <<"mmap", 13>>, <<"gettid", 12>>, <<"getpid", 11>>,
       <<"recvfrom", 10>>, <<"recvmsg", 9>>, <<"sendto", 8>>,
       <<"clock_nanosleep", 7>>, <<"getrandom", 6>>, <<"brk", 5>>,
       <<"write", 4>>, <<"read", 3>>, <<"exit", 2>>, <<"exit_group", 1>> >>

ArchCheck ==
    << LD("arch"), JEQ("x86_64", 1, 0), RET("KILL"), LD("nr") >>

\* nr with this second argument only: fcntl and ioctl as fdopen uses them.
WithArgument(nr, arg) ==
    << JEQ(nr, 0, 4), LD("arg1"), JEQ(arg, 0, 1), RET("ALLOW"), RET("KILL") >>

JailFilter ==
    ArchCheck \o WithArgument("fcntl", "F_GETFL") \o WithArgument("ioctl", "TCGETS")
      \o [i \in DOMAIN JumpTable |-> JEQ(JumpTable[i][1], JumpTable[i][2], 0)]
      \o << RET("KILL"), RET("ALLOW") >>

\* Mutant: the first line does not count the line added below it.
SubjailFilterMiscounted ==
    ArchCheck \o << JEQ("wait4", 2, 0), JEQ("fork", 2, 0), JEQ("kill", 1, 0),
                    RET("ALLOW"), RET("KILL") >>

\* gh_subjail_lockdown: the second filter of a subjail.
SubjailFilter ==
    ArchCheck \o << JEQ("wait4", 3, 0), JEQ("fork", 2, 0), JEQ("kill", 1, 0),
                    RET("ALLOW"), RET("KILL") >>

(***************************************************************************)
(* What the lists name, without offsets, and calls that they do not name.  *)
(***************************************************************************)
Listed ==
    {"clock_gettime", "mremap", "ftruncate", "fsync", "lseek", "seccomp", "wait4",
     "kill", "futex", "recvmsg", "sendmsg", "close", "set_robust_list", "clone",
     "poll", "fstat", "msync", "munmap", "mprotect", "mmap", "gettid", "getpid",
     "recvfrom", "sendto", "clock_nanosleep", "getrandom", "brk", "write", "read",
     "exit", "exit_group"}

Unlisted == {"fork", "openat", "execve", "socket", "prctl", "rt_sigprocmask", "tgkill"}

Calls ==
    [arch : {"x86_64", "i386"}, nr : Listed \cup Unlisted \cup {"fcntl", "ioctl"},
     arg1 : {"0", "F_GETFL", "TCGETS"}]

(***************************************************************************)
(* A process runs under all filters it has installed, by the name of the   *)
(* function that installed them; the kernel takes the strictest verdict.   *)
(***************************************************************************)
DeniedBy(prog) == {call \in Calls : Verdict(prog, call) # "ALLOW"}

Denied == [jail |-> DeniedBy(JailFilter), subjail |-> DeniedBy(SubjailFilter)]

\* The numbers that a filter lets through whatever the arguments are.
PermittedBy(denied) == {nr \in Listed \cup Unlisted : Call(nr) \notin denied}

Permitted ==
    [jail |-> PermittedBy(Denied.jail), subjail |-> PermittedBy(Denied.subjail)]

\* The reference: the calls that the list of a filter does not name.
Unnamed ==
    [jail |->
        {call \in Calls :
            ~ (/\ call.arch = "x86_64"
               /\ \/ call.nr \in Listed
                  \/ call.nr = "fcntl" /\ call.arg1 = "F_GETFL"
                  \/ call.nr = "ioctl" /\ call.arg1 = "TCGETS")},
     subjail |->
        {call \in Calls : call.arch # "x86_64" \/ call.nr \in {"wait4", "fork", "kill"}}]

\* The program of a filter does what its list says.
ListIsEnforced ==
    [jail |-> Denied.jail = Unnamed.jail, subjail |-> Denied.subjail = Unnamed.subjail]
=============================================================================
