------------------------------ MODULE PermExec ------------------------------
(***************************************************************************)
(* The permission handler for external programs (permexec.c), the function *)
(* that starts them (gh_std_execute in stdlib.c), and the part of the      *)
(* policy file that concerns it (gh_perms_write and gh_perms_readfd).      *)
(*                                                                         *)
(* The policy is a list of entries, each the hash of an executable and its *)
(* arguments with a mode; the first entry with the hash decides.  A hash   *)
(* is a model value, equal for equal executables and arguments.  The       *)
(* policy file is a sequence of entries, each with the token that the      *)
(* writer printed for its mode: an identifier or a string.                 *)
(***************************************************************************)
EXTENDS Naturals, Sequences, FiniteSets

CONSTANTS
    Hashes,        \* combined hashes of executables and arguments
    NoHash,        \* no program
    EnvVars,       \* environment variables that the application may have
    Allowed,       \* permexec->allowed_env
    DefaultMode,   \* permexec->default_mode
    Files,         \* policy files that the application may load
    MaxFds,        \* descriptors the process may still open (RLIMIT_NOFILE)
    Faults,        \* subset of {"hash", "text", "memory", "write", "crash"}: what may fail
    MaxOps         \* bound: operations in one behaviour

Modes == {"ACCEPT", "REJECT", "PROMPT"}
Entries == [hash : Hashes, mode : Modes]

\* An entry of a policy file: the token of its mode, "none" where it has no such field,
\* and "torn" where the text ends in the middle of the policy.
Lines == [hash : Hashes, token : {"identifier", "string", "none", "torn"}, mode : Modes]

ASSUME ExecAssumption ==
    /\ Hashes # {} /\ NoHash \notin Hashes
    /\ Allowed \subseteq EnvVars
    /\ DefaultMode \in Modes
    /\ Files \subseteq Seq(Lines)
    /\ Faults \subseteq {"hash", "text", "memory", "write", "crash"}
    /\ MaxFds \in Nat /\ MaxOps \in Nat

Results == {"OK", "REJECTEDPOLICY", "REJECTEDUSER", "REJECTEDPROMPT", "ERROR"}

NoQuestion == [hash |-> NoHash, env |-> {}]
NoOutcome == [hash |-> NoHash, result |-> "OK", env |-> {}]
Torn == <<[hash |-> CHOOSE h \in Hashes : TRUE, token |-> "torn", mode |-> "PROMPT"]>>

VARIABLES
    entries,    \* permexec->hashlist
    question,   \* the prompt on screen: hash, and the environment given to the program
    outcome,    \* the last gate: hash, result, environment of the program started
    fds,        \* descriptors opened by the gate and not closed
    file,       \* the policy file
    loaded,     \* result of the last time the policy was read
    written,    \* the policy that the file was written from
    decided,    \* what the user asked to be remembered, while the policy stands
    kept,       \* decided, as it was when the file was written
    ops

vars == <<entries, question, outcome, fds, file, loaded, written, decided, kept, ops>>

policyVars == <<file, loaded, written, kept>>

Asking == question.hash # NoHash
Operation == ~Asking /\ ops < MaxOps /\ ops' = ops + 1

-----------------------------------------------------------------------------
(* Lookup. *)

Matches(es, hash) == {i \in DOMAIN es : es[i].hash = hash}
First(es, hash) == CHOOSE i \in Matches(es, hash) : \A j \in Matches(es, hash) : i <= j

\* gh_permexec_hashlist_tryget with the default for a hash that has no entry.
Mode(es, hash) == IF Matches(es, hash) = {} THEN DefaultMode ELSE es[First(es, hash)].mode

-----------------------------------------------------------------------------
(* gh_permexec_gate and gh_std_execute. *)

\* What the gate returns, and the environment of the program started if it returns OK:
\* the filtered list goes into the prompt, execveat gets the application's environment.
Return(hash, env, result) ==
    outcome' = [hash |-> hash, result |-> result, env |-> IF result = "OK" THEN env ELSE {}]

\* The executable is opened for reading, to hash it, and not closed again.
OpenExecutable == fds < MaxFds /\ fds' = fds + 1

\* No more descriptors.
GateNoFd(hash, env) ==
    /\ Operation
    /\ fds = MaxFds
    /\ Return(hash, env, "ERROR")
    /\ UNCHANGED <<entries, question, fds, decided, policyVars>>

\* The hash cannot be computed (too many arguments, a file that changes its size).
GateNoHash(hash, env) ==
    /\ Operation
    /\ "hash" \in Faults
    /\ OpenExecutable
    /\ Return(hash, env, "ERROR")
    /\ UNCHANGED <<entries, question, decided, policyVars>>

Gate(hash, env) ==
    /\ Operation
    /\ OpenExecutable
    /\ \/ /\ Mode(entries, hash) = "ACCEPT"
          /\ Return(hash, env, "OK")
          /\ UNCHANGED question
       \/ /\ Mode(entries, hash) = "REJECT"
          /\ Return(hash, env, "REJECTEDPOLICY")
          /\ UNCHANGED question
       \/ /\ Mode(entries, hash) = "PROMPT"
          /\ question' = [hash |-> hash, env |-> env]
          /\ UNCHANGED outcome
    /\ UNCHANGED <<entries, decided, policyVars>>

\* A prompt is needed and cannot be put together: no path, or texts that are too long.
GateNoRequest(hash, env) ==
    /\ Operation
    /\ "text" \in Faults
    /\ OpenExecutable
    /\ Mode(entries, hash) = "PROMPT"
    /\ Return(hash, env, "ERROR")
    /\ UNCHANGED <<entries, question, decided, policyVars>>

\* Answers that leave the policy alone, and a prompter that fails.
AnswerOnce ==
    /\ Asking
    /\ \E result \in {"OK", "REJECTEDUSER", "REJECTEDPROMPT", "ERROR"} :
          Return(question.hash, question.env, result)
    /\ question' = NoQuestion
    /\ UNCHANGED <<entries, fds, decided, ops, policyVars>>

Remembered(hash, mode) == [hash |-> hash, mode |-> mode]

\* Mutant: the entry of the first case is appended in both.
AnswerRememberAccepts ==
    /\ Asking
    /\ \E mode \in {"ACCEPT", "REJECT"} :
          /\ entries' = Append(entries, Remembered(question.hash, "ACCEPT"))
          /\ decided' = decided \cup {Remembered(question.hash, mode)}
          /\ Return(question.hash, question.env, IF mode = "ACCEPT" THEN "OK" ELSE "REJECTEDUSER")
    /\ question' = NoQuestion
    /\ UNCHANGED <<fds, ops, policyVars>>

\* An answer to be remembered is appended to the list.
AnswerRemember ==
    /\ Asking
    /\ \E mode \in {"ACCEPT", "REJECT"} :
          /\ entries' = Append(entries, Remembered(question.hash, mode))
          /\ decided' = decided \cup {Remembered(question.hash, mode)}
          /\ Return(question.hash, question.env, IF mode = "ACCEPT" THEN "OK" ELSE "REJECTEDUSER")
    /\ question' = NoQuestion
    /\ UNCHANGED <<fds, ops, policyVars>>

\* It cannot be appended: the gate reports the error.
RememberFails ==
    /\ Asking
    /\ "memory" \in Faults
    /\ Return(question.hash, question.env, "ERROR")
    /\ question' = NoQuestion
    /\ UNCHANGED <<entries, fds, decided, ops, policyVars>>

-----------------------------------------------------------------------------
(* The policy file. *)

\* Mutant: a word that is not recognised leaves the local variable at zero.
EntryOfZero(line) ==
    [hash |-> line.hash,
     mode |-> IF line.token = "none" THEN DefaultMode ELSE IF line.token = "identifier" THEN line.mode ELSE "ACCEPT"]

\* permexecparser_newentry and permexecparser_setfield: the entry is appended with the
\* default mode; then its field is read, which must be an identifier.
EntryOf(line) ==
    [hash |-> line.hash, mode |-> IF line.token = "identifier" THEN line.mode ELSE DefaultMode]

Unreadable(lines) == {i \in DOMAIN lines : lines[i].token \in {"string", "torn"}}

\* Reading stops at the first error.  The entries read before it stay in the list, and so
\* does the one whose field is at fault.
Read(lines) ==
    LET in == {i \in DOMAIN lines : lines[i].token # "torn" /\ \A j \in Unreadable(lines) : i <= j}
    IN  [i \in 1 .. Cardinality(in) |-> EntryOf(lines[i])]

ReadResult(lines) == IF Unreadable(lines) = {} THEN "OK" ELSE "ERROR"

\* gh_permexec_write: accept is written as an identifier, the other modes as strings.
Line(e) ==
    [hash |-> e.hash, token |-> IF e.mode = "ACCEPT" THEN "identifier" ELSE "string", mode |-> e.mode]

Text(es) == [i \in DOMAIN es |-> Line(es[i])]

\* gh_perms_readfd into the policy in use.
Load(lines) ==
    /\ Operation
    /\ entries' = entries \o Read(lines)
    /\ loaded' = ReadResult(lines)
    /\ UNCHANGED <<question, outcome, fds, file, written, decided, kept>>

\* gh_perms_write.
Save ==
    /\ Operation
    /\ file' = Text(entries)
    /\ written' = entries
    /\ kept' = decided
    /\ UNCHANGED <<entries, question, outcome, fds, loaded, decided>>

\* A write fails, and the file is emptied.
SaveFails ==
    /\ Operation
    /\ "write" \in Faults
    /\ file' = << >> /\ written' = << >> /\ kept' = {}
    /\ UNCHANGED <<entries, question, outcome, fds, loaded, decided>>

\* A new process reads the policy file.
Start(lines, decisions) ==
    /\ entries' = Read(lines)
    /\ loaded' = ReadResult(lines)
    /\ decided' = IF ReadResult(lines) = "OK" THEN decisions ELSE {}
    /\ question' = NoQuestion
    /\ outcome' = NoOutcome
    /\ fds' = 0

\* The application ends, at any moment, and starts again.
Restart ==
    /\ ops < MaxOps /\ ops' = ops + 1
    /\ Start(file, kept)
    /\ UNCHANGED <<file, written, kept>>

\* It ends while it writes the file.
RestartInSave ==
    /\ Operation
    /\ "crash" \in Faults
    /\ \E n \in 0 .. Len(entries) :
          /\ file' = SubSeq(Text(entries), 1, n) \o Torn
          /\ Start(SubSeq(Text(entries), 1, n) \o Torn, {})
    /\ written' = entries /\ kept' = {}

-----------------------------------------------------------------------------
\* gh_permexec_ctor.
Init ==
    /\ entries = << >>
    /\ question = NoQuestion
    /\ outcome = NoOutcome
    /\ fds = 0
    /\ file = << >> /\ written = << >> /\ kept = {} /\ decided = {}
    /\ loaded = "OK"
    /\ ops = 0

Next ==
    \/ \E hash \in Hashes, env \in SUBSET EnvVars :
          Gate(hash, env) \/ GateNoFd(hash, env) \/ GateNoHash(hash, env) \/ GateNoRequest(hash, env)
    \/ AnswerOnce \/ AnswerRemember \/ RememberFails
    \/ \E lines \in Files : Load(lines)
    \/ Save \/ SaveFails \/ Restart \/ RestartInSave

Spec == Init /\ [][Next]_vars

-----------------------------------------------------------------------------
\* Types; the gate holds no more descriptors than the process may open.
TypeOK ==
    /\ entries \in Seq(Entries) /\ written \in Seq(Entries)
    /\ file \in Seq(Lines)
    /\ question \in [hash : Hashes \cup {NoHash}, env : SUBSET EnvVars]
    /\ outcome \in [hash : Hashes \cup {NoHash}, result : Results, env : SUBSET EnvVars]
    /\ fds \in 0 .. MaxFds
    /\ loaded \in {"OK", "ERROR"}
    /\ decided \subseteq Entries /\ kept \subseteq Entries
    /\ ops \in 0 .. MaxOps

\* What the user asked to be remembered about a program is never turned into its opposite:
\* not by policy files that are read afterwards, and not in a later session if the policy
\* was saved and reads back without an error.  At worst the user is asked again.
DecisionsNotReversed == \A d \in decided : Mode(entries, d.hash) \in {d.mode, "PROMPT"}

\* From the answer onwards, the policy gives the remembered answer for identical requests.
DecisionsObeyed == \A d \in decided : Mode(entries, d.hash) = d.mode

\* A policy that is read back whole, half, or torn by a crash accepts no program that the
\* policy in memory did not accept when it was written.
RestartNeverEscalates ==
    [][Restart \/ RestartInSave =>
       \A h \in Hashes : Mode(entries', h) = "ACCEPT" => Mode(written', h) = "ACCEPT"]_vars

\* A policy that gh_perms_write wrote to the end can be read back.
SavedIsReadable == loaded = "ERROR" => \E i \in DOMAIN file : file[i].token = "torn"

\* A program gets no environment variable that is not in allowed_env.
EnvIsFiltered == outcome.env \subseteq Allowed

\* A program with an accepting entry is allowed to run.
AcceptedRuns ==
    outcome.hash # NoHash /\ Mode(entries, outcome.hash) = "ACCEPT" => outcome.result = "OK"
=============================================================================
