--------------------------- MODULE PermExecProofs ---------------------------
(***************************************************************************)
(* Proofs about the policy for external programs, for every set of         *)
(* programs, every policy file and every combination of faults.            *)
(***************************************************************************)
EXTENDS PermExec, FiniteSetTheorems, WellFoundedInduction, TLAPS

(***************************************************************************)
(* Lookup                                                                  *)
(***************************************************************************)

\* The order of the natural numbers as a relation.
LessThan == {ss \in Nat \X Nat : ss[1] < ss[2]}

\* Every set of natural numbers has a least element.
LEMMA LeastNumber ==
    ASSUME NEW T, T \subseteq Nat, T # {}
    PROVE  \E x \in T : \A y \in T : x <= y
<1>1. IsWellFoundedOn(LessThan, Nat)
  <2>1. LessThan = OpToRel(<, Nat)
    BY DEF OpToRel, LessThan
  <2> QED
    BY <2>1, NatLessThanWellFounded
<1>2. PICK x \in T : \A y \in T : <<y, x>> \notin LessThan
  BY <1>1, WFMin
<1>3. ASSUME NEW y \in T PROVE x <= y
  <2>1. x \in Nat /\ y \in Nat /\ <<y, x>> \notin LessThan
    BY <1>2
  <2>2. ~(y < x)
    BY <2>1 DEF LessThan
  <2> QED
    BY <2>1, <2>2
<1> QED
  BY <1>3

\* gh_permexec_hashlist_tryget finds the first entry with the hash if there is one.
LEMMA FirstMatch ==
    ASSUME NEW es \in Seq(Entries), NEW hash, Matches(es, hash) # {}
    PROVE  /\ First(es, hash) \in Matches(es, hash)
           /\ \A j \in Matches(es, hash) : First(es, hash) <= j
<1>1. Matches(es, hash) \subseteq Nat
  BY DEF Matches
<1>2. \E i \in Matches(es, hash) : \A j \in Matches(es, hash) : i <= j
  BY <1>1, LeastNumber
<1> QED
  BY <1>2 DEF First

\* It is the only entry with that hash that has none before it.
LEMMA FirstUnique ==
    ASSUME NEW es \in Seq(Entries), NEW hash, NEW i \in Matches(es, hash),
           \A j \in Matches(es, hash) : i <= j
    PROVE  Mode(es, hash) = es[i].mode
<1>1. /\ First(es, hash) \in Matches(es, hash)
      /\ First(es, hash) <= i
  BY FirstMatch
<1>2. i \in Nat /\ First(es, hash) \in Nat /\ i <= First(es, hash)
  BY <1>1 DEF Matches
<1> QED
  BY <1>1, <1>2 DEF Mode

\* A lookup gives a mode.
LEMMA ModeTyped ==
    ASSUME NEW es \in Seq(Entries), NEW hash
    PROVE  Mode(es, hash) \in Modes
<1>1. CASE Matches(es, hash) = {}
  BY <1>1, ExecAssumption DEF Mode
<1>2. CASE Matches(es, hash) # {}
  <2>1. First(es, hash) \in DOMAIN es
    BY <1>2, FirstMatch DEF Matches
  <2>2. es[First(es, hash)] \in Entries
    BY <2>1
  <2> QED
    BY <1>2, <2>2 DEF Mode, Entries
<1> QED
  BY <1>1, <1>2

\* Entries that are added at the end of the list do not change what is found before them.
LEMMA ModeOfLonger ==
    ASSUME NEW es \in Seq(Entries), NEW more \in Seq(Entries), NEW hash,
           Matches(es, hash) # {}
    PROVE  /\ Matches(es \o more, hash) # {}
           /\ Mode(es \o more, hash) = Mode(es, hash)
<1> DEFINE i == First(es, hash)
           all == es \o more
<1>1. i \in Matches(es, hash) /\ \A j \in Matches(es, hash) : i <= j
  BY FirstMatch
<1>2. /\ all \in Seq(Entries) /\ Len(all) = Len(es) + Len(more)
      /\ \A j \in 1 .. Len(es) : all[j] = es[j]
  OBVIOUS
<1>3. i \in 1 .. Len(es) /\ i \in DOMAIN all /\ es[i].hash = hash /\ all[i] = es[i]
  BY <1>1, <1>2 DEF Matches
<1>4. i \in Matches(all, hash)
  BY <1>3 DEF Matches
<1>5. ASSUME NEW j \in Matches(all, hash) PROVE i <= j
  <2>1. j \in 1 .. Len(all) /\ all[j].hash = hash
    BY <1>2 DEF Matches
  <2>2. CASE j \in 1 .. Len(es)
    BY <1>1, <1>2, <2>1, <2>2 DEF Matches
  <2>3. CASE j \notin 1 .. Len(es)
    BY <1>3, <2>1, <2>3
  <2> QED
    BY <2>2, <2>3
<1>6. Mode(all, hash) = all[i].mode
  BY <1>2, <1>4, <1>5, FirstUnique
<1>7. Mode(es, hash) = es[i].mode
  BY DEF Mode
<1> QED
  BY <1>3, <1>4, <1>6, <1>7

\* The same of one entry; it decides where none did before.
LEMMA ModeOfAppend ==
    ASSUME NEW es \in Seq(Entries), NEW e \in Entries, NEW hash
    PROVE  /\ Append(es, e) \in Seq(Entries)
           /\ hash = e.hash \/ Matches(es, hash) # {} => Matches(Append(es, e), hash) # {}
           /\ Matches(es, hash) # {} => Mode(Append(es, e), hash) = Mode(es, hash)
           /\ Matches(es, e.hash) = {} => Mode(Append(es, e), e.hash) = e.mode
<1> DEFINE all == Append(es, e)
<1>1. all = es \o <<e>> /\ <<e>> \in Seq(Entries)
  OBVIOUS
<1>2. /\ all \in Seq(Entries)
      /\ Len(es) \in Nat
      /\ Len(all) = Len(es) + 1
      /\ all[Len(es) + 1] = e
      /\ \A i \in 1 .. Len(es) : all[i] = es[i]
  OBVIOUS
<1> HIDE DEF all
<1>3. Len(es) + 1 \in Matches(all, e.hash)
  BY <1>2 DEF Matches
<1>4. ASSUME Matches(es, e.hash) = {}
      PROVE  Mode(all, e.hash) = e.mode
  <2>1. \A j \in Matches(all, e.hash) : Len(es) + 1 <= j
    BY <1>2, <1>4 DEF Matches
  <2> QED
    BY <1>2, <1>3, <2>1, FirstUnique
<1>5. ASSUME Matches(es, hash) # {}
      PROVE  Matches(all, hash) # {} /\ Mode(all, hash) = Mode(es, hash)
  BY <1>1, <1>5, ModeOfLonger
<1>6. /\ all \in Seq(Entries)
      /\ hash = e.hash \/ Matches(es, hash) # {} => Matches(all, hash) # {}
      /\ Matches(es, hash) # {} => Mode(all, hash) = Mode(es, hash)
      /\ Matches(es, e.hash) = {} => Mode(all, e.hash) = e.mode
  BY <1>2, <1>3, <1>4, <1>5
<1> QED
  BY <1>6 DEF all

(***************************************************************************)
(* Reading and writing the policy file                                     *)
(***************************************************************************)

\* The lines of which permexecparser_newentry made entries.
Kept(lines) ==
    {i \in DOMAIN lines : lines[i].token # "torn" /\ \A j \in Unreadable(lines) : i <= j}

\* An entry read from a file is well typed, whatever its field holds.
LEMMA EntryTyped ==
    ASSUME NEW line \in Lines
    PROVE  EntryOf(line) \in Entries /\ EntryOf(line).hash = line.hash
BY ExecAssumption DEF EntryOf, Lines, Entries

\* gh_perms_readfd adds at most one entry per line, and the i-th is that of the i-th line.
LEMMA ReadPrefix ==
    ASSUME NEW lines \in Seq(Lines)
    PROVE  /\ Read(lines) \in Seq(Entries)
           /\ Len(Read(lines)) \in 0 .. Len(lines)
           /\ Len(Read(lines)) = Cardinality(Kept(lines))
           /\ \A i \in 1 .. Len(Read(lines)) : Read(lines)[i] = EntryOf(lines[i])
           /\ (\E i \in DOMAIN lines : lines[i].token = "torn") => Len(Read(lines)) < Len(lines)
<1> DEFINE n == Len(lines)
           k == Cardinality(Kept(lines))
<1>0. n \in Nat /\ DOMAIN lines = 1 .. n /\ \A i \in 1 .. n : lines[i] \in Lines
  OBVIOUS
<1>1. /\ IsFiniteSet(1 .. n) /\ Cardinality(1 .. n) = n
  <2>1. 1 \in Int /\ n \in Int /\ n - 1 + 1 = n /\ (1 > n => n = 0)
    BY <1>0
  <2> QED
    BY <2>1, FS_Interval
<1>2. Kept(lines) \subseteq 1 .. n
  BY <1>0 DEF Kept
<1>3. k \in Nat /\ k <= n
  <2>1. IsFiniteSet(Kept(lines)) /\ k <= Cardinality(1 .. n)
    BY <1>1, <1>2, FS_Subset
  <2>2. k \in Nat
    BY <2>1, FS_CardinalityType
  <2> QED
    BY <1>1, <2>1, <2>2
<1>4. Read(lines) = [i \in 1 .. k |-> EntryOf(lines[i])]
  BY DEF Read, Kept
<1>5. \A i \in 1 .. k : EntryOf(lines[i]) \in Entries
  BY <1>0, <1>3, EntryTyped
<1>6. /\ Read(lines) \in Seq(Entries) /\ Len(Read(lines)) = k
      /\ \A i \in 1 .. k : Read(lines)[i] = EntryOf(lines[i])
  BY <1>3, <1>4, <1>5
<1>7. ASSUME NEW i \in DOMAIN lines, lines[i].token = "torn"
      PROVE  k < n
  <2>1. i \in 1 .. n /\ i \notin Kept(lines)
    BY <1>0, <1>7 DEF Kept
  <2>2. k # n
    <3>1. k = n => Kept(lines) = 1 .. n
      BY <1>1, <1>2, FS_Subset
    <3> QED
      BY <2>1, <3>1
  <2> QED
    BY <1>0, <1>3, <2>2
<1> QED
  BY <1>0, <1>3, <1>6, <1>7

\* A file without an error is read to its end.
LEMMA ReadWhole ==
    ASSUME NEW lines \in Seq(Lines), ReadResult(lines) = "OK"
    PROVE  Len(Read(lines)) = Len(lines)
<1>1. Unreadable(lines) = {}
  BY DEF ReadResult
<1>2. Kept(lines) = 1 .. Len(lines)
  BY <1>1 DEF Kept, Unreadable
<1>3. Len(lines) \in Nat
  OBVIOUS
<1>4. Cardinality(1 .. Len(lines)) = Len(lines)
  <2>1. 1 \in Int /\ Len(lines) \in Int
        /\ Len(lines) - 1 + 1 = Len(lines) /\ (1 > Len(lines) => Len(lines) = 0)
    BY <1>3
  <2> QED
    BY <2>1, FS_Interval
<1> QED
  BY <1>2, <1>4, ReadPrefix

\* gh_permexec_write prints one line per entry.
LEMMA TextTyped ==
    ASSUME NEW es \in Seq(Entries)
    PROVE  /\ Text(es) \in Seq(Lines)
           /\ Len(Text(es)) = Len(es)
           /\ \A i \in 1 .. Len(es) : Text(es)[i] = Line(es[i])
<1>1. \A e \in Entries : Line(e) \in Lines
  BY DEF Line, Lines, Entries, Modes
<1>2. Len(es) \in Nat /\ DOMAIN es = 1 .. Len(es) /\ \A i \in 1 .. Len(es) : es[i] \in Entries
  OBVIOUS
<1>3. Text(es) = [i \in 1 .. Len(es) |-> Line(es[i])]
  BY <1>2 DEF Text
<1> QED
  BY <1>1, <1>2, <1>3

\* A policy that reads back without an error reads back as it was.
LEMMA RoundTripWhole ==
    ASSUME NEW es \in Seq(Entries), ReadResult(Text(es)) = "OK"
    PROVE  Read(Text(es)) = es
<1> DEFINE text == Text(es)
           read == Read(text)
<1>1. /\ text \in Seq(Lines) /\ Len(text) = Len(es) /\ Len(es) \in Nat
      /\ \A i \in 1 .. Len(es) : text[i] = Line(es[i])
  BY TextTyped
<1> HIDE DEF text
<1>2. /\ read \in Seq(Entries) /\ Len(read) = Len(es)
      /\ \A i \in 1 .. Len(es) : read[i] = EntryOf(text[i])
  BY <1>1, ReadPrefix, ReadWhole DEF text
<1>3. ASSUME NEW i \in 1 .. Len(es) PROVE read[i] = es[i]
  <2>1. text[i].token # "string"
    <3>1. i \in DOMAIN text
      BY <1>1
    <3> QED
      BY <3>1 DEF ReadResult, Unreadable, text
  <2>2. es[i] \in Entries /\ text[i] = Line(es[i])
    BY <1>1
  <2>3. es[i].mode = "ACCEPT" /\ text[i].token = "identifier"
    BY <2>1, <2>2 DEF Line
  <2>4. read[i] = [hash |-> es[i].hash, mode |-> es[i].mode]
    BY <1>2, <2>2, <2>3 DEF EntryOf, Line
  <2> QED
    BY <2>2, <2>4 DEF Entries
<1> QED
  BY <1>2, <1>3 DEF text

\* Every line of a file is that of the entry in the same place, but for the one where a
\* crash cut the file off.
WrittenFrom(lines, es) ==
    \A i \in DOMAIN lines :
        IF lines[i].token = "torn" THEN i = Len(lines)
        ELSE i \in DOMAIN es /\ lines[i] = Line(es[i])

\* What can be read of such a file accepts no program that the policy did not accept.
LEMMA ReadAcceptsLess ==
    ASSUME DefaultMode # "ACCEPT",
           NEW lines \in Seq(Lines), NEW es \in Seq(Entries), WrittenFrom(lines, es),
           NEW hash, Mode(Read(lines), hash) = "ACCEPT"
    PROVE  Mode(es, hash) = "ACCEPT"
<1> DEFINE read == Read(lines)
           i == First(read, hash)
<1>1. /\ read \in Seq(Entries)
      /\ Len(read) \in Nat /\ Len(lines) \in Nat /\ Len(es) \in Nat /\ Len(read) <= Len(lines)
      /\ \A j \in 1 .. Len(read) : read[j] = EntryOf(lines[j])
      /\ (\E j \in DOMAIN lines : lines[j].token = "torn") => Len(read) < Len(lines)
  BY ReadPrefix
<1> HIDE DEF read
<1>2. Matches(read, hash) # {} /\ read[i].mode = "ACCEPT"
  BY DEF Mode, read
<1>3. i \in Matches(read, hash) /\ \A j \in Matches(read, hash) : i <= j
  BY <1>1, <1>2, FirstMatch
<1>4. ASSUME NEW j \in 1 .. Len(read)
      PROVE  j \in DOMAIN es /\ lines[j] = Line(es[j]) /\ read[j].hash = es[j].hash
  <2>1. j \in DOMAIN lines /\ lines[j] \in Lines /\ lines[j].token # "torn"
    BY <1>1 DEF WrittenFrom
  <2>2. j \in DOMAIN es /\ lines[j] = Line(es[j])
    BY <2>1 DEF WrittenFrom
  <2> QED
    BY <1>1, <2>1, <2>2, EntryTyped DEF Line
<1>5. i \in 1 .. Len(read) /\ read[i].hash = hash
  BY <1>1, <1>3 DEF Matches
<1>6. i \in Matches(es, hash)
  BY <1>4, <1>5 DEF Matches
<1>7. ASSUME NEW j \in Matches(es, hash) PROVE i <= j
  <2>1. j \in 1 .. Len(es) /\ es[j].hash = hash
    BY DEF Matches
  <2>2. CASE j \in 1 .. Len(read)
    <3>1. j \in Matches(read, hash)
      BY <1>1, <1>4, <2>1, <2>2 DEF Matches
    <3> QED
      BY <1>3, <3>1
  <2>3. CASE j \notin 1 .. Len(read)
    BY <1>1, <1>5, <2>1, <2>3
  <2> QED
    BY <2>2, <2>3
<1>8. Mode(es, hash) = es[i].mode
  BY <1>6, <1>7, FirstUnique
<1>9. es[i].mode = "ACCEPT"
  <2>1. read[i] = EntryOf(Line(es[i]))
    BY <1>1, <1>4, <1>5
  <2>2. read[i].mode = IF es[i].mode = "ACCEPT" THEN es[i].mode ELSE DefaultMode
    BY <2>1 DEF EntryOf, Line
  <2> QED
    BY <1>2, <2>2
<1> QED
  BY <1>8, <1>9

(***************************************************************************)
(* Types                                                                   *)
(***************************************************************************)

\* What the gate returns is well typed.
LEMMA ReturnTyped ==
    ASSUME NEW hash \in Hashes \cup {NoHash}, NEW env \in SUBSET EnvVars, NEW result \in Results,
           Return(hash, env, result)
    PROVE  outcome' \in [hash : Hashes \cup {NoHash}, result : Results, env : SUBSET EnvVars]
BY DEF Return

\* A process that starts is well typed, whatever file it reads.
LEMMA StartTyped ==
    ASSUME NEW lines \in Seq(Lines), NEW decisions \in SUBSET Entries, Start(lines, decisions)
    PROVE  /\ entries' \in Seq(Entries)
           /\ loaded' \in {"OK", "ERROR"}
           /\ decided' \in SUBSET Entries
           /\ question' \in [hash : Hashes \cup {NoHash}, env : SUBSET EnvVars]
           /\ outcome' \in [hash : Hashes \cup {NoHash}, result : Results, env : SUBSET EnvVars]
           /\ fds' \in 0 .. MaxFds
<1>1. entries' \in Seq(Entries)
  BY ReadPrefix DEF Start
<1> QED
  BY <1>1, ExecAssumption DEF Start, ReadResult, NoQuestion, NoOutcome, Results

\* A file that a crash cut off: some lines, and the torn one.
LEMMA TornTyped ==
    ASSUME NEW es \in Seq(Entries), NEW n \in 0 .. Len(es)
    PROVE  /\ SubSeq(Text(es), 1, n) \o Torn \in Seq(Lines)
           /\ WrittenFrom(SubSeq(Text(es), 1, n) \o Torn, es)
<1> DEFINE text == Text(es)
           part == SubSeq(text, 1, n)
           t == [hash |-> CHOOSE h \in Hashes : TRUE, token |-> "torn", mode |-> "PROMPT"]
           all == part \o <<t>>
<1>1. /\ text \in Seq(Lines) /\ Len(text) = Len(es) /\ Len(es) \in Nat
      /\ \A i \in 1 .. Len(es) : text[i] = Line(es[i])
  BY TextTyped
<1>2. t \in Lines
  BY ExecAssumption DEF Lines, Modes
<1> HIDE DEF text, t
<1>3. /\ part \in Seq(Lines) /\ Len(part) = n
      /\ \A i \in 1 .. n : part[i] = text[i]
  BY <1>1
<1> HIDE DEF part
<1>4. /\ all \in Seq(Lines) /\ Len(all) = n + 1
      /\ all[n + 1] = t
      /\ \A i \in 1 .. n : all[i] = part[i]
  BY <1>2, <1>3
<1> HIDE DEF all
<1>5. WrittenFrom(all, es)
  <2> SUFFICES ASSUME NEW i \in DOMAIN all
               PROVE  IF all[i].token = "torn" THEN i = Len(all)
                      ELSE i \in DOMAIN es /\ all[i] = Line(es[i])
    BY DEF WrittenFrom
  <2>1. CASE i = n + 1
    BY <1>4, <2>1 DEF t
  <2>2. CASE i # n + 1
    <3>1. i \in 1 .. n /\ i \in DOMAIN es
      BY <1>4, <2>2
    <3>2. all[i] = Line(es[i])
      BY <1>1, <1>3, <1>4, <3>1
    <3> QED
      BY <3>1, <3>2 DEF Line
  <2> QED
    BY <2>1, <2>2
<1>6. SubSeq(Text(es), 1, n) \o Torn = all
  BY DEF all, part, text, t, Torn
<1> QED
  BY <1>4, <1>5, <1>6

\* Every step of the gate, of the prompt and of the policy file keeps the types.
LEMMA StepTyped ==
    ASSUME TypeOK, [Next]_vars
    PROVE  TypeOK'
<1> USE ExecAssumption
<1>0. /\ "OK" \in Results /\ "ERROR" \in Results /\ "REJECTEDPOLICY" \in Results
      /\ "REJECTEDUSER" \in Results /\ "REJECTEDPROMPT" \in Results
      /\ NoQuestion \in [hash : Hashes \cup {NoHash}, env : SUBSET EnvVars]
  BY DEF Results, NoQuestion
<1>1. ASSUME NEW hash \in Hashes, NEW env \in SUBSET EnvVars,
             Gate(hash, env) \/ GateNoFd(hash, env) \/ GateNoHash(hash, env) \/ GateNoRequest(hash, env)
      PROVE  TypeOK'
  <2>1. \/ UNCHANGED outcome
        \/ \E result \in Results : Return(hash, env, result)
    BY <1>0, <1>1 DEF Gate, GateNoFd, GateNoHash, GateNoRequest
  <2>2. outcome' \in [hash : Hashes \cup {NoHash}, result : Results, env : SUBSET EnvVars]
    BY <2>1, ReturnTyped DEF TypeOK
  <2>3. question' \in [hash : Hashes \cup {NoHash}, env : SUBSET EnvVars]
    BY <1>1 DEF Gate, GateNoFd, GateNoHash, GateNoRequest, TypeOK
  <2>4. fds' \in 0 .. MaxFds /\ ops' \in 0 .. MaxOps
    BY <1>1 DEF Gate, GateNoFd, GateNoHash, GateNoRequest, OpenExecutable, Operation, TypeOK
  <2>5. UNCHANGED <<entries, decided, policyVars>>
    BY <1>1 DEF Gate, GateNoFd, GateNoHash, GateNoRequest
  <2> QED
    BY <2>2, <2>3, <2>4, <2>5 DEF policyVars, TypeOK
<1>2. CASE AnswerOnce \/ AnswerRemember \/ RememberFails
  <2>1. question.hash \in Hashes \cup {NoHash} /\ question.env \in SUBSET EnvVars
    BY DEF TypeOK
  <2>2. \E result \in Results : Return(question.hash, question.env, result)
    BY <1>0, <1>2 DEF AnswerOnce, AnswerRemember, RememberFails
  <2>3. outcome' \in [hash : Hashes \cup {NoHash}, result : Results, env : SUBSET EnvVars]
    BY <2>1, <2>2, ReturnTyped
  <2>4. /\ question' \in [hash : Hashes \cup {NoHash}, env : SUBSET EnvVars]
        /\ UNCHANGED <<fds, ops, policyVars>>
    BY <1>0, <1>2 DEF AnswerOnce, AnswerRemember, RememberFails
  <2>5. entries' \in Seq(Entries) /\ decided' \in SUBSET Entries
    <3>1. CASE AnswerRemember
      <4>1. PICK mode \in {"ACCEPT", "REJECT"} :
              /\ entries' = Append(entries, Remembered(question.hash, mode))
              /\ decided' = decided \cup {Remembered(question.hash, mode)}
        BY <3>1 DEF AnswerRemember
      <4>2. question.hash \in Hashes
        BY <2>1, <3>1 DEF AnswerRemember, Asking
      <4>3. Remembered(question.hash, mode) \in Entries
        BY <4>2 DEF Remembered, Entries, Modes
      <4> QED
        BY <4>1, <4>3 DEF TypeOK
    <3> QED
      BY <1>2, <3>1 DEF AnswerOnce, RememberFails, TypeOK
  <2> QED
    BY <2>3, <2>4, <2>5 DEF policyVars, TypeOK
<1>3. ASSUME NEW lines \in Files, Load(lines)
      PROVE  TypeOK'
  <2>1. lines \in Seq(Lines)
    OBVIOUS
  <2>2. entries' \in Seq(Entries) /\ loaded' \in {"OK", "ERROR"}
    BY <1>3, <2>1, ReadPrefix DEF Load, ReadResult, TypeOK
  <2> QED
    BY <1>3, <2>2 DEF Load, Operation, TypeOK
<1>4. CASE Save
  <2>1. file' \in Seq(Lines)
    BY <1>4, TextTyped DEF Save, TypeOK
  <2> QED
    BY <1>4, <2>1 DEF Save, Operation, TypeOK
<1>5. CASE SaveFails
  BY <1>5 DEF SaveFails, Operation, TypeOK
<1>6. CASE Restart
  <2>1. Start(file, kept) /\ file \in Seq(Lines) /\ kept \in SUBSET Entries
    BY <1>6 DEF Restart, TypeOK
  <2>2. ops' \in 0 .. MaxOps /\ UNCHANGED <<file, written, kept>>
    BY <1>6 DEF Restart, TypeOK
  <2> QED
    BY <2>1, <2>2, StartTyped DEF TypeOK
<1>7. CASE RestartInSave
  <2>1. PICK n \in 0 .. Len(entries) :
          /\ file' = SubSeq(Text(entries), 1, n) \o Torn
          /\ Start(SubSeq(Text(entries), 1, n) \o Torn, {})
    BY <1>7 DEF RestartInSave
  <2>2. entries \in Seq(Entries)
    BY DEF TypeOK
  <2>3. file' \in Seq(Lines) /\ Start(file', {})
    BY <2>1, <2>2, TornTyped
  <2>4. ops' \in 0 .. MaxOps /\ written' = entries /\ kept' = {}
    BY <1>7 DEF RestartInSave, Operation, TypeOK
  <2> QED
    BY <2>2, <2>3, <2>4, StartTyped DEF TypeOK
<1>8. CASE UNCHANGED vars
  BY <1>8 DEF vars, TypeOK
<1> QED
  BY <1>1, <1>2, <1>3, <1>4, <1>5, <1>6, <1>7, <1>8 DEF Next

\* The policy, the question and the file are well typed in every reachable state, and the
\* gate never holds more descriptors than the process may open.
THEOREM ExecTyped == Spec => []TypeOK
<1>1. Init => TypeOK
  BY ExecAssumption DEF Init, TypeOK, NoQuestion, NoOutcome, Results
<1> QED
  BY <1>1, StepTyped, PTL DEF Spec

(***************************************************************************)
(* Decisions                                                               *)
(*                                                                         *)
(* DecisionsNotReversed is not inductive: a program must also have an      *)
(* entry for every decision (or the default could be taken for it), a      *)
(* question is asked only while the policy says so, and what the file      *)
(* holds must stand for the decisions made when it was written.            *)
(***************************************************************************)

\* Every decision has an entry, and the policy does not say the opposite.
Stand(es, ds) ==
    \A d \in ds : Matches(es, d.hash) # {} /\ Mode(es, d.hash) \in {d.mode, "PROMPT"}

\* The inductive invariant.
Inv ==
    /\ Stand(entries, decided)
    /\ Stand(written, kept)
    /\ kept # {} => file = Text(written)
    /\ Asking => Mode(entries, question.hash) = "PROMPT"
    /\ WrittenFrom(file, written)

\* Decisions stand when entries are added at the end.
LEMMA StandLonger ==
    ASSUME NEW es \in Seq(Entries), NEW more \in Seq(Entries), NEW ds, Stand(es, ds)
    PROVE  Stand(es \o more, ds)
BY ModeOfLonger DEF Stand

\* A program that was asked about and gets an entry.
LEMMA StandAnswer ==
    ASSUME NEW es \in Seq(Entries), NEW ds, Stand(es, ds),
           NEW e \in Entries, Mode(es, e.hash) = "PROMPT"
    PROVE  Stand(Append(es, e), ds \cup {e})
<1> SUFFICES ASSUME NEW d \in ds \cup {e}
             PROVE  /\ Matches(Append(es, e), d.hash) # {}
                    /\ Mode(Append(es, e), d.hash) \in {d.mode, "PROMPT"}
  BY DEF Stand
<1>1. CASE d \in ds
  BY <1>1, ModeOfAppend DEF Stand
<1>2. CASE d = e
  BY <1>2, ModeOfAppend
<1> QED
  BY <1>1, <1>2

\* The lines that Save writes are those of the policy.
LEMMA TextWritten ==
    ASSUME NEW es \in Seq(Entries)
    PROVE  WrittenFrom(Text(es), es)
<1>1. /\ Text(es) \in Seq(Lines) /\ Len(Text(es)) = Len(es) /\ Len(es) \in Nat
      /\ \A i \in 1 .. Len(es) : Text(es)[i] = Line(es[i])
  BY TextTyped
<1>2. DOMAIN Text(es) = 1 .. Len(es) /\ DOMAIN es = 1 .. Len(es)
  BY <1>1
<1> QED
  BY <1>1, <1>2 DEF WrittenFrom, Line

\* Every step keeps the invariant.
LEMMA StepKeeps ==
    ASSUME TypeOK, Inv, [Next]_vars
    PROVE  Inv'
<1>0. entries \in Seq(Entries) /\ written \in Seq(Entries) /\ file \in Seq(Lines)
  BY DEF TypeOK
<1>1. ASSUME NEW hash \in Hashes, NEW env \in SUBSET EnvVars,
             Gate(hash, env) \/ GateNoFd(hash, env) \/ GateNoHash(hash, env) \/ GateNoRequest(hash, env)
      PROVE  Inv'
  <2>1. UNCHANGED <<entries, decided, file, written, kept>>
    BY <1>1 DEF Gate, GateNoFd, GateNoHash, GateNoRequest, policyVars
  <2>2. question' = question \/ (question'.hash = hash /\ Mode(entries, hash) = "PROMPT")
    BY <1>1 DEF Gate, GateNoFd, GateNoHash, GateNoRequest
  <2> QED
    BY <2>1, <2>2 DEF Inv, Asking
<1>2. CASE AnswerOnce \/ RememberFails
  BY <1>2 DEF AnswerOnce, RememberFails, policyVars, Inv, Asking, NoQuestion
<1>3. CASE AnswerRemember
  <2>1. PICK mode \in {"ACCEPT", "REJECT"} :
          /\ entries' = Append(entries, Remembered(question.hash, mode))
          /\ decided' = decided \cup {Remembered(question.hash, mode)}
    BY <1>3 DEF AnswerRemember
  <2> DEFINE e == Remembered(question.hash, mode)
  <2>2. e \in Entries /\ e.hash = question.hash
    <3>1. question.hash \in Hashes
      BY <1>3 DEF AnswerRemember, Asking, TypeOK
    <3> QED
      BY <3>1 DEF Remembered, Entries, Modes
  <2>3. Mode(entries, question.hash) = "PROMPT"
    BY <1>3 DEF AnswerRemember, Inv
  <2>4. Stand(entries, decided)
    BY DEF Inv
  <2> HIDE DEF e
  <2>5. Stand(Append(entries, e), decided \cup {e})
    BY <1>0, <2>2, <2>3, <2>4, StandAnswer
  <2>6. Stand(entries', decided')
    BY <2>1, <2>5 DEF e
  <2>7. UNCHANGED <<file, written, kept>> /\ question' = NoQuestion
    BY <1>3 DEF AnswerRemember, policyVars
  <2> QED
    BY <2>6, <2>7 DEF Inv, Asking, NoQuestion
<1>4. ASSUME NEW lines \in Files, Load(lines)
      PROVE  Inv'
  <2>1. lines \in Seq(Lines)
    BY ExecAssumption
  <2>2. Stand(entries \o Read(lines), decided)
    BY <1>0, <2>1, ReadPrefix, StandLonger DEF Inv
  <2>3. ~Asking /\ UNCHANGED <<question, file, written, decided, kept>>
        /\ entries' = entries \o Read(lines)
    BY <1>4 DEF Load, Operation
  <2> QED
    BY <2>2, <2>3 DEF Inv, Asking
<1>5. CASE Save
  <2>1. /\ file' = Text(entries) /\ written' = entries /\ kept' = decided
        /\ ~Asking /\ UNCHANGED <<entries, question, decided>>
    BY <1>5 DEF Save, Operation
  <2>2. WrittenFrom(Text(entries), entries)
    BY <1>0, TextWritten
  <2> QED
    BY <2>1, <2>2 DEF Inv, Asking
<1>6. CASE SaveFails
  <2>1. /\ file' = << >> /\ written' = << >> /\ kept' = {}
        /\ ~Asking /\ UNCHANGED <<entries, question, decided>>
    BY <1>6 DEF SaveFails, Operation
  <2> QED
    BY <2>1 DEF Inv, Asking, Stand, WrittenFrom
<1>7. CASE Restart
  <2>1. /\ entries' = Read(file)
        /\ decided' = IF ReadResult(file) = "OK" THEN kept ELSE {}
        /\ question' = NoQuestion
        /\ UNCHANGED <<file, written, kept>>
    BY <1>7 DEF Restart, Start
  <2>2. Stand(entries', decided')
    <3>1. CASE decided' = {}
      BY <3>1 DEF Stand
    <3>2. CASE decided' # {}
      <4>1. ReadResult(file) = "OK" /\ decided' = kept /\ file = Text(written)
        BY <2>1, <3>2 DEF Inv
      <4>2. entries' = written
        BY <1>0, <2>1, <4>1, RoundTripWhole
      <4> QED
        BY <4>1, <4>2 DEF Inv
    <3> QED
      BY <3>1, <3>2
  <2> QED
    BY <2>1, <2>2 DEF Inv, Asking, NoQuestion
<1>8. CASE RestartInSave
  <2>1. PICK n \in 0 .. Len(entries) :
          /\ file' = SubSeq(Text(entries), 1, n) \o Torn
          /\ Start(SubSeq(Text(entries), 1, n) \o Torn, {})
    BY <1>8 DEF RestartInSave
  <2>2. /\ decided' = {} /\ kept' = {} /\ written' = entries /\ question' = NoQuestion
    BY <1>8, <2>1 DEF RestartInSave, Start
  <2>3. WrittenFrom(file', entries)
    BY <1>0, <2>1, TornTyped
  <2> QED
    BY <2>2, <2>3 DEF Inv, Stand, Asking, NoQuestion
<1>9. CASE UNCHANGED vars
  BY <1>9 DEF vars, Inv, Asking
<1> QED
  BY <1>1, <1>2, <1>3, <1>4, <1>5, <1>6, <1>7, <1>8, <1>9 DEF Next

\* The inductive invariant holds from gh_permexec_ctor on.
LEMMA InvHolds == Spec => []Inv
<1>1. Init => Inv
  BY DEF Init, Inv, Stand, WrittenFrom, Asking, NoQuestion
<1> QED
  BY <1>1, StepKeeps, ExecTyped, PTL DEF Spec

\* A remembered answer is never turned into its opposite: by no further answer, no policy
\* file and no restart with a file that reads back without an error, for any default mode.
THEOREM DecisionsStay == Spec => []DecisionsNotReversed
<1>1. Inv => DecisionsNotReversed
  BY DEF Inv, Stand, DecisionsNotReversed
<1> QED
  BY <1>1, InvHolds, PTL

\* A process that starts with a policy file accepts no program that the policy in memory did
\* not accept when the file was written, even if the writer crashed; the default mode must
\* not accept, since it stands for modes that cannot be read.
THEOREM NoEscalation ==
    ASSUME DefaultMode # "ACCEPT"
    PROVE  Spec => RestartNeverEscalates
<1> DEFINE Less == Restart \/ RestartInSave =>
                     \A h \in Hashes : Mode(entries', h) = "ACCEPT" => Mode(written', h) = "ACCEPT"
<1>1. TypeOK /\ Inv /\ [Next]_vars => [Less]_vars
  <2> SUFFICES ASSUME TypeOK, Inv, Restart \/ RestartInSave, NEW h \in Hashes,
                      Mode(entries', h) = "ACCEPT"
               PROVE  Mode(written', h) = "ACCEPT"
    OBVIOUS
  <2>0. entries \in Seq(Entries) /\ written \in Seq(Entries) /\ file \in Seq(Lines)
    BY DEF TypeOK
  <2>1. CASE Restart
    <3>1. entries' = Read(file) /\ written' = written /\ WrittenFrom(file, written)
      BY <2>1 DEF Restart, Start, Inv
    <3> QED
      BY <2>0, <3>1, ReadAcceptsLess
  <2>2. CASE RestartInSave
    <3>1. PICK n \in 0 .. Len(entries) : entries' = Read(SubSeq(Text(entries), 1, n) \o Torn)
      BY <2>2 DEF RestartInSave, Start
    <3>2. written' = entries
      BY <2>2 DEF RestartInSave
    <3> QED
      BY <2>0, <3>1, <3>2, TornTyped, ReadAcceptsLess
  <2> QED
    BY <2>1, <2>2
<1> QED
  BY <1>1, ExecTyped, InvHolds, PTL DEF Spec, RestartNeverEscalates
=============================================================================
