-------------------------- MODULE LifecycleProofs --------------------------
(***************************************************************************)
(* Proofs about the processes and descriptors of Lifecycle, for any number *)
(* of sandboxes and threads.                                               *)
(***************************************************************************)
EXTENDS Lifecycle, NaturalsInduction, WellFoundedInduction, SequenceTheorems, TLAPS

(***************************************************************************)
(* Objects, descriptors and messages                                       *)
(***************************************************************************)

\* The three kinds of objects and processes are different things.
LEMMA Distinct ==
    /\ \A s \in Sandboxes : s \in Objects /\ s \in Procs /\ s # Host /\ s \notin Threads
    /\ \A t \in Threads : t \in Objects /\ t \in Procs /\ t # Host /\ t \notin Sandboxes
    /\ \A o \in Objects : o \in Procs /\ o # Host /\ (o \in Sandboxes \/ o \in Threads)
    /\ Host \in Procs /\ Host \notin Objects
    /\ \A t \in Threads : Home[t] \in Sandboxes
BY ObjectsAssumption DEF Objects, Procs

\* A descriptor names its object and its kind.
LEMMA EndsDiffer ==
    ASSUME NEW o, NEW u
    PROVE  /\ h(o) = h(u) => o = u
           /\ p(o) = p(u) => o = u
           /\ pidfd(o) = pidfd(u) => o = u
           /\ h(o) # p(u) /\ h(o) # pidfd(u) /\ p(o) # pidfd(u)
           /\ o \in Objects => h(o) \in Ends /\ p(o) \in Ends /\ pidfd(o) \in Ends
BY DEF h, p, pidfd, Ends

\* The three kinds of messages differ, and NEWSUBJAIL names its thread.
LEMMA MessagesDiffer ==
    /\ HELLO # QUIT
    /\ \A t \in Threads : NEWSUBJAIL(t) \notin {HELLO, QUIT}
    /\ \A t, u \in Threads : NEWSUBJAIL(t) = NEWSUBJAIL(u) => t = u
    /\ HELLO \in Messages /\ QUIT \in Messages
    /\ \A t \in Threads : NEWSUBJAIL(t) \in Messages
<1>1. \A t : NEWSUBJAIL(t).type = "NEWSUBJAIL" /\ NEWSUBJAIL(t).sockfd = t
  BY DEF NEWSUBJAIL
<1>2. HELLO.type = "HELLO" /\ QUIT.type = "QUIT"
  BY DEF HELLO, QUIT
<1>3. /\ HELLO # QUIT
      /\ \A t \in Threads : NEWSUBJAIL(t) \notin {HELLO, QUIT}
  BY <1>1, <1>2
<1>4. \A t, u \in Threads : NEWSUBJAIL(t) = NEWSUBJAIL(u) => t = u
  BY <1>1
<1>5. HELLO \in Messages /\ QUIT \in Messages
  BY DEF Messages
<1>6. \A t \in Threads : NEWSUBJAIL(t) \in Messages
  BY DEF Messages
<1> QED
  BY <1>3, <1>4, <1>5, <1>6

(***************************************************************************)
(* Type correctness                                                        *)
(***************************************************************************)

\* The end of a process.
LEMMA DieTyped ==
    ASSUME TypeOK, NEW q \in Procs, Die(q)
    PROVE  /\ pc' \in [Procs -> Points]
           /\ holds' \in [Procs -> SUBSET Ends]
           /\ filters' \in [Procs -> SUBSET {"jail", "subjail"}]
           /\ fd' \in [Sandboxes -> SUBSET Threads]
           /\ \A r \in Procs : ~Running(r)' => holds'[r] = {}
<1>1. pc' \in [Procs -> Points]
  BY DEF TypeOK, Die, Points
<1>2. holds' \in [Procs -> SUBSET Ends] /\ filters' \in [Procs -> SUBSET {"jail", "subjail"}]
  BY DEF TypeOK, Die
<1>3. fd' \in [Sandboxes -> SUBSET Threads]
  BY DEF TypeOK, Die
<1>4. \A r \in Procs : ~Running(r)' => holds'[r] = {}
  BY DEF TypeOK, Die, Running
<1> QED
  BY <1>1, <1>2, <1>3, <1>4

\* A message is sent or received.
LEMMA QueueTyped ==
    ASSUME TypeOK, NEW o \in Objects
    PROVE  /\ \A m \in Messages :
                [toProc EXCEPT ![o] = Append(@, m)] \in [Objects -> Seq(Messages)]
           /\ toProc[o] # << >> =>
                /\ [toProc EXCEPT ![o] = Tail(@)] \in [Objects -> Seq(Messages)]
                /\ Head(toProc[o]) \in Messages
<1>1. toProc \in [Objects -> Seq(Messages)] /\ toProc[o] \in Seq(Messages)
  BY DEF TypeOK
<1>2. ASSUME NEW q \in Seq(Messages) PROVE [toProc EXCEPT ![o] = q] \in [Objects -> Seq(Messages)]
  BY <1>1
<1>3. \A m \in Messages : Append(toProc[o], m) \in Seq(Messages)
  BY <1>1
<1>4. toProc[o] # << >> => Tail(toProc[o]) \in Seq(Messages) /\ Head(toProc[o]) \in Messages
  BY <1>1
<1> QED
  BY <1>1, <1>2, <1>3, <1>4

\* The messages that the process of an object may be sent: a request for a subjail goes to
\* the jail of its sandbox.
MessagesTo(o) == {m \in Messages : \A t \in Threads : m = NEWSUBJAIL(t) => Home[t] = o}

\* A step of the host that touches no process: an object changes, descriptors are opened
\* or closed, a message may be sent.
HostDoes(o, phase, es) ==
    /\ HostRuns
    /\ obj[o] # "failed" /\ phase # "none" /\ (phase = "pair" => obj[o] = "none")
    /\ Becomes(o, phase)
    /\ \/ holds' = holds
       \/ holds' = [holds EXCEPT ![Host] = @ \cup es]
       \/ holds' = [holds EXCEPT ![Host] = @ \ es]
    /\ \/ toProc' = toProc
       \/ \E u \in Objects : \E m \in MessagesTo(u) :
             toProc' = [toProc EXCEPT ![u] = Append(@, m)]
    /\ \/ toHost' = toHost
       \/ \E t \in Threads : toHost' = [toHost EXCEPT ![t] = FALSE]
    /\ reaped' \subseteq Sandboxes
    /\ UNCHANGED <<pc, filters, fd>>

\* Such a step keeps the types.
LEMMA HostDoesTyped ==
    ASSUME TypeOK, NEW o \in Objects, NEW phase \in Phases, NEW es \in SUBSET Ends,
           HostDoes(o, phase, es)
    PROVE  TypeOK'
<1>1. obj' \in [Objects -> Phases]
  BY DEF HostDoes, Becomes, TypeOK
<1>2. holds' \in [Procs -> SUBSET Ends]
  <2>1. \/ holds' = holds
        \/ holds' = [holds EXCEPT ![Host] = @ \cup es]
        \/ holds' = [holds EXCEPT ![Host] = @ \ es]
    BY DEF HostDoes
  <2>2. holds \in [Procs -> SUBSET Ends]
    BY DEF TypeOK
  <2> QED
    BY <2>1, <2>2, Distinct
<1>3. \A q \in Procs : ~Running(q)' => holds'[q] = {}
  <2> TAKE q \in Procs
  <2>1. Running(Host)
    BY DEF HostDoes, HostRuns, Running
  <2>2. Running(q)' = Running(q)
    BY DEF HostDoes, Running
  <2>3. q # Host => holds'[q] = holds[q]
    BY Distinct DEF HostDoes, TypeOK
  <2> QED
    BY <2>1, <2>2, <2>3 DEF TypeOK
<1>4. toProc' \in [Objects -> Seq(Messages)]
  <2>1. CASE toProc' = toProc
    BY <2>1 DEF TypeOK
  <2>2. CASE \E u \in Objects : \E m \in MessagesTo(u) :
               toProc' = [toProc EXCEPT ![u] = Append(@, m)]
    BY <2>2, QueueTyped DEF MessagesTo
  <2> QED
    BY <2>1, <2>2 DEF HostDoes
<1>5. toHost' \in [Threads -> BOOLEAN]
  BY DEF HostDoes, TypeOK
<1> QED
  <2>1. UNCHANGED <<pc, filters, fd>> /\ reaped' \subseteq Sandboxes
    BY DEF HostDoes
  <2>2. /\ pc' \in [Procs -> Points] /\ fd' \in [Sandboxes -> SUBSET Threads]
        /\ filters' \in [Procs -> SUBSET {"jail", "subjail"}]
    BY <2>1 DEF TypeOK
  <2> QED
    BY <1>1, <1>2, <1>3, <1>4, <1>5, <2>1, <2>2 DEF TypeOK

\* The steps of gh_sandbox and gh_thread that leave the processes alone.
LEMMA HostSteps ==
    ASSUME TypeOK, NEW o \in Objects,
           \/ /\ o \in Sandboxes
              /\ \/ SandboxPair(o) \/ SandboxForkFails(o) \/ SandboxHello(o)
                 \/ SandboxQuit(o) \/ SandboxExited(o)
           \/ /\ o \in Threads
              /\ \/ ThreadOpen(o) \/ ThreadAlive(o) \/ ThreadTimeout(o) \/ ThreadQuit(o)
                 \/ ThreadPidfd(o) \/ ThreadExited(o)
    PROVE  \E phase \in Phases, es \in SUBSET Ends : HostDoes(o, phase, es)
<1>0. /\ h(o) \in Ends /\ p(o) \in Ends /\ pidfd(o) \in Ends
      /\ HELLO \in MessagesTo(o) /\ QUIT \in MessagesTo(o) /\ reaped \subseteq Sandboxes
      /\ o \in Threads => Home[o] \in Objects /\ NEWSUBJAIL(o) \in MessagesTo(Home[o])
  BY Distinct, EndsDiffer, MessagesDiffer DEF TypeOK, MessagesTo
<1>1. CASE o \in Sandboxes /\ SandboxPair(o)
  <2>1. HostDoes(o, "pair", {h(o), p(o)})
    BY <1>0, <1>1 DEF SandboxPair, HostDoes, Free
  <2> QED
    BY <1>0, <2>1 DEF Phases
<1>2. CASE o \in Sandboxes /\ SandboxForkFails(o)
  <2>1. HostDoes(o, "forked", {})
    BY <1>0, <1>2 DEF SandboxForkFails, HostDoes, Free
  <2> QED
    BY <2>1 DEF Phases
<1>3. CASE o \in Sandboxes /\ SandboxHello(o)
  <2>1. HostDoes(o, "live", {p(o)}) \/ HostDoes(o, "failed", {p(o)})
    BY <1>0, <1>3 DEF SandboxHello, HostDoes, HostCloses
  <2> QED
    BY <1>0, <2>1 DEF Phases
<1>4. CASE o \in Sandboxes /\ SandboxQuit(o)
  <2>1. HostDoes(o, "quit", {pidfd(o)}) \/ HostDoes(o, "closed", {h(o)})
    BY <1>0, <1>4 DEF SandboxQuit, HostDoes, HostCloses, Free
  <2> QED
    BY <1>0, <2>1 DEF Phases
<1>5. CASE o \in Sandboxes /\ SandboxExited(o)
  <2>1. HostDoes(o, "closed", {h(o)})
    BY <1>0, <1>5 DEF SandboxExited, HostDoes, HostCloses
  <2> QED
    BY <1>0, <2>1 DEF Phases
<1>6. CASE o \in Threads /\ ThreadOpen(o)
  <2>1. HostDoes(o, "wait", {h(o), p(o)}) \/ HostDoes(o, "failed", {p(o)})
    BY <1>0, <1>6 DEF ThreadOpen, HostDoes, Free
  <2> QED
    BY <1>0, <2>1 DEF Phases
<1>7. CASE o \in Threads /\ ThreadAlive(o)
  <2>1. HostDoes(o, "live", {p(o)}) \/ HostDoes(o, "failed", {p(o), h(o)})
    BY <1>0, <1>7 DEF ThreadAlive, HostDoes, HostCloses
  <2> QED
    BY <1>0, <2>1 DEF Phases
<1>8. CASE o \in Threads /\ ThreadTimeout(o)
  <2>1. HostDoes(o, "failed", {h(o)})
    BY <1>0, <1>8 DEF ThreadTimeout, HostDoes, HostCloses
  <2> QED
    BY <1>0, <2>1 DEF Phases
<1>9. CASE o \in Threads /\ ThreadQuit(o)
  <2>1. HostDoes(o, "pidfd", {}) \/ HostDoes(o, "closed", {h(o)})
    BY <1>0, <1>9 DEF ThreadQuit, HostDoes, HostCloses, Free
  <2> QED
    BY <1>0, <2>1 DEF Phases
<1>10. CASE o \in Threads /\ ThreadPidfd(o)
  <2>1. HostDoes(o, "quit", {pidfd(o)}) \/ HostDoes(o, "closed", {h(o)})
    BY <1>0, <1>10 DEF ThreadPidfd, HostDoes, HostCloses
  <2> QED
    BY <1>0, <2>1 DEF Phases
<1>11. CASE o \in Threads /\ ThreadExited(o)
  <2>1. HostDoes(o, "closed", {h(o)})
    BY <1>0, <1>11 DEF ThreadExited, HostDoes, HostCloses
  <2> QED
    BY <1>0, <2>1 DEF Phases
<1> QED
  BY <1>1, <1>2, <1>3, <1>4, <1>5, <1>6, <1>7, <1>8, <1>9, <1>10, <1>11

\* The process of an object may take a message from its queue.
MayReceive(o) ==
    toProc' = toProc \/ (toProc[o] # << >> /\ toProc' = [toProc EXCEPT ![o] = Tail(@)])

\* The ways in which the process of an object ends by itself.
Dies(o) == Running(o) /\ Die(o) /\ MayReceive(o) /\ UNCHANGED <<obj, toHost, reaped>>

\* These are the steps in which a process ends by itself.
LEMMA DyingSteps ==
    ASSUME NEW o \in Objects,
           \/ JailStartFails(o) \/ JailQuit(o) \/ SubjailInitFails(o) \/ SubjailQuit(o)
           \/ Hangup(o) \/ HelloTimeout(o) \/ Crash(o)
    PROVE  Dies(o)
BY DEF JailStartFails, JailQuit, SubjailInitFails, SubjailQuit, Hangup, HelloTimeout, Crash,
       Dies, MayReceive, Receives, Running

\* What a process held is closed when it ends.
LEMMA DiesTyped ==
    ASSUME TypeOK, NEW o \in Objects, Dies(o)
    PROVE  TypeOK'
<1>1. o \in Procs
  BY Distinct
<1>2. /\ pc' \in [Procs -> Points]
      /\ holds' \in [Procs -> SUBSET Ends]
      /\ filters' \in [Procs -> SUBSET {"jail", "subjail"}]
      /\ fd' \in [Sandboxes -> SUBSET Threads]
      /\ \A r \in Procs : ~Running(r)' => holds'[r] = {}
  BY <1>1, DieTyped DEF Dies
<1>3. toProc' \in [Objects -> Seq(Messages)]
  <2>1. CASE toProc' = toProc
    BY <2>1 DEF TypeOK
  <2>2. CASE toProc[o] # << >> /\ toProc' = [toProc EXCEPT ![o] = Tail(@)]
    BY <2>2, QueueTyped
  <2> QED
    BY <2>1, <2>2 DEF Dies, MayReceive
<1>4. /\ obj' \in [Objects -> Phases] /\ toHost' \in [Threads -> BOOLEAN]
      /\ reaped' \subseteq Sandboxes
  BY DEF Dies, TypeOK
<1> QED
  BY <1>2, <1>3, <1>4 DEF TypeOK

\* The destructors' SIGKILL.
Kills(o) ==
    /\ HostRuns
    /\ obj[o] = "quit"
    /\ Becomes(o, "closed")
    /\ Goto(o, "dead")
    /\ holds' = [holds EXCEPT ![o] = {}, ![Host] = @ \ {h(o)}]
    /\ filters' = [filters EXCEPT ![o] = {}]
    /\ fd' = IF o \in Sandboxes THEN [fd EXCEPT ![o] = {}] ELSE fd
    /\ reaped' \subseteq Sandboxes
    /\ UNCHANGED <<toProc, toHost>>

\* SandboxKill and ThreadKill are the kills.
LEMMA KillSteps ==
    ASSUME TypeOK, NEW o \in Objects,
           (o \in Sandboxes /\ SandboxKill(o)) \/ (o \in Threads /\ ThreadKill(o))
    PROVE  Kills(o)
<1>1. CASE o \in Sandboxes /\ SandboxKill(o)
  BY <1>1 DEF SandboxKill, Kills, TypeOK
<1>2. CASE o \in Threads /\ ThreadKill(o)
  BY <1>2, Distinct DEF ThreadKill, Kills, TypeOK
<1> QED
  BY <1>1, <1>2

\* A kill keeps the types.
LEMMA KillsTyped ==
    ASSUME TypeOK, NEW o \in Objects, Kills(o)
    PROVE  TypeOK'
<1>0. o \in Procs /\ o # Host /\ Host \in Procs
  BY Distinct
<1>1. obj' \in [Objects -> Phases] /\ pc' \in [Procs -> Points]
  BY <1>0 DEF Kills, Becomes, Goto, TypeOK, Phases, Points
<1>2. holds' \in [Procs -> SUBSET Ends]
  BY <1>0 DEF Kills, TypeOK
<1>3. /\ filters' \in [Procs -> SUBSET {"jail", "subjail"}]
      /\ fd' \in [Sandboxes -> SUBSET Threads]
  BY <1>0 DEF Kills, TypeOK
<1>4. \A q \in Procs : ~Running(q)' => holds'[q] = {}
  <2> TAKE q \in Procs
  <2>1. CASE q = o
    BY <1>0, <2>1 DEF Kills, TypeOK
  <2>2. CASE q = Host
    BY <1>0, <2>2 DEF Kills, Goto, HostRuns, Running, TypeOK
  <2>3. CASE q # o /\ q # Host
    BY <1>0, <2>3 DEF Kills, Goto, Running, TypeOK
  <2> QED
    BY <2>1, <2>2, <2>3
<1> QED
  BY <1>1, <1>2, <1>3, <1>4 DEF Kills, TypeOK

\* A process that goes on keeps or closes descriptors it has.
Continues(o, point) ==
    /\ Running(o)
    /\ Goto(o, point)
    /\ MayReceive(o)
    /\ holds' \in [Procs -> SUBSET Ends]
    /\ \A q \in Procs \ {o} : holds'[q] = holds[q]
    /\ holds'[o] \subseteq holds[o]
    /\ UNCHANGED <<obj, reaped>>

\* A process that goes on keeps the types.
LEMMA ContinuesTyped ==
    ASSUME TypeOK, NEW o \in Objects, NEW point \in Points \ {"none", "dead"},
           Continues(o, point),
           filters' \in [Procs -> SUBSET {"jail", "subjail"}],
           fd' \in [Sandboxes -> SUBSET Threads],
           toHost' \in [Threads -> BOOLEAN]
    PROVE  TypeOK'
<1>0. o \in Procs
  BY Distinct
<1>1. pc' \in [Procs -> Points]
  BY <1>0 DEF Continues, Goto, TypeOK
<1>2. \A q \in Procs : ~Running(q)' => holds'[q] = {}
  BY <1>0 DEF Continues, Goto, Running, TypeOK
<1>3. toProc' \in [Objects -> Seq(Messages)]
  <2>1. CASE toProc' = toProc
    BY <2>1 DEF TypeOK
  <2>2. CASE toProc[o] # << >> /\ toProc' = [toProc EXCEPT ![o] = Tail(@)]
    BY <2>2, QueueTyped
  <2> QED
    BY <2>1, <2>2 DEF Continues, MayReceive
<1> QED
  BY <1>1, <1>2, <1>3 DEF Continues, TypeOK

\* These are the steps in which a process goes on.
LEMMA ContinueSteps ==
    ASSUME TypeOK, NEW o \in Objects
    PROVE  /\ o \in Sandboxes /\ JailLockdown(o) => Continues(o, "hello")
           /\ JailHello(o) => Continues(o, "loop")
           /\ o \in Sandboxes /\ JailClose(o) => Continues(o, "loop")
           /\ SubjailLockdown(o) => Continues(o, "init")
           /\ SubjailInit(o) => Continues(o, "hello") \/ Dies(o)
           /\ SubjailHello(o) => Continues(o, "loop")
<1>0. o \in Procs /\ holds \in [Procs -> SUBSET Ends]
  BY Distinct DEF TypeOK
<1>1. ASSUME JailLockdown(o) PROVE Continues(o, "hello")
  BY <1>0, <1>1 DEF JailLockdown, Continues, MayReceive, Running
<1>2. ASSUME JailHello(o) \/ SubjailHello(o) PROVE Continues(o, "loop")
  BY <1>0, <1>2 DEF JailHello, SubjailHello, Continues, MayReceive, Receives, Running
<1>3. ASSUME JailClose(o) PROVE Continues(o, "loop")
  BY <1>0, <1>3 DEF JailClose, Continues, MayReceive, Running
<1>4. ASSUME SubjailLockdown(o) PROVE Continues(o, "init")
  BY <1>0, <1>4 DEF SubjailLockdown, Continues, MayReceive, Running
<1>5. ASSUME SubjailInit(o) PROVE Continues(o, "hello") \/ Dies(o)
  BY <1>0, <1>5 DEF SubjailInit, Continues, MayReceive, Running, Dies
<1> QED
  BY <1>1, <1>2, <1>3, <1>4, <1>5

\* A jail is started.
LEMMA ForkTyped ==
    ASSUME TypeOK, NEW s \in Sandboxes, SandboxFork(s)
    PROVE  TypeOK'
<1>0. s \in Objects /\ s \in Procs /\ Host \in Procs
  BY Distinct
<1>1. obj' \in [Objects -> Phases] /\ pc' \in [Procs -> Points]
  BY <1>0 DEF SandboxFork, Becomes, Goto, TypeOK, Phases, Points
<1>2. holds' \in [Procs -> SUBSET Ends]
  BY <1>0 DEF SandboxFork, ChildDescriptors, TypeOK
<1>3. \A q \in Procs : ~Running(q)' => holds'[q] = {}
  BY <1>0 DEF SandboxFork, Goto, Running, TypeOK
<1> QED
  BY <1>1, <1>2, <1>3 DEF SandboxFork, TypeOK

\* A jail handles NEWSUBJAIL.
LEMMA SpawnTyped ==
    ASSUME TypeOK, NEW s \in Sandboxes, JailSpawn(s)
    PROVE  TypeOK'
<1>1. PICK t \in Threads, forks \in BOOLEAN :
        /\ pc[s] = "loop"
        /\ Receives(s, {NEWSUBJAIL(t)})
        /\ fd' = [fd EXCEPT ![s] = {t}]
        /\ IF forks
             THEN /\ pc' = [pc EXCEPT ![s] = "close", ![t] = "start"]
                  /\ holds' = [holds EXCEPT ![s] = holds[s] \cup {p(t)},
                                            ![t] = holds[s] \cup {p(t)}]
                  /\ filters' = [filters EXCEPT ![t] = filters[s]]
             ELSE /\ Goto(s, "close")
                  /\ holds' = [holds EXCEPT ![s] = holds[s] \cup {p(t)}]
                  /\ UNCHANGED filters
        /\ UNCHANGED <<obj, toHost, reaped>>
  BY DEF JailSpawn
<1>2. s \in Objects /\ s \in Procs /\ t \in Procs /\ t # s /\ p(t) \in Ends
  BY Distinct, EndsDiffer
<1>3. pc' \in [Procs -> Points]
  BY <1>1, <1>2 DEF Goto, TypeOK, Points
<1>4. holds' \in [Procs -> SUBSET Ends]
  BY <1>1, <1>2 DEF TypeOK
<1>5. filters' \in [Procs -> SUBSET {"jail", "subjail"}]
  BY <1>1, <1>2 DEF TypeOK
<1>6. \A q \in Procs : ~Running(q)' => holds'[q] = {}
  BY <1>1, <1>2 DEF Goto, Running, TypeOK
<1>7. fd' \in [Sandboxes -> SUBSET Threads]
  BY <1>1 DEF TypeOK
<1>8. toProc' \in [Objects -> Seq(Messages)]
  BY <1>1, <1>2, QueueTyped DEF Receives
<1> QED
  BY <1>1, <1>3, <1>4, <1>5, <1>6, <1>7, <1>8 DEF TypeOK

\* The application ends.
LEMMA HostEndsTyped ==
    ASSUME TypeOK, HostEnds
    PROVE  TypeOK'
<1>1. /\ pc' \in [Procs -> Points]
      /\ holds' \in [Procs -> SUBSET Ends]
      /\ filters' \in [Procs -> SUBSET {"jail", "subjail"}]
      /\ fd' \in [Sandboxes -> SUBSET Threads]
      /\ \A r \in Procs : ~Running(r)' => holds'[r] = {}
  BY Distinct, DieTyped DEF HostEnds
<1>2. /\ obj' \in [Objects -> Phases] /\ toHost' \in [Threads -> BOOLEAN]
      /\ reaped' \subseteq Sandboxes /\ toProc' \in [Objects -> Seq(Messages)]
  BY DEF HostEnds, TypeOK, Phases
<1> QED
  BY <1>1, <1>2 DEF TypeOK

\* A step is one of these.
Step(o) ==
    \/ \E phase \in Phases, es \in SUBSET Ends : HostDoes(o, phase, es)
    \/ Dies(o)
    \/ Kills(o)
    \/ o \in Sandboxes /\ (SandboxFork(o) \/ JailSpawn(o))
    \/ o \in Sandboxes /\ (JailLockdown(o) \/ JailHello(o) \/ JailClose(o))
    \/ o \in Threads /\ SubjailLockdown(o)
    \/ o \in Threads /\ Continues(o, "hello") /\ SubjailInit(o)
    \/ o \in Threads /\ SubjailHello(o)

\* Every step of the system is one of these, or the end of the host.
LEMMA Steps ==
    ASSUME TypeOK, Next
    PROVE  (\E o \in Objects : Step(o)) \/ HostEnds
<1>1. ASSUME NEW s \in Sandboxes, SandboxPair(s) \/ SandboxQuit(s)
      PROVE  Step(s) /\ s \in Objects
  BY <1>1, HostSteps, Distinct DEF Step
<1>2. ASSUME NEW t \in Threads, ThreadOpen(t) \/ ThreadQuit(t)
      PROVE  Step(t) /\ t \in Objects
  BY <1>2, HostSteps, Distinct DEF Step
<1>3. ASSUME NEW o \in Objects, HostNext(o)
      PROVE  Step(o)
  <2>1. CASE o \in Sandboxes /\ (SandboxForkFails(o) \/ SandboxHello(o) \/ SandboxExited(o))
    BY <2>1, HostSteps DEF Step
  <2>2. CASE o \in Sandboxes /\ SandboxFork(o)
    BY <2>2 DEF Step
  <2>3. CASE (o \in Sandboxes /\ SandboxKill(o)) \/ (o \in Threads /\ ThreadKill(o))
    BY <2>3, KillSteps DEF Step
  <2>4. CASE o \in Threads /\ (ThreadAlive(o) \/ ThreadTimeout(o) \/ ThreadPidfd(o)
                                 \/ ThreadExited(o))
    BY <2>4, HostSteps DEF Step
  <2> QED
    BY <1>3, <2>1, <2>2, <2>3, <2>4 DEF HostNext
<1>4. ASSUME NEW o \in Objects, ProcNext(o) \/ Crash(o)
      PROVE  Step(o)
  <2>1. CASE \/ JailStartFails(o) \/ JailQuit(o) \/ SubjailInitFails(o) \/ SubjailQuit(o)
             \/ Hangup(o) \/ HelloTimeout(o) \/ Crash(o)
    BY <2>1, DyingSteps DEF Step
  <2>2. CASE o \in Sandboxes /\ (JailLockdown(o) \/ JailHello(o) \/ JailSpawn(o) \/ JailClose(o))
    BY <2>2 DEF Step
  <2>3. CASE o \in Threads /\ (SubjailLockdown(o) \/ SubjailInit(o) \/ SubjailHello(o))
    BY <2>3, ContinueSteps DEF Step
  <2> QED
    BY <1>4, <2>1, <2>2, <2>3 DEF ProcNext
<1> QED
  BY <1>1, <1>2, <1>3, <1>4 DEF Next

\* Every one of them keeps the types.
LEMMA StepTyped ==
    ASSUME TypeOK, NEW o \in Objects, Step(o)
    PROVE  TypeOK'
<1>0. o \in Procs
  BY Distinct
<1>1. CASE o \in Sandboxes /\ JailLockdown(o)
  <2>1. Continues(o, "hello")
    BY <1>1, ContinueSteps
  <2>2. /\ filters' \in [Procs -> SUBSET {"jail", "subjail"}]
        /\ fd' \in [Sandboxes -> SUBSET Threads] /\ toHost' \in [Threads -> BOOLEAN]
    BY <1>0, <1>1 DEF JailLockdown, TypeOK
  <2> QED
    BY <2>1, <2>2, ContinuesTyped DEF Points
<1>2. CASE o \in Sandboxes /\ JailClose(o)
  <2>1. Continues(o, "loop")
    BY <1>2, ContinueSteps
  <2>2. /\ filters' \in [Procs -> SUBSET {"jail", "subjail"}]
        /\ fd' \in [Sandboxes -> SUBSET Threads] /\ toHost' \in [Threads -> BOOLEAN]
    BY <1>2 DEF JailClose, TypeOK
  <2> QED
    BY <2>1, <2>2, ContinuesTyped DEF Points
<1>3. CASE JailHello(o) \/ SubjailHello(o)
  <2>1. Continues(o, "loop")
    BY <1>3, ContinueSteps
  <2>2. /\ filters' \in [Procs -> SUBSET {"jail", "subjail"}]
        /\ fd' \in [Sandboxes -> SUBSET Threads] /\ toHost' \in [Threads -> BOOLEAN]
    BY <1>3 DEF JailHello, SubjailHello, TypeOK
  <2> QED
    BY <2>1, <2>2, ContinuesTyped DEF Points
<1>4. CASE o \in Threads /\ SubjailLockdown(o)
  <2>1. Continues(o, "init")
    BY <1>4, ContinueSteps
  <2>2. /\ filters' \in [Procs -> SUBSET {"jail", "subjail"}]
        /\ fd' \in [Sandboxes -> SUBSET Threads] /\ toHost' \in [Threads -> BOOLEAN]
    BY <1>0, <1>4 DEF SubjailLockdown, TypeOK
  <2> QED
    BY <2>1, <2>2, ContinuesTyped DEF Points
<1>5. CASE o \in Threads /\ Continues(o, "hello") /\ SubjailInit(o)
  <2>1. toHost' = [toHost EXCEPT ![o] = TRUE] /\ UNCHANGED <<filters, fd>>
    <3>1. pc'[o] # "dead"
      BY <1>0, <1>5 DEF Continues, Goto, TypeOK
    <3> QED
      BY <1>0, <1>5, <3>1 DEF SubjailInit, Die, TypeOK
  <2>2. /\ filters' \in [Procs -> SUBSET {"jail", "subjail"}]
        /\ fd' \in [Sandboxes -> SUBSET Threads] /\ toHost' \in [Threads -> BOOLEAN]
    BY <1>5, <2>1 DEF TypeOK
  <2> QED
    BY <1>5, <2>2, ContinuesTyped DEF Points
<1> QED
  BY <1>1, <1>2, <1>3, <1>4, <1>5, HostDoesTyped, DiesTyped, KillsTyped, ForkTyped, SpawnTyped
  DEF Step

\* Every process and descriptor stays what it is meant to be; what a process held is closed
\* when it ends.
THEOREM LifecycleTyped == Spec => []TypeOK
<1>1. Init => TypeOK
  BY Distinct DEF Init, TypeOK, Phases, Points, Running
<1>2. TypeOK /\ [Next]_vars => TypeOK'
  <2>1. TypeOK /\ UNCHANGED vars => TypeOK'
    BY DEF vars, TypeOK, Running
  <2> QED
    BY <2>1, Steps, StepTyped, HostEndsTyped
<1> QED
  BY <1>1, <1>2, PTL DEF Spec

(***************************************************************************)
(* Filters                                                                 *)
(***************************************************************************)

\* A sandbox has no jail before its constructor forks one.
NotForked ==
    HostRuns => \A s \in Sandboxes : obj[s] \in {"none", "pair"} => pc[s] = "none"

\* What FiltersInForce says of one process.
FilteredAs(q, at, fs) ==
    /\ q \in Sandboxes =>
          /\ at \in {"none", "start"} => fs = {}
          /\ at \in {"hello", "loop", "close"} => fs = {"jail"}
    /\ q \in Threads =>
          /\ at = "start" => fs = {"jail"}
          /\ at \in {"init", "hello", "loop"} => fs = {"jail", "subjail"}

\* A step changes the place and the filters of few processes.
LEMMA OthersKept ==
    ASSUME TypeOK, FiltersInForce,
           \A q \in Objects : \/ pc'[q] = pc[q] /\ filters'[q] = filters[q]
                              \/ FilteredAs(q, pc'[q], filters'[q])
    PROVE  FiltersInForce'
<1>1. \A q \in Objects : FilteredAs(q, pc[q], filters[q])
  BY DEF FiltersInForce, FilteredAs
<1>2. \A q \in Objects : FilteredAs(q, pc'[q], filters'[q])
  BY <1>1
<1> QED
  BY <1>2, Distinct DEF FiltersInForce, FilteredAs

\* No step runs a process under fewer filters than it should have.
LEMMA StepFilters ==
    ASSUME TypeOK, FiltersInForce, NotForked, NEW o \in Objects, Step(o)
    PROVE  FiltersInForce' /\ NotForked'
<1>0. /\ o \in Procs /\ o # Host /\ (o \in Sandboxes => o \notin Threads)
      /\ Objects \subseteq Procs /\ Host \in Procs
  BY Distinct
<1>1. CASE \E phase \in Phases, es \in SUBSET Ends : HostDoes(o, phase, es)
  <2>1. PICK phase \in Phases, es \in SUBSET Ends : HostDoes(o, phase, es)
    BY <1>1
  <2>2. FiltersInForce'
    BY <2>1 DEF HostDoes, FiltersInForce
  <2>3. NotForked'
    <3>1. \A s \in Sandboxes : obj'[s] \in {"none", "pair"} => obj[s] \in {"none", "pair"}
      BY <2>1, Distinct DEF HostDoes, Becomes, TypeOK
    <3> QED
      BY <2>1, <3>1 DEF HostDoes, NotForked, HostRuns
  <2> QED
    BY <2>2, <2>3
<1>2. CASE Dies(o) \/ Kills(o)
  <2>1. /\ pc' = [pc EXCEPT ![o] = "dead"] /\ filters' = [filters EXCEPT ![o] = {}]
    BY <1>2 DEF Dies, Die, Kills, Goto
  <2>2. /\ pc'[o] = "dead"
        /\ \A q \in Procs \ {o} : pc'[q] = pc[q] /\ filters'[q] = filters[q]
    BY <1>0, <2>1 DEF TypeOK
  <2>3. FiltersInForce'
    <3>1. FilteredAs(o, pc'[o], filters'[o])
      BY <2>2 DEF FilteredAs
    <3> QED
      BY <1>0, <2>2, <3>1, OthersKept
  <2>4. ASSUME NEW s \in Sandboxes, HostRuns', obj'[s] \in {"none", "pair"}
        PROVE  pc'[s] = "none"
    <3>1. HostRuns
      BY <1>0, <2>2, <2>4 DEF HostRuns
    <3>2. s # o
      <4>1. CASE Kills(o)
        BY <2>4, <4>1 DEF Kills, Becomes, TypeOK
      <4>2. CASE Dies(o)
        BY <2>4, <3>1, <4>2 DEF Dies, NotForked, Running
      <4> QED
        BY <1>2, <4>1, <4>2
    <3>3. obj'[s] = obj[s]
      BY <1>2, <3>2, Distinct DEF Dies, Kills, Becomes, TypeOK
    <3> QED
      BY <2>2, <2>4, <3>1, <3>2, <3>3, Distinct DEF NotForked
  <2> QED
    BY <2>3, <2>4 DEF NotForked
<1>3. CASE o \in Sandboxes /\ SandboxFork(o)
  <2>1. /\ HostRuns /\ obj[o] = "pair" /\ obj' = [obj EXCEPT ![o] = "forked"]
        /\ pc' = [pc EXCEPT ![o] = "start"] /\ filters' = filters
    BY <1>3 DEF SandboxFork, Goto, Becomes, Free
  <2>2. pc'[o] = "start" /\ \A q \in Procs \ {o} : pc'[q] = pc[q]
    BY <1>0, <2>1 DEF TypeOK
  <2>3. filters'[o] = {}
    BY <1>3, <2>1 DEF NotForked, FiltersInForce
  <2>4. FiltersInForce'
    <3>1. FilteredAs(o, pc'[o], filters'[o])
      BY <1>0, <1>3, <2>2, <2>3 DEF FilteredAs
    <3> QED
      BY <1>0, <2>1, <2>2, <3>1, OthersKept
  <2>5. obj'[o] = "forked" /\ \A s \in Sandboxes \ {o} : obj'[s] = obj[s]
    BY <2>1, Distinct DEF TypeOK
  <2>6. NotForked'
    BY <2>1, <2>2, <2>5, Distinct DEF NotForked
  <2> QED
    BY <2>4, <2>6
<1>4. ASSUME o \in Sandboxes, JailSpawn(o)
      PROVE  FiltersInForce' /\ NotForked'
  <2>1. PICK t \in Threads, forks \in BOOLEAN :
          /\ pc[o] = "loop"
          /\ IF forks
               THEN /\ pc' = [pc EXCEPT ![o] = "close", ![t] = "start"]
                    /\ filters' = [filters EXCEPT ![t] = filters[o]]
               ELSE /\ Goto(o, "close")
                    /\ UNCHANGED filters
          /\ UNCHANGED obj
    BY <1>4 DEF JailSpawn
  <2>2. t \in Procs /\ t \in Objects /\ t # o /\ t # Host /\ t \notin Sandboxes
    BY <1>4, Distinct
  <2>3. filters[o] = {"jail"}
    BY <1>4, <2>1 DEF FiltersInForce
  <2>4. /\ pc'[o] = "close" /\ filters'[o] = {"jail"}
        /\ \A q \in Procs \ {o, t} : pc'[q] = pc[q] /\ filters'[q] = filters[q]
        /\ \/ pc'[t] = "start" /\ filters'[t] = {"jail"}
           \/ pc'[t] = pc[t] /\ filters'[t] = filters[t]
    BY <1>0, <2>1, <2>2, <2>3 DEF Goto, TypeOK
  <2>5. FiltersInForce'
    <3>1. FilteredAs(o, pc'[o], filters'[o])
      BY <1>0, <1>4, <2>4 DEF FilteredAs
    <3>2. \/ pc'[t] = pc[t] /\ filters'[t] = filters[t]
          \/ FilteredAs(t, pc'[t], filters'[t])
      BY <2>2, <2>4 DEF FilteredAs
    <3> QED
      BY <1>0, <2>4, <3>1, <3>2, OthersKept
  <2>6. NotForked'
    <3>1. HostRuns' => HostRuns
      BY <1>0, <2>2, <2>4 DEF HostRuns
    <3>2. ASSUME NEW s \in Sandboxes, obj[s] \in {"none", "pair"}, HostRuns
          PROVE  pc'[s] = "none"
      BY <2>1, <2>2, <2>4, <3>2, Distinct DEF NotForked
    <3> QED
      BY <2>1, <3>1, <3>2 DEF NotForked
  <2> QED
    BY <2>5, <2>6
<1>5. ASSUME NEW point \in Points \ {"none"}, Continues(o, point),
             \A q \in Procs \ {o} : filters'[q] = filters[q],
             o \in Sandboxes => point \in {"hello", "loop"} /\ filters'[o] = {"jail"},
             o \in Threads => point \in {"init", "hello", "loop"}
                                /\ filters'[o] = {"jail", "subjail"}
      PROVE  FiltersInForce' /\ NotForked'
  <2>1. pc'[o] = point /\ \A q \in Procs \ {o} : pc'[q] = pc[q]
    BY <1>0, <1>5 DEF Continues, Goto, TypeOK
  <2>2. FiltersInForce'
    <3>1. FilteredAs(o, pc'[o], filters'[o])
      BY <1>5, <2>1 DEF FilteredAs
    <3> QED
      BY <1>0, <1>5, <2>1, <3>1, OthersKept
  <2>3. ASSUME NEW s \in Sandboxes, HostRuns', obj'[s] \in {"none", "pair"}
        PROVE  pc'[s] = "none"
    <3>1. HostRuns /\ obj'[s] = obj[s] /\ Running(o)
      BY <1>0, <1>5, <2>1, <2>3 DEF HostRuns, Continues
    <3>2. pc[s] = "none"
      BY <2>3, <3>1 DEF NotForked
    <3>3. s # o
      BY <3>1, <3>2 DEF Running
    <3> QED
      BY <2>1, <3>2, <3>3, Distinct
  <2> QED
    BY <2>2, <2>3 DEF NotForked
<1>6. CASE o \in Sandboxes /\ (JailLockdown(o) \/ JailHello(o) \/ JailClose(o))
  <2>1. PICK point \in {"hello", "loop"} : Continues(o, point)
    BY <1>6, ContinueSteps
  <2>2. filters'[o] = {"jail"} /\ \A q \in Procs \ {o} : filters'[q] = filters[q]
    BY <1>0, <1>6 DEF JailLockdown, JailHello, JailClose, TypeOK, FiltersInForce
  <2> QED
    BY <1>0, <1>5, <1>6, <2>1, <2>2 DEF Points
<1>7. CASE o \in Threads /\ (SubjailLockdown(o) \/ SubjailHello(o)
                              \/ (Continues(o, "hello") /\ SubjailInit(o)))
  <2>1. PICK point \in {"init", "hello", "loop"} : Continues(o, point)
    BY <1>7, ContinueSteps
  <2>2. filters'[o] = {"jail", "subjail"} /\ \A q \in Procs \ {o} : filters'[q] = filters[q]
    <3>1. CASE SubjailLockdown(o)
      BY <1>0, <1>7, <3>1 DEF SubjailLockdown, TypeOK, FiltersInForce
    <3>2. CASE SubjailHello(o)
      BY <1>0, <1>7, <3>2 DEF SubjailHello, FiltersInForce
    <3>3. CASE Continues(o, "hello") /\ SubjailInit(o)
      <4>1. pc'[o] # "dead" /\ pc[o] = "init"
        BY <1>0, <3>3 DEF Continues, Goto, SubjailInit, TypeOK
      <4>2. filters' = filters
        BY <1>0, <3>3, <4>1 DEF SubjailInit, Die, TypeOK
      <4> QED
        BY <1>7, <4>1, <4>2 DEF FiltersInForce
    <3> QED
      BY <1>7, <3>1, <3>2, <3>3
  <2> QED
    BY <1>0, <1>5, <1>7, <2>1, <2>2 DEF Points
<1> QED
  BY <1>1, <1>2, <1>3, <1>4, <1>6, <1>7 DEF Step

\* Filters and forks together are inductive.
LEMMA FiltersAndForks == Spec => [](FiltersInForce /\ NotForked)
<1>1. Init => FiltersInForce /\ NotForked
  BY Distinct DEF Init, FiltersInForce, NotForked
<1>2. TypeOK /\ FiltersInForce /\ NotForked /\ [Next]_vars => FiltersInForce' /\ NotForked'
  <2> SUFFICES ASSUME TypeOK, FiltersInForce, NotForked, [Next]_vars
               PROVE  FiltersInForce' /\ NotForked'
    OBVIOUS
  <2>1. CASE UNCHANGED vars
    BY <2>1 DEF vars, FiltersInForce, NotForked, HostRuns
  <2>2. CASE HostEnds
    <3>1. pc'[Host] = "dead" /\ \A q \in Objects : pc'[q] = pc[q] /\ filters'[q] = filters[q]
      BY <2>2, Distinct DEF HostEnds, Die, TypeOK
    <3>2. FiltersInForce'
      BY <3>1, OthersKept
    <3> QED
      BY <3>1, <3>2 DEF NotForked, HostRuns
  <2> QED
    BY <2>1, <2>2, Steps, StepFilters
<1> QED
  BY <1>1, <1>2, LifecycleTyped, PTL DEF Spec

\* No message is handled by a jail, and no Lua runs in a subjail, before the filters that
\* confine it are in force, for any number of sandboxes and threads and any interleaving of
\* their constructors and destructors.
THEOREM Confined == Spec => []FiltersInForce
BY FiltersAndForks, PTL

(***************************************************************************)
(* Loops over natural numbers                                              *)
(***************************************************************************)

\* The order of the natural numbers as a relation.
Below == {pair \in Nat \X Nat : pair[1] < pair[2]}

\* Every set of natural numbers has a least element.
LEMMA LeastNumber ==
    ASSUME NEW T, T \subseteq Nat, T # {}
    PROVE  \E x \in T : \A y \in T : x <= y
<1>1. IsWellFoundedOn(Below, Nat)
  <2>1. Below = OpToRel(<, Nat)
    BY DEF OpToRel, Below
  <2> QED
    BY <2>1, NatLessThanWellFounded
<1>2. PICK x \in T : \A y \in T : <<y, x>> \notin Below
  BY <1>1, WFMin
<1>3. ASSUME NEW y \in T PROVE x <= y
  <2>1. x \in Nat /\ y \in Nat /\ <<y, x>> \notin Below
    BY <1>2
  <2> QED
    BY <2>1 DEF Below
<1> QED
  BY <1>3

\* If the first value of a loop is good and each round keeps it good, all values are.
LEMMA StaysGood ==
    ASSUME NEW Good, NEW a \in Nat, NEW b \in Nat, NEW f, f[a] \in Good,
           \A n \in a + 1 .. b : f[n - 1] \in Good => f[n] \in Good
    PROVE  \A n \in a .. b : f[n] \in Good
<1> DEFINE Not == {n \in a .. b : f[n] \notin Good}
<1>1. SUFFICES ASSUME Not # {} PROVE FALSE
  OBVIOUS
<1>2. Not \subseteq Nat
  OBVIOUS
<1>3. PICK n \in Not : \A m \in Not : n <= m
  BY <1>1, <1>2, LeastNumber
<1>4. n \in a .. b /\ f[n] \notin Good /\ n # a
  BY <1>3
<1>5. n \in a + 1 .. b /\ n - 1 \in a .. b /\ ~(n <= n - 1)
  BY <1>4
<1>6. n - 1 \notin Not
  BY <1>3, <1>5
<1>7. f[n - 1] \in Good
  BY <1>5, <1>6
<1> QED
  BY <1>4, <1>5, <1>7

\* The values of the rounds from a to b of a loop that starts with first.
Computes(f, first, Round, a, b, Good) ==
    /\ f \in [a .. b -> Good]
    /\ \A n \in a .. b : f[n] = IF n = a THEN first ELSE Round[<<f[n - 1], n>>]

\* They are defined for every number of rounds: a first number without them would follow one
\* with them.
LEMMA Rounds ==
    ASSUME NEW Good, NEW a \in Nat, NEW b \in Nat, a <= b, NEW first \in Good,
           NEW Round, \A x \in Good, n \in a + 1 .. b : Round[<<x, n>>] \in Good
    PROVE  \E f : Computes(f, first, Round, a, b, Good)
<1> DEFINE Without == {m \in a .. b : ~\E f : Computes(f, first, Round, a, m, Good)}
<1>1. SUFFICES ASSUME Without # {} PROVE FALSE
  OBVIOUS
<1>2. Without \subseteq Nat
  OBVIOUS
<1> HIDE DEF Without
<1>3. PICK m \in Without : \A k \in Without : m <= k
  BY <1>1, <1>2, LeastNumber
<1> USE DEF Without
<1>4. CASE m = a
  <2>1. Computes([k \in a .. a |-> first], first, Round, a, a, Good)
    BY DEF Computes
  <2> QED
    BY <1>3, <1>4, <2>1
<1>5. CASE m # a
  <2>1. m \in a + 1 .. b /\ m - 1 \in a .. b /\ ~(m <= m - 1)
    BY <1>3, <1>5
  <2>2. PICK f : Computes(f, first, Round, a, m - 1, Good)
    BY <1>3, <2>1
  <2> DEFINE g == [k \in a .. m |-> IF k = m THEN Round[<<f[m - 1], m>>] ELSE f[k]]
  <2>3. f[m - 1] \in Good /\ \A k \in a .. m - 1 : f[k] \in Good
    BY <2>1, <2>2 DEF Computes
  <2>4. Round[<<f[m - 1], m>>] \in Good
    BY <2>1, <2>3
  <2>5. g \in [a .. m -> Good]
    <3>1. ASSUME NEW k \in a .. m PROVE (IF k = m THEN Round[<<f[m - 1], m>>] ELSE f[k]) \in Good
      <4>1. k = m \/ k \in a .. m - 1
        BY <2>1
      <4> QED
        BY <2>3, <2>4, <4>1
    <3> QED
      BY <3>1
  <2>6. ASSUME NEW k \in a .. m PROVE g[k] = IF k = a THEN first ELSE Round[<<g[k - 1], k>>]
    <3>1. CASE k = m
      <4>1. g[m] = Round[<<f[m - 1], m>>] /\ g[m - 1] = f[m - 1]
        BY <2>1
      <4> QED
        BY <1>5, <3>1, <4>1
    <3>2. CASE k # m
      <4>1. k \in a .. m - 1 /\ g[k] = f[k] /\ (k # a => g[k - 1] = f[k - 1])
        BY <2>1, <3>2
      <4>2. f[k] = IF k = a THEN first ELSE Round[<<f[k - 1], k>>]
        BY <2>2, <4>1 DEF Computes
      <4> QED
        BY <4>1, <4>2
    <3> QED
      BY <3>1, <3>2
  <2>7. Computes(g, first, Round, a, m, Good)
    BY <2>5, <2>6 DEF Computes
  <2> QED
    BY <1>3, <2>7
<1> QED
  BY <1>4, <1>5

(***************************************************************************)
(* The filters                                                             *)
(***************************************************************************)

\* What an instruction may be at a place of a program of n: the program goes on behind it or
\* ends there.
Instruction(ins, i, n) ==
    \/ ins.op = "LD" /\ ins.k \in {"arch", "nr", "arg1"} /\ i < n
    \/ /\ ins.op = "JEQ" /\ ins.jt \in Nat /\ ins.jf \in Nat
       /\ i + 1 + ins.jt <= n /\ i + 1 + ins.jf <= n
    \/ ins.op = "RET" /\ ins.k \in {"ALLOW", "KILL"}

\* The programs that the kernel accepts.
Program(prog) ==
    /\ Len(prog) \in Nat \ {0}
    /\ \A i \in 1 .. Len(prog) : Instruction(prog[i], i, Len(prog))

\* The states of the interpreter.
Machine(prog, call) ==
    [at : 1 .. Len(prog), acc : {"0", call["arch"], call["nr"], call["arg1"]},
     verdict : {"none", "ALLOW", "KILL"}]

\* A step of the interpreter leads from a state to a state: no jump leaves the program.
LEMMA ExecuteTyped ==
    ASSUME NEW prog, Program(prog), NEW call, NEW s \in Machine(prog, call)
    PROVE  Execute(prog, call, s) \in Machine(prog, call)
<1> DEFINE n == Len(prog)
           ins == prog[s.at]
           Values == {"0", call["arch"], call["nr"], call["arg1"]}
           Verdicts == {"none", "ALLOW", "KILL"}
<1>1. n \in Nat /\ s.at \in 1 .. n /\ s.acc \in Values /\ s.verdict \in Verdicts
      /\ Instruction(ins, s.at, n)
  BY DEF Program, Machine
<1>2. s = [at |-> s.at, acc |-> s.acc, verdict |-> s.verdict]
  BY DEF Machine
<1>3. Execute(prog, call, s) = 
        CASE ins.op = "LD"  -> [at |-> s.at + 1, acc |-> call[ins.k], verdict |-> s.verdict]
          [] ins.op = "JEQ" -> [s EXCEPT !.at = @ + 1 + IF s.acc = ins.k THEN ins.jt ELSE ins.jf]
          [] ins.op = "RET" -> [s EXCEPT !.verdict = ins.k]
  BY DEF Execute
<1> HIDE DEF n, ins
<1>4. CASE ins.op = "LD"
  <2>1. call[ins.k] \in Values /\ s.at + 1 \in 1 .. n
    BY <1>1, <1>4 DEF Instruction
  <2>2. Execute(prog, call, s) = [at |-> s.at + 1, acc |-> call[ins.k], verdict |-> s.verdict]
    BY <1>2, <1>3, <1>4
  <2> QED
    BY <1>1, <2>1, <2>2 DEF Machine, n
<1>5. CASE ins.op = "JEQ"
  <2> DEFINE to == s.at + 1 + IF s.acc = ins.k THEN ins.jt ELSE ins.jf
  <2>1. to \in 1 .. n
    BY <1>1, <1>5 DEF Instruction
  <2>2. Execute(prog, call, s) = [at |-> to, acc |-> s.acc, verdict |-> s.verdict]
    BY <1>2, <1>3, <1>5
  <2> HIDE DEF to
  <2> QED
    BY <1>1, <2>1, <2>2 DEF Machine, n
<1>6. CASE ins.op = "RET"
  <2>1. ins.k \in Verdicts
    BY <1>1, <1>6 DEF Instruction
  <2>2. Execute(prog, call, s) = [at |-> s.at, acc |-> s.acc, verdict |-> ins.k]
    BY <1>2, <1>3, <1>6
  <2> QED
    BY <1>1, <2>1, <2>2 DEF Machine, n
<1> QED
  BY <1>1, <1>4, <1>5, <1>6 DEF Instruction

\* A run of a program that the kernel accepts: it exists, and this is what it does.
LEMMA Runs ==
    ASSUME NEW prog, Program(prog), NEW call
    PROVE  /\ Run(prog, call)[0] = [at |-> 1, acc |-> "0", verdict |-> "none"]
           /\ \A n \in 0 .. Len(prog) : Run(prog, call)[n] \in Machine(prog, call)
           /\ \A n \in 1 .. Len(prog) : Run(prog, call)[n] = Execute(prog, call, Run(prog, call)[n - 1])
<1> DEFINE N == Len(prog)
           M == Machine(prog, call)
           start == [at |-> 1, acc |-> "0", verdict |-> "none"]
           Is(f) == f = [n \in 0 .. N |-> IF n = 0 THEN start ELSE Execute(prog, call, f[n - 1])]
           run == CHOOSE f : Is(f)
<1>0. N \in Nat \ {0}
  BY DEF Program
<1>1. Run(prog, call) = run
  BY DEF Run
<1>2. start \in M
  BY <1>0 DEF Machine
<1>3. \A s \in M : Execute(prog, call, s) \in M
  BY ExecuteTyped
<1> HIDE DEF start, M, N
<1> DEFINE Round == [x \in M \X (0 + 1 .. N) |-> Execute(prog, call, x[1])]
<1>4. \A x \in M, n \in 0 + 1 .. N : Round[<<x, n>>] \in M /\ Round[<<x, n>>] = Execute(prog, call, x)
  BY <1>3
<1> HIDE DEF Round
<1>5. PICK g : Computes(g, start, Round, 0, N, M)
  <2>1. 0 \in Nat /\ N \in Nat /\ 0 <= N
    BY <1>0
  <2> QED
    BY <1>2, <1>4, <2>1, Rounds
<1>6. g \in [0 .. N -> M] /\ \A n \in 0 .. N : g[n] = IF n = 0 THEN start ELSE Execute(prog, call, g[n - 1])
  <2>1. ASSUME NEW n \in 0 .. N, n # 0 PROVE g[n] = Execute(prog, call, g[n - 1])
    <3>1. n \in 0 + 1 .. N /\ n - 1 \in 0 .. N
      BY <1>0, <2>1
    <3>2. g[n - 1] \in M /\ g[n] = Round[<<g[n - 1], n>>]
      BY <1>5, <2>1, <3>1 DEF Computes
    <3> QED
      BY <1>4, <3>1, <3>2
  <2> QED
    BY <1>5, <2>1 DEF Computes
<1>7. Is(g)
  BY <1>6
<1>8. Is(run)
  BY <1>7
<1> HIDE DEF run
<1>9. \A n \in 0 .. N : run[n] = IF n = 0 THEN start ELSE Execute(prog, call, run[n - 1])
  BY <1>8
<1>10. run[0] = start
  BY <1>0, <1>9
<1>11. ASSUME NEW n \in 0 + 1 .. N PROVE run[n] = Execute(prog, call, run[n - 1])
  BY <1>0, <1>9
<1>12. \A n \in 0 .. N : run[n] \in M
  <2>1. \A n \in 0 + 1 .. N : run[n - 1] \in M => run[n] \in M
    BY <1>3, <1>11
  <2>2. 0 \in Nat /\ N \in Nat /\ run[0] \in M
    BY <1>0, <1>2, <1>10
  <2> QED
    BY <2>1, <2>2, StaysGood
<1>13. \A n \in 1 .. N : run[n] = Execute(prog, call, run[n - 1])
  BY <1>0, <1>11
<1> QED
  BY <1>1, <1>10, <1>12, <1>13 DEF start, M, N

\* The program comes to an instruction, with this value in the accumulator.
Reaches(prog, call, at, acc) ==
    \E n \in 0 .. Len(prog) - 1 :
        n < at /\ Run(prog, call)[n].at = at /\ Run(prog, call)[n].acc = acc

\* It begins at the first instruction.
LEMMA Begins ==
    ASSUME NEW prog, Program(prog), NEW call
    PROVE  Reaches(prog, call, 1, "0")
<1>1. 0 \in 0 .. Len(prog) - 1
  BY DEF Program
<1>2. Run(prog, call)[0] = [at |-> 1, acc |-> "0", verdict |-> "none"]
  BY Runs
<1> QED
  BY <1>1, <1>2 DEF Reaches

\* LD goes on behind itself with a field of the call.
LEMMA Loads ==
    ASSUME NEW prog, Program(prog), NEW call, NEW at \in 1 .. Len(prog), NEW acc,
           Reaches(prog, call, at, acc), prog[at].op = "LD", NEW to, to = at + 1
    PROVE  Reaches(prog, call, to, call[prog[at].k])
<1>1. PICK n \in 0 .. Len(prog) - 1 :
          n < at /\ Run(prog, call)[n].at = at /\ Run(prog, call)[n].acc = acc
  BY DEF Reaches
<1> DEFINE s == Run(prog, call)[n]
           t == Run(prog, call)[n + 1]
<1>2. Len(prog) \in Nat \ {0} /\ Instruction(prog[at], at, Len(prog))
  BY DEF Program
<1>3. n \in 0 .. Len(prog) /\ n + 1 \in 1 .. Len(prog) /\ n + 1 - 1 = n /\ n + 1 < at + 1
      /\ n + 1 \in 0 .. Len(prog) - 1
  BY <1>1, <1>2 DEF Instruction
<1>4. s \in Machine(prog, call) /\ t = Execute(prog, call, s)
  BY <1>3, Runs
<1>5. s = [at |-> at, acc |-> acc, verdict |-> s.verdict]
  BY <1>1, <1>4 DEF Machine
<1> HIDE DEF s, t
<1>6. t = [at |-> at + 1, acc |-> call[prog[at].k], verdict |-> s.verdict]
  BY <1>4, <1>5 DEF Execute
<1> QED
  BY <1>3, <1>6 DEF Reaches, t

\* JEQ skips as many instructions as its offsets say.
LEMMA Jumps ==
    ASSUME NEW prog, Program(prog), NEW call, NEW at \in 1 .. Len(prog), NEW acc,
           Reaches(prog, call, at, acc), prog[at].op = "JEQ",
           NEW to, to = at + 1 + IF acc = prog[at].k THEN prog[at].jt ELSE prog[at].jf
    PROVE  Reaches(prog, call, to, acc)
<1>1. PICK n \in 0 .. Len(prog) - 1 :
          n < at /\ Run(prog, call)[n].at = at /\ Run(prog, call)[n].acc = acc
  BY DEF Reaches
<1> DEFINE s == Run(prog, call)[n]
           t == Run(prog, call)[n + 1]
<1>2. Len(prog) \in Nat \ {0} /\ Instruction(prog[at], at, Len(prog))
  BY DEF Program
<1>3. to \in at + 1 .. Len(prog)
  BY <1>2 DEF Instruction
<1>4. n \in 0 .. Len(prog) /\ n + 1 \in 1 .. Len(prog) /\ n + 1 - 1 = n /\ n + 1 < to
      /\ n + 1 \in 0 .. Len(prog) - 1
  BY <1>1, <1>2, <1>3
<1>5. s \in Machine(prog, call) /\ t = Execute(prog, call, s)
  BY <1>4, Runs
<1>6. s = [at |-> at, acc |-> acc, verdict |-> s.verdict]
  BY <1>1, <1>5 DEF Machine
<1> HIDE DEF s, t
<1>7. t = [at |-> to, acc |-> acc, verdict |-> s.verdict]
  BY <1>5, <1>6 DEF Execute
<1> QED
  BY <1>4, <1>7 DEF Reaches, t

\* RET ends the program, which stays there for the rest of the run.
LEMMA Returns ==
    ASSUME NEW prog, Program(prog), NEW call, NEW at \in 1 .. Len(prog), NEW acc,
           Reaches(prog, call, at, acc), prog[at].op = "RET"
    PROVE  Verdict(prog, call) = prog[at].k
<1>1. PICK n \in 0 .. Len(prog) - 1 :
          n < at /\ Run(prog, call)[n].at = at /\ Run(prog, call)[n].acc = acc
  BY DEF Reaches
<1> DEFINE N == Len(prog)
           r == Run(prog, call)
           Ended == {[at |-> at, acc |-> acc, verdict |-> prog[at].k]}
<1>2. N \in Nat \ {0}
  BY DEF Program
<1>3. /\ \A i \in 0 .. N : r[i] \in Machine(prog, call)
      /\ \A i \in 1 .. N : r[i] = Execute(prog, call, r[i - 1])
  BY Runs
<1> HIDE DEF r, N
<1>4. n \in 0 .. N /\ n + 1 \in 1 .. N /\ n + 1 - 1 = n
  BY <1>1, <1>2 DEF N
<1>5. r[n] = [at |-> at, acc |-> acc, verdict |-> r[n].verdict]
  BY <1>1, <1>3, <1>4 DEF Machine, r
<1>6. r[n + 1] \in Ended
  <2>1. r[n + 1] = Execute(prog, call, r[n])
    BY <1>3, <1>4
  <2> QED
    BY <1>5, <2>1 DEF Execute
<1>7. ASSUME NEW i \in (n + 1) + 1 .. N, r[i - 1] \in Ended PROVE r[i] \in Ended
  <2>1. r[i] = Execute(prog, call, r[i - 1])
    BY <1>2, <1>3, <1>4
  <2>2. r[i - 1] = [at |-> at, acc |-> acc, verdict |-> prog[at].k]
    BY <1>7
  <2> QED
    BY <2>1, <2>2 DEF Execute
<1> HIDE DEF Ended
<1>8. \A i \in n + 1 .. N : r[i] \in Ended
  <2>1. n + 1 \in Nat /\ N \in Nat
    BY <1>2, <1>4
  <2> QED
    BY <1>6, <1>7, <2>1, StaysGood
<1>9. r[N] = [at |-> at, acc |-> acc, verdict |-> prog[at].k]
  BY <1>2, <1>4, <1>8 DEF Ended
<1> QED
  BY <1>9 DEF Verdict, r, N

\* The first four instructions.
LEMMA ArchChecked ==
    /\ Len(ArchCheck) = 4
    /\ ArchCheck[1] = LD("arch") /\ ArchCheck[2] = JEQ("x86_64", 1, 0)
    /\ ArchCheck[3] = RET("KILL") /\ ArchCheck[4] = LD("nr")
BY DEF ArchCheck

\* A program that begins with them kills calls of another architecture and comes to the
\* fifth instruction with the number of the others.
LEMMA ArchDecides ==
    ASSUME NEW prog, Program(prog), NEW call, Len(prog) > 4,
           \A i \in 1 .. 4 : prog[i] = ArchCheck[i]
    PROVE  /\ call["arch"] # "x86_64" => Verdict(prog, call) = "KILL"
           /\ call["arch"] = "x86_64" => Reaches(prog, call, 5, call["nr"])
<1> DEFINE N == Len(prog)
<1>0. N \in Nat /\ N > 4
  BY DEF Program
<1>1. prog[1] = LD("arch") /\ prog[2] = JEQ("x86_64", 1, 0) /\ prog[3] = RET("KILL") /\ prog[4] = LD("nr")
  BY ArchChecked
<1>2. Reaches(prog, call, 1, "0")
  BY Begins
<1>3. Reaches(prog, call, 2, call["arch"])
  BY <1>0, <1>1, <1>2, Loads DEF LD
<1>4. /\ call["arch"] = "x86_64" => Reaches(prog, call, 4, call["arch"])
      /\ call["arch"] # "x86_64" => Reaches(prog, call, 3, call["arch"])
  BY <1>0, <1>1, <1>3, Jumps DEF JEQ
<1>5. Reaches(prog, call, 4, call["arch"]) => Reaches(prog, call, 5, call["nr"])
  <2>1. 4 \in 1 .. Len(prog) /\ prog[4].op = "LD" /\ prog[4].k = "nr" /\ 5 = 4 + 1
    BY <1>0, <1>1 DEF LD
  <2> QED
    BY <2>1, Loads
<1>6. Reaches(prog, call, 3, call["arch"]) => Verdict(prog, call) = "KILL"
  BY <1>0, <1>1, Returns DEF RET
<1> QED
  BY <1>4, <1>5, <1>6

\* gh_subjail_lockdown's program.
LEMMA SubjailInstructions ==
    /\ Len(SubjailFilter) = 9
    /\ \A i \in 1 .. 4 : SubjailFilter[i] = ArchCheck[i]
    /\ SubjailFilter[5] = JEQ("wait4", 3, 0) /\ SubjailFilter[6] = JEQ("fork", 2, 0)
    /\ SubjailFilter[7] = JEQ("kill", 1, 0)
    /\ SubjailFilter[8] = RET("ALLOW") /\ SubjailFilter[9] = RET("KILL")
    /\ Program(SubjailFilter)
<1> DEFINE rest == << JEQ("wait4", 3, 0), JEQ("fork", 2, 0), JEQ("kill", 1, 0), RET("ALLOW"), RET("KILL") >>
<1>1. SubjailFilter = ArchCheck \o rest
  BY DEF SubjailFilter
<1>2. /\ Len(rest) = 5
      /\ rest[1] = JEQ("wait4", 3, 0) /\ rest[2] = JEQ("fork", 2, 0) /\ rest[3] = JEQ("kill", 1, 0)
      /\ rest[4] = RET("ALLOW") /\ rest[5] = RET("KILL")
  OBVIOUS
<1> DEFINE I == {LD("arch"), LD("nr"), JEQ("x86_64", 1, 0), JEQ("wait4", 3, 0), JEQ("fork", 2, 0),
                 JEQ("kill", 1, 0), RET("ALLOW"), RET("KILL")}
<1>3. ArchCheck \in Seq(I) /\ rest \in Seq(I)
  BY DEF ArchCheck
<1> HIDE DEF rest, I
<1>4. /\ Len(SubjailFilter) = 9
      /\ \A i \in 1 .. 4 : SubjailFilter[i] = ArchCheck[i]
      /\ \A i \in 5 .. 9 : SubjailFilter[i] = rest[i - 4]
  <2>1. /\ Len(SubjailFilter) = Len(ArchCheck) + Len(rest)
        /\ \A i \in 1 .. Len(SubjailFilter) :
              SubjailFilter[i] = IF i <= Len(ArchCheck) THEN ArchCheck[i] ELSE rest[i - Len(ArchCheck)]
    BY <1>1, <1>3, ConcatProperties
  <2> QED
    BY <1>2, <2>1, ArchChecked
<1>5. /\ SubjailFilter[5] = JEQ("wait4", 3, 0) /\ SubjailFilter[6] = JEQ("fork", 2, 0)
      /\ SubjailFilter[7] = JEQ("kill", 1, 0)
      /\ SubjailFilter[8] = RET("ALLOW") /\ SubjailFilter[9] = RET("KILL")
  BY <1>2, <1>4
<1>6. ASSUME NEW i \in 1 .. 9 PROVE Instruction(SubjailFilter[i], i, 9)
  <2>1. i \in 1 .. 4 \/ i \in {5, 6, 7, 8, 9}
    OBVIOUS
  <2>2. CASE i \in 1 .. 4
    <3>1. i \in {1, 2, 3, 4}
      BY <2>2
    <3> QED
      BY <1>4, <3>1, ArchChecked DEF Instruction, LD, JEQ, RET
  <2>3. CASE i \in {5, 6, 7, 8, 9}
    BY <1>5, <2>3 DEF Instruction, LD, JEQ, RET
  <2> QED
    BY <2>1, <2>2, <2>3
<1>7. Program(SubjailFilter)
  BY <1>4, <1>6 DEF Program
<1> QED
  BY <1>4, <1>5, <1>7

\* It refuses the three calls of its list, and other architectures, whatever the rest is.
LEMMA SubjailDecides ==
    ASSUME NEW call
    PROVE  Verdict(SubjailFilter, call) =
              IF call["arch"] = "x86_64" /\ call["nr"] \notin {"wait4", "fork", "kill"}
              THEN "ALLOW" ELSE "KILL"
<1> DEFINE P == SubjailFilter
           nr == call["nr"]
<1>0. /\ Len(P) = 9 /\ Program(P) /\ \A i \in 1 .. 4 : P[i] = ArchCheck[i]
      /\ P[5] = JEQ("wait4", 3, 0) /\ P[6] = JEQ("fork", 2, 0) /\ P[7] = JEQ("kill", 1, 0)
      /\ P[8] = RET("ALLOW") /\ P[9] = RET("KILL")
  BY SubjailInstructions
<1> HIDE DEF P
<1>1. /\ call["arch"] # "x86_64" => Verdict(P, call) = "KILL"
      /\ call["arch"] = "x86_64" => Reaches(P, call, 5, call["nr"])
  <2>1. Len(P) > 4
    BY <1>0
  <2> QED
    BY <1>0, <2>1, ArchDecides, Zenon
<1>p. Program(P)
  BY <1>0
<1> HIDE DEF nr
<1>2. ASSUME call["arch"] = "x86_64"
      PROVE  Verdict(P, call) = IF nr \notin {"wait4", "fork", "kill"} THEN "ALLOW" ELSE "KILL"
  <2>1. Reaches(P, call, 5, nr)
    BY <1>1, <1>2 DEF nr
  <2>2. /\ nr = "wait4" => Reaches(P, call, 9, nr)
        /\ nr # "wait4" => Reaches(P, call, 6, nr)
    <3>1. 5 \in 1 .. Len(P) /\ P[5].op = "JEQ" /\ P[5].k = "wait4" /\ P[5].jt = 3 /\ P[5].jf = 0
      BY <1>0 DEF JEQ
    <3> QED
      BY <1>p, <2>1, <3>1, Jumps
  <2>3. Reaches(P, call, 6, nr) => /\ nr = "fork" => Reaches(P, call, 9, nr)
                                   /\ nr # "fork" => Reaches(P, call, 7, nr)
    <3>1. 6 \in 1 .. Len(P) /\ P[6].op = "JEQ" /\ P[6].k = "fork" /\ P[6].jt = 2 /\ P[6].jf = 0
      BY <1>0 DEF JEQ
    <3> QED
      BY <1>p, <3>1, Jumps
  <2>4. Reaches(P, call, 7, nr) => /\ nr = "kill" => Reaches(P, call, 9, nr)
                                   /\ nr # "kill" => Reaches(P, call, 8, nr)
    <3>1. 7 \in 1 .. Len(P) /\ P[7].op = "JEQ" /\ P[7].k = "kill" /\ P[7].jt = 1 /\ P[7].jf = 0
      BY <1>0 DEF JEQ
    <3> QED
      BY <1>p, <3>1, Jumps
  <2>5. /\ Reaches(P, call, 8, nr) => Verdict(P, call) = "ALLOW"
        /\ Reaches(P, call, 9, nr) => Verdict(P, call) = "KILL"
    <3>1. /\ 8 \in 1 .. Len(P) /\ P[8].op = "RET" /\ P[8].k = "ALLOW"
          /\ 9 \in 1 .. Len(P) /\ P[9].op = "RET" /\ P[9].k = "KILL"
      BY <1>0 DEF RET
    <3> QED
      BY <1>p, <3>1, Returns
  <2> QED
    BY <2>2, <2>3, <2>4, <2>5
<1> QED
  BY <1>1, <1>2 DEF P, nr

\* The offsets of the jump table, which are counted by hand: every line leads behind the last
\* one and one further, and its names are the calls of the list.
LEMMA TableCounted ==
    /\ Len(JumpTable) = 32
    /\ \A i \in 1 .. 32 : JumpTable[i][2] = 33 - i
    /\ Listed = {JumpTable[i][1] : i \in 1 .. 32}
<1>1. Len(JumpTable) = 32
  BY DEF JumpTable
<1>2. \A i \in 1 .. 32 : JumpTable[i][2] = 33 - i
  BY DEF JumpTable
<1>3. \A i \in 1 .. 32 : JumpTable[i][1] \in Listed
  BY DEF JumpTable, Listed
<1>4. \A nr \in Listed : \E i \in 1 .. 32 : nr = JumpTable[i][1]
  BY DEF JumpTable, Listed
<1> QED
  BY <1>1, <1>2, <1>3, <1>4

\* A piece of a program, and two pieces one behind the other.
Piece(S, s, n) == s \in Seq(S) /\ Len(s) = n

Follows(w, s, m, t, n) ==
    /\ \A i \in 1 .. m : w[i] = s[i]
    /\ \A i \in 1 .. n : w[m + i] = t[i]

\* Where the instructions of two pieces are.
LEMMA Joined ==
    ASSUME NEW S, NEW s, NEW m, Piece(S, s, m), NEW t, NEW n, Piece(S, t, n),
           NEW w, w = s \o t, NEW k, k = m + n
    PROVE  Piece(S, w, k) /\ Follows(w, s, m, t, n)
<1>1. s \in Seq(S) /\ t \in Seq(S) /\ Len(s) = m /\ Len(t) = n /\ m \in Nat /\ n \in Nat
  BY DEF Piece
<1>2. /\ s \o t \in Seq(S) /\ Len(s \o t) = Len(s) + Len(t)
      /\ \A i \in 1 .. Len(s) + Len(t) : (s \o t)[i] = IF i <= Len(s) THEN s[i] ELSE t[i - Len(s)]
  <2>1. s \in Seq(S) /\ t \in Seq(S)
    BY <1>1
  <2> QED
    BY <2>1, ConcatProperties
<1>3. \A i \in 1 .. m + n : w[i] = IF i <= m THEN s[i] ELSE t[i - m]
  BY <1>1, <1>2
<1>4. Piece(S, w, k)
  BY <1>1, <1>2 DEF Piece
<1>5. ASSUME NEW i \in 1 .. n PROVE w[m + i] = t[i]
  <2>1. m + i \in 1 .. m + n /\ ~(m + i <= m) /\ (m + i) - m = i
    BY <1>1
  <2> QED
    BY <1>3, <2>1
<1>6. ASSUME NEW i \in 1 .. m PROVE w[i] = s[i]
  <2>1. i \in 1 .. m + n /\ i <= m
    BY <1>1
  <2> QED
    BY <1>3, <2>1
<1> QED
  BY <1>4, <1>5, <1>6 DEF Follows

\* gh_jail_lockdown's program.
LEMMA JailInstructions ==
    /\ Len(JailFilter) = 48
    /\ \A i \in 1 .. 4 : JailFilter[i] = ArchCheck[i]
    /\ \A i \in 1 .. 5 : JailFilter[4 + i] = WithArgument("fcntl", "F_GETFL")[i]
    /\ \A i \in 1 .. 5 : JailFilter[9 + i] = WithArgument("ioctl", "TCGETS")[i]
    /\ \A i \in 1 .. 32 : JailFilter[14 + i] = JEQ(JumpTable[i][1], 33 - i, 0)
    /\ JailFilter[47] = RET("KILL") /\ JailFilter[48] = RET("ALLOW")
<1> DEFINE f == WithArgument("fcntl", "F_GETFL")
           g == WithArgument("ioctl", "TCGETS")
           t == [i \in DOMAIN JumpTable |-> JEQ(JumpTable[i][1], JumpTable[i][2], 0)]
           e == << RET("KILL"), RET("ALLOW") >>
           I == {ArchCheck[i] : i \in 1 .. 4} \cup {f[i] : i \in 1 .. 5} \cup {g[i] : i \in 1 .. 5}
                \cup {t[i] : i \in 1 .. 32} \cup {e[i] : i \in 1 .. 2}
<1>1. JailFilter = ArchCheck \o f \o g \o t \o e
  BY DEF JailFilter
<1>2. Len(ArchCheck) = 4 /\ ArchCheck \in Seq(I)
  BY ArchChecked DEF ArchCheck
<1>3. Len(f) = 5 /\ f \in Seq(I)
  BY DEF WithArgument
<1>4. Len(g) = 5 /\ g \in Seq(I)
  BY DEF WithArgument
<1>5. Len(t) = 32 /\ t \in Seq(I) /\ \A i \in 1 .. 32 : t[i] = JEQ(JumpTable[i][1], 33 - i, 0)
  <2>1. DOMAIN JumpTable = 1 .. 32
    BY DEF JumpTable
  <2>2. \A i \in 1 .. 32 : t[i] = JEQ(JumpTable[i][1], 33 - i, 0)
    BY <2>1, TableCounted
  <2>3. t \in [1 .. 32 -> I]
    BY <2>1
  <2> HIDE DEF t, I
  <2>4. t \in Seq(I) /\ Len(t) = 32
    <3>1. \A n \in Nat : \A T : \A x \in [1 .. n -> T] : x \in Seq(T) /\ Len(x) = n
      OBVIOUS
    <3>2. 32 \in Nat
      OBVIOUS
    <3> QED
      BY <2>3, <3>1, <3>2, Zenon
  <2> QED
    BY <2>2, <2>4
<1>6. Len(e) = 2 /\ e \in Seq(I) /\ e[1] = RET("KILL") /\ e[2] = RET("ALLOW")
  OBVIOUS
<1> HIDE DEF f, g, t, e, I
<1> DEFINE p9 == ArchCheck \o f
           p14 == p9 \o g
           p46 == p14 \o t
<1>7. Piece(I, p9, 9) /\ Follows(p9, ArchCheck, 4, f, 5)
  <2>1. Piece(I, ArchCheck, 4) /\ Piece(I, f, 5)
    BY <1>2, <1>3 DEF Piece
  <2>2. 9 = 4 + 5 /\ p9 = ArchCheck \o f
    OBVIOUS
  <2> HIDE DEF p9
  <2> QED
    BY <2>1, <2>2, Joined
<1> HIDE DEF p9
<1>8. Piece(I, p14, 14) /\ Follows(p14, p9, 9, g, 5)
  <2>1. Piece(I, p9, 9) /\ Piece(I, g, 5)
    BY <1>7, <1>4 DEF Piece
  <2>2. 14 = 9 + 5 /\ p14 = p9 \o g
    OBVIOUS
  <2> HIDE DEF p14
  <2> QED
    BY <2>1, <2>2, Joined
<1> HIDE DEF p14
<1>9. Piece(I, p46, 46) /\ Follows(p46, p14, 14, t, 32)
  <2>1. Piece(I, p14, 14) /\ Piece(I, t, 32)
    BY <1>8, <1>5 DEF Piece
  <2>2. 46 = 14 + 32 /\ p46 = p14 \o t
    OBVIOUS
  <2> HIDE DEF p46
  <2> QED
    BY <2>1, <2>2, Joined
<1> HIDE DEF p46
<1> DEFINE p48 == p46 \o e
<1>10. JailFilter = p48
  BY <1>1 DEF p9, p14, p46
<1>11. Piece(I, p48, 48) /\ Follows(p48, p46, 46, e, 2)
  <2>1. Piece(I, p46, 46) /\ Piece(I, e, 2)
    BY <1>9, <1>6 DEF Piece
  <2>2. 48 = 46 + 2 /\ p48 = p46 \o e
    OBVIOUS
  <2> HIDE DEF p48
  <2> QED
    BY <2>1, <2>2, Joined
<1> HIDE DEF p48
<1>12. \A i \in 1 .. 4 : JailFilter[i] = ArchCheck[i]
  <2>1. \A i \in 1 .. 4 : p9[i] = ArchCheck[i]
    BY <1>7 DEF Follows
  <2>2. \A i \in 1 .. 9 : p14[i] = p9[i]
    BY <1>8 DEF Follows
  <2>3. \A i \in 1 .. 14 : p46[i] = p14[i]
    BY <1>9 DEF Follows
  <2>4. \A i \in 1 .. 46 : JailFilter[i] = p46[i]
    BY <1>10, <1>11 DEF Follows
  <2> QED
    BY <2>1, <2>2, <2>3, <2>4
<1>13. \A i \in 1 .. 5 : JailFilter[4 + i] = f[i]
  <2>1. \A i \in 1 .. 5 : p9[4 + i] = f[i]
    BY <1>7 DEF Follows
  <2>2. \A i \in 1 .. 9 : p14[i] = p9[i]
    BY <1>8 DEF Follows
  <2>3. \A i \in 1 .. 14 : p46[i] = p14[i]
    BY <1>9 DEF Follows
  <2>4. \A i \in 1 .. 46 : JailFilter[i] = p46[i]
    BY <1>10, <1>11 DEF Follows
  <2> QED
    BY <2>1, <2>2, <2>3, <2>4
<1>14. \A i \in 1 .. 5 : JailFilter[9 + i] = g[i]
  <2>2. \A i \in 1 .. 5 : p14[9 + i] = g[i]
    BY <1>8 DEF Follows
  <2>3. \A i \in 1 .. 14 : p46[i] = p14[i]
    BY <1>9 DEF Follows
  <2>4. \A i \in 1 .. 46 : JailFilter[i] = p46[i]
    BY <1>10, <1>11 DEF Follows
  <2> QED
    BY <2>2, <2>3, <2>4
<1>15. \A i \in 1 .. 32 : JailFilter[14 + i] = t[i]
  <2>3. \A i \in 1 .. 32 : p46[14 + i] = t[i]
    BY <1>9 DEF Follows
  <2>4. \A i \in 1 .. 46 : JailFilter[i] = p46[i]
    BY <1>10, <1>11 DEF Follows
  <2> QED
    BY <2>3, <2>4
<1>16. JailFilter[47] = RET("KILL") /\ JailFilter[48] = RET("ALLOW")
  <2>1. \A i \in 1 .. 2 : JailFilter[46 + i] = e[i]
    BY <1>10, <1>11 DEF Follows
  <2>2. 46 + 1 = 47 /\ 46 + 2 = 48
    OBVIOUS
  <2>3. JailFilter[46 + 1] = e[1] /\ JailFilter[46 + 2] = e[2]
    BY <2>1
  <2> QED
    BY <1>6, <2>2, <2>3
<1>17. \A i \in 1 .. 32 : JailFilter[14 + i] = JEQ(JumpTable[i][1], 33 - i, 0)
  BY <1>5, <1>15, Zenon
<1>18. Len(JailFilter) = 48
  BY <1>10, <1>11 DEF Piece
<1> QED
  BY <1>12, <1>13, <1>14, <1>16, <1>17, <1>18, Zenon DEF f, g

\* The instructions that let one value of the second argument through.
LEMMA ArgumentInstructions ==
    ASSUME NEW nr, NEW arg
    PROVE  /\ WithArgument(nr, arg)[1] = JEQ(nr, 0, 4) /\ WithArgument(nr, arg)[2] = LD("arg1")
           /\ WithArgument(nr, arg)[3] = JEQ(arg, 0, 1)
           /\ WithArgument(nr, arg)[4] = RET("ALLOW") /\ WithArgument(nr, arg)[5] = RET("KILL")
BY DEF WithArgument

\* The kernel accepts it: no jump leaves the program.
LEMMA JailProgram == Program(JailFilter)
<1>1. Len(JailFilter) = 48
  BY JailInstructions
<1>2. ASSUME NEW i \in 1 .. 48 PROVE Instruction(JailFilter[i], i, 48)
  <2>1. \/ i \in 1 .. 4 \/ i \in 5 .. 9 \/ i \in 10 .. 14 \/ i \in 15 .. 46 \/ i \in {47, 48}
    OBVIOUS
  <2>2. CASE i \in 1 .. 4
    <3>1. i \in {1, 2, 3, 4} /\ JailFilter[i] = ArchCheck[i]
      BY <2>2, JailInstructions
    <3> QED
      BY <3>1, ArchChecked DEF Instruction, LD, JEQ, RET
  <2>3. ASSUME NEW base \in {4, 9}, NEW nr, NEW arg,
               \A k \in 1 .. 5 : JailFilter[base + k] = WithArgument(nr, arg)[k],
               i \in base + 1 .. base + 5
        PROVE  Instruction(JailFilter[i], i, 48)
    <3>1. i - base \in 1 .. 5 /\ i = base + (i - base)
      BY <2>3
    <3>2. JailFilter[i] = WithArgument(nr, arg)[i - base]
      BY <2>3, <3>1
    <3>3. i - base \in {1, 2, 3, 4, 5}
      BY <3>1
    <3>4. i + 5 <= 48
      BY <2>3
    <3>5. CASE i - base = 1
      <4>1. JailFilter[i] = JEQ(nr, 0, 4)
        BY <3>2, <3>5, ArgumentInstructions
      <4> QED
        BY <3>4, <4>1 DEF Instruction, JEQ
    <3>6. CASE i - base = 2
      <4>1. JailFilter[i] = LD("arg1")
        BY <3>2, <3>6, ArgumentInstructions
      <4> QED
        BY <3>4, <4>1 DEF Instruction, LD
    <3>7. CASE i - base = 3
      <4>1. JailFilter[i] = JEQ(arg, 0, 1)
        BY <3>2, <3>7, ArgumentInstructions
      <4> QED
        BY <3>4, <4>1 DEF Instruction, JEQ
    <3>8. CASE i - base \in {4, 5}
      <4>1. JailFilter[i] \in {RET("ALLOW"), RET("KILL")}
        BY <3>2, <3>8, ArgumentInstructions
      <4> QED
        BY <4>1 DEF Instruction, RET
    <3> QED
      BY <3>3, <3>5, <3>6, <3>7, <3>8
  <2>4. CASE i \in 5 .. 9
    BY <2>3, <2>4, JailInstructions
  <2>5. CASE i \in 10 .. 14
    BY <2>3, <2>5, JailInstructions
  <2>6. CASE i \in 15 .. 46
    <3>1. i - 14 \in 1 .. 32 /\ i = 14 + (i - 14)
      BY <2>6
    <3>2. JailFilter[i] = JEQ(JumpTable[i - 14][1], 33 - (i - 14), 0)
      BY <3>1, JailInstructions
    <3>3. 33 - (i - 14) \in Nat /\ i + 1 + (33 - (i - 14)) = 48 /\ i + 1 + 0 <= 48
      BY <3>1
    <3> QED
      BY <3>2, <3>3 DEF Instruction, JEQ
  <2>7. CASE i \in {47, 48}
    BY <2>7, JailInstructions DEF Instruction, RET
  <2> QED
    BY <2>1, <2>2, <2>4, <2>5, <2>6, <2>7
<1> QED
  BY <1>1, <1>2 DEF Program

\* The program has these instructions behind base.
Group(base, nr, arg) ==
    \A i \in 1 .. 5 : JailFilter[base + i] = WithArgument(nr, arg)[i]

\* A group that lets one value of the second argument through, at instructions base + 1 to
\* base + 5: another number comes behind it, its own number is decided.
LEMMA ArgumentDecides ==
    ASSUME NEW call, NEW base \in {4, 9}, NEW nr, NEW arg, Group(base, nr, arg),
           NEW a, a = base + 1, NEW to, to = base + 6, Reaches(JailFilter, call, a, call["nr"])
    PROVE  /\ call["nr"] # nr => Reaches(JailFilter, call, to, call["nr"])
           /\ call["nr"] = nr => Verdict(JailFilter, call) = IF call["arg1"] = arg THEN "ALLOW" ELSE "KILL"
<1> DEFINE P == JailFilter
           b == base + 2
           c == base + 3
           d == base + 4
           e == base + 5
<1>0. Program(P) /\ Len(P) = 48
  BY JailProgram, JailInstructions
<1>1. /\ P[a].op = "JEQ" /\ P[a].k = nr /\ P[a].jt = 0 /\ P[a].jf = 4
      /\ P[b].op = "LD" /\ P[b].k = "arg1"
      /\ P[c].op = "JEQ" /\ P[c].k = arg /\ P[c].jt = 0 /\ P[c].jf = 1
      /\ P[d].op = "RET" /\ P[d].k = "ALLOW" /\ P[e].op = "RET" /\ P[e].k = "KILL"
  <2>1. /\ P[a] = JEQ(nr, 0, 4) /\ P[b] = LD("arg1") /\ P[c] = JEQ(arg, 0, 1)
        /\ P[d] = RET("ALLOW") /\ P[e] = RET("KILL")
    BY ArgumentInstructions DEF Group
  <2> QED
    BY <2>1 DEF LD, JEQ, RET
<1>2. Reaches(P, call, a, call["nr"])
  OBVIOUS
<1>3. a \in 1 .. Len(P) /\ b \in 1 .. Len(P) /\ c \in 1 .. Len(P) /\ d \in 1 .. Len(P) /\ e \in 1 .. Len(P)
  BY <1>0
<1>4. /\ b = a + 1 + 0 /\ to = a + 1 + 4 /\ c = b + 1 /\ d = c + 1 + 0 /\ e = c + 1 + 1
  OBVIOUS
<1> HIDE DEF P, b, c, d, e
<1>5. call["nr"] # nr => Reaches(P, call, to, call["nr"])
  BY <1>0, <1>1, <1>2, <1>3, <1>4, Jumps
<1>6. call["nr"] = nr => Reaches(P, call, b, call["nr"])
  BY <1>0, <1>1, <1>2, <1>3, <1>4, Jumps
<1>7. Reaches(P, call, b, call["nr"]) => Reaches(P, call, c, call["arg1"])
  BY <1>0, <1>1, <1>3, <1>4, Loads
<1>8. Reaches(P, call, c, call["arg1"]) =>
        /\ call["arg1"] = arg => Reaches(P, call, d, call["arg1"])
        /\ call["arg1"] # arg => Reaches(P, call, e, call["arg1"])
  BY <1>0, <1>1, <1>3, <1>4, Jumps
<1>9. /\ Reaches(P, call, d, call["arg1"]) => Verdict(P, call) = "ALLOW"
      /\ Reaches(P, call, e, call["arg1"]) => Verdict(P, call) = "KILL"
  <2>1. Reaches(P, call, d, call["arg1"]) => Verdict(P, call) = P[d].k
    <3>1. Program(P) /\ d \in 1 .. Len(P) /\ P[d].op = "RET"
      BY <1>0, <1>1, <1>3, Zenon
    <3> QED
      BY <3>1, Returns
  <2>2. Reaches(P, call, e, call["arg1"]) => Verdict(P, call) = P[e].k
    <3>1. Program(P) /\ e \in 1 .. Len(P) /\ P[e].op = "RET"
      BY <1>0, <1>1, <1>3, Zenon
    <3> QED
      BY <3>1, Returns
  <2> QED
    BY <1>1, <2>1, <2>2
<1> QED
  BY <1>5, <1>6, <1>7, <1>8, <1>9 DEF P

\* The table: a call whose number has come to its first line is allowed if a line names it.
LEMMA TableDecides ==
    ASSUME NEW call, Reaches(JailFilter, call, 15, call["nr"])
    PROVE  Verdict(JailFilter, call) = IF call["nr"] \in Listed THEN "ALLOW" ELSE "KILL"
<1> DEFINE P == JailFilter
           nr == call["nr"]
           name(i) == JumpTable[i][1]
<1>0. Program(P) /\ Len(P) = 48 /\ Len(P) \in Nat
  BY JailProgram, JailInstructions
<1>1. ASSUME NEW i \in 1 .. 32
      PROVE  /\ 14 + i \in 1 .. Len(P)
             /\ P[14 + i].op = "JEQ" /\ P[14 + i].k = name(i) /\ P[14 + i].jt = 33 - i /\ P[14 + i].jf = 0
  <2>1. P[14 + i] = JEQ(name(i), 33 - i, 0)
    BY JailInstructions
  <2>2. 14 + i \in 1 .. Len(P)
    BY <1>0
  <2> HIDE DEF P, name
  <2> QED
    BY <2>1, <2>2 DEF JEQ
<1>2. Listed = {name(i) : i \in 1 .. 32}
  BY TableCounted
<1>3. /\ 47 \in 1 .. Len(P) /\ 48 \in 1 .. Len(P)
      /\ P[47].op = "RET" /\ P[47].k = "KILL" /\ P[48].op = "RET" /\ P[48].k = "ALLOW"
  <2>1. P[47] = RET("KILL") /\ P[48] = RET("ALLOW")
    BY JailInstructions
  <2> QED
    BY <1>0, <2>1 DEF RET
<1>4. Reaches(P, call, 15, nr)
  OBVIOUS
<1> HIDE DEF P, nr, name
<1>5. ASSUME NEW i \in 1 .. 32, Reaches(P, call, 14 + i, nr), nr = name(i)
      PROVE  Verdict(P, call) = "ALLOW"
  <2>1. 48 = 14 + i + 1 + (33 - i)
    OBVIOUS
  <2>2. Reaches(P, call, 48, nr)
    BY <1>0, <1>1, <1>5, <2>1, Jumps
  <2> QED
    BY <1>0, <1>3, <2>2, Returns
<1>6. ASSUME NEW i \in 1 .. 32, Reaches(P, call, 14 + i, nr), nr # name(i)
      PROVE  Reaches(P, call, 14 + i + 1, nr)
  <2>1. 14 + i + 1 = 14 + i + 1 + 0
    OBVIOUS
  <2> QED
    BY <1>0, <1>1, <1>6, <2>1, Jumps
<1> DEFINE Bad == {i \in 1 .. 33 : ~Reaches(P, call, 14 + i, nr) /\ \A j \in 1 .. i - 1 : nr # name(j)}
<1>7. Bad = {}
  <2>1. SUFFICES ASSUME Bad # {} PROVE FALSE
    OBVIOUS
  <2>2. Bad \subseteq Nat
    OBVIOUS
  <2>3. PICK i \in Bad : \A j \in Bad : i <= j
    BY <2>1, <2>2, LeastNumber
  <2>4. i \in 1 .. 33 /\ ~Reaches(P, call, 14 + i, nr) /\ \A j \in 1 .. i - 1 : nr # name(j)
    BY <2>3
  <2>5. i # 1
    <3>1. 15 = 14 + 1
      OBVIOUS
    <3> QED
      BY <1>4, <2>4, <3>1
  <2>6. i - 1 \in 1 .. 32 /\ i - 1 \in 1 .. i - 1 /\ 14 + (i - 1) + 1 = 14 + i /\ i - 1 \in 1 .. 33 /\ ~(i <= i - 1)
    BY <2>4, <2>5
  <2>7. i - 1 \notin Bad
    BY <2>3, <2>6
  <2>8. \A j \in 1 .. (i - 1) - 1 : nr # name(j)
    BY <2>4
  <2>9. Reaches(P, call, 14 + (i - 1), nr)
    BY <2>6, <2>7, <2>8
  <2>10. nr # name(i - 1)
    BY <2>4, <2>6
  <2> QED
    BY <1>6, <2>4, <2>6, <2>9, <2>10
<1>8. CASE nr \in Listed
  <2> DEFINE At == {i \in 1 .. 32 : nr = name(i)}
  <2>1. At # {} /\ At \subseteq Nat
    BY <1>2, <1>8
  <2>2. PICK i \in At : \A j \in At : i <= j
    BY <2>1, LeastNumber
  <2>3. i \in 1 .. 32 /\ i \in 1 .. 33 /\ nr = name(i) /\ \A j \in 1 .. i - 1 : nr # name(j)
    BY <2>2
  <2>4. Reaches(P, call, 14 + i, nr)
    BY <1>7, <2>3
  <2> QED
    BY <1>5, <1>8, <2>3, <2>4 DEF P, nr
<1>9. CASE nr \notin Listed
  <2>1. 33 \in 1 .. 33 /\ 14 + 33 = 47 /\ \A j \in 1 .. 33 - 1 : nr # name(j)
    BY <1>2, <1>9
  <2>2. Reaches(P, call, 14 + 33, nr)
    BY <1>7, <2>1
  <2>3. Reaches(P, call, 47, nr)
    BY <2>1, <2>2
  <2>4. Verdict(P, call) = "KILL"
    BY <1>0, <1>3, <2>3, Returns
  <2> QED
    BY <1>9, <2>4 DEF P, nr
<1> QED
  BY <1>8, <1>9

\* What gh_jail_lockdown's program does with any call at all.
LEMMA JailDecides ==
    ASSUME NEW call
    PROVE  Verdict(JailFilter, call) =
              IF /\ call["arch"] = "x86_64"
                 /\ \/ call["nr"] \in Listed
                    \/ call["nr"] = "fcntl" /\ call["arg1"] = "F_GETFL"
                    \/ call["nr"] = "ioctl" /\ call["arg1"] = "TCGETS"
              THEN "ALLOW" ELSE "KILL"
<1> DEFINE P == JailFilter
           nr == call["nr"]
<1>0. /\ Len(P) = 48 /\ Program(P) /\ \A i \in 1 .. 4 : P[i] = ArchCheck[i]
  BY JailInstructions, JailProgram
<1>1. /\ call["arch"] # "x86_64" => Verdict(P, call) = "KILL"
      /\ call["arch"] = "x86_64" => Reaches(P, call, 5, nr)
  <2>1. Len(P) > 4
    BY <1>0
  <2> QED
    BY <1>0, <2>1, ArchDecides, Zenon
<1>2. Reaches(P, call, 5, nr) =>
        /\ nr # "fcntl" => Reaches(P, call, 10, nr)
        /\ nr = "fcntl" => Verdict(P, call) = IF call["arg1"] = "F_GETFL" THEN "ALLOW" ELSE "KILL"
  <2>1. Group(4, "fcntl", "F_GETFL")
    BY JailInstructions DEF Group
  <2>2. 4 \in {4, 9} /\ 5 = 4 + 1 /\ 10 = 4 + 6
    OBVIOUS
  <2> QED
    BY <2>1, <2>2, ArgumentDecides
<1>3. Reaches(P, call, 10, nr) =>
        /\ nr # "ioctl" => Reaches(P, call, 15, nr)
        /\ nr = "ioctl" => Verdict(P, call) = IF call["arg1"] = "TCGETS" THEN "ALLOW" ELSE "KILL"
  <2>1. Group(9, "ioctl", "TCGETS")
    BY JailInstructions DEF Group
  <2>2. 9 \in {4, 9} /\ 10 = 9 + 1 /\ 15 = 9 + 6
    OBVIOUS
  <2> QED
    BY <2>1, <2>2, ArgumentDecides
<1>4. Reaches(P, call, 15, nr) => Verdict(P, call) = IF nr \in Listed THEN "ALLOW" ELSE "KILL"
  BY TableDecides
<1>5. "fcntl" \notin Listed /\ "ioctl" \notin Listed /\ "fcntl" # "ioctl"
  BY DEF Listed
<1> HIDE DEF P, nr
<1> QED
  BY <1>1, <1>2, <1>3, <1>4, <1>5 DEF P, nr

(***************************************************************************)
(* What the filters in force let through                                   *)
(***************************************************************************)

\* The calls that the programs refuse are the ones that their lists do not name.
LEMMA ListsEnforced == ListIsEnforced["jail"] /\ ListIsEnforced["subjail"]
<1>1. Denied.jail = DeniedBy(JailFilter) /\ Denied.subjail = DeniedBy(SubjailFilter)
  BY DEF Denied
<1>2. DeniedBy(JailFilter) = Unnamed.jail
  <2>1. ASSUME NEW call \in Calls
        PROVE  Verdict(JailFilter, call) # "ALLOW" <=>
                 ~ (/\ call.arch = "x86_64"
                    /\ \/ call.nr \in Listed
                       \/ call.nr = "fcntl" /\ call.arg1 = "F_GETFL"
                       \/ call.nr = "ioctl" /\ call.arg1 = "TCGETS")
    <3>1. Verdict(JailFilter, call) =
              IF /\ call["arch"] = "x86_64"
                 /\ \/ call["nr"] \in Listed
                    \/ call["nr"] = "fcntl" /\ call["arg1"] = "F_GETFL"
                    \/ call["nr"] = "ioctl" /\ call["arg1"] = "TCGETS"
              THEN "ALLOW" ELSE "KILL"
      BY JailDecides
    <3> QED
      BY <3>1
  <2> QED
    BY <2>1 DEF DeniedBy, Unnamed
<1>3. DeniedBy(SubjailFilter) = Unnamed.subjail
  <2>1. ASSUME NEW call \in Calls
        PROVE  Verdict(SubjailFilter, call) # "ALLOW" <=>
                 call.arch # "x86_64" \/ call.nr \in {"wait4", "fork", "kill"}
    <3>1. Verdict(SubjailFilter, call) =
              IF call["arch"] = "x86_64" /\ call["nr"] \notin {"wait4", "fork", "kill"}
              THEN "ALLOW" ELSE "KILL"
      BY SubjailDecides
    <3> QED
      BY <3>1
  <2> QED
    BY <2>1 DEF DeniedBy, Unnamed
<1> QED
  BY <1>1, <1>2, <1>3 DEF ListIsEnforced

\* The numbers that they let through whatever the arguments are.
LEMMA LetThrough ==
    /\ \A nr \in Listed : nr \in Permitted["jail"]
    /\ \A nr \in Listed \cup Unlisted : nr \notin {"wait4", "fork", "kill"} => nr \in Permitted["subjail"]
<1>1. ASSUME NEW nr PROVE Call(nr)["arch"] = "x86_64" /\ Call(nr)["nr"] = nr
  BY DEF Call
<1>2. ASSUME NEW nr \in Listed PROVE nr \in Permitted["jail"]
  <2>1. Verdict(JailFilter, Call(nr)) = "ALLOW"
    BY <1>1, JailDecides
  <2>2. Call(nr) \notin Denied.jail
    BY <2>1 DEF Denied, DeniedBy
  <2> QED
    BY <2>2 DEF Permitted, PermittedBy
<1>3. ASSUME NEW nr \in Listed \cup Unlisted, nr \notin {"wait4", "fork", "kill"}
      PROVE  nr \in Permitted["subjail"]
  <2>1. Verdict(SubjailFilter, Call(nr)) = "ALLOW"
    BY <1>1, <1>3, SubjailDecides
  <2>2. Call(nr) \notin Denied.subjail
    BY <2>1 DEF Denied, DeniedBy
  <2> QED
    BY <2>2 DEF Permitted, PermittedBy
<1> QED
  BY <1>2, <1>3

\* What gh_jail_lockdown's and gh_subjail_lockdown's programs do with any call whatsoever, of
\* any architecture, number and argument: every jump of the two lists lands where it should.
THEOREM FiltersDecide ==
    \A call :
        /\ Verdict(JailFilter, call) =
              IF /\ call["arch"] = "x86_64"
                 /\ \/ call["nr"] \in Listed
                    \/ call["nr"] = "fcntl" /\ call["arg1"] = "F_GETFL"
                    \/ call["nr"] = "ioctl" /\ call["arg1"] = "TCGETS"
              THEN "ALLOW" ELSE "KILL"
        /\ Verdict(SubjailFilter, call) =
              IF call["arch"] = "x86_64" /\ call["nr"] \notin {"wait4", "fork", "kill"}
              THEN "ALLOW" ELSE "KILL"
BY JailDecides, SubjailDecides, Zenon

\* The filters that are in force in any jail or subjail, at any moment, decide as their lists
\* read.
THEOREM ListsDecide == Spec => []LockdownExact
<1>1. TypeOK => LockdownExact
  <2> SUFFICES ASSUME TypeOK, NEW q \in Objects, NEW f \in filters[q] PROVE ListIsEnforced[f]
    BY DEF LockdownExact
  <2>1. f \in {"jail", "subjail"}
    BY Distinct DEF TypeOK
  <2> QED
    BY <2>1, ListsEnforced
<1> QED
  BY <1>1, LifecycleTyped, PTL

\* No jail or subjail, set up and torn down in any order, is killed by its own filters for a
\* call that it makes at the place where it is: the lockdowns come after the last call that
\* needs more, and the second filter is installed under the first.
THEOREM NotKilledByFilters == Spec => []CallsPermitted
<1>1. FiltersInForce => CallsPermitted
  <2> SUFFICES ASSUME FiltersInForce PROVE CallsPermitted
    OBVIOUS
  <2>1. ASSUME NEW s \in Sandboxes, pc[s] \in DOMAIN JailCalls, NEW f \in filters[s]
        PROVE  JailCalls[pc[s]] \subseteq Permitted[f]
    <3>1. pc[s] \in {"start", "hello", "loop", "close"}
      BY <2>1 DEF JailCalls
    <3>2. pc[s] # "start" /\ f = "jail"
      BY <2>1, <3>1 DEF FiltersInForce
    <3>3. JailCalls[pc[s]] \subseteq Listed
      BY <3>1, <3>2 DEF JailCalls, Listed
    <3> QED
      BY <3>2, <3>3, LetThrough
  <2>2. ASSUME NEW t \in Threads, pc[t] \in DOMAIN SubjailCalls, NEW f \in filters[t]
        PROVE  SubjailCalls[pc[t]] \subseteq Permitted[f]
    <3>1. pc[t] \in {"start", "init", "hello", "loop"}
      BY <2>2 DEF SubjailCalls
    <3>2. f \in {"jail", "subjail"}
      BY <2>2, <3>1 DEF FiltersInForce
    <3>3. SubjailCalls[pc[t]] \subseteq Listed /\ \A nr \in SubjailCalls[pc[t]] : nr \notin {"wait4", "fork", "kill"}
      BY <3>1 DEF SubjailCalls, Listed
    <3> QED
      BY <3>2, <3>3, LetThrough
  <2> QED
    BY <2>1, <2>2 DEF CallsPermitted
<1> QED
  BY <1>1, Confined, PTL

(***************************************************************************)
(* The host's descriptors                                                  *)
(***************************************************************************)

\* What HostLedger says of one object in a phase, of the descriptors es.
Entry(o, phase, es) ==
    /\ h(o) \in es <=> \/ phase \in Waiting \cup {"live"}
                       \/ o \in Sandboxes /\ phase = "failed"
    /\ p(o) \in es => \/ phase \in {"pair", "forked", "wait"}
                      \/ o \in Threads /\ phase = "failed"
    /\ pidfd(o) \in es => phase \in {"quit", "closed"}

\* The ledger has an entry for each object.
LEMMA LedgerEntries ==
    ASSUME HostLedger, HostRuns, NEW o \in Objects
    PROVE  Entry(o, obj[o], holds[Host])
<1>1. h(o) \in holds[Host] <=> o \in {u \in Objects : obj[u] \in Waiting \cup {"live"}}
                                      \cup {s \in Sandboxes : obj[s] = "failed"}
  BY DEF HostLedger
<1>2. p(o) \in holds[Host] => o \in {u \in Objects : obj[u] \in {"pair", "forked", "wait"}}
                                      \cup {t \in Threads : obj[t] = "failed"}
  BY DEF HostLedger
<1>3. pidfd(o) \in holds[Host] => obj[o] \in {"quit", "closed"}
  BY DEF HostLedger
<1> QED
  BY <1>1, <1>2, <1>3 DEF Entry

\* The entries make the ledger.
LEMMA EntriesMakeLedger ==
    ASSUME NEW ob, NEW es, \A o \in Objects : Entry(o, ob[o], es)
    PROVE  /\ {o \in Objects : h(o) \in es} =
                 {o \in Objects : ob[o] \in Waiting \cup {"live"}}
                   \cup {s \in Sandboxes : ob[s] = "failed"}
           /\ {o \in Objects : p(o) \in es} \subseteq
                 {o \in Objects : ob[o] \in {"pair", "forked", "wait"}}
                   \cup {t \in Threads : ob[t] = "failed"}
           /\ {o \in Objects : pidfd(o) \in es} \subseteq
                 {o \in Objects : ob[o] \in {"quit", "closed"}}
<1>1. {o \in Objects : h(o) \in es} =
            {o \in Objects : ob[o] \in Waiting \cup {"live"}}
              \cup {s \in Sandboxes : ob[s] = "failed"}
  BY Distinct DEF Entry
<1>2. {o \in Objects : p(o) \in es} \subseteq
            {o \in Objects : ob[o] \in {"pair", "forked", "wait"}}
              \cup {t \in Threads : ob[t] = "failed"}
  BY DEF Entry
<1>3. {o \in Objects : pidfd(o) \in es} \subseteq {o \in Objects : ob[o] \in {"quit", "closed"}}
  BY DEF Entry
<1> QED
  BY <1>1, <1>2, <1>3

\* The host opens and closes descriptors of one object only, whose entry is right afterwards.
Posts(o) ==
    /\ HostRuns
    /\ \A u \in Objects \ {o} :
          /\ obj'[u] = obj[u]
          /\ \A e \in {h(u), p(u), pidfd(u)} : e \in holds'[Host] <=> e \in holds[Host]
    /\ Entry(o, obj'[o], holds'[Host])

\* Such a step keeps the ledger.
LEMMA PostsKeep ==
    ASSUME HostLedger, NEW o \in Objects, Posts(o)
    PROVE  HostLedger'
<1>1. ASSUME NEW u \in Objects \ {o}
      PROVE  Entry(u, obj'[u], holds'[Host])
  <2>1. Entry(u, obj[u], holds[Host])
    BY LedgerEntries DEF Posts
  <2>2. /\ obj'[u] = obj[u]
        /\ h(u) \in holds'[Host] <=> h(u) \in holds[Host]
        /\ p(u) \in holds'[Host] <=> p(u) \in holds[Host]
        /\ pidfd(u) \in holds'[Host] <=> pidfd(u) \in holds[Host]
    BY DEF Posts
  <2> QED
    BY <2>1, <2>2 DEF Entry
<1>2. \A u \in Objects : Entry(u, obj'[u], holds'[Host])
  BY <1>1 DEF Posts
<1> QED
  BY <1>2, EntriesMakeLedger DEF HostLedger

\* The steps of the host post their object.
LEMMA HostPosts ==
    ASSUME TypeOK, HostLedger, NEW o \in Objects,
           \/ /\ o \in Sandboxes
              /\ \/ SandboxPair(o) \/ SandboxFork(o) \/ SandboxForkFails(o) \/ SandboxHello(o)
                 \/ SandboxQuit(o) \/ SandboxExited(o) \/ SandboxKill(o)
           \/ /\ o \in Threads
              /\ \/ ThreadOpen(o) \/ ThreadAlive(o) \/ ThreadTimeout(o) \/ ThreadQuit(o)
                 \/ ThreadPidfd(o) \/ ThreadExited(o) \/ ThreadKill(o)
    PROVE  Posts(o)
<1>1. HostRuns
  BY DEF SandboxPair, SandboxFork, SandboxForkFails, SandboxHello, SandboxQuit, SandboxExited,
         SandboxKill, ThreadOpen, ThreadAlive, ThreadTimeout, ThreadQuit, ThreadPidfd,
         ThreadExited, ThreadKill, Free
<1>2. Entry(o, obj[o], holds[Host])
  BY <1>1, LedgerEntries
<1>3. /\ Host \in Procs /\ o \in Procs /\ o # Host
      /\ o \in Sandboxes => o \notin Threads
      /\ h(o) # p(o) /\ h(o) # pidfd(o) /\ p(o) # pidfd(o)
  BY Distinct, EndsDiffer
<1>4. ASSUME NEW phase \in Phases, Becomes(o, phase),
             Entry(o, phase, holds'[Host]),
             \A e \in Ends \ {h(o), p(o), pidfd(o)} : e \in holds'[Host] <=> e \in holds[Host]
      PROVE  Posts(o)
  <2>1. obj'[o] = phase /\ \A u \in Objects \ {o} : obj'[u] = obj[u]
    BY <1>4 DEF Becomes, TypeOK
  <2>2. ASSUME NEW u \in Objects \ {o}, NEW e \in {h(u), p(u), pidfd(u)}
        PROVE  e \in Ends \ {h(o), p(o), pidfd(o)}
    BY EndsDiffer
  <2> QED
    BY <1>1, <1>4, <2>1, <2>2 DEF Posts
<1>5. CASE o \in Sandboxes /\ SandboxPair(o)
  <2>1. obj[o] = "none" /\ o \in Sandboxes
    BY <1>5 DEF SandboxPair
  <2>2. Becomes(o, "pair") /\ holds'[Host] = holds[Host] \cup {h(o), p(o)}
    BY <1>3, <1>5 DEF SandboxPair, HostCloses, TypeOK
  <2>3. Becomes(o, "pair") /\ Entry(o, "pair", holds'[Host])
    BY <1>2, <1>3, <2>1, <2>2 DEF Entry, Waiting
  <2>4. \A e \in Ends \ {h(o), p(o), pidfd(o)} : e \in holds'[Host] <=> e \in holds[Host]
    BY <2>2
  <2> QED
    BY <1>4, <2>3, <2>4 DEF Phases
<1>6. CASE o \in Sandboxes /\ SandboxFork(o)
  <2>1. obj[o] = "pair" /\ o \in Sandboxes
    BY <1>6 DEF SandboxFork
  <2>2. Becomes(o, "forked") /\ holds'[Host] = holds[Host]
    BY <1>3, <1>6 DEF SandboxFork, HostCloses, TypeOK
  <2>3. Becomes(o, "forked") /\ Entry(o, "forked", holds'[Host])
    BY <1>2, <1>3, <2>1, <2>2 DEF Entry, Waiting
  <2>4. \A e \in Ends \ {h(o), p(o), pidfd(o)} : e \in holds'[Host] <=> e \in holds[Host]
    BY <2>2
  <2> QED
    BY <1>4, <2>3, <2>4 DEF Phases
<1>7. CASE o \in Sandboxes /\ SandboxForkFails(o)
  <2>1. obj[o] = "pair" /\ o \in Sandboxes
    BY <1>7 DEF SandboxForkFails
  <2>2. Becomes(o, "forked") /\ holds'[Host] = holds[Host]
    BY <1>3, <1>7 DEF SandboxForkFails, HostCloses, TypeOK
  <2>3. Becomes(o, "forked") /\ Entry(o, "forked", holds'[Host])
    BY <1>2, <1>3, <2>1, <2>2 DEF Entry, Waiting
  <2>4. \A e \in Ends \ {h(o), p(o), pidfd(o)} : e \in holds'[Host] <=> e \in holds[Host]
    BY <2>2
  <2> QED
    BY <1>4, <2>3, <2>4 DEF Phases
<1>8. CASE o \in Sandboxes /\ SandboxHello(o)
  <2>1. obj[o] = "forked" /\ o \in Sandboxes
    BY <1>8 DEF SandboxHello
  <2>2. \/ Becomes(o, "live") /\ holds'[Host] = holds[Host] \ {p(o)}
        \/ Becomes(o, "failed") /\ holds'[Host] = holds[Host] \ {p(o)}
    BY <1>3, <1>8 DEF SandboxHello, HostCloses, TypeOK
  <2>3. \/ Becomes(o, "live") /\ Entry(o, "live", holds'[Host])
        \/ Becomes(o, "failed") /\ Entry(o, "failed", holds'[Host])
    BY <1>2, <1>3, <2>1, <2>2 DEF Entry, Waiting
  <2>4. \A e \in Ends \ {h(o), p(o), pidfd(o)} : e \in holds'[Host] <=> e \in holds[Host]
    BY <2>2
  <2> QED
    BY <1>4, <2>3, <2>4 DEF Phases
<1>9. CASE o \in Sandboxes /\ SandboxQuit(o)
  <2>1. obj[o] = "live" /\ o \in Sandboxes
    BY <1>9 DEF SandboxQuit
  <2>2. \/ Becomes(o, "quit") /\ holds'[Host] = holds[Host] \cup {pidfd(o)}
        \/ Becomes(o, "closed") /\ holds'[Host] = holds[Host] \ {h(o)}
    BY <1>3, <1>9 DEF SandboxQuit, HostCloses, TypeOK
  <2>3. \/ Becomes(o, "quit") /\ Entry(o, "quit", holds'[Host])
        \/ Becomes(o, "closed") /\ Entry(o, "closed", holds'[Host])
    BY <1>2, <1>3, <2>1, <2>2 DEF Entry, Waiting
  <2>4. \A e \in Ends \ {h(o), p(o), pidfd(o)} : e \in holds'[Host] <=> e \in holds[Host]
    BY <2>2
  <2> QED
    BY <1>4, <2>3, <2>4 DEF Phases
<1>10. CASE o \in Sandboxes /\ SandboxExited(o)
  <2>1. obj[o] = "quit" /\ o \in Sandboxes
    BY <1>10 DEF SandboxExited
  <2>2. Becomes(o, "closed") /\ holds'[Host] = holds[Host] \ {h(o)}
    BY <1>3, <1>10 DEF SandboxExited, HostCloses, TypeOK
  <2>3. Becomes(o, "closed") /\ Entry(o, "closed", holds'[Host])
    BY <1>2, <1>3, <2>1, <2>2 DEF Entry, Waiting
  <2>4. \A e \in Ends \ {h(o), p(o), pidfd(o)} : e \in holds'[Host] <=> e \in holds[Host]
    BY <2>2
  <2> QED
    BY <1>4, <2>3, <2>4 DEF Phases
<1>11. CASE o \in Sandboxes /\ SandboxKill(o)
  <2>1. obj[o] = "quit" /\ o \in Sandboxes
    BY <1>11 DEF SandboxKill
  <2>2. Becomes(o, "closed") /\ holds'[Host] = holds[Host] \ {h(o)}
    BY <1>3, <1>11 DEF SandboxKill, HostCloses, TypeOK
  <2>3. Becomes(o, "closed") /\ Entry(o, "closed", holds'[Host])
    BY <1>2, <1>3, <2>1, <2>2 DEF Entry, Waiting
  <2>4. \A e \in Ends \ {h(o), p(o), pidfd(o)} : e \in holds'[Host] <=> e \in holds[Host]
    BY <2>2
  <2> QED
    BY <1>4, <2>3, <2>4 DEF Phases
<1>12. CASE o \in Threads /\ ThreadOpen(o)
  <2>1. obj[o] = "none" /\ o \in Threads
    BY <1>12 DEF ThreadOpen
  <2>2. \/ Becomes(o, "wait") /\ holds'[Host] = holds[Host] \cup {h(o), p(o)}
        \/ Becomes(o, "failed") /\ holds'[Host] = holds[Host] \cup {p(o)}
    BY <1>3, <1>12 DEF ThreadOpen, HostCloses, TypeOK
  <2>3. \/ Becomes(o, "wait") /\ Entry(o, "wait", holds'[Host])
        \/ Becomes(o, "failed") /\ Entry(o, "failed", holds'[Host])
    BY <1>2, <1>3, <2>1, <2>2 DEF Entry, Waiting
  <2>4. \A e \in Ends \ {h(o), p(o), pidfd(o)} : e \in holds'[Host] <=> e \in holds[Host]
    BY <2>2
  <2> QED
    BY <1>4, <2>3, <2>4 DEF Phases
<1>13. CASE o \in Threads /\ ThreadAlive(o)
  <2>1. obj[o] = "wait" /\ o \in Threads
    BY <1>13 DEF ThreadAlive
  <2>2. \/ Becomes(o, "live") /\ holds'[Host] = holds[Host] \ {p(o)}
        \/ Becomes(o, "failed") /\ holds'[Host] = holds[Host] \ {p(o), h(o)}
    BY <1>3, <1>13 DEF ThreadAlive, HostCloses, TypeOK
  <2>3. \/ Becomes(o, "live") /\ Entry(o, "live", holds'[Host])
        \/ Becomes(o, "failed") /\ Entry(o, "failed", holds'[Host])
    BY <1>2, <1>3, <2>1, <2>2 DEF Entry, Waiting
  <2>4. \A e \in Ends \ {h(o), p(o), pidfd(o)} : e \in holds'[Host] <=> e \in holds[Host]
    BY <2>2
  <2> QED
    BY <1>4, <2>3, <2>4 DEF Phases
<1>14. CASE o \in Threads /\ ThreadTimeout(o)
  <2>1. obj[o] = "wait" /\ o \in Threads
    BY <1>14 DEF ThreadTimeout
  <2>2. Becomes(o, "failed") /\ holds'[Host] = holds[Host] \ {h(o)}
    BY <1>3, <1>14 DEF ThreadTimeout, HostCloses, TypeOK
  <2>3. Becomes(o, "failed") /\ Entry(o, "failed", holds'[Host])
    BY <1>2, <1>3, <2>1, <2>2 DEF Entry, Waiting
  <2>4. \A e \in Ends \ {h(o), p(o), pidfd(o)} : e \in holds'[Host] <=> e \in holds[Host]
    BY <2>2
  <2> QED
    BY <1>4, <2>3, <2>4 DEF Phases
<1>15. CASE o \in Threads /\ ThreadQuit(o)
  <2>1. obj[o] = "live" /\ o \in Threads
    BY <1>15 DEF ThreadQuit
  <2>2. \/ Becomes(o, "pidfd") /\ holds'[Host] = holds[Host]
        \/ Becomes(o, "closed") /\ holds'[Host] = holds[Host] \ {h(o)}
    BY <1>3, <1>15 DEF ThreadQuit, HostCloses, TypeOK
  <2>3. \/ Becomes(o, "pidfd") /\ Entry(o, "pidfd", holds'[Host])
        \/ Becomes(o, "closed") /\ Entry(o, "closed", holds'[Host])
    BY <1>2, <1>3, <2>1, <2>2 DEF Entry, Waiting
  <2>4. \A e \in Ends \ {h(o), p(o), pidfd(o)} : e \in holds'[Host] <=> e \in holds[Host]
    BY <2>2
  <2> QED
    BY <1>4, <2>3, <2>4 DEF Phases
<1>16. CASE o \in Threads /\ ThreadPidfd(o)
  <2>1. obj[o] = "pidfd" /\ o \in Threads
    BY <1>16 DEF ThreadPidfd
  <2>2. \/ Becomes(o, "quit") /\ holds'[Host] = holds[Host] \cup {pidfd(o)}
        \/ Becomes(o, "closed") /\ holds'[Host] = holds[Host] \ {h(o)}
    BY <1>3, <1>16 DEF ThreadPidfd, HostCloses, TypeOK
  <2>3. \/ Becomes(o, "quit") /\ Entry(o, "quit", holds'[Host])
        \/ Becomes(o, "closed") /\ Entry(o, "closed", holds'[Host])
    BY <1>2, <1>3, <2>1, <2>2 DEF Entry, Waiting
  <2>4. \A e \in Ends \ {h(o), p(o), pidfd(o)} : e \in holds'[Host] <=> e \in holds[Host]
    BY <2>2
  <2> QED
    BY <1>4, <2>3, <2>4 DEF Phases
<1>17. CASE o \in Threads /\ ThreadExited(o)
  <2>1. obj[o] = "quit" /\ o \in Threads
    BY <1>17 DEF ThreadExited
  <2>2. Becomes(o, "closed") /\ holds'[Host] = holds[Host] \ {h(o)}
    BY <1>3, <1>17 DEF ThreadExited, HostCloses, TypeOK
  <2>3. Becomes(o, "closed") /\ Entry(o, "closed", holds'[Host])
    BY <1>2, <1>3, <2>1, <2>2 DEF Entry, Waiting
  <2>4. \A e \in Ends \ {h(o), p(o), pidfd(o)} : e \in holds'[Host] <=> e \in holds[Host]
    BY <2>2
  <2> QED
    BY <1>4, <2>3, <2>4 DEF Phases
<1>18. CASE o \in Threads /\ ThreadKill(o)
  <2>1. obj[o] = "quit" /\ o \in Threads
    BY <1>18 DEF ThreadKill
  <2>2. Becomes(o, "closed") /\ holds'[Host] = holds[Host] \ {h(o)}
    BY <1>3, <1>18 DEF ThreadKill, HostCloses, TypeOK
  <2>3. Becomes(o, "closed") /\ Entry(o, "closed", holds'[Host])
    BY <1>2, <1>3, <2>1, <2>2 DEF Entry, Waiting
  <2>4. \A e \in Ends \ {h(o), p(o), pidfd(o)} : e \in holds'[Host] <=> e \in holds[Host]
    BY <2>2
  <2> QED
    BY <1>4, <2>3, <2>4 DEF Phases
<1> QED
  BY <1>5, <1>6, <1>7, <1>8, <1>9, <1>10, <1>11, <1>12, <1>13, <1>14, <1>15, <1>16, <1>17, <1>18

\* The steps of the other processes touch neither the objects nor the host's descriptors.
LEMMA ProcsApart ==
    ASSUME TypeOK, NEW o \in Objects, ProcNext(o) \/ Crash(o)
    PROVE  obj' = obj /\ holds'[Host] = holds[Host] /\ pc'[Host] = pc[Host]
<1>0. /\ o \in Procs /\ o # Host /\ Host \in Procs
      /\ \A t \in Threads : t \in Procs /\ t # Host
  BY Distinct
<1>1. ASSUME Dies(o)
      PROVE  obj' = obj /\ holds'[Host] = holds[Host] /\ pc'[Host] = pc[Host]
  BY <1>0, <1>1 DEF Dies, Die, TypeOK
<1>2. ASSUME NEW point, Continues(o, point)
      PROVE  obj' = obj /\ holds'[Host] = holds[Host] /\ pc'[Host] = pc[Host]
  BY <1>0, <1>2 DEF Continues, Goto, TypeOK
<1>3. ASSUME JailSpawn(o)
      PROVE  obj' = obj /\ holds'[Host] = holds[Host] /\ pc'[Host] = pc[Host]
  BY <1>0, <1>3 DEF JailSpawn, Goto, TypeOK
<1>4. CASE \/ JailStartFails(o) \/ JailQuit(o) \/ SubjailInitFails(o) \/ SubjailQuit(o)
           \/ Hangup(o) \/ HelloTimeout(o) \/ Crash(o)
  BY <1>1, <1>4, DyingSteps
<1>5. CASE o \in Sandboxes /\ (JailLockdown(o) \/ JailHello(o) \/ JailClose(o))
  BY <1>2, <1>5, ContinueSteps
<1>6. CASE SubjailLockdown(o) \/ SubjailInit(o) \/ SubjailHello(o)
  BY <1>1, <1>2, <1>6, ContinueSteps
<1> QED
  BY <1>3, <1>4, <1>5, <1>6 DEF ProcNext

\* A step of the host posts one object, a step of another process none.
LEMMA StepPosts ==
    ASSUME TypeOK, HostLedger, Next
    PROVE  \/ \E o \in Objects : Posts(o)
           \/ obj' = obj /\ holds'[Host] = holds[Host] /\ pc'[Host] = pc[Host]
           \/ HostEnds
<1>1. ASSUME NEW s \in Sandboxes, SandboxPair(s) \/ SandboxQuit(s)
      PROVE  \E o \in Objects : Posts(o)
  BY <1>1, HostPosts, Distinct
<1>2. ASSUME NEW t \in Threads, ThreadOpen(t) \/ ThreadQuit(t)
      PROVE  \E o \in Objects : Posts(o)
  BY <1>2, HostPosts, Distinct
<1>3. ASSUME NEW o \in Objects, HostNext(o)
      PROVE  Posts(o)
  BY <1>3, HostPosts DEF HostNext
<1> QED
  BY <1>1, <1>2, <1>3, ProcsApart DEF Next

\* The ledger is kept by every step.
LEMMA LedgerStep ==
    ASSUME TypeOK, HostLedger, [Next]_vars
    PROVE  HostLedger'
<1>1. CASE UNCHANGED vars
  BY <1>1 DEF vars, HostLedger, HostRuns
<1>2. ASSUME obj' = obj, holds'[Host] = holds[Host], pc'[Host] = pc[Host]
      PROVE  HostLedger'
  BY <1>2 DEF HostLedger, HostRuns
<1>3. CASE HostEnds
  <2>1. ~HostRuns'
    BY <1>3, Distinct DEF HostEnds, Die, HostRuns, TypeOK
  <2> QED
    BY <2>1 DEF HostLedger
<1> QED
  BY <1>1, <1>2, <1>3, StepPosts, PostsKeep

\* The host holds its end of every object that is constructed or in the middle of a
\* constructor or a destructor and of no other, and leaves open only the descriptors that
\* HostLedger names, however the constructors and destructors of any number of sandboxes
\* and threads interleave and fail.
THEOREM LedgerHolds == Spec => []HostLedger
<1>1. Init => HostLedger
  <2> SUFFICES ASSUME Init PROVE HostLedger
    OBVIOUS
  <2>1. \A o \in Objects : Entry(o, obj[o], holds[Host])
    BY Distinct DEF Init, Entry, Waiting
  <2> QED
    BY <2>1, EntriesMakeLedger DEF HostLedger
<1>2. TypeOK /\ HostLedger /\ [Next]_vars => HostLedger'
  BY LedgerStep
<1> QED
  BY <1>1, <1>2, LifecycleTyped, PTL DEF Spec

(***************************************************************************)
(* The peer ends                                                           *)
(***************************************************************************)

\* The objects die with the host.
DieWithHost == ~HostRuns => \A o \in Objects : obj[o] = "none"

\* The local sockfd of message_recv is in use only until it is closed.
LocalsFree == \A s \in Sandboxes : pc[s] # "close" => fd[s] = {}

\* Requests for a subjail go to the jail of its sandbox.
Addressed == \A o \in Objects : toProc[o] \in Seq(MessagesTo(o))

\* Why a process may hold the peer end of an object that is not its own: the constructor
\* gave the object up, or it is one of the two moments of DeathIsSeen.
Excused(q, o, phase, at, local) ==
    \/ phase = "failed"
    \/ q \in Sandboxes /\ o \in local
    \/ q \in Threads /\ at = "start" /\ Home[q] = o

\* While the host runs, a process holds no peer end of another without excuse.
OwnEnds ==
    HostRuns =>
        \A q, o \in Objects : p(o) \in holds[q] /\ q # o => Excused(q, o, obj[o], pc[q], fd[q])

\* The inductive invariant behind DeathIsSeen.
OwnEndsInv == DieWithHost /\ LocalsFree /\ Addressed /\ OwnEnds

\* A process that a step leaves alone needs no new excuse.
LEMMA OwnEndsKept ==
    ASSUME OwnEnds, HostRuns' => HostRuns,
           \A o \in Objects : obj[o] = "failed" => obj'[o] = "failed",
           \A q \in Objects :
              \/ /\ holds'[q] \subseteq holds[q] /\ pc'[q] = pc[q]
                 /\ q \in Sandboxes => fd'[q] = fd[q]
              \/ \A o \in Objects :
                    p(o) \in holds'[q] /\ q # o => Excused(q, o, obj'[o], pc'[q], fd'[q])
    PROVE  OwnEnds'
<1>1. ASSUME NEW q \in Objects, NEW o \in Objects, HostRuns',
             p(o) \in holds'[q], q # o
      PROVE  Excused(q, o, obj'[o], pc'[q], fd'[q])
  <2>1. CASE /\ holds'[q] \subseteq holds[q] /\ pc'[q] = pc[q]
             /\ q \in Sandboxes => fd'[q] = fd[q]
    <3>1. Excused(q, o, obj[o], pc[q], fd[q])
      BY <1>1, <2>1 DEF OwnEnds
    <3> QED
      BY <2>1, <3>1 DEF Excused
  <2>2. CASE \A u \in Objects :
                p(u) \in holds'[q] /\ q # u => Excused(q, u, obj'[u], pc'[q], fd'[q])
    BY <1>1, <2>2
  <2> QED
    BY <2>1, <2>2
<1> QED
  BY <1>1 DEF OwnEnds

\* The queues after a message is sent or received.
LEMMA AddressedKept ==
    ASSUME TypeOK, Addressed, NEW o \in Objects,
           \/ MayReceive(o)
           \/ \E m \in MessagesTo(o) : toProc' = [toProc EXCEPT ![o] = Append(@, m)]
    PROVE  Addressed'
<1>1. toProc \in [Objects -> Seq(Messages)] /\ \A u \in Objects : toProc[u] \in Seq(MessagesTo(u))
  BY DEF TypeOK, Addressed
<1>2. CASE toProc' = toProc
  BY <1>2 DEF Addressed
<1>3. CASE toProc[o] # << >> /\ toProc' = [toProc EXCEPT ![o] = Tail(@)]
  <2>1. Tail(toProc[o]) \in Seq(MessagesTo(o))
    BY <1>1, <1>3
  <2>2. toProc'[o] = Tail(toProc[o]) /\ \A u \in Objects \ {o} : toProc'[u] = toProc[u]
    BY <1>1, <1>3
  <2> QED
    BY <1>1, <2>1, <2>2 DEF Addressed
<1>4. ASSUME NEW m \in MessagesTo(o), toProc' = [toProc EXCEPT ![o] = Append(@, m)]
      PROVE  Addressed'
  <2>1. Append(toProc[o], m) \in Seq(MessagesTo(o))
    BY <1>1, <1>4
  <2>2. toProc'[o] = Append(toProc[o], m) /\ \A u \in Objects \ {o} : toProc'[u] = toProc[u]
    BY <1>1, <1>4
  <2> QED
    BY <1>1, <2>1, <2>2 DEF Addressed
<1> QED
  BY <1>2, <1>3, <1>4 DEF MayReceive

\* The host's steps on its own descriptors.
LEMMA HostDoesEnds ==
    ASSUME TypeOK, OwnEndsInv, NEW o \in Objects, NEW phase \in Phases, NEW es \in SUBSET Ends,
           HostDoes(o, phase, es)
    PROVE  OwnEndsInv'
<1>1. HostRuns /\ HostRuns' /\ pc' = pc /\ fd' = fd
  BY DEF HostDoes, HostRuns
<1>2. \A q \in Objects : holds'[q] = holds[q]
  BY Distinct DEF HostDoes, TypeOK
<1>3. \A u \in Objects : obj[u] = "failed" => obj'[u] = "failed"
  BY DEF HostDoes, Becomes, TypeOK
<1>4. OwnEnds'
  BY <1>1, <1>2, <1>3, OwnEndsKept DEF OwnEndsInv
<1>5. Addressed'
  <2>1. CASE toProc' = toProc
    BY <2>1 DEF OwnEndsInv, Addressed
  <2>2. CASE \E u \in Objects : \E m \in MessagesTo(u) :
               toProc' = [toProc EXCEPT ![u] = Append(@, m)]
    BY <2>2, AddressedKept DEF OwnEndsInv
  <2> QED
    BY <2>1, <2>2 DEF HostDoes
<1> QED
  BY <1>1, <1>4, <1>5 DEF OwnEndsInv, DieWithHost, LocalsFree

\* A process ends, by itself or killed.
LEMMA DeathEnds ==
    ASSUME TypeOK, OwnEndsInv, NEW o \in Objects, Dies(o) \/ Kills(o)
    PROVE  OwnEndsInv'
<1>0. o \in Procs /\ o # Host /\ Host \in Procs /\ \A q \in Objects : q \in Procs /\ q # Host
  BY Distinct
<1>1. /\ pc' = [pc EXCEPT ![o] = "dead"]
      /\ fd' = IF o \in Sandboxes THEN [fd EXCEPT ![o] = {}] ELSE fd
      /\ MayReceive(o)
  BY DEF Dies, Die, Kills, Goto, MayReceive
<1>2. /\ pc'[o] = "dead" /\ \A q \in Procs \ {o} : pc'[q] = pc[q]
      /\ \A s \in Sandboxes : fd'[s] = fd[s] \/ (s = o /\ fd'[s] = {})
      /\ \A s \in Sandboxes \ {o} : fd'[s] = fd[s]
      /\ o \in Sandboxes => fd'[o] = {}
  BY <1>0, <1>1 DEF TypeOK
<1>3. holds'[o] = {} /\ \A q \in Objects \ {o} : holds'[q] = holds[q]
  BY <1>0 DEF Dies, Die, Kills, TypeOK
<1>4. HostRuns' <=> HostRuns
  BY <1>0, <1>2 DEF HostRuns
<1>5. \/ obj' = obj
      \/ HostRuns /\ obj[o] = "quit" /\ obj' = [obj EXCEPT ![o] = "closed"]
  BY DEF Dies, Kills, Becomes
<1>6. OwnEnds'
  <2>1. \A u \in Objects : obj[u] = "failed" => obj'[u] = "failed"
    BY <1>5 DEF TypeOK
  <2> QED
    BY <1>2, <1>3, <1>4, <1>0, <2>1, OwnEndsKept DEF OwnEndsInv
<1>7. Addressed'
  BY <1>1, AddressedKept DEF OwnEndsInv
<1>8. LocalsFree'
  BY <1>0, <1>2, Distinct DEF OwnEndsInv, LocalsFree
<1>9. DieWithHost'
  BY <1>4, <1>5 DEF OwnEndsInv, DieWithHost
<1> QED
  BY <1>6, <1>7, <1>8, <1>9 DEF OwnEndsInv

\* A jail is forked: with one constructor at a time, the host has the peer end of no other
\* object except those that were given up.
LEMMA ForkEnds ==
    ASSUME TypeOK, OwnEndsInv, HostLedger, NotForked, ~Parallel,
           NEW s \in Sandboxes, SandboxFork(s)
    PROVE  OwnEndsInv'
<1>0. s \in Objects /\ s \in Procs /\ s # Host /\ Host \in Procs
      /\ \A q \in Objects : q \in Procs /\ q # Host
  BY Distinct
<1>1. /\ HostRuns /\ obj[s] = "pair" /\ obj' = [obj EXCEPT ![s] = "forked"]
      /\ pc' = [pc EXCEPT ![s] = "start"]
      /\ holds' = [holds EXCEPT ![s] = holds[Host] \ {h(s)}]
      /\ fd' = fd /\ toProc' = toProc
      /\ \A other \in Objects \ {s} : obj[other] \notin Waiting
  BY DEF SandboxFork, Free, Becomes, Goto, ChildDescriptors
<1>2. /\ pc'[s] = "start" /\ \A q \in Procs \ {s} : pc'[q] = pc[q]
      /\ holds'[s] = holds[Host] \ {h(s)} /\ \A q \in Procs \ {s} : holds'[q] = holds[q]
      /\ \A o \in Objects \ {s} : obj'[o] = obj[o]
  BY <1>0, <1>1 DEF TypeOK
<1>3. HostRuns'
  BY <1>0, <1>1, <1>2 DEF HostRuns
<1>4. ASSUME NEW o \in Objects, p(o) \in holds'[s], s # o
      PROVE  Excused(s, o, obj'[o], pc'[s], fd'[s])
  <2>1. p(o) \in holds[Host]
    BY <1>2, <1>4
  <2>2. obj[o] \in {"pair", "forked", "wait"} \/ obj[o] = "failed"
    BY <1>1, <2>1, LedgerEntries DEF Entry
  <2> QED
    BY <1>1, <1>2, <1>4, <2>2 DEF Waiting, Excused
<1>5. OwnEnds'
  <2>1. \A u \in Objects : obj[u] = "failed" => obj'[u] = "failed"
    BY <1>1, <1>2
  <2> QED
    BY <1>0, <1>1, <1>2, <1>4, <2>1, OwnEndsKept DEF OwnEndsInv
<1>6. LocalsFree'
  <2>1. fd[s] = {}
    BY <1>1 DEF OwnEndsInv, LocalsFree, NotForked
  <2> QED
    BY <1>1, <1>2, <2>1, Distinct DEF OwnEndsInv, LocalsFree
<1> QED
  BY <1>1, <1>3, <1>5, <1>6 DEF OwnEndsInv, DieWithHost, Addressed

\* A jail handles NEWSUBJAIL: it has the thread's peer end until its close, and the new
\* subjail has the jail's until its first step.
LEMMA SpawnEnds ==
    ASSUME TypeOK, OwnEndsInv, NEW s \in Sandboxes, JailSpawn(s)
    PROVE  OwnEndsInv'
<1>1. PICK t \in Threads, forks \in BOOLEAN :
        /\ pc[s] = "loop"
        /\ Receives(s, {NEWSUBJAIL(t)})
        /\ fd' = [fd EXCEPT ![s] = {t}]
        /\ IF forks
             THEN /\ pc' = [pc EXCEPT ![s] = "close", ![t] = "start"]
                  /\ holds' = [holds EXCEPT ![s] = holds[s] \cup {p(t)},
                                            ![t] = holds[s] \cup {p(t)}]
             ELSE /\ Goto(s, "close")
                  /\ holds' = [holds EXCEPT ![s] = holds[s] \cup {p(t)}]
        /\ UNCHANGED obj
  BY DEF JailSpawn
<1>2. /\ s \in Objects /\ s \in Procs /\ t \in Objects /\ t \in Procs /\ t # s
      /\ s # Host /\ t # Host /\ s \notin Threads /\ t \notin Sandboxes /\ Host \in Procs
      /\ \A q \in Objects : q \in Procs
  BY Distinct
<1>3. Home[t] = s
  <2>1. Head(toProc[s]) \in MessagesTo(s)
    BY <1>1, <1>2 DEF OwnEndsInv, Addressed, Receives
  <2>2. Head(toProc[s]) = NEWSUBJAIL(t)
    BY <1>1 DEF Receives
  <2> QED
    BY <2>1, <2>2 DEF MessagesTo
<1>4. fd[s] = {} /\ fd'[s] = {t} /\ \A u \in Sandboxes \ {s} : fd'[u] = fd[u]
  BY <1>1 DEF OwnEndsInv, LocalsFree, TypeOK
<1>5. /\ pc'[s] = "close" /\ holds'[s] = holds[s] \cup {p(t)}
      /\ \A q \in Procs \ {s, t} : pc'[q] = pc[q] /\ holds'[q] = holds[q]
      /\ \/ pc'[t] = pc[t] /\ holds'[t] = holds[t]
         \/ pc'[t] = "start" /\ holds'[t] = holds[s] \cup {p(t)}
  BY <1>1, <1>2 DEF Goto, TypeOK
<1>6. HostRuns' <=> HostRuns
  BY <1>2, <1>5 DEF HostRuns
<1>7. ASSUME HostRuns, NEW o \in Objects, p(o) \in holds[s], o # s
      PROVE  obj[o] = "failed"
  BY <1>2, <1>4, <1>7 DEF OwnEndsInv, OwnEnds, Excused
<1>8. ~HostRuns => OwnEnds'
  BY <1>6 DEF OwnEnds
<1>9. ASSUME HostRuns
      PROVE  OwnEnds'
  <2>1. ASSUME NEW o \in Objects, p(o) \in holds'[s], s # o
        PROVE  Excused(s, o, obj'[o], pc'[s], fd'[s])
    <3>1. CASE o = t
      BY <1>4, <3>1 DEF Excused
    <3>2. CASE o # t
      <4>1. p(o) \in holds[s]
        BY <1>5, <2>1, <3>2, EndsDiffer
      <4> QED
        BY <1>1, <1>7, <1>9, <2>1, <4>1 DEF Excused
    <3> QED
      BY <3>1, <3>2
  <2>2. ASSUME NEW o \in Objects, holds'[t] = holds[s] \cup {p(t)}, pc'[t] = "start",
               p(o) \in holds'[t], t # o
        PROVE  Excused(t, o, obj'[o], pc'[t], fd'[t])
    <3>1. CASE o = s
      BY <1>3, <2>2, <3>1 DEF Excused
    <3>2. CASE o # s
      <4>1. p(o) \in holds[s]
        BY <2>2, EndsDiffer
      <4> QED
        BY <1>1, <1>7, <1>9, <3>2, <4>1 DEF Excused
    <3> QED
      BY <3>1, <3>2
  <2>3. \A q \in Objects :
           \/ /\ holds'[q] \subseteq holds[q] /\ pc'[q] = pc[q]
              /\ q \in Sandboxes => fd'[q] = fd[q]
           \/ \A o \in Objects :
                 p(o) \in holds'[q] /\ q # o => Excused(q, o, obj'[o], pc'[q], fd'[q])
    <3> TAKE q \in Objects
    <3>1. CASE q = s
      BY <2>1, <3>1
    <3>2. CASE q = t
      BY <1>2, <1>5, <2>2, <3>2
    <3>3. CASE q # s /\ q # t
      BY <1>2, <1>4, <1>5, <3>3
    <3> QED
      BY <3>1, <3>2, <3>3
  <2> QED
    BY <1>1, <1>9, <2>3, OwnEndsKept DEF OwnEndsInv
<1>10. Addressed'
  BY <1>1, <1>2, AddressedKept DEF OwnEndsInv, MayReceive, Receives
<1>11. LocalsFree'
  BY <1>2, <1>4, <1>5, Distinct DEF OwnEndsInv, LocalsFree
<1>12. DieWithHost'
  BY <1>1, <1>6 DEF OwnEndsInv, DieWithHost
<1> QED
  BY <1>8, <1>9, <1>10, <1>11, <1>12 DEF OwnEndsInv

\* A process goes on: it loses its excuse only with the descriptor.
LEMMA ContinuesEnds ==
    ASSUME TypeOK, OwnEndsInv, NEW o \in Objects,
           NEW point \in Points \ {"close"}, Continues(o, point),
           \A u \in Objects : p(u) \in holds'[o] /\ u # o /\ HostRuns => obj[u] = "failed",
           \A s \in Sandboxes \ {o} : fd'[s] = fd[s],
           o \in Sandboxes => fd'[o] = {}
    PROVE  OwnEndsInv'
<1>0. /\ o \in Procs /\ o # Host /\ Host \in Procs /\ \A q \in Objects : q \in Procs
  BY Distinct
<1>1. /\ pc'[o] = point /\ \A q \in Procs \ {o} : pc'[q] = pc[q] /\ holds'[q] = holds[q]
      /\ obj' = obj /\ MayReceive(o)
  BY <1>0 DEF Continues, Goto, TypeOK
<1>2. HostRuns' <=> HostRuns
  BY <1>0, <1>1 DEF HostRuns
<1>3. OwnEnds'
  <2>1. CASE ~HostRuns
    BY <1>2, <2>1 DEF OwnEnds
  <2>2. CASE HostRuns
    <3>1. \A u \in Objects :
             p(u) \in holds'[o] /\ o # u => Excused(o, u, obj'[u], pc'[o], fd'[o])
      BY <1>1, <2>2 DEF Excused
    <3>2. \A q \in Objects \ {o} :
             /\ holds'[q] \subseteq holds[q] /\ pc'[q] = pc[q]
             /\ q \in Sandboxes => fd'[q] = fd[q]
      BY <1>0, <1>1
    <3> QED
      BY <1>1, <2>2, <3>1, <3>2, OwnEndsKept DEF OwnEndsInv
  <2> QED
    BY <2>1, <2>2
<1>4. Addressed'
  BY <1>1, AddressedKept DEF OwnEndsInv
<1>5. LocalsFree'
  BY <1>0, <1>1, Distinct DEF OwnEndsInv, LocalsFree
<1>6. DieWithHost'
  BY <1>1, <1>2 DEF OwnEndsInv, DieWithHost
<1> QED
  BY <1>3, <1>4, <1>5, <1>6 DEF OwnEndsInv

\* No step gives a process a peer end of another without excuse.
LEMMA StepEnds ==
    ASSUME TypeOK, OwnEndsInv, HostLedger, NotForked, ~Parallel, NEW o \in Objects, Step(o)
    PROVE  OwnEndsInv'
<1>0. /\ o \in Procs /\ (o \in Sandboxes => o \notin Threads)
  BY Distinct
<1>1. CASE o \in Sandboxes /\ (JailLockdown(o) \/ JailHello(o))
  <2>1. PICK point \in {"hello", "loop"} : Continues(o, point)
    BY <1>1, ContinueSteps
  <2>2. fd' = fd /\ holds' = holds /\ fd[o] = {}
    BY <1>1 DEF JailLockdown, JailHello, OwnEndsInv, LocalsFree
  <2>3. \A u \in Objects : p(u) \in holds'[o] /\ u # o /\ HostRuns => obj[u] = "failed"
    BY <1>0, <1>1, <2>2 DEF OwnEndsInv, OwnEnds, Excused
  <2> QED
    BY <2>1, <2>2, <2>3, ContinuesEnds DEF Points
<1>2. CASE o \in Sandboxes /\ JailClose(o)
  <2>1. Continues(o, "loop")
    BY <1>2, ContinueSteps
  <2>2. /\ holds'[o] = holds[o] \ {p(t) : t \in fd[o]}
        /\ fd'[o] = {} /\ \A s \in Sandboxes \ {o} : fd'[s] = fd[s]
    BY <1>0, <1>2 DEF JailClose, TypeOK
  <2>3. ASSUME NEW u \in Objects, p(u) \in holds'[o], u # o, HostRuns
        PROVE  obj[u] = "failed"
    <3>1. p(u) \in holds[o] /\ u \notin fd[o]
      BY <2>2, <2>3
    <3> QED
      BY <1>0, <1>2, <2>3, <3>1 DEF OwnEndsInv, OwnEnds, Excused
  <2> QED
    BY <2>1, <2>2, <2>3, ContinuesEnds DEF Points
<1>3. CASE o \in Threads /\ SubjailLockdown(o)
  <2>1. Continues(o, "init")
    BY <1>3, ContinueSteps
  <2>2. holds'[o] = holds[o] \ {p(Home[o])} /\ fd' = fd
    BY <1>0, <1>3 DEF SubjailLockdown, TypeOK
  <2>3. ASSUME NEW u \in Objects, p(u) \in holds'[o], u # o, HostRuns
        PROVE  obj[u] = "failed"
    <3>1. p(u) \in holds[o] /\ u # Home[o]
      BY <2>2, <2>3
    <3> QED
      BY <1>0, <1>3, <2>3, <3>1 DEF OwnEndsInv, OwnEnds, Excused
  <2> QED
    BY <1>0, <1>3, <2>1, <2>2, <2>3, ContinuesEnds DEF Points
<1>4. CASE o \in Threads /\ (SubjailHello(o) \/ (Continues(o, "hello") /\ SubjailInit(o)))
  <2>1. PICK point \in {"hello", "loop"} : Continues(o, point)
    BY <1>4, ContinueSteps
  <2>2. pc[o] # "start" /\ holds'[o] \subseteq holds[o]
    BY <1>4, <2>1 DEF SubjailHello, SubjailInit, Continues
  <2>3. fd' = fd
    <3>1. pc'[o] # "dead"
      BY <1>0, <2>1 DEF Continues, Goto, TypeOK
    <3> QED
      BY <1>0, <1>4, <3>1 DEF SubjailHello, SubjailInit, Die, TypeOK
  <2>4. \A u \in Objects : p(u) \in holds'[o] /\ u # o /\ HostRuns => obj[u] = "failed"
    BY <1>0, <1>4, <2>2 DEF OwnEndsInv, OwnEnds, Excused
  <2> QED
    BY <1>0, <1>4, <2>1, <2>3, <2>4, ContinuesEnds DEF Points
<1> QED
  BY <1>1, <1>2, <1>3, <1>4, HostDoesEnds, DeathEnds, ForkEnds, SpawnEnds DEF Step

\* As long as the application runs one constructor or destructor at a time, the peer end of
\* a constructed sandbox or thread is held by its own process and, for a moment, by the jail
\* that hands it over or the subjail that inherits it: when the process dies the host is
\* told.  Any number of sandboxes and threads, failures, crashes and kills.
THEOREM DeathsAreSeen ==
    ASSUME ~Parallel
    PROVE  Spec => []DeathIsSeen
<1>1. Init => OwnEndsInv
  <2> SUFFICES ASSUME Init PROVE OwnEndsInv
    OBVIOUS
  <2>1. DieWithHost /\ LocalsFree
    BY Distinct DEF Init, DieWithHost, LocalsFree
  <2>2. Addressed
    BY DEF Init, Addressed
  <2>3. OwnEnds
    BY Distinct DEF Init, OwnEnds
  <2> QED
    BY <2>1, <2>2, <2>3 DEF OwnEndsInv
<1>2. TypeOK /\ HostLedger /\ NotForked /\ OwnEndsInv /\ [Next]_vars => OwnEndsInv'
  <2> SUFFICES ASSUME TypeOK, HostLedger, NotForked, OwnEndsInv, [Next]_vars
               PROVE  OwnEndsInv'
    OBVIOUS
  <2>1. CASE UNCHANGED vars
    BY <2>1 DEF vars, OwnEndsInv, DieWithHost, LocalsFree, Addressed, OwnEnds, HostRuns
  <2>2. CASE HostEnds
    <3>1. /\ pc'[Host] = "dead" /\ fd' = fd /\ toProc' = toProc
          /\ \A q \in Objects : pc'[q] = pc[q] /\ obj'[q] = "none"
      BY <2>2, Distinct DEF HostEnds, Die, TypeOK
    <3> QED
      BY <3>1, Distinct
      DEF OwnEndsInv, DieWithHost, LocalsFree, Addressed, OwnEnds, HostRuns
  <2> QED
    BY <2>1, <2>2, Steps, StepEnds
<1>3. TypeOK /\ HostLedger /\ OwnEndsInv => DeathIsSeen
  <2> SUFFICES ASSUME TypeOK, HostLedger, OwnEndsInv, NEW o \in Objects,
                      obj[o] \in {"live", "pidfd", "quit"}, NEW q \in Holders(p(o)) \ {o}
               PROVE  \/ q \in Sandboxes /\ o \in fd[q]
                      \/ q \in Threads /\ pc[q] = "start" /\ Home[q] = o
    BY DEF DeathIsSeen
  <2>1. HostRuns
    BY DEF OwnEndsInv, DieWithHost
  <2>2. q # Host
    BY <2>1, LedgerEntries DEF Holders, Entry
  <2>3. q \in Objects /\ p(o) \in holds[q]
    BY <2>2 DEF Holders, Procs
  <2> QED
    BY <2>1, <2>3 DEF OwnEndsInv, OwnEnds, Excused
<1> QED
  BY <1>1, <1>2, <1>3, LifecycleTyped, LedgerHolds, FiltersAndForks, PTL DEF Spec

=============================================================================
