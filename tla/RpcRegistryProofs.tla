------------------------- MODULE RpcRegistryProofs -------------------------
(***************************************************************************)
(* Proofs about RpcRegistry for every number of sessions, functions and    *)
(* calls: the reference count is exact, and, for an application that does  *)
(* not register functions while a gh_thread is built or destroyed, frames  *)
(* stay valid and the mutexes exclude.                                     *)
(***************************************************************************)
EXTENDS RpcRegistry, FiniteSetTheorems, TLAPS

\* The sessions that are open.
Opened(stages) == {s \in Sessions : stages[s] = "open"}

\* The sessions that are open form a finite set, so they can be counted.
LEMMA OpenedFinite ==
  ASSUME NEW stages
  PROVE  IsFiniteSet(Opened(stages)) /\ Cardinality(Opened(stages)) \in Nat
BY SessionsAssumption, FS_Subset, FS_CardinalityType DEF Opened

\* gh_thread_ctor's increment counts one session more.
LEMMA OpenedMore ==
  ASSUME NEW old, NEW new, NEW s \in Sessions,
         old[s] # "open", new[s] = "open",
         \A t \in Sessions : t # s => new[t] = old[t]
  PROVE  Cardinality(Opened(new)) = Cardinality(Opened(old)) + 1
<1>1. Opened(new) = Opened(old) \cup {s} /\ s \notin Opened(old)
  BY DEF Opened
<1>2. QED BY <1>1, OpenedFinite, FS_AddElement

\* gh_thread_dtor's decrement counts one session less, and there was one.
LEMMA OpenedLess ==
  ASSUME NEW old, NEW new, NEW s \in Sessions,
         old[s] = "open", new[s] # "open",
         \A t \in Sessions : t # s => new[t] = old[t]
  PROVE  /\ Cardinality(Opened(new)) = Cardinality(Opened(old)) - 1
         /\ Cardinality(Opened(new)) \in Nat
<1>1. Opened(new) = Opened(old) \ {s} /\ s \in Opened(old)
  BY DEF Opened
<1>2. QED BY <1>1, OpenedFinite, FS_RemoveElement

\* Any other step of a session leaves the set of open ones alone.
LEMMA OpenedSame ==
  ASSUME NEW old, NEW new, NEW s \in Sessions,
         old[s] # "open", new[s] # "open",
         \A t \in Sessions : t # s => new[t] = old[t]
  PROVE  Cardinality(Opened(new)) = Cardinality(Opened(old))
<1>1. Opened(new) = Opened(old)
  BY DEF Opened
<1>2. QED BY <1>1

\* With no session open the count is zero, and only then.
LEMMA OpenedNone ==
  ASSUME NEW stages, Cardinality(Opened(stages)) = 0
  PROVE  \A s \in Sessions : stages[s] # "open"
<1>1. Opened(stages) = {}
  BY OpenedFinite, FS_EmptySet
<1>2. QED BY <1>1 DEF Opened

\* Locking and unlocking a function's mutex keeps the table a table.
LEMMA OwnerTyped ==
  ASSUME NEW t \in Seq(Functions), NEW i, NEW o \in Owners
  PROVE  [t EXCEPT ![i].owner = o] \in Seq(Functions)
<1>1. CASE i \in 1 .. Len(t)
  <2>1. t[i] \in Functions
    BY <1>1
  <2>2. [t[i] EXCEPT !.owner = o] \in Functions
    BY <2>1 DEF Functions
  <2>3. QED BY <1>1, <2>2
<1>2. CASE i \notin 1 .. Len(t)
  <2>1. [t EXCEPT ![i].owner = o] = t
    BY <1>2
  <2>2. QED BY <2>1
<1>3. QED BY <1>1, <1>2

\* The types and the count are inductive together.
Counted == TypeOK /\ RefsExact

-----------------------------------------------------------------------------
\* The registry is well typed and thread_refcount counts the open sessions,
\* initially ...
LEMMA CountedInit == Init => Counted
<1>1. ASSUME Init PROVE TypeOK
  BY <1>1, CapAssumption
  DEF Init, TypeOK, Functions, Frames, NoFrame, Owners, Safeties, Stages, RegStages, RegResults
<1>2. ASSUME Init PROVE RefsExact
  <2>1. {s \in Sessions : sess[s] = "open"} = {}
    BY <1>2 DEF Init
  <2>2. QED BY <1>2, <2>1, FS_EmptySet DEF Init, RefsExact
<1>3. QED BY <1>1, <1>2 DEF Counted

\* ... and after every step, whatever register overlaps.
LEMMA CountedStep == Counted /\ [Next]_vars => Counted'
<1> SUFFICES ASSUME Counted, [Next]_vars PROVE Counted'
  OBVIOUS
<1> USE DEF Counted
<1>0. ASSUME sess' = sess, refs' = refs PROVE RefsExact'
  BY <1>0 DEF RefsExact
<1>1. ASSUME NEW name \in Names, NEW safety \in Safeties, RegisterCheck(name, safety)
      PROVE  Counted'
  <2>1. TypeOK'
    BY <1>1 DEF RegisterCheck, Registered, TypeOK, RegStages, RegResults, Safeties
  <2>2. QED BY <1>0, <1>1, <2>1 DEF RegisterCheck
<1>2. CASE RegisterAppend
  <2>1. reg.at # "idle" /\ reg.name \in Names
    BY <1>2 DEF RegisterAppend, TypeOK
  <2>2. [name |-> reg.name, safety |-> reg.safety, owner |-> NoOne] \in Functions
    BY <2>1 DEF TypeOK, Functions, Owners
  <2>3. table' \in Seq(Functions) /\ cap' \in Nat
    <3>1. cap \in Nat /\ 2 * cap \in Nat /\ table \in Seq(Functions)
      BY DEF TypeOK
    <3>2. Append(table, [name |-> reg.name, safety |-> reg.safety, owner |-> NoOne])
            \in Seq(Functions)
      BY <2>2, <3>1
    <3>3. QED BY <1>2, <3>1, <3>2 DEF RegisterAppend
  <2>4. /\ reg' \in [at : RegStages, name : Names \cup {"-"}, safety : Safeties,
                     res : RegResults]
        /\ reg'.at # "idle" => reg'.name \in Names
    BY <1>2, <2>1 DEF RegisterAppend, Registered, TypeOK, RegStages, RegResults, Safeties
  <2>5. TypeOK'
    BY <1>2, <2>3, <2>4 DEF RegisterAppend, TypeOK
  <2>6. QED BY <1>0, <1>2, <2>5 DEF RegisterAppend
<1>3. CASE RegisterInit
  <2>1. table' \in Seq(Functions)
    BY <1>3, OwnerTyped DEF RegisterInit, TypeOK, Owners
  <2>2. TypeOK'
    BY <1>3, <2>1 DEF RegisterInit, Registered, TypeOK, RegStages, RegResults, Safeties
  <2>3. QED BY <1>0, <1>3, <2>2 DEF RegisterInit
<1>4. ASSUME NEW s \in Sessions, OpenBegin(s) PROVE Counted'
  <2>1. TypeOK' BY <1>4 DEF OpenBegin, TypeOK, Stages
  <2>2. sess[s] # "open" /\ sess'[s] # "open" /\ \A t \in Sessions : t # s => sess'[t] = sess[t]
    BY <1>4 DEF OpenBegin, TypeOK
  <2>3. RefsExact' BY <1>4, <2>2, OpenedSame DEF OpenBegin, RefsExact, Opened
  <2>4. QED BY <2>1, <2>3
<1>5. ASSUME NEW s \in Sessions, OpenDone(s) PROVE Counted'
  <2>1. TypeOK' BY <1>5 DEF OpenDone, TypeOK, Stages
  <2>2. sess[s] # "open" /\ sess'[s] = "open" /\ \A t \in Sessions : t # s => sess'[t] = sess[t]
    BY <1>5 DEF OpenDone, TypeOK
  <2>3. Cardinality(Opened(sess')) = Cardinality(Opened(sess)) + 1
    BY <2>2, OpenedMore
  <2>5. RefsExact' BY <1>5, <2>3 DEF OpenDone, RefsExact, Opened
  <2>4. QED BY <2>1, <2>5
<1>6. ASSUME NEW s \in Sessions, OpenFail(s) PROVE Counted'
  <2>1. TypeOK' BY <1>6 DEF OpenFail, TypeOK, Stages
  <2>2. sess[s] # "open" /\ sess'[s] # "open" /\ \A t \in Sessions : t # s => sess'[t] = sess[t]
    BY <1>6 DEF OpenFail, TypeOK
  <2>3. RefsExact' BY <1>6, <2>2, OpenedSame DEF OpenFail, RefsExact, Opened
  <2>4. QED BY <2>1, <2>3
<1>7. ASSUME NEW s \in Sessions, QuitBegin(s) PROVE Counted'
  <2>1. sess[s] = "open" /\ sess'[s] # "open" /\ \A t \in Sessions : t # s => sess'[t] = sess[t]
    BY <1>7 DEF QuitBegin, TypeOK
  <2>2. RefsExact' /\ refs' \in Nat
    <3>1. /\ Cardinality(Opened(sess')) = Cardinality(Opened(sess)) - 1
          /\ Cardinality(Opened(sess')) \in Nat
      BY <2>1, OpenedLess
    <3>2. QED BY <1>7, <3>1 DEF QuitBegin, RefsExact, Opened
  <2>3. TypeOK' BY <1>7, <2>2 DEF QuitBegin, TypeOK, Stages
  <2>4. QED BY <2>2, <2>3
<1>8. ASSUME NEW s \in Sessions, QuitEnd(s) PROVE Counted'
  <2>1. TypeOK' BY <1>8 DEF QuitEnd, TypeOK, Stages
  <2>2. sess[s] # "open" /\ sess'[s] # "open" /\ \A t \in Sessions : t # s => sess'[t] = sess[t]
    BY <1>8 DEF QuitEnd, TypeOK
  <2>3. RefsExact' BY <1>8, <2>2, OpenedSame DEF QuitEnd, RefsExact, Opened
  <2>4. QED BY <2>1, <2>3
<1>9. ASSUME NEW s \in Sessions, NEW name \in Names, Dispatch(s, name) PROVE Counted'
  <2>1. First(name) \subseteq Nat
    BY DEF First, Matches
  <2>2. TypeOK' BY <1>9, <2>1 DEF Dispatch, TypeOK, Frames
  <2>3. QED BY <1>0, <1>9, <2>2 DEF Dispatch
<1>10. ASSUME NEW s \in Sessions, NEW name \in Names, DispatchMissing(s, name)
       PROVE  Counted'
  <2>1. TypeOK' BY <1>10 DEF DispatchMissing, TypeOK
  <2>2. QED BY <1>0, <1>10, <2>1 DEF DispatchMissing
<1>11. ASSUME NEW s \in Sessions, Lock(s) PROVE Counted'
  <2>1. table' \in Seq(Functions)
    <3>1. s \in Owners /\ table \in Seq(Functions)
      BY DEF TypeOK, Owners
    <3>2. [table EXCEPT ![frame[s].fn].owner = s] \in Seq(Functions)
      BY <3>1, OwnerTyped
    <3>3. CASE Target(s).safety = "LOCAL"
      BY <1>11, <3>2, <3>3 DEF Lock
    <3>4. CASE Target(s).safety # "LOCAL"
      BY <1>11, <3>1, <3>4 DEF Lock
    <3>5. QED BY <3>3, <3>4
  <2>2. global' \in Owners
    BY <1>11 DEF Lock, TypeOK, Owners
  <2>3. TypeOK' BY <1>11, <2>1, <2>2 DEF Lock, TypeOK
  <2>4. QED BY <1>0, <1>11, <2>3 DEF Lock
<1>12. ASSUME NEW s \in Sessions, Finish(s) PROVE Counted'
  <2>1. table' \in Seq(Functions)
    BY <1>12, OwnerTyped DEF Finish, TypeOK, Owners
  <2>2. global' \in Owners
    BY <1>12 DEF Finish, TypeOK, Owners
  <2>3. TypeOK' BY <1>12, <2>1, <2>2 DEF Finish, TypeOK, Frames, NoFrame
  <2>4. QED BY <1>0, <1>12, <2>3 DEF Finish
<1>13. CASE UNCHANGED vars
  <2>1. TypeOK' BY <1>13 DEF vars, TypeOK
  <2>2. QED BY <1>0, <1>13, <2>1 DEF vars
<1>14. QED
  BY <1>1, <1>2, <1>3, <1>4, <1>5, <1>6, <1>7, <1>8, <1>9, <1>10, <1>11, <1>12, <1>13
  DEF Next, Register, Session, Progress

\* Every state of a registry is well typed, and gh_rpc_isinuse tells exactly
\* whether some session is open: constructed and not yet being destroyed.
THEOREM RegistryTyped == Spec => [](TypeOK /\ RefsExact)
<1>1. Counted => TypeOK /\ RefsExact BY DEF Counted
<1>2. QED BY CountedInit, CountedStep, <1>1, PTL DEF Spec

-----------------------------------------------------------------------------
(***************************************************************************)
(* The disciplined application: Overlap = {}.                              *)
(***************************************************************************)
Disciplined == Quiet /\ CallsInSession /\ FramesStayValid /\ LocksMatch

\* Setting the owner of one entry changes nothing else of the table.
LEMMA OwnerSet ==
  ASSUME NEW t \in Seq(Functions), NEW i \in 1 .. Len(t), NEW o, NEW r,
         r = [t EXCEPT ![i].owner = o]
  PROVE  /\ Len(r) = Len(t)
         /\ \A j \in 1 .. Len(t) :
              /\ r[j].name = t[j].name
              /\ r[j].safety = t[j].safety
              /\ j # i => r[j].owner = t[j].owner
         /\ r[i].owner = o
<1>1. t[i] \in Functions /\ \A j \in 1 .. Len(t) : t[j] \in Functions
  OBVIOUS
<1>2. /\ [t[i] EXCEPT !.owner = o].name = t[i].name
      /\ [t[i] EXCEPT !.owner = o].safety = t[i].safety
      /\ [t[i] EXCEPT !.owner = o].owner = o
  BY <1>1 DEF Functions
<1>3. /\ Len(r) = Len(t)
      /\ r[i] = [t[i] EXCEPT !.owner = o]
      /\ \A j \in 1 .. Len(t) : j # i => r[j] = t[j]
  OBVIOUS
<1>4. QED BY <1>2, <1>3

\* Lookups depend on the names in the table only.
LEMMA SameFirst ==
  ASSUME Len(table') = Len(table),
         \A i \in 1 .. Len(table) : table'[i].name = table[i].name,
         NEW name
  PROVE  First(name)' = First(name)
<1>1. Matches(name)' = Matches(name)
  BY DEF Matches
<1>2. QED BY <1>1 DEF First

\* Nothing is in progress in a new registry.
LEMMA DisciplinedInit == Init => Disciplined
BY DEF Init, Disciplined, Quiet, CallsInSession, FramesStayValid, LocksMatch

\* gh_rpc_register finds no open session, so the array is quiet until it returns.
LEMMA RegisterKeeps ==
  ASSUME Overlap = {}, Counted, Disciplined, Register
  PROVE  Disciplined'
<1> USE DEF Disciplined
<1>1. ASSUME NEW name \in Names, NEW safety \in Safeties, RegisterCheck(name, safety)
      PROVE  Disciplined'
  <2>1. Quiet'
    <3>1. CASE refs > 0
      BY <1>1, <3>1 DEF RegisterCheck, Registered, Quiet
    <3>2. CASE ~(refs > 0)
      <4>1. Cardinality(Opened(sess)) = 0
        BY <3>2 DEF Counted, TypeOK, RefsExact, Opened
      <4>2. \A s \in Sessions : sess[s] # "open"
        BY <4>1, OpenedNone
      <4>3. \A s \in Sessions : sess[s] \in {"none", "closed"}
        BY <1>1, <4>2 DEF RegisterCheck, MayRegister, Counted, TypeOK, Stages
      <4>4. QED BY <1>1, <4>3 DEF RegisterCheck, Quiet
    <3>3. QED BY <3>1, <3>2
  <2>2. CallsInSession'
    BY <1>1 DEF RegisterCheck, CallsInSession
  <2>3. FramesStayValid'
    BY <1>1 DEF RegisterCheck, FramesStayValid, First, Matches
  <2>4. LocksMatch'
    BY <1>1 DEF RegisterCheck, LocksMatch, Target
  <2>5. QED BY <2>1, <2>2, <2>3, <2>4
<1>2. CASE RegisterAppend \/ RegisterInit
  <2>1. reg.at # "idle" /\ sess' = sess /\ call' = call
    BY <1>2 DEF RegisterAppend, RegisterInit
  <2>2. \A s \in Sessions : sess[s] \in {"none", "closed"}
    BY <2>1 DEF Quiet
  <2>3. \A s \in Sessions : call[s] = "none"
    BY <2>2 DEF CallsInSession
  <2>4. QED
    BY <2>1, <2>2, <2>3 DEF Quiet, CallsInSession, FramesStayValid, LocksMatch
<1>3. QED BY <1>1, <1>2 DEF Register

\* No session opens or quits while a registration is under way.
LEMMA SessionKeeps ==
  ASSUME Overlap = {}, Counted, Disciplined, NEW s \in Sessions,
         OpenBegin(s) \/ OpenDone(s) \/ OpenFail(s) \/ QuitBegin(s) \/ QuitEnd(s)
  PROVE  Disciplined'
<1> USE DEF Disciplined
<1>1. reg.at = "idle" /\ reg' = reg
  BY DEF OpenBegin, OpenDone, OpenFail, QuitBegin, QuitEnd, MayEnter, Quiet
<1>2. UNCHANGED <<table, cap, global, call, frame>>
  BY DEF OpenBegin, OpenDone, OpenFail, QuitBegin, QuitEnd
<1>3. call[s] = "none" \/ sess'[s] = "open"
  BY DEF OpenBegin, OpenDone, OpenFail, QuitBegin, QuitEnd, CallsInSession, Counted, TypeOK
<1>4. \A t \in Sessions : t # s => sess'[t] = sess[t]
  BY DEF OpenBegin, OpenDone, OpenFail, QuitBegin, QuitEnd, Counted, TypeOK
<1>5. Quiet' BY <1>1 DEF Quiet
<1>6. CallsInSession' BY <1>2, <1>3, <1>4 DEF CallsInSession
<1>7. FramesStayValid' BY <1>2 DEF FramesStayValid, First, Matches
<1>8. LocksMatch' BY <1>2 DEF LocksMatch, Target
<1>9. QED BY <1>5, <1>6, <1>7, <1>8

\* A lookup points into the current array, at the first entry of the name.
LEMMA DispatchKeeps ==
  ASSUME Counted, Disciplined, NEW s \in Sessions, NEW name \in Names,
         Dispatch(s, name) \/ DispatchMissing(s, name)
  PROVE  Disciplined'
<1> USE DEF Disciplined
<1>1. CASE DispatchMissing(s, name)
  BY <1>1 DEF DispatchMissing, Quiet, CallsInSession, FramesStayValid, LocksMatch, First,
              Matches, Target
<1>2. CASE Dispatch(s, name)
  <2>1. PICK fn \in First(name) :
          frame' = [frame EXCEPT ![s] = [name |-> name, fn |-> fn, cap |-> cap]]
    BY <1>2 DEF Dispatch
  <2>2. /\ UNCHANGED <<table, cap, global, reg, sess>>
        /\ call' = [call EXCEPT ![s] = "lock"]
        /\ sess[s] \in {"open", "quit"}
    BY <1>2 DEF Dispatch, Dispatching
  <2>3. frame'[s] = [name |-> name, fn |-> fn, cap |-> cap]
        /\ \A t \in Sessions : t # s => frame'[t] = frame[t] /\ call'[t] = call[t]
    BY <2>1, <2>2 DEF Counted, TypeOK
  <2>4. call'[s] = "lock"
    BY <2>2 DEF Counted, TypeOK
  <2>5. Quiet' BY <2>2 DEF Quiet
  <2>6. CallsInSession' BY <2>2, <2>3 DEF CallsInSession
  <2>7. FramesStayValid' BY <2>2, <2>3 DEF FramesStayValid, First, Matches
  <2>8. LocksMatch' BY <2>2, <2>3, <2>4 DEF LocksMatch, Target
  <2>9. QED BY <2>5, <2>6, <2>7, <2>8
<1>3. QED BY <1>1, <1>2

\* A mutex is granted only when it is free, to the session that then runs.
LEMMA LockKeeps ==
  ASSUME Counted, Disciplined, NEW s \in Sessions, Lock(s)
  PROVE  Disciplined'
<1> USE DEF Disciplined
<1>1. /\ UNCHANGED <<cap, reg, sess, frame>>
      /\ call'[s] = "run" /\ call[s] = "lock"
      /\ \A t \in Sessions : t # s => call'[t] = call[t]
  BY DEF Lock, Counted, TypeOK
<1>2. table \in Seq(Functions) /\ NoOne \notin Sessions
  BY SessionsAssumption DEF Counted, TypeOK
<1>3. \A t \in Sessions : call[t] # "none" => frame[t].fn \in 1 .. Len(table)
  BY DEF FramesStayValid, First, Matches
<1>4. Quiet' BY <1>1 DEF Quiet
<1>5. CallsInSession' BY <1>1 DEF CallsInSession
<1>6. CASE Target(s).safety = "LOCAL"
  <2>1. /\ Target(s).owner = NoOne
        /\ table' = [table EXCEPT ![frame[s].fn].owner = s]
        /\ global' = global
    BY <1>6 DEF Lock
  <2>2. /\ Len(table') = Len(table)
        /\ \A j \in 1 .. Len(table) :
              /\ table'[j].name = table[j].name
              /\ table'[j].safety = table[j].safety
              /\ j # frame[s].fn => table'[j].owner = table[j].owner
        /\ table'[frame[s].fn].owner = s
    BY <1>1, <1>2, <1>3, <2>1, OwnerSet
  <2>3. FramesStayValid'
    BY <1>1, <2>2, SameFirst DEF FramesStayValid
  <2>4. LocksMatch'
    <3> SUFFICES ASSUME NEW t \in Sessions, call'[t] = "run"
                 PROVE  /\ Target(t)'.safety = "LOCAL" => Target(t)'.owner = t
                        /\ Target(t)'.safety = "GLOBAL" => global' = t
      BY DEF LocksMatch
    <3>1. CASE t = s
      BY <1>1, <1>3, <1>6, <2>2, <3>1 DEF Target
    <3>2. CASE t # s
      <4>1. /\ Target(t).safety = "LOCAL" => Target(t).owner = t
            /\ Target(t).safety = "GLOBAL" => global = t
        BY <1>1, <3>2 DEF LocksMatch
      <4>2. frame[t].fn \in 1 .. Len(table) /\ frame'[t] = frame[t]
        BY <1>1, <1>3, <3>2
      <4>3. Target(t)'.safety = Target(t).safety
        BY <2>2, <4>2 DEF Target
      <4>4. CASE frame[t].fn = frame[s].fn
        BY <1>2, <1>6, <2>1, <4>1, <4>4 DEF Target
      <4>5. CASE frame[t].fn # frame[s].fn
        BY <2>1, <2>2, <4>1, <4>2, <4>3, <4>5 DEF Target
      <4>6. QED BY <4>4, <4>5
    <3>3. QED BY <3>1, <3>2
  <2>5. QED BY <1>4, <1>5, <2>3, <2>4
<1>7. CASE Target(s).safety # "LOCAL"
  <2>1. /\ table' = table
        /\ \/ Target(s).safety = "GLOBAL" /\ global = NoOne /\ global' = s
           \/ Target(s).safety = "SAFE" /\ global' = global
    BY <1>7 DEF Lock
  <2>2. FramesStayValid'
    BY <1>1, <2>1 DEF FramesStayValid, First, Matches
  <2>3. LocksMatch'
    BY <1>1, <1>2, <1>7, <2>1 DEF LocksMatch, Target
  <2>4. QED BY <1>4, <1>5, <2>2, <2>3
<1>8. QED BY <1>6, <1>7

\* An unlock releases no mutex but the session's own.
LEMMA FinishKeeps ==
  ASSUME Counted, Disciplined, NEW s \in Sessions, Finish(s)
  PROVE  Disciplined'
<1> USE DEF Disciplined
<1>1. /\ UNCHANGED <<cap, reg, sess>>
      /\ call'[s] = "none" /\ call[s] = "run"
      /\ \A t \in Sessions : t # s => call'[t] = call[t] /\ frame'[t] = frame[t]
  BY DEF Finish, Counted, TypeOK
<1>2. table \in Seq(Functions)
  BY DEF Counted, TypeOK
<1>3. \A t \in Sessions : call[t] # "none" => frame[t].fn \in 1 .. Len(table)
  BY DEF FramesStayValid, First, Matches
<1>4. Quiet' BY <1>1 DEF Quiet
<1>5. CallsInSession' BY <1>1 DEF CallsInSession
<1>6. CASE Target(s).safety = "LOCAL"
  <2>1. /\ table' = [table EXCEPT ![frame[s].fn].owner = NoOne]
        /\ global' = global
    BY <1>6 DEF Finish
  <2>2. /\ Len(table') = Len(table)
        /\ \A j \in 1 .. Len(table) :
              /\ table'[j].name = table[j].name
              /\ table'[j].safety = table[j].safety
              /\ j # frame[s].fn => table'[j].owner = table[j].owner
    BY <1>1, <1>2, <1>3, <2>1, OwnerSet
  <2>3. FramesStayValid'
    BY <1>1, <2>2, SameFirst DEF FramesStayValid
  <2>4. Target(s).owner = s
    BY <1>1, <1>6 DEF LocksMatch
  <2>5. LocksMatch'
    BY <1>1, <1>3, <1>6, <2>1, <2>2, <2>4 DEF LocksMatch, Target
  <2>6. QED BY <1>4, <1>5, <2>3, <2>5
<1>7. CASE Target(s).safety # "LOCAL"
  <2>1. /\ table' = table
        /\ global' = IF Target(s).safety = "GLOBAL" THEN NoOne ELSE global
    BY <1>7 DEF Finish
  <2>2. FramesStayValid'
    BY <1>1, <2>1 DEF FramesStayValid, First, Matches
  <2>3. Target(s).safety = "GLOBAL" => global = s
    BY <1>1 DEF LocksMatch
  <2>4. LocksMatch'
    BY <1>1, <2>1, <2>3 DEF LocksMatch, Target
  <2>5. QED BY <1>4, <1>5, <2>2, <2>4
<1>8. QED BY <1>6, <1>7

\* The mutexes and the frames are sound together: two sessions that ran one
\* function would both own its mutex.
LEMMA DisciplinedExcludes == Disciplined => MutexExclusion
BY DEF Disciplined, LocksMatch, MutexExclusion, Target

\* For any number of sessions: if no function is registered while a gh_thread
\* is built or destroyed, then the reference count alone keeps every frame's
\* function pointer valid, and gh_rpc_callframe excludes as the functions'
\* thread safety modes say.
THEOREM SharedCalls ==
  ASSUME Overlap = {}
  PROVE  Spec => [](MutexExclusion /\ FramesStayValid)
<1> DEFINE Inv == Counted /\ Disciplined
<1>1. Init => Inv
  BY CountedInit, DisciplinedInit
<1>2. Inv /\ [Next]_vars => Inv'
  <2> SUFFICES ASSUME Inv, [Next]_vars PROVE Inv'
    OBVIOUS
  <2>1. Counted'
    BY CountedStep
  <2>2. CASE Register
    BY <2>1, <2>2, RegisterKeeps
  <2>3. ASSUME NEW s \in Sessions, Session(s) PROVE Disciplined'
    BY <2>3, SessionKeeps, DispatchKeeps, LockKeeps, FinishKeeps DEF Session, Progress
  <2>4. CASE UNCHANGED vars
    <3>1. Quiet' /\ CallsInSession'
      BY <2>4 DEF vars, Disciplined, Quiet, CallsInSession
    <3>2. FramesStayValid'
      BY <2>4 DEF vars, Disciplined, FramesStayValid, First, Matches
    <3>3. LocksMatch'
      BY <2>4 DEF vars, Disciplined, LocksMatch, Target
    <3>4. QED BY <2>1, <3>1, <3>2, <3>3 DEF Disciplined
  <2>5. QED BY <2>1, <2>2, <2>3, <2>4 DEF Next
<1>3. Inv => MutexExclusion /\ FramesStayValid
  BY DisciplinedExcludes DEF Disciplined
<1>4. QED BY <1>1, <1>2, <1>3, PTL DEF Spec
=============================================================================
