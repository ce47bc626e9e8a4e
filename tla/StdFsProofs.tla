---------------------------- MODULE StdFsProofs ----------------------------
(***************************************************************************)
(* Proofs about the file functions of StdFs: which descriptors a call      *)
(* closes and loses, and that it does what it asked for, for any number of *)
(* threads, calls, directories and descriptors and whatever other          *)
(* processes do to the file system meanwhile.                              *)
(***************************************************************************)
EXTENDS StdFs, FiniteSetTheorems, WellFoundedInduction, TLAPS

(***************************************************************************)
(* The state of a call                                                     *)
(***************************************************************************)

\* The sets that the fields of descriptors and calls are in.
Kinds    == {"free", "dir", "node", "shell", "pty", "app"}
Ops      == {"none", "open", "opentemp", "remove", "rename", "fsrequest", "execute", "popen",
             "refused"}
Points   == {"none", "idle", "tmp", "look", "trailing", "toolarge", "gate", "trailingTo", "gateTo",
             "act", "close", "shell", "gateexec", "run", "rejected", "respond"}
Results  == {"none", "OK", "ERROR"}
ObjNames == Names \cup {NoName}
Modes    == {"READ", "WRITE", "CREATEFILE", "MOVE", "UNLINK", "REQUEST",
             "TRUNCATE"}
Where    == [dir : Dirs \cup {Nowhere}, name : ObjNames]
Entries  == [dir : Dirs \cup {Nowhere}, name : ObjNames, live : BOOLEAN]
Paths    == [loc : Locs \cup {""}, name : ObjNames]
Pathfds  == [fd : Fds, name : ObjNames]
Gates    == [path : Paths, true : Paths, id : Dirs \cup Nodes \cup {Nowhere}, name : ObjNames,
             mode : SUBSET Modes]
Calls    == [op : Ops, pc : Points, loc : Locs \cup {""}, name : ObjNames,
             toLoc : Locs \cup {""}, toName : ObjNames, flags : Flags,
             a : Pathfds, b : Pathfds, close : SUBSET Fds, gates : SUBSET Gates,
             access : SUBSET Modes, found : Where, ret : Fds \cup {NoFd}, result : Results,
             robbed : BOOLEAN]
Descriptors ==
    [what : Kinds, id : Dirs \cup Nodes \cup {Nowhere},
     owner : Threads \cup {"app", "nobody", "none"},
     lostBy : [op : Ops, pc : Points, result : Results]]

\* The ways of LostKnown.
Losing(by) ==
    \/ by.op \in {"opentemp", "execute", "popen"}
    \/ by.pc \in {"toolarge", "respond"}
    \/ by.op = "rename" /\ by.pc = "trailingTo"
    \/ by.op = "remove" /\ by.pc = "act" /\ by.result = "ERROR"
    \/ by.op = "open" /\ by.pc = "close" /\ by.result = "ERROR"

\* A descriptor refers to what it says, has an owner unless it is free, and was lost in one
\* of the ways that are known.
DescriptorOK(d) ==
    /\ d.what = "dir" => d.id \in Dirs
    /\ d.what = "node" => d.id \in Nodes
    /\ d.owner = "none" <=> d = Free
    /\ d.owner = "nobody" => Losing(d.lostBy)

TableOK(tb) == tb \in [Fds -> Descriptors] /\ \A fd \in Fds : DescriptorOK(tb[fd])

\* Nodes have different names.
PlaceOK(pl) ==
    /\ pl \in [Nodes -> Entries]
    /\ \A n \in Nodes : pl[n] = NoPlace \/ (pl[n].dir \in Dirs /\ pl[n].name \in Names)
    /\ \A n, m \in Nodes : pl[n] = pl[m] /\ pl[n].live => n = m

\* A call for which descriptor 0 may be another one than it was, or never was its own.
Astray(c) == c.robbed \/ (c.op = "remove" /\ c.pc = "toolarge")

\* A call holds what it will close and what it will return, descriptor 0 of a call astray
\* excepted, and nothing else unless it is one of those that lose a descriptor.
Holding(t, c, tb) ==
    /\ \A fd \in c.close : tb[fd].owner = t \/ (fd = 0 /\ Astray(c))
    /\ c.ret # NoFd => \/ tb[c.ret].owner = t /\ c.ret \notin c.close
                       \/ c.ret = 0 /\ c.robbed
    /\ \A fd \in Fds : tb[fd].owner = t =>
          \/ fd \in c.close \cup {c.ret}
          \/ /\ c.pc \notin {"idle", "respond"}
             /\ c.op \in {"opentemp", "execute", "popen"} \/ c.pc = "toolarge"

\* Where the operations are, and what a call has before it opens or does anything.
Progress(c) ==
    /\ c.pc \notin {"close", "respond"} => c.ret = NoFd /\ c.access = {}
    /\ c.pc \in {"idle", "tmp", "look", "trailing"} => c.a.name = NoName
    /\ c.pc \in {"idle", "tmp", "respond"} => c.close = {}
    /\ c.pc \in {"look", "trailing"} /\ c.op # "opentemp" => c.close = {}
    /\ c.pc = "tmp" => c.op = "opentemp"
    /\ c.pc = "look" => c.op \in {"open", "opentemp", "fsrequest"}
    /\ c.pc \in {"trailing", "gate"} => c.op \in {"open", "opentemp", "fsrequest", "remove", "rename"}
    /\ c.pc = "trailing" /\ c.op = "open" => c.flags.creat
    /\ c.pc \in {"trailingTo", "gateTo"} => c.op = "rename"
    /\ c.pc = "act" => c.op \in {"open", "opentemp", "remove", "rename"}
    /\ c.pc = "close" => c.op \in {"open", "opentemp", "popen"} /\ c.ret # NoFd
    /\ c.pc \in {"shell", "gateexec", "run", "rejected"} => c.op \in {"execute", "popen"}
    /\ c.pc # "respond" =>
          /\ c.op \in {"open", "opentemp", "fsrequest", "remove", "rename"} => c.name \in Names
          /\ c.op = "rename" => c.toName \in Names
          /\ c.op = "open" => c.flags \in OpenFlags

\* The directory of ghost.opentemp.
Temporary(c, tb) ==
    ~c.robbed /\ c.op = "opentemp" /\ c.pc \in {"look", "trailing", "gate", "act", "close"} =>
       c.b.fd \in c.close /\ tb[c.b.fd].what = "dir" /\ tb[c.b.fd].id = TmpDir

\* The PathFD that a call works on, and the second one of a rename.
Source(c, tb) ==
    c.op \in {"open", "remove", "rename", "fsrequest"}
       /\ c.pc \in {"gate", "trailingTo", "gateTo", "act"} =>
       /\ c.op \in {"remove", "rename"} => c.a.name # NoName
       /\ c.op = "open" /\ c.a.name # NoName => c.flags.creat
       /\ ~c.robbed => c.a.fd \in c.close /\ (c.a.name # NoName => tb[c.a.fd].what = "dir")

Target(c, tb) ==
    c.op = "rename" /\ c.pc \in {"gateTo", "act"} =>
       /\ c.b.name # NoName
       /\ ~c.robbed => c.b.fd \in c.close /\ tb[c.b.fd].what = "dir"

\* The grants that a call has when it acts.
SourceAsked(c, tb) ==
    c.op \in {"open", "remove", "rename"} /\ c.pc \in {"trailingTo", "gateTo", "act"} =>
       \E gate \in c.gates :
          /\ gate.name = c.a.name /\ gate.mode = GateMode(c)
          /\ ~c.robbed => gate.id = tb[c.a.fd].id

TargetAsked(c, tb) ==
    c.op = "rename" /\ c.pc = "act" =>
       \E gate \in c.gates :
          /\ gate.name = c.b.name /\ gate.mode = {"CREATEFILE"}
          /\ ~c.robbed => gate.id = tb[c.b.fd].id

\* OpenedIsGated and AccessIsGated of one call.
OpenGated(c, tb) ==
    c.op = "open" /\ c.pc = "close" /\ ~c.robbed =>
       \E gate \in c.gates :
          IF gate.name = NoName THEN tb[c.ret].id = gate.id
          ELSE c.found = [dir |-> gate.id, name |-> gate.name]

Modest(use, c) ==
    use \subseteq (UNION {gate.mode : gate \in c.gates}) \cup IF c.op = "open" THEN {"TRUNCATE"} ELSE {}

AccessGated(c) == c.op # "opentemp" => Modest(c.access, c)

\* One call.
CallOK(t, c, tb) ==
    /\ Holding(t, c, tb)
    /\ Progress(c)
    /\ Temporary(c, tb)
    /\ Source(c, tb)
    /\ Target(c, tb)
    /\ SourceAsked(c, tb)
    /\ TargetAsked(c, tb)
    /\ Links = {} => OpenGated(c, tb)
    /\ AccessGated(c)

\* The file system and the bounds.
FsOK ==
    /\ at \in [Dirs -> Locs] /\ \A d, e \in Dirs : at[d] = at[e] => d = e
    /\ PlaceOK(place)
    /\ calls \in 0 .. MaxCalls /\ world \in 0 .. MaxWorld

\* The inductive invariant.
Inv ==
    /\ FsOK
    /\ TableOK(table)
    /\ call \in [Threads -> Calls]
    /\ \A t \in Threads : CallOK(t, call[t], table)

(***************************************************************************)
(* Descriptors                                                             *)
(***************************************************************************)

\* The order of the natural numbers as a relation.
LessThan == {ss \in Nat \X Nat : ss[1] < ss[2]}

\* Every set of natural numbers has a least element.
LEMMA LeastNumber ==
    ASSUME NEW T, T \subseteq Nat, T # {}
    PROVE  \E x \in T : \A y \in T : x <= y
<1>1. IsWellFoundedOn(LessThan, Nat)
  <2>1. LessThan = OpToRel(<, Nat)
    BY DEF OpToRel, LessThan
  <2> QED
    BY <2>1, NatLessThanWellFounded
<1>2. PICK x \in T : \A y \in T : <<y, x>> \notin LessThan
  BY <1>1, WFMin
<1>3. ASSUME NEW y \in T PROVE x <= y
  <2>1. x \in Nat /\ y \in Nat /\ <<y, x>> \notin LessThan
    BY <1>2
  <2>2. ~(y < x)
    BY <2>1 DEF LessThan
  <2> QED
    BY <2>1, <2>2
<1> QED
  BY <1>3

\* A descriptor that open(2) gives out was free.
LEMMA NewFdFree ==
    ASSUME ~Full
    PROVE  NewFd \in Fds /\ table[NewFd] = Free
<1>1. FreeFds \subseteq Nat /\ FreeFds # {}
  BY StdFsAssumption DEF Full, FreeFds, Fds
<1>2. \E fd \in FreeFds : \A other \in FreeFds : fd <= other
  BY <1>1, LeastNumber
<1>3. NewFd \in FreeFds
  BY <1>2 DEF NewFd, Lowest
<1> QED
  BY <1>3 DEF FreeFds

\* Threads are not among the other owners; a free descriptor has none.
LEMMA Owners ==
    /\ \A t \in Threads : t \notin {"app", "nobody", "none"}
    /\ Free.owner = "none" /\ Free.what = "free" /\ Free.id = Nowhere /\ Free.lostBy = NoOne
    /\ Free \in Descriptors /\ DescriptorOK(Free)
    /\ NoFd \notin Fds /\ 0 \in Fds
<1>1. \A t \in Threads : t \notin {"app", "nobody", "none"}
  BY StdFsAssumption
<1>2. /\ Free.owner = "none" /\ Free.what = "free" /\ Free.id = Nowhere /\ Free.lostBy = NoOne
      /\ Free \in Descriptors
  BY DEF Free, Object, Descriptors, NoOne, Kinds, Ops, Points, Results
<1>3. NoFd \notin Fds /\ 0 \in Fds
  BY StdFsAssumption DEF NoFd, Fds
<1> QED
  BY <1>1, <1>2, <1>3 DEF DescriptorOK

\* A descriptor that a call opens.
LEMMA ObjectOf ==
    ASSUME NEW what \in Kinds, NEW id \in Dirs \cup Nodes \cup {Nowhere}, NEW t \in Threads,
           what = "dir" => id \in Dirs, what = "node" => id \in Nodes
    PROVE  /\ Object(what, id, t) \in Descriptors /\ DescriptorOK(Object(what, id, t))
           /\ Object(what, id, t).what = what /\ Object(what, id, t).id = id
           /\ Object(what, id, t).owner = t
<1>1. /\ Object(what, id, t) \in Descriptors
      /\ Object(what, id, t).what = what /\ Object(what, id, t).id = id
      /\ Object(what, id, t).owner = t
  BY DEF Object, Descriptors, NoOne, Ops, Points, Results
<1>2. Object(what, id, t) # Free
  BY <1>1, Owners
<1> QED
  BY <1>1, <1>2, Owners DEF DescriptorOK

\* A descriptor that a call loses.
LEMMA LostOf ==
    ASSUME NEW d \in Descriptors, DescriptorOK(d), NEW c \in Calls,
           Losing([op |-> c.op, pc |-> c.pc, result |-> c.result])
    PROVE  /\ Lost(d, c) \in Descriptors /\ DescriptorOK(Lost(d, c))
           /\ Lost(d, c).owner = "nobody"
<1>1. /\ Lost(d, c) \in Descriptors /\ Lost(d, c).owner = "nobody"
      /\ Lost(d, c).what = d.what /\ Lost(d, c).id = d.id
      /\ Lost(d, c).lostBy = [op |-> c.op, pc |-> c.pc, result |-> c.result]
  BY DEF Lost, Descriptors, Calls
<1>2. Lost(d, c) # Free
  BY <1>1, Owners
<1> QED
  BY <1>1, <1>2 DEF DescriptorOK

\* What a step of a thread does to the descriptors of others: nothing, except that a call
\* astray, or a ghost.remove without a directory, may close descriptor 0.
Strays(c) == c.robbed \/ (c.op = "remove" /\ c.pc \in {"trailing", "toolarge"})

Touches(t) ==
    \A fd \in Fds :
       \/ table'[fd] = table[fd]
       \/ /\ table[fd].owner \in {t, "none"}
          /\ table'[fd].owner \in {t, "nobody", "none"}
       \/ /\ fd = 0 /\ table'[fd] = Free /\ Strays(call[t])
          /\ \A u \in Threads \ {t} : table[fd].owner = u => call'[u].robbed

\* A call opens a descriptor.
LEMMA OpenTable ==
    ASSUME TableOK(table), NEW t \in Threads,
           NEW what \in Kinds, NEW id \in Dirs \cup Nodes \cup {Nowhere},
           what = "dir" => id \in Dirs, what = "node" => id \in Nodes,
           ~Full, table' = Opened(t, what, id)
    PROVE  /\ TableOK(table') /\ Touches(t)
           /\ NewFd \in Fds /\ table[NewFd] = Free /\ table[NewFd].owner = "none"
           /\ table'[NewFd].what = what /\ table'[NewFd].id = id /\ table'[NewFd].owner = t
           /\ \A fd \in Fds \ {NewFd} : table'[fd] = table[fd]
<1>1. NewFd \in Fds /\ table[NewFd] = Free /\ table[NewFd].owner = "none"
  BY NewFdFree, Owners
<1>2. /\ table' \in [Fds -> Descriptors]
      /\ table'[NewFd] = Object(what, id, t)
      /\ \A fd \in Fds \ {NewFd} : table'[fd] = table[fd]
  BY <1>1, ObjectOf DEF Opened, TableOK
<1>3. TableOK(table')
  BY <1>2, ObjectOf DEF TableOK
<1> QED
  BY <1>1, <1>2, <1>3, ObjectOf DEF Touches

\* What a call returns with when a descriptor could not be closed.
LEMMA ClosedFields ==
    ASSUME NEW c \in Calls, NEW end, end = Closed(c)
    PROVE  /\ end \in Calls /\ end.op = c.op /\ end.pc = c.pc /\ end.close = c.close
           /\ end.gates = c.gates /\ end.access = c.access /\ end.robbed = c.robbed
           /\ \/ end = c
              \/ end.ret = NoFd /\ end.result = "ERROR"
BY DEF Closed, Calls, Results

\* A call returns: it closes what it should, loses the rest, and keeps what it returns.
LEMMA FinishTable ==
    ASSUME TableOK(table), NEW t \in Threads, NEW c \in Calls, Finish(t, c), call \in [Threads -> Calls],
           \A fd \in c.close : table[fd].owner = t \/ (fd = 0 /\ Strays(call[t])),
           c.ret # NoFd => /\ \/ table[c.ret].owner = t /\ c.ret \notin c.close
                              \/ c.ret = 0 /\ c.robbed
                           /\ Losing([op |-> c.op, pc |-> c.pc, result |-> "ERROR"]),
           \A fd \in Fds : table[fd].owner = t =>
              fd \in c.close \cup {c.ret} \/ Losing([op |-> c.op, pc |-> c.pc, result |-> c.result]),
           NEW end, end = Closed(c)
    PROVE  /\ TableOK(table') /\ Touches(t)
           /\ \A fd \in Fds : table'[fd].owner = t => fd = end.ret
           /\ end.ret # NoFd => table'[end.ret].owner = t \/ (end.ret = 0 /\ c.robbed)
<1>0. /\ end \in Calls /\ end.op = c.op /\ end.pc = c.pc /\ end.close = c.close
      /\ end.robbed = c.robbed
      /\ end = c \/ (end.ret = NoFd /\ end.result = "ERROR")
  BY ClosedFields
<1>1. c.close \subseteq Fds /\ c.ret \in Fds \cup {NoFd}
  BY DEF Calls
<1>2. \A fd \in Fds : table'[fd] = IF fd \in c.close THEN Free
                                   ELSE IF table[fd].owner = t /\ fd # end.ret
                                        THEN Lost(table[fd], end) ELSE table[fd]
  BY DEF Finish
<1>3. \A u \in Threads \ {t} : \A fd \in c.close : table[fd].owner = u => call'[u].robbed
  <2> SUFFICES ASSUME NEW u \in Threads \ {t}, NEW fd \in c.close, table[fd].owner = u
               PROVE  call'[u].robbed
    OBVIOUS
  <2>1. call[u] \in Calls
    OBVIOUS
  <2>2. call'[u] = [call[u] EXCEPT !.robbed = @ \/ \E gone \in c.close : table[gone].owner = u]
    BY DEF Finish, GoClosing
  <2> QED
    BY <2>1, <2>2 DEF Calls
<1>4. ASSUME NEW fd \in Fds
      PROVE  /\ table'[fd] \in Descriptors /\ DescriptorOK(table'[fd])
             /\ \/ table'[fd] = table[fd]
                \/ /\ table[fd].owner \in {t, "none"}
                   /\ table'[fd].owner \in {t, "nobody", "none"}
                \/ /\ fd = 0 /\ table'[fd] = Free /\ Strays(call[t])
                   /\ \A u \in Threads \ {t} : table[fd].owner = u => call'[u].robbed
             /\ table'[fd].owner = t => fd = end.ret
  <2>1. table[fd] \in Descriptors /\ DescriptorOK(table[fd]) /\ t \notin {"nobody", "none"}
    BY Owners DEF TableOK
  <2>2. CASE fd \in c.close
    BY <1>2, <1>3, <2>1, <2>2, Owners
  <2>3. CASE fd \notin c.close /\ table[fd].owner = t /\ fd # end.ret
    <3>1. table'[fd] = Lost(table[fd], end)
      BY <1>2, <2>3
    <3>2. Losing([op |-> end.op, pc |-> end.pc, result |-> end.result])
      <4>1. CASE fd = c.ret
        BY <1>0, <1>1, <2>3, <4>1, Owners
      <4>2. CASE fd # c.ret
        <5>1. Losing([op |-> c.op, pc |-> c.pc, result |-> c.result])
          BY <2>3, <4>2
        <5>2. Losing([op |-> c.op, pc |-> c.pc, result |-> "ERROR"])
          BY <5>1 DEF Losing
        <5> QED
          BY <1>0, <5>1, <5>2
      <4> QED
        BY <4>1, <4>2
    <3> QED
      BY <1>0, <2>1, <2>3, <3>1, <3>2, LostOf
  <2>4. CASE fd \notin c.close /\ ~(table[fd].owner = t /\ fd # end.ret)
    BY <1>2, <2>1, <2>4
  <2> QED
    BY <2>2, <2>3, <2>4
<1>5. table' \in [Fds -> Descriptors]
  <2>1. table' = [fd \in Fds |-> table'[fd]]
    BY DEF Finish
  <2> QED
    BY <1>4, <2>1
<1>6. end.ret # NoFd => table'[end.ret].owner = t \/ (end.ret = 0 /\ c.robbed)
  <2>1. CASE end.ret = NoFd
    BY <2>1
  <2>2. CASE end.ret # NoFd
    <3>1. end.ret = c.ret /\ c.ret \in Fds /\ c.ret # NoFd
      BY <1>0, <1>1, <2>2
    <3> QED
      BY <1>2, <3>1
  <2> QED
    BY <2>1, <2>2
<1> QED
  BY <1>4, <1>5, <1>6 DEF TableOK, Touches

\* The calls of other threads are not disturbed, unless they are robbed.
LEMMA OtherCalls ==
    ASSUME TableOK(table), NEW t \in Threads, Touches(t), NEW u \in Threads, u # t,
           NEW c \in Calls, CallOK(u, c, table), NEW e, e = call'[u],
           e = c \/ e = [c EXCEPT !.robbed = TRUE]
    PROVE  e \in Calls /\ CallOK(u, e, table') /\ e.pc = c.pc
<1>0. u \notin {"app", "nobody", "none"} /\ c.close \subseteq Fds /\ c.ret \in Fds \cup {NoFd}
  BY Owners DEF Calls
<1>00. /\ e \in Calls /\ e.op = c.op /\ e.pc = c.pc /\ e.name = c.name /\ e.toName = c.toName
       /\ e.flags = c.flags /\ e.a = c.a /\ e.b = c.b /\ e.close = c.close /\ e.gates = c.gates
       /\ e.access = c.access /\ e.found = c.found /\ e.ret = c.ret
       /\ c.robbed => e.robbed
  BY DEF Calls
<1>1. \A fd \in Fds : table[fd].owner = u => table'[fd] = table[fd] \/ (fd = 0 /\ e.robbed)
  BY <1>0 DEF Touches
<1>2. \A fd \in Fds : table'[fd].owner = u => table[fd].owner = u
  BY <1>0, Owners DEF Touches
<1>3. \A fd \in c.close : \/ table[fd].owner = u /\ table'[fd] = table[fd]
                          \/ fd = 0 /\ Astray(e)
  BY <1>0, <1>00, <1>1 DEF CallOK, Holding, Astray
<1>4. c.ret # NoFd => \/ table[c.ret].owner = u /\ table'[c.ret] = table[c.ret] /\ c.ret \notin c.close
                      \/ c.ret = 0 /\ e.robbed
  BY <1>0, <1>00, <1>1 DEF CallOK, Holding
<1>5. Holding(u, e, table')
  <2>1. \A fd \in e.close : table'[fd].owner = u \/ (fd = 0 /\ Astray(e))
    BY <1>00, <1>3
  <2>2. e.ret # NoFd => \/ table'[e.ret].owner = u /\ e.ret \notin e.close
                        \/ e.ret = 0 /\ e.robbed
    BY <1>00, <1>4
  <2>3. \A fd \in Fds : table'[fd].owner = u =>
          \/ fd \in e.close \cup {e.ret}
          \/ /\ e.pc \notin {"idle", "respond"}
             /\ e.op \in {"opentemp", "execute", "popen"} \/ e.pc = "toolarge"
    BY <1>00, <1>2 DEF CallOK, Holding
  <2> QED
    BY <2>1, <2>2, <2>3 DEF Holding
<1>6. ~e.robbed /\ e.pc # "toolarge" => ~c.robbed /\ \A fd \in c.close : table'[fd] = table[fd]
  BY <1>00, <1>3 DEF Astray
<1>7. Temporary(e, table')
  BY <1>00, <1>6 DEF CallOK, Temporary
<1>8. Source(e, table')
  BY <1>00, <1>6 DEF CallOK, Source
<1>9. Target(e, table')
  BY <1>00, <1>6 DEF CallOK, Target
<1>10. SourceAsked(e, table')
  <2>1. GateMode(e) = GateMode(c)
    BY <1>00 DEF GateMode
  <2>2. SUFFICES ASSUME c.op \in {"open", "remove", "rename"}, c.pc \in {"trailingTo", "gateTo", "act"}
                 PROVE  \E gate \in c.gates :
                           /\ gate.name = c.a.name /\ gate.mode = GateMode(c)
                           /\ ~e.robbed => gate.id = table'[c.a.fd].id
    BY <1>00, <2>1 DEF SourceAsked
  <2>3. ~e.robbed => ~c.robbed /\ table'[c.a.fd] = table[c.a.fd]
    BY <1>00, <1>6, <2>2 DEF CallOK, Source
  <2> QED
    BY <2>2, <2>3 DEF CallOK, SourceAsked
<1>11. TargetAsked(e, table')
  <2>1. SUFFICES ASSUME c.op = "rename", c.pc = "act"
                 PROVE  \E gate \in c.gates :
                           /\ gate.name = c.b.name /\ gate.mode = {"CREATEFILE"}
                           /\ ~e.robbed => gate.id = table'[c.b.fd].id
    BY <1>00 DEF TargetAsked
  <2>2. ~e.robbed => ~c.robbed /\ table'[c.b.fd] = table[c.b.fd]
    BY <1>00, <1>6, <2>1 DEF CallOK, Target
  <2> QED
    BY <2>1, <2>2 DEF CallOK, TargetAsked
<1>12. Links = {} => OpenGated(e, table')
  <2>1. c.pc = "close" /\ ~e.robbed => ~c.robbed /\ table'[c.ret] = table[c.ret]
    BY <1>00, <1>4 DEF CallOK, Progress
  <2> QED
    BY <1>00, <2>1 DEF CallOK, OpenGated
<1>13. Progress(e)
  BY <1>00 DEF CallOK, Progress
<1>14. AccessGated(e)
  BY <1>00 DEF CallOK, AccessGated, Modest
<1> QED
  BY <1>00, <1>5, <1>7, <1>8, <1>9, <1>10, <1>11, <1>12, <1>13, <1>14 DEF CallOK

\* The thread's call becomes c; others may be robbed.
Goes(t, c) ==
    /\ call' = [u \in Threads |-> call'[u]] /\ call'[t] = c
    /\ \A u \in Threads \ {t} : call'[u] = call[u] \/ call'[u] = [call[u] EXCEPT !.robbed = TRUE]

\* Both ways of writing it.
LEMMA GoMeans ==
    ASSUME call \in [Threads -> Calls], NEW t \in Threads, NEW c, NEW fds,
           Go(t, c) \/ GoClosing(t, c, fds)
    PROVE  Goes(t, c)
<1>1. CASE Go(t, c)
  BY <1>1 DEF Go, Goes
<1>2. CASE GoClosing(t, c, fds)
  <2>1. call' = [u \in Threads |-> call'[u]] /\ call'[t] = c
    BY <1>2 DEF GoClosing
  <2>2. ASSUME NEW u \in Threads \ {t}
        PROVE  call'[u] = call[u] \/ call'[u] = [call[u] EXCEPT !.robbed = TRUE]
    <3>1. call[u] \in Calls
      OBVIOUS
    <3>2. call'[u] = [call[u] EXCEPT !.robbed = call[u].robbed \/ \E fd \in fds : table[fd].owner = u]
      BY <1>2 DEF GoClosing
    <3>3. CASE \E fd \in fds : table[fd].owner = u
      BY <3>1, <3>2, <3>3 DEF Calls
    <3>4. CASE ~(\E fd \in fds : table[fd].owner = u)
      <4>1. (call[u].robbed \/ \E fd \in fds : table[fd].owner = u) = call[u].robbed
        <5>1. call[u].robbed \in BOOLEAN
          BY <3>1 DEF Calls
        <5> QED
          BY <3>4, <5>1
      <4>2. call'[u] = [call[u] EXCEPT !.robbed = call[u].robbed]
        BY <3>2, <4>1, Zenon
      <4> QED
        BY <3>1, <4>2 DEF Calls
    <3> QED
      BY <3>3, <3>4
  <2> QED
    BY <2>1, <2>2 DEF Goes
<1> QED
  BY <1>1, <1>2

\* What a step of a call comes to.
Acts(t) ==
    /\ Inv' /\ Touches(t) /\ call'[t].pc # call[t].pc
    /\ \A u \in Threads \ {t} : call'[u].pc = call[u].pc

\* So it is enough to look at the thread that makes the step.
LEMMA OwnCall ==
    ASSUME Inv, NEW t \in Threads, NEW c \in Calls, Goes(t, c), c.pc # call[t].pc,
           TableOK(table'), Touches(t), CallOK(t, c, table'), FsOK'
    PROVE  Acts(t)
<1>1. ASSUME NEW u \in Threads \ {t}
      PROVE  call'[u] \in Calls /\ CallOK(u, call'[u], table') /\ call'[u].pc = call[u].pc
  <2>1. call[u] \in Calls /\ CallOK(u, call[u], table) /\ TableOK(table)
    BY DEF Inv
  <2>2. call'[u] = call[u] \/ call'[u] = [call[u] EXCEPT !.robbed = TRUE]
    BY DEF Goes
  <2> QED
    BY <2>1, <2>2, OtherCalls
<1>2. \A u \in Threads : call'[u] \in Calls /\ CallOK(u, call'[u], table')
  BY <1>1 DEF Goes
<1>3. call' \in [Threads -> Calls]
  BY <1>2 DEF Goes
<1> QED
  BY <1>1, <1>2, <1>3 DEF Acts, Inv, Goes

(***************************************************************************)
(* The ways in which a step ends                                           *)
(***************************************************************************)

\* Idle is a call.
LEMMA IdleTyped ==
    /\ Idle \in Calls
    /\ Idle.op = "none" /\ Idle.pc = "idle" /\ Idle.close = {} /\ Idle.gates = {}
    /\ Idle.access = {} /\ Idle.ret = NoFd /\ Idle.a.name = NoName /\ ~Idle.robbed
<1>1. ZeroPathfd \in Pathfds /\ ZeroPathfd.name = NoName
  BY Owners DEF ZeroPathfd, Pathfds, ObjNames
<1>2. /\ [acc |-> "r", append |-> FALSE, creat |-> FALSE, trunc |-> FALSE] \in Flags
      /\ [dir |-> Nowhere, name |-> NoName] \in Where
  BY DEF Flags, Where, ObjNames
<1> QED
  BY <1>1, <1>2 DEF Idle, Calls, Ops, Points, Results, ObjNames

\* The fields of a call that has returned.
LEMMA ReturningFields ==
    ASSUME NEW c \in Calls
    PROVE  /\ Returning(c) \in Calls
           /\ Returning(c).op = c.op /\ Returning(c).pc = "respond" /\ Returning(c).close = {}
           /\ Returning(c).ret = c.ret /\ Returning(c).gates = c.gates
           /\ Returning(c).access = c.access /\ Returning(c).robbed = c.robbed
<1>1. Idle \in Calls
  BY IdleTyped
<1>2. Returning(c) \in Calls
  BY <1>1 DEF Returning, Calls, Points
<1> QED
  BY <1>1, <1>2, IdleTyped DEF Returning, Calls

\* The call returns.
LEMMA Finishes ==
    ASSUME Inv, NEW t \in Threads, NEW c \in Calls, Finish(t, c), FsOK',
           call[t].pc # "respond",
           \A fd \in c.close : table[fd].owner = t \/ (fd = 0 /\ Strays(call[t])),
           c.ret # NoFd => /\ \/ table[c.ret].owner = t /\ c.ret \notin c.close
                              \/ c.ret = 0 /\ c.robbed
                           /\ Losing([op |-> c.op, pc |-> c.pc, result |-> "ERROR"]),
           \A fd \in Fds : table[fd].owner = t =>
              fd \in c.close \cup {c.ret} \/ Losing([op |-> c.op, pc |-> c.pc, result |-> c.result]),
           AccessGated(c)
    PROVE  Acts(t)
<1> DEFINE end == Closed(c)
           r == Returning(end)
<1>0. /\ end \in Calls /\ end.op = c.op /\ end.gates = c.gates /\ end.access = c.access
      /\ end.robbed = c.robbed
  BY ClosedFields
<1>1. /\ TableOK(table') /\ Touches(t)
      /\ \A fd \in Fds : table'[fd].owner = t => fd = end.ret
      /\ end.ret # NoFd => table'[end.ret].owner = t \/ (end.ret = 0 /\ c.robbed)
  BY FinishTable DEF Inv
<1>2. Goes(t, r)
  <2>1. GoClosing(t, r, c.close)
    BY DEF Finish
  <2> QED
    BY <2>1, GoMeans DEF Inv
<1> HIDE DEF end
<1>3. /\ r \in Calls /\ r.op = c.op /\ r.pc = "respond" /\ r.close = {} /\ r.ret = end.ret
      /\ r.gates = c.gates /\ r.access = c.access /\ r.robbed = c.robbed
  BY <1>0, ReturningFields
<1> HIDE DEF r
<1>4. CallOK(t, r, table')
  <2>1. Holding(t, r, table')
    BY <1>1, <1>3 DEF Holding
  <2>2. Progress(r)
    BY <1>3 DEF Progress
  <2>3. Temporary(r, table') /\ Source(r, table') /\ Target(r, table')
    BY <1>3 DEF Temporary, Source, Target
  <2>4. SourceAsked(r, table') /\ TargetAsked(r, table') /\ OpenGated(r, table')
    BY <1>3 DEF SourceAsked, TargetAsked, OpenGated
  <2>5. AccessGated(r)
    BY <1>3 DEF AccessGated, Modest
  <2> QED
    BY <2>1, <2>2, <2>3, <2>4, <2>5 DEF CallOK
<1> QED
  BY <1>1, <1>2, <1>3, <1>4, OwnCall

\* A step that leaves the file system alone.
LEMMA FsKept ==
    ASSUME FsOK, KeepFs, KeepBounds
    PROVE  FsOK'
BY DEF FsOK, KeepFs, KeepBounds, PlaceOK

\* The call fails before it has done anything.
LEMMA Fails ==
    ASSUME Inv, NEW t \in Threads, NEW close \in SUBSET Fds,
           Fail(t, [call[t] EXCEPT !.close = close]),
           call[t].pc \notin {"idle", "close", "respond"},
           \/ close = call[t].close
           \/ close = {} /\ Losing([op |-> call[t].op, pc |-> call[t].pc, result |-> "ERROR"])
           \/ /\ close = {0} /\ call[t].close = {}
              /\ call[t].op = "remove" /\ call[t].pc = "trailing"
    PROVE  Acts(t)
<1> DEFINE c == [[call[t] EXCEPT !.close = close] EXCEPT !.result = "ERROR", !.gates = {}]
<1>1. call[t] \in Calls /\ CallOK(t, call[t], table)
  BY DEF Inv
<1>2. /\ c \in Calls /\ c.op = call[t].op /\ c.pc = call[t].pc /\ c.close = close
      /\ c.result = "ERROR" /\ c.gates = {} /\ c.ret = call[t].ret /\ c.access = call[t].access
  BY <1>1 DEF Calls, Results
<1>3. Finish(t, c) /\ KeepFs /\ KeepBounds
  BY DEF Fail
<1>4. c.ret = NoFd /\ c.access = {}
  BY <1>1, <1>2 DEF CallOK, Progress
<1>5. \A fd \in c.close : table[fd].owner = t \/ (fd = 0 /\ Strays(call[t]))
  BY <1>1, <1>2 DEF CallOK, Holding, Astray, Strays
<1>6. ASSUME NEW fd \in Fds, table[fd].owner = t, fd \notin c.close \cup {c.ret}
      PROVE  Losing([op |-> c.op, pc |-> c.pc, result |-> c.result])
  <2>1. CASE call[t].close \subseteq close
    <3>1. c.op \in {"opentemp", "execute", "popen"} \/ c.pc = "toolarge"
      BY <1>1, <1>2, <1>6, <2>1 DEF CallOK, Holding
    <3> QED
      BY <3>1 DEF Losing
  <2>2. CASE ~(call[t].close \subseteq close)
    BY <1>2, <2>2
  <2> QED
    BY <2>1, <2>2
<1>7. AccessGated(c)
  BY <1>4 DEF AccessGated, Modest
<1>8. FsOK'
  BY <1>3, FsKept DEF Inv
<1> HIDE DEF c
<1> QED
  BY <1>2, <1>3, <1>4, <1>5, <1>6, <1>7, <1>8, Finishes

\* The plain case.
LEMMA FailsPlainly ==
    ASSUME Inv, NEW t \in Threads, Fail(t, call[t]),
           call[t].pc \notin {"idle", "close", "respond"}
    PROVE  Acts(t)
<1>1. call[t] \in Calls
  BY DEF Inv
<1>2. [call[t] EXCEPT !.close = call[t].close] = call[t] /\ call[t].close \in SUBSET Fds
  BY <1>1 DEF Calls
<1>3. Fail(t, [call[t] EXCEPT !.close = call[t].close])
  BY <1>2
<1> QED
  BY <1>2, <1>3, Fails

\* The call goes on without touching a descriptor.
LEMMA GoesOn ==
    ASSUME Inv, NEW t \in Threads, NEW c \in Calls, Go(t, c), c.pc # call[t].pc,
           table' = table, CallOK(t, c, table), FsOK'
    PROVE  Acts(t)
<1>1. TableOK(table') /\ Touches(t) /\ CallOK(t, c, table')
  BY DEF Inv, Touches
<1>2. Goes(t, c)
  BY GoMeans DEF Inv
<1> QED
  BY <1>1, <1>2, OwnCall

\* The call goes on with a new descriptor.
LEMMA GoesOnWith ==
    ASSUME Inv, NEW t \in Threads, NEW c \in Calls, Go(t, c), c.pc # call[t].pc,
           NEW what \in Kinds, NEW id \in Dirs \cup Nodes \cup {Nowhere},
           what = "dir" => id \in Dirs, what = "node" => id \in Nodes,
           ~Full, table' = Opened(t, what, id), CallOK(t, c, table'), FsOK'
    PROVE  Acts(t)
<1>1. TableOK(table') /\ Touches(t)
  BY OpenTable DEF Inv
<1>2. Goes(t, c)
  BY GoMeans DEF Inv
<1> QED
  BY <1>1, <1>2, OwnCall

(***************************************************************************)
(* The actions                                                             *)
(***************************************************************************)

\* A call starts with nothing open.
LEMMA Starts ==
    ASSUME Inv, NEW t \in Threads, NEW c \in Calls, Start(t, c),
           c.pc \in {"look", "tmp", "trailing", "shell", "respond"},
           c.op = "opentemp" => c.pc = "tmp",
           c.close = {}, c.ret = NoFd, c.access = {}, Progress(c)
    PROVE  Acts(t)
<1>1. call[t] \in Calls /\ CallOK(t, call[t], table) /\ call[t].pc = "idle"
  BY DEF Inv, Start, At
<1>2. \A fd \in Fds : table[fd].owner # t
  BY <1>1, Owners DEF CallOK, Holding, Progress
<1>3. Holding(t, c, table)
  BY <1>2 DEF Holding
<1>4. /\ Temporary(c, table) /\ Source(c, table) /\ Target(c, table)
      /\ SourceAsked(c, table) /\ TargetAsked(c, table) /\ OpenGated(c, table)
  BY DEF Temporary, Source, Target, SourceAsked, TargetAsked, OpenGated
<1>5. AccessGated(c)
  BY DEF AccessGated, Modest
<1>6. CallOK(t, c, table)
  BY <1>3, <1>4, <1>5 DEF CallOK
<1>7. Go(t, c) /\ table' = table
  BY DEF Start
<1>8. FsOK'
  <2>1. calls \in 0 .. MaxCalls /\ calls < MaxCalls /\ calls' = calls + 1 /\ MaxCalls \in Nat
    BY StdFsAssumption DEF Inv, FsOK, Start
  <2>2. calls' \in 0 .. MaxCalls
    BY <2>1
  <2>3. at' = at /\ place' = place /\ world' = world
    BY DEF Start
  <2> QED
    BY <2>2, <2>3 DEF Inv, FsOK, PlaceOK
<1> QED
  BY <1>1, <1>6, <1>7, <1>8, GoesOn

\* The functions of the standard library.
LEMMA CallActs ==
    ASSUME Inv, NEW t \in Threads,
           \/ CallOpen(t) \/ CallTemp(t) \/ CallRemove(t) \/ CallRename(t) \/ CallRequest(t)
           \/ CallExecute(t) \/ CallRefused(t)
    PROVE  Acts(t)
<1>0. /\ Idle \in Calls
      /\ Idle.op = "none" /\ Idle.pc = "idle" /\ Idle.close = {} /\ Idle.gates = {}
      /\ Idle.access = {} /\ Idle.ret = NoFd /\ Idle.a.name = NoName
  BY IdleTyped
<1>1. ASSUME NEW loc \in Locs, NEW name \in Names, NEW flags \in OpenFlags,
             Start(t, [Idle EXCEPT !.op = "open", !.pc = "look", !.loc = loc, !.name = name,
                                   !.flags = flags])
      PROVE  Acts(t)
  <2> DEFINE c == [Idle EXCEPT !.op = "open", !.pc = "look", !.loc = loc, !.name = name,
                               !.flags = flags]
  <2>1. /\ c \in Calls /\ c.op = "open" /\ c.pc = "look" /\ c.name = name /\ c.flags = flags
        /\ c.close = {} /\ c.ret = NoFd /\ c.access = {} /\ c.a.name = NoName
    BY <1>0, StdFsAssumption, ZenonT(30) DEF Calls, Ops, Points, ObjNames
  <2>2. Start(t, c)
    BY <1>1
  <2> HIDE DEF c
  <2>3. Progress(c)
    BY <2>1 DEF Progress
  <2> QED
    BY <2>1, <2>2, <2>3, Starts
<1>2. ASSUME NEW name \in Names, NEW flags \in TempFlags,
             Start(t, [Idle EXCEPT !.op = "opentemp", !.pc = "tmp", !.name = name, !.flags = flags])
      PROVE  Acts(t)
  <2> DEFINE c == [Idle EXCEPT !.op = "opentemp", !.pc = "tmp", !.name = name, !.flags = flags]
  <2>1. /\ c \in Calls /\ c.op = "opentemp" /\ c.pc = "tmp" /\ c.name = name
        /\ c.close = {} /\ c.ret = NoFd /\ c.access = {} /\ c.a.name = NoName
    BY <1>0, StdFsAssumption, ZenonT(30) DEF Calls, Ops, Points, ObjNames
  <2>2. Start(t, c)
    BY <1>2
  <2> HIDE DEF c
  <2>3. Progress(c)
    BY <2>1 DEF Progress
  <2> QED
    BY <2>1, <2>2, <2>3, Starts
<1>3. ASSUME NEW loc \in Locs, NEW name \in Names,
             Start(t, [Idle EXCEPT !.op = "remove", !.pc = "trailing", !.loc = loc, !.name = name])
      PROVE  Acts(t)
  <2> DEFINE c == [Idle EXCEPT !.op = "remove", !.pc = "trailing", !.loc = loc, !.name = name]
  <2>1. /\ c \in Calls /\ c.op = "remove" /\ c.pc = "trailing" /\ c.name = name
        /\ c.close = {} /\ c.ret = NoFd /\ c.access = {} /\ c.a.name = NoName
    BY <1>0, ZenonT(30) DEF Calls, Ops, Points, ObjNames
  <2>2. Start(t, c)
    BY <1>3
  <2> HIDE DEF c
  <2>3. Progress(c)
    BY <2>1 DEF Progress
  <2> QED
    BY <2>1, <2>2, <2>3, Starts
<1>4. ASSUME NEW loc \in Locs, NEW toLoc \in Locs, NEW name \in Names, NEW toName \in Names,
             Start(t, [Idle EXCEPT !.op = "rename", !.pc = "trailing", !.loc = loc, !.name = name,
                                   !.toLoc = toLoc, !.toName = toName])
      PROVE  Acts(t)
  <2> DEFINE c == [Idle EXCEPT !.op = "rename", !.pc = "trailing", !.loc = loc, !.name = name,
                               !.toLoc = toLoc, !.toName = toName]
  <2>1. /\ c \in Calls /\ c.op = "rename" /\ c.pc = "trailing" /\ c.name = name
        /\ c.toName = toName
        /\ c.close = {} /\ c.ret = NoFd /\ c.access = {} /\ c.a.name = NoName
    BY <1>0, ZenonT(30) DEF Calls, Ops, Points, ObjNames
  <2>2. Start(t, c)
    BY <1>4
  <2> HIDE DEF c
  <2>3. Progress(c)
    BY <2>1 DEF Progress
  <2> QED
    BY <2>1, <2>2, <2>3, Starts
<1>5. ASSUME NEW loc \in Locs, NEW name \in Names,
             Start(t, [Idle EXCEPT !.op = "fsrequest", !.pc = "look", !.loc = loc, !.name = name])
      PROVE  Acts(t)
  <2> DEFINE c == [Idle EXCEPT !.op = "fsrequest", !.pc = "look", !.loc = loc, !.name = name]
  <2>1. /\ c \in Calls /\ c.op = "fsrequest" /\ c.pc = "look" /\ c.name = name
        /\ c.close = {} /\ c.ret = NoFd /\ c.access = {} /\ c.a.name = NoName
    BY <1>0, ZenonT(30) DEF Calls, Ops, Points, ObjNames
  <2>2. Start(t, c)
    BY <1>5
  <2> HIDE DEF c
  <2>3. Progress(c)
    BY <2>1 DEF Progress
  <2> QED
    BY <2>1, <2>2, <2>3, Starts
<1>6. ASSUME NEW op \in {"execute", "popen"}, Start(t, [Idle EXCEPT !.op = op, !.pc = "shell"])
      PROVE  Acts(t)
  <2> DEFINE c == [Idle EXCEPT !.op = op, !.pc = "shell"]
  <2>1. /\ c \in Calls /\ c.op = op /\ c.pc = "shell"
        /\ c.close = {} /\ c.ret = NoFd /\ c.access = {}
    BY <1>0 DEF Calls, Ops, Points
  <2>2. Start(t, c)
    BY <1>6
  <2> HIDE DEF c
  <2>3. Progress(c)
    BY <2>1 DEF Progress
  <2> QED
    BY <2>1, <2>2, <2>3, Starts
<1>7. ASSUME CallRefused(t)
      PROVE  Acts(t)
  <2> DEFINE c == [Idle EXCEPT !.op = "refused", !.pc = "respond", !.result = "ERROR"]
  <2>1. /\ c \in Calls /\ c.op = "refused" /\ c.pc = "respond"
        /\ c.close = {} /\ c.ret = NoFd /\ c.access = {}
    BY <1>0, ZenonT(30) DEF Calls, Ops, Points, Results
  <2>2. Start(t, c)
    BY <1>7 DEF CallRefused
  <2> HIDE DEF c
  <2>3. Progress(c)
    BY <2>1 DEF Progress
  <2> QED
    BY <2>1, <2>2, <2>3, Starts
<1> QED
  BY <1>1, <1>2, <1>3, <1>4, <1>5, <1>6, <1>7
  DEF CallOpen, CallTemp, CallRemove, CallRename, CallRequest, CallExecute

\* What a call holds after it has opened a descriptor.
LEMMA HoldsMore ==
    ASSUME Inv, NEW t \in Threads, NEW c \in Calls,
           NEW what \in Kinds, NEW id \in Dirs \cup Nodes \cup {Nowhere},
           what = "dir" => id \in Dirs, what = "node" => id \in Nodes,
           ~Full, table' = Opened(t, what, id),
           call[t].pc \notin {"toolarge", "close", "respond"},
           c.op = call[t].op, c.pc \notin {"idle", "respond"}, c.robbed = call[t].robbed,
           \/ c.ret = NoFd /\ c.close = call[t].close \cup {NewFd}
           \/ c.ret = NoFd /\ c.close = call[t].close /\ c.op \in {"opentemp", "execute", "popen"}
           \/ c.ret = NoFd /\ c.close \subseteq call[t].close /\ c.pc = "toolarge"
           \/ c.ret = NoFd /\ c.close = {0} /\ c.op = "remove" /\ c.pc = "toolarge"
           \/ c.ret = NewFd /\ c.close = call[t].close
    PROVE  /\ Holding(t, c, table')
           /\ NewFd \in Fds /\ table'[NewFd].what = what /\ table'[NewFd].id = id
           /\ ~c.robbed => \A fd \in call[t].close : table'[fd] = table[fd]
<1>1. /\ call[t] \in Calls /\ Holding(t, call[t], table) /\ call[t].ret = NoFd
      /\ call[t].close \subseteq Fds
  BY DEF Inv, CallOK, Progress, Calls
<1>2. /\ NewFd \in Fds /\ table[NewFd].owner = "none"
      /\ table'[NewFd].what = what /\ table'[NewFd].id = id /\ table'[NewFd].owner = t
      /\ \A fd \in Fds \ {NewFd} : table'[fd] = table[fd]
  BY OpenTable DEF Inv
<1>3. /\ t # "none" /\ NoFd \notin Fds
      /\ \A fd \in call[t].close : \/ fd # NewFd /\ table[fd].owner = t /\ table'[fd] = table[fd]
                                   \/ fd = 0 /\ c.robbed
  BY <1>1, <1>2, Owners DEF Holding, Astray
<1>4. \A fd \in c.close : table'[fd].owner = t \/ (fd = 0 /\ Astray(c))
  BY <1>2, <1>3 DEF Astray
<1>5. c.ret # NoFd => \/ table'[c.ret].owner = t /\ c.ret \notin c.close
                      \/ c.ret = 0 /\ c.robbed
  BY <1>2, <1>3
<1>6. ASSUME NEW fd \in Fds, table'[fd].owner = t
      PROVE  \/ fd \in c.close \cup {c.ret}
             \/ c.op \in {"opentemp", "execute", "popen"} \/ c.pc = "toolarge"
  <2>1. CASE fd = NewFd
    BY <1>2, <2>1
  <2>2. CASE fd # NewFd
    <3>1. fd \in call[t].close \/ c.op \in {"opentemp", "execute", "popen"}
      BY <1>1, <1>2, <1>6, <2>2, Owners DEF Holding
    <3> QED
      BY <3>1
  <2> QED
    BY <2>1, <2>2
<1>7. ~c.robbed => \A fd \in call[t].close : table'[fd] = table[fd]
  BY <1>3
<1> QED
  BY <1>2, <1>4, <1>5, <1>6, <1>7 DEF Holding

\* gh_std_opentemp opens the directory.
LEMMA OpenTmpActs ==
    ASSUME Inv, NEW t \in Threads, OpenTmp(t)
    PROVE  Acts(t)
<1>1. /\ call[t] \in Calls /\ call[t].pc = "tmp" /\ CallOK(t, call[t], table)
      /\ call[t].op = "opentemp" /\ call[t].close = {} /\ call[t].ret = NoFd
      /\ call[t].access = {} /\ call[t].a.name = NoName /\ call[t].name \in Names
  BY DEF Inv, OpenTmp, At, CallOK, Progress
<1>2. CASE Full
  BY <1>1, <1>2, FailsPlainly DEF OpenTmp
<1>3. CASE ~Full
  <2> DEFINE c == [call[t] EXCEPT !.pc = "look", !.b.fd = NewFd, !.close = {NewFd}]
  <2>1. NewFd \in Fds
    BY <1>3, NewFdFree
  <2>2. /\ c \in Calls /\ c.pc = "look" /\ c.op = "opentemp" /\ c.close = {NewFd}
        /\ c.ret = NoFd /\ c.access = {} /\ c.robbed = call[t].robbed /\ c.a.name = NoName /\ c.name = call[t].name
        /\ c.b.fd = NewFd
    BY <1>1, <2>1 DEF Calls, Pathfds, Points
  <2>3. Go(t, c) /\ table' = Opened(t, "dir", TmpDir) /\ KeepFs /\ KeepBounds
    BY <1>3 DEF OpenTmp
  <2> HIDE DEF c
  <2>4. /\ Holding(t, c, table') /\ table'[NewFd].what = "dir" /\ table'[NewFd].id = TmpDir
    BY <1>1, <1>3, <2>2, <2>3, HoldsMore, StdFsAssumption DEF Kinds
  <2>5. Progress(c)
    BY <1>1, <2>2 DEF Progress
  <2>6. /\ Temporary(c, table') /\ Source(c, table') /\ Target(c, table')
        /\ SourceAsked(c, table') /\ TargetAsked(c, table') /\ OpenGated(c, table')
    BY <2>2, <2>4 DEF Temporary, Source, Target, SourceAsked, TargetAsked, OpenGated
  <2>7. CallOK(t, c, table')
    BY <2>2, <2>4, <2>5, <2>6 DEF CallOK, AccessGated, Modest
  <2>8. FsOK'
    BY <2>3, FsKept DEF Inv
  <2> QED
    BY <1>1, <1>3, <2>2, <2>3, <2>7, <2>8, GoesOnWith, StdFsAssumption DEF Kinds
<1> QED
  BY <1>2, <1>3

\* What a descriptor refers to, if that is a directory.
LEMMA DirOfTyped ==
    ASSUME TableOK(table), NEW fd \in Fds
    PROVE  /\ DirOf(fd) \in Dirs \cup {Nowhere}
           /\ table[fd].what = "dir" => DirOf(fd) = table[fd].id
<1>1. DescriptorOK(table[fd])
  BY DEF TableOK
<1> QED
  BY <1>1 DEF DirOf, DescriptorOK

\* The directory of a path.
LEMMA ParentTyped ==
    ASSUME Inv, NEW t \in Threads, call[t].pc \in {"look", "trailing"}
    PROVE  Parent(call[t]) = Nowhere \/ Parent(call[t]) \in Dirs
<1>1. CASE call[t].op = "opentemp"
  <2>1. call[t].b.fd \in Fds
    BY DEF Inv, Calls, Pathfds
  <2> QED
    BY <1>1, <2>1, DirOfTyped DEF Inv, Parent
<1>2. CASE call[t].op # "opentemp"
  BY <1>2 DEF Parent, DirAt
<1> QED
  BY <1>1, <1>2

\* gh_pathfd_open finds the node, or that it is missing.
LEMMA LookActs ==
    ASSUME Inv, NEW t \in Threads, Look(t)
    PROVE  Acts(t)
<1> DEFINE o == call[t]
           d == Parent(o)
           keep == IF o.op = "opentemp" THEN o.close ELSE {NewFd}
<1>1. /\ o \in Calls /\ o.pc = "look" /\ CallOK(t, o, table)
      /\ o.op \in {"open", "opentemp", "fsrequest"} /\ (o.op # "opentemp" => o.close = {})
      /\ o.ret = NoFd /\ o.access = {} /\ o.a.name = NoName /\ o.name \in Names
      /\ o.op = "open" => o.flags \in OpenFlags
      /\ o.close \subseteq Fds
  BY DEF Inv, Look, At, CallOK, Progress, Calls
<1>2. CASE Fail(t, o)
  BY <1>1, <1>2, FailsPlainly
<1>3. ASSUME ~Full, AllowMissing(o), Go(t, [o EXCEPT !.pc = "trailing"]),
             table' = table, KeepFs, KeepBounds
      PROVE  Acts(t)
  <2> DEFINE c == [o EXCEPT !.pc = "trailing"]
  <2>1. /\ c \in Calls /\ c.pc = "trailing" /\ c.op = o.op /\ c.close = o.close
        /\ c.ret = NoFd /\ c.access = {} /\ c.robbed = call[t].robbed /\ c.a.name = NoName /\ c.name = o.name
        /\ c.b = o.b /\ c.flags = o.flags
    BY <1>1 DEF Calls, Points
  <2>2. Go(t, c)
    BY <1>3
  <2> HIDE DEF c
  <2>3. Holding(t, c, table)
    BY <1>1, <2>1 DEF CallOK, Holding, Astray
  <2>4. Progress(c)
    <3>1. o.op = "open" => o.flags.creat
      BY <1>3 DEF AllowMissing
    <3> QED
      BY <1>1, <2>1, <3>1 DEF Progress
  <2>5. Temporary(c, table)
    BY <1>1, <2>1 DEF CallOK, Temporary
  <2>6. /\ Source(c, table) /\ Target(c, table)
        /\ SourceAsked(c, table) /\ TargetAsked(c, table) /\ OpenGated(c, table)
    BY <2>1 DEF Source, Target, SourceAsked, TargetAsked, OpenGated
  <2>7. CallOK(t, c, table)
    BY <2>1, <2>3, <2>4, <2>5, <2>6 DEF CallOK, AccessGated, Modest
  <2>8. FsOK'
    BY <1>3, FsKept DEF Inv
  <2> QED
    BY <1>1, <1>3, <2>1, <2>2, <2>7, <2>8, GoesOn
<1>4. ASSUME ~Full, Exists(d, o.name), table' = Opened(t, "node", NodeAt(d, o.name)),
             Go(t, [o EXCEPT !.pc = "gate", !.a.fd = NewFd, !.close = keep]), KeepFs, KeepBounds
      PROVE  Acts(t)
  <2> DEFINE c == [o EXCEPT !.pc = "gate", !.a.fd = NewFd, !.close = keep]
             node == NodeAt(d, o.name)
  <2>0. node \in Nodes
    BY <1>4 DEF Exists, NodeAt, Entry
  <2>1. NewFd \in Fds
    BY <1>4, NewFdFree
  <2>2. keep \subseteq Fds
    BY <1>1, <2>1
  <2>3. /\ c \in Calls /\ c.pc = "gate" /\ c.op = o.op /\ c.close = keep
        /\ c.ret = NoFd /\ c.access = {} /\ c.robbed = call[t].robbed /\ c.a.name = NoName /\ c.name = o.name
        /\ c.a.fd = NewFd /\ c.b = o.b /\ c.flags = o.flags
    BY <1>1, <2>1, <2>2 DEF Calls, Points, Pathfds
  <2>4. Go(t, c) /\ table' = Opened(t, "node", node)
    BY <1>4
  <2> HIDE DEF c, node
  <2>5. c.close = o.close \cup {NewFd} \/ (c.close = o.close /\ c.op \in {"opentemp", "execute", "popen"})
    BY <1>1, <2>3
  <2>6. /\ Holding(t, c, table') /\ (~c.robbed => \A fd \in o.close : table'[fd] = table[fd])
    BY <1>1, <1>4, <2>0, <2>3, <2>4, <2>5, HoldsMore, ZenonT(30) DEF Kinds
  <2>7. Progress(c)
    BY <1>1, <2>3 DEF Progress
  <2>8. Temporary(c, table')
    <3>1. o.op = "opentemp" => c.close = o.close
      BY <2>3
    <3> QED
      BY <1>1, <2>3, <2>6, <3>1 DEF CallOK, Temporary
  <2>9. Source(c, table')
    <3>1. o.op # "opentemp" => NewFd \in c.close
      BY <2>3
    <3> QED
      BY <1>1, <2>3, <3>1 DEF Source
  <2>10. /\ Target(c, table')
         /\ SourceAsked(c, table') /\ TargetAsked(c, table') /\ OpenGated(c, table')
    BY <2>3 DEF Target, SourceAsked, TargetAsked, OpenGated
  <2>11. CallOK(t, c, table')
    BY <2>3, <2>6, <2>7, <2>8, <2>9, <2>10 DEF CallOK, AccessGated, Modest
  <2>12. FsOK'
    BY <1>4, FsKept DEF Inv
  <2> QED
    BY <1>1, <1>4, <2>0, <2>3, <2>4, <2>11, <2>12, GoesOnWith DEF Kinds
<1> QED
  BY <1>2, <1>3, <1>4 DEF Look

\* gh_pathfd_opentrailing.
LEMMA TrailingActs ==
    ASSUME Inv, NEW t \in Threads, Trailing(t)
    PROVE  Acts(t)
<1> DEFINE o == call[t]
           d == Parent(o)
           keep == IF o.op = "opentemp" THEN o.close ELSE {NewFd}
<1>1. /\ o \in Calls /\ o.pc = "trailing" /\ CallOK(t, o, table)
      /\ o.op \in {"open", "opentemp", "fsrequest", "remove", "rename"}
      /\ (o.op # "opentemp" => o.close = {})
      /\ o.ret = NoFd /\ o.access = {} /\ o.a.name = NoName /\ o.name \in Names
      /\ o.op = "open" => o.flags \in OpenFlags /\ o.flags.creat
      /\ o.op = "rename" => o.toName \in Names
      /\ o.close \subseteq Fds
  BY DEF Inv, Trailing, At, CallOK, Progress, Calls
<1>2. d = Nowhere \/ d \in Dirs
  BY <1>1, ParentTyped
<1>2a. /\ Unopened(o) = IF o.op = "remove" THEN {0} ELSE o.close
       /\ Unopened(o) \in SUBSET Fds
  BY <1>1, Owners DEF Unopened, ZeroPathfd
<1>3. ASSUME Fail(t, [o EXCEPT !.close = Unopened(o)])
      PROVE  Acts(t)
  BY <1>1, <1>2a, <1>3, Fails
<1>4. ASSUME ~Full, d # Nowhere, table' = Opened(t, "dir", d),
             Go(t, [o EXCEPT !.pc = "toolarge", !.close = Unopened(o)]), KeepFs, KeepBounds
      PROVE  Acts(t)
  <2> DEFINE c == [o EXCEPT !.pc = "toolarge", !.close = Unopened(o)]
  <2>2. /\ c \in Calls /\ c.pc = "toolarge" /\ c.op = o.op /\ c.close = Unopened(o)
        /\ c.ret = NoFd /\ c.access = {} /\ c.robbed = call[t].robbed /\ c.name = o.name /\ c.flags = o.flags
        /\ c.toName = o.toName
    BY <1>1, <1>2a DEF Calls, Points
  <2>3. Go(t, c)
    BY <1>4
  <2> HIDE DEF c, d
  <2>4. Holding(t, c, table')
    BY <1>1, <1>2, <1>2a, <1>4, <2>2, HoldsMore DEF Kinds
  <2>5. Progress(c)
    BY <1>1, <2>2 DEF Progress
  <2>6. /\ Temporary(c, table') /\ Source(c, table') /\ Target(c, table')
        /\ SourceAsked(c, table') /\ TargetAsked(c, table') /\ OpenGated(c, table')
    BY <2>2 DEF Temporary, Source, Target, SourceAsked, TargetAsked, OpenGated
  <2>7. CallOK(t, c, table')
    BY <2>2, <2>4, <2>5, <2>6 DEF CallOK, AccessGated, Modest
  <2>8. FsOK'
    BY <1>4, FsKept DEF Inv
  <2> QED
    BY <1>1, <1>2, <1>4, <2>2, <2>3, <2>7, <2>8, GoesOnWith DEF Kinds
<1>5. ASSUME ~Full, d # Nowhere, table' = Opened(t, "dir", d),
             Go(t, [o EXCEPT !.pc = "gate", !.a = [fd |-> NewFd, name |-> o.name], !.close = keep]),
             KeepFs, KeepBounds
      PROVE  Acts(t)
  <2> DEFINE c == [o EXCEPT !.pc = "gate", !.a = [fd |-> NewFd, name |-> o.name], !.close = keep]
  <2>1. NewFd \in Fds
    BY <1>5, NewFdFree
  <2>2. keep \subseteq Fds /\ [fd |-> NewFd, name |-> o.name] \in Pathfds
    BY <1>1, <2>1 DEF Pathfds, ObjNames
  <2>2a. keep = IF o.op = "opentemp" THEN o.close ELSE {NewFd}
    OBVIOUS
  <2> HIDE DEF keep
  <2>3. /\ c \in Calls /\ c.pc = "gate" /\ c.op = o.op /\ c.close = keep
        /\ c.ret = NoFd /\ c.access = {} /\ c.robbed = call[t].robbed /\ c.a.name = o.name /\ c.name = o.name
        /\ c.a.fd = NewFd /\ c.b = o.b /\ c.flags = o.flags /\ c.toName = o.toName
    BY <1>1, <2>1, <2>2 DEF Calls, Points
  <2>4. Go(t, c)
    BY <1>5
  <2> HIDE DEF c, d
  <2>5. c.close = o.close \cup {NewFd} \/ (c.close = o.close /\ c.op \in {"opentemp", "execute", "popen"})
    BY <1>1, <2>3, <2>2a
  <2>6. /\ Holding(t, c, table') /\ (~c.robbed => \A fd \in o.close : table'[fd] = table[fd])
        /\ table'[NewFd].what = "dir"
    BY <1>1, <1>2, <1>5, <2>3, <2>5, HoldsMore DEF Kinds
  <2>7. Progress(c)
    BY <1>1, <2>3 DEF Progress
  <2>8. Temporary(c, table')
    <3>1. o.op = "opentemp" => c.close = o.close
      BY <2>3, <2>2a
    <3> QED
      BY <1>1, <2>3, <2>6, <3>1 DEF CallOK, Temporary
  <2>9. Source(c, table')
    <3>1. o.op # "opentemp" => NewFd \in c.close
      BY <2>3, <2>2a
    <3>2. o.name # NoName
      BY <1>1, StdFsAssumption
    <3> QED
      BY <1>1, <2>3, <2>6, <3>1, <3>2 DEF Source
  <2>10. /\ Target(c, table')
         /\ SourceAsked(c, table') /\ TargetAsked(c, table') /\ OpenGated(c, table')
    BY <2>3 DEF Target, SourceAsked, TargetAsked, OpenGated
  <2>11. CallOK(t, c, table')
    BY <2>3, <2>6, <2>7, <2>8, <2>9, <2>10 DEF CallOK, AccessGated, Modest
  <2>12. FsOK'
    BY <1>5, FsKept DEF Inv
  <2> QED
    BY <1>1, <1>2, <1>5, <2>3, <2>4, <2>11, <2>12, GoesOnWith DEF Kinds
<1> QED
  BY <1>3, <1>4, <1>5 DEF Trailing

\* The second path of a rename.
LEMMA TrailingToActs ==
    ASSUME Inv, NEW t \in Threads, TrailingTo(t)
    PROVE  Acts(t)
<1> DEFINE o == call[t]
           d == DirAt(o.toLoc)
<1>1. /\ o \in Calls /\ o.pc = "trailingTo" /\ CallOK(t, o, table) /\ o.op = "rename"
      /\ o.ret = NoFd /\ o.access = {} /\ o.name \in Names /\ o.toName \in Names
      /\ o.close \subseteq Fds
  BY DEF Inv, TrailingTo, At, CallOK, Progress, Calls
<1>2. d = Nowhere \/ d \in Dirs
  BY DEF DirAt
<1>3. CASE Fail(t, [o EXCEPT !.close = {}])
  <2>1. Losing([op |-> o.op, pc |-> o.pc, result |-> "ERROR"])
    BY <1>1 DEF Losing
  <2> QED
    BY <1>1, <1>3, <2>1, Fails
<1>4. ASSUME ~Full, d # Nowhere, table' = Opened(t, "dir", d),
             Go(t, [o EXCEPT !.pc = "toolarge", !.close = {}]), KeepFs, KeepBounds
      PROVE  Acts(t)
  <2> DEFINE c == [o EXCEPT !.pc = "toolarge", !.close = {}]
  <2>2. /\ c \in Calls /\ c.pc = "toolarge" /\ c.op = "rename" /\ c.close = {}
        /\ c.ret = NoFd /\ c.access = {} /\ c.robbed = call[t].robbed /\ c.name = o.name /\ c.toName = o.toName
    BY <1>1 DEF Calls, Points
  <2>3. Go(t, c)
    BY <1>4
  <2> HIDE DEF c, d
  <2>4. Holding(t, c, table')
    BY <1>1, <1>2, <1>4, <2>2, HoldsMore DEF Kinds
  <2>5. Progress(c)
    BY <1>1, <2>2 DEF Progress
  <2>6. /\ Temporary(c, table') /\ Source(c, table') /\ Target(c, table')
        /\ SourceAsked(c, table') /\ TargetAsked(c, table') /\ OpenGated(c, table')
    BY <2>2 DEF Temporary, Source, Target, SourceAsked, TargetAsked, OpenGated
  <2>7. CallOK(t, c, table')
    BY <2>2, <2>4, <2>5, <2>6 DEF CallOK, AccessGated, Modest
  <2>8. FsOK'
    BY <1>4, FsKept DEF Inv
  <2> QED
    BY <1>1, <1>2, <1>4, <2>2, <2>3, <2>7, <2>8, GoesOnWith DEF Kinds
<1>5. ASSUME ~Full, d # Nowhere, table' = Opened(t, "dir", d),
             Go(t, [o EXCEPT !.pc = "gateTo", !.b = [fd |-> NewFd, name |-> o.toName],
                             !.close = @ \cup {NewFd}]),
             KeepFs, KeepBounds
      PROVE  Acts(t)
  <2> DEFINE c == [o EXCEPT !.pc = "gateTo", !.b = [fd |-> NewFd, name |-> o.toName],
                            !.close = @ \cup {NewFd}]
  <2>1. NewFd \in Fds
    BY <1>5, NewFdFree
  <2>2. [fd |-> NewFd, name |-> o.toName] \in Pathfds
    BY <1>1, <2>1 DEF Pathfds, ObjNames
  <2>3. /\ c \in Calls /\ c.pc = "gateTo" /\ c.op = "rename" /\ c.close = o.close \cup {NewFd}
        /\ c.ret = NoFd /\ c.access = {} /\ c.robbed = call[t].robbed /\ c.a = o.a /\ c.name = o.name
        /\ c.b.fd = NewFd /\ c.b.name = o.toName /\ c.toName = o.toName /\ c.gates = o.gates
    BY <1>1, <2>1, <2>2 DEF Calls, Points
  <2>4. Go(t, c)
    BY <1>5
  <2> HIDE DEF c, d
  <2>6. /\ Holding(t, c, table') /\ (~c.robbed => \A fd \in o.close : table'[fd] = table[fd])
        /\ table'[NewFd].what = "dir"
    BY <1>1, <1>2, <1>5, <2>3, HoldsMore DEF Kinds
  <2>7. Progress(c)
    BY <1>1, <2>3 DEF Progress
  <2>8. Source(c, table') /\ (~o.robbed => o.a.fd \in o.close)
    BY <1>1, <2>3, <2>6 DEF CallOK, Source
  <2>9. Target(c, table')
    <3>1. o.toName # NoName
      BY <1>1, StdFsAssumption
    <3> QED
      BY <2>3, <2>6, <3>1 DEF Target
  <2>10. SourceAsked(c, table')
    <3>1. GateMode(o) = {"MOVE"} /\ GateMode(c) = {"MOVE"}
      BY <1>1, <2>3 DEF GateMode
    <3> QED
      BY <1>1, <2>3, <2>6, <2>8, <3>1 DEF CallOK, SourceAsked
  <2>11. Temporary(c, table') /\ TargetAsked(c, table') /\ OpenGated(c, table')
    BY <2>3 DEF Temporary, TargetAsked, OpenGated
  <2>12. CallOK(t, c, table')
    BY <2>3, <2>6, <2>7, <2>8, <2>9, <2>10, <2>11 DEF CallOK, AccessGated, Modest
  <2>13. FsOK'
    BY <1>5, FsKept DEF Inv
  <2> QED
    BY <1>1, <1>2, <1>5, <2>3, <2>4, <2>12, <2>13, GoesOnWith DEF Kinds
<1> QED
  BY <1>3, <1>4, <1>5 DEF TrailingTo

\* A name that is too large.
LEMMA TooLargeActs ==
    ASSUME Inv, NEW t \in Threads, TooLarge(t) \/ Rejected(t)
    PROVE  Acts(t)
BY FailsPlainly DEF TooLarge, Rejected, At

\* What a request shows and stands for.
LEMMA GrantedFields ==
    ASSUME Inv, NEW pathfd \in Pathfds, NEW mode \in SUBSET Modes
    PROVE  /\ Granted(pathfd, mode) \in Gates
           /\ Granted(pathfd, mode).id = table[pathfd.fd].id
           /\ Granted(pathfd, mode).name = pathfd.name
           /\ Granted(pathfd, mode).mode = mode
<1>1. /\ pathfd.fd \in Fds /\ pathfd.name \in ObjNames
      /\ table[pathfd.fd] \in Descriptors /\ DescriptorOK(table[pathfd.fd])
      /\ at \in [Dirs -> Locs] /\ place \in [Nodes -> Entries]
  BY DEF Pathfds, Inv, TableOK, FsOK, PlaceOK
<1>2. Referenced(pathfd) \in Where
  <2>1. CASE table[pathfd.fd].what = "dir"
    BY <1>1, <2>1 DEF Referenced, DescriptorOK, Where
  <2>2. CASE table[pathfd.fd].what = "node"
    <3>1. place[table[pathfd.fd].id] \in Entries
      BY <1>1, <2>2 DEF DescriptorOK
    <3> QED
      BY <2>2, <3>1 DEF Referenced, Where, Entries
  <2>3. CASE table[pathfd.fd].what \notin {"dir", "node"}
    BY <2>3 DEF Referenced, Where, ObjNames
  <2> QED
    BY <2>1, <2>2, <2>3
<1>3. TruePath(Referenced(pathfd)) \in Paths
  BY <1>1, <1>2 DEF TruePath, Where, Paths
<1>4. fdpathctor(pathfd) \in Paths
  BY <1>1, <1>3 DEF fdpathctor, Paths
<1>5. table[pathfd.fd].id \in Dirs \cup Nodes \cup {Nowhere}
  BY <1>1 DEF Descriptors
<1> QED
  BY <1>1, <1>3, <1>4, <1>5 DEF Granted, Gates

\* What is asked for.
LEMMA GateModeTyped ==
    ASSUME NEW c \in Calls, c.op \in {"open", "opentemp", "remove", "rename", "fsrequest"}
    PROVE  GateMode(c) \subseteq Modes
<1>1. c.flags.acc \in {"r", "w", "rw"}
  BY DEF Calls, Flags
<1>2. Access(c.flags.acc) \subseteq {"READ", "WRITE"}
  BY <1>1 DEF Access
<1>3. OpenMode(c.flags, c.a.name = NoName) \subseteq Modes
  BY <1>2 DEF OpenMode, Modes
<1> QED
  BY <1>3 DEF GateMode, Modes

\* gh_perms_gatefile and gh_perms_fsrequest.
LEMMA GateActs ==
    ASSUME Inv, NEW t \in Threads, Gate(t)
    PROVE  Acts(t)
<1> DEFINE o == call[t]
<1>1. /\ o \in Calls /\ o.pc = "gate" /\ CallOK(t, o, table)
      /\ o.op \in {"open", "opentemp", "fsrequest", "remove", "rename"}
      /\ o.ret = NoFd /\ o.access = {} /\ o.name \in Names
      /\ o.op = "open" => o.flags \in OpenFlags
      /\ o.op = "rename" => o.toName \in Names
      /\ o.a \in Pathfds
  BY DEF Inv, Gate, At, CallOK, Progress, Calls
<1>2. CASE Fail(t, o)
  BY <1>1, <1>2, FailsPlainly
<1>3. ASSUME o.op = "fsrequest", Finish(t, o), KeepFs, KeepBounds
      PROVE  Acts(t)
  <2>1. \A fd \in o.close : table[fd].owner = t \/ (fd = 0 /\ Strays(o))
    BY <1>1 DEF CallOK, Holding, Astray, Strays
  <2>2. \A fd \in Fds : table[fd].owner = t => fd \in o.close \cup {o.ret}
    BY <1>1, <1>3 DEF CallOK, Holding, Astray
  <2>3. FsOK' /\ AccessGated(o)
    BY <1>1, <1>3, FsKept DEF Inv, AccessGated, Modest
  <2> QED
    BY <1>1, <1>3, <2>1, <2>2, <2>3, Finishes
<1>4. ASSUME o.op # "fsrequest",
             Go(t, [o EXCEPT !.pc = IF o.op = "rename" THEN "trailingTo" ELSE "act",
                             !.gates = {Granted(o.a, GateMode(o))}]),
             table' = table, KeepFs, KeepBounds
      PROVE  Acts(t)
  <2> DEFINE gate == Granted(o.a, GateMode(o))
             next == IF o.op = "rename" THEN "trailingTo" ELSE "act"
             c == [o EXCEPT !.pc = next, !.gates = {gate}]
  <2>1. /\ gate \in Gates /\ gate.id = table[o.a.fd].id /\ gate.name = o.a.name
        /\ gate.mode = GateMode(o)
    BY <1>1, GateModeTyped, GrantedFields
  <2>2. next \in {"trailingTo", "act"} /\ (o.op = "rename" <=> next = "trailingTo")
    OBVIOUS
  <2>3. Go(t, c)
    BY <1>4
  <2> HIDE DEF gate, next
  <2>4. /\ c \in Calls /\ c.pc = next /\ c.op = o.op /\ c.close = o.close
        /\ c.ret = NoFd /\ c.access = {} /\ c.robbed = call[t].robbed /\ c.a = o.a /\ c.name = o.name
        /\ c.b = o.b /\ c.flags = o.flags /\ c.toName = o.toName /\ c.gates = {gate}
    BY <1>1, <2>1, <2>2 DEF Calls, Points
  <2> HIDE DEF c
  <2>5. GateMode(c) = GateMode(o)
    BY <1>1, <2>4 DEF GateMode
  <2>6. Holding(t, c, table)
    BY <1>1, <2>2, <2>4 DEF CallOK, Holding, Astray
  <2>7. Progress(c)
    BY <1>1, <1>4, <2>2, <2>4 DEF Progress
  <2>8. Temporary(c, table) /\ Source(c, table)
    BY <1>1, <2>2, <2>4 DEF CallOK, Temporary, Source
  <2>9. SourceAsked(c, table)
    BY <2>1, <2>4, <2>5 DEF SourceAsked
  <2>10. Target(c, table) /\ TargetAsked(c, table) /\ OpenGated(c, table)
    BY <2>2, <2>4 DEF Target, TargetAsked, OpenGated
  <2>11. CallOK(t, c, table)
    BY <2>4, <2>6, <2>7, <2>8, <2>9, <2>10 DEF CallOK, AccessGated, Modest
  <2>12. FsOK'
    BY <1>4, FsKept DEF Inv
  <2> QED
    BY <1>1, <1>4, <2>2, <2>3, <2>4, <2>11, <2>12, GoesOn
<1> QED
  BY <1>2, <1>3, <1>4 DEF Gate

\* The second gate of a rename.
LEMMA GateToActs ==
    ASSUME Inv, NEW t \in Threads, GateTo(t)
    PROVE  Acts(t)
<1> DEFINE o == call[t]
<1>1. /\ o \in Calls /\ o.pc = "gateTo" /\ CallOK(t, o, table) /\ o.op = "rename"
      /\ o.ret = NoFd /\ o.access = {} /\ o.name \in Names /\ o.toName \in Names
      /\ o.b \in Pathfds /\ o.gates \subseteq Gates
  BY DEF Inv, GateTo, At, CallOK, Progress, Calls
<1>2. CASE Fail(t, o)
  BY <1>1, <1>2, FailsPlainly
<1>3. ASSUME Go(t, [o EXCEPT !.pc = "act", !.gates = @ \cup {Granted(o.b, {"CREATEFILE"})}]),
             table' = table, KeepFs, KeepBounds
      PROVE  Acts(t)
  <2> DEFINE gate == Granted(o.b, {"CREATEFILE"})
             c == [o EXCEPT !.pc = "act", !.gates = @ \cup {gate}]
  <2>1. /\ gate \in Gates /\ gate.id = table[o.b.fd].id /\ gate.name = o.b.name
        /\ gate.mode = {"CREATEFILE"}
    BY <1>1, GrantedFields DEF Modes
  <2>2. Go(t, c)
    BY <1>3
  <2> HIDE DEF gate
  <2>3. /\ c \in Calls /\ c.pc = "act" /\ c.op = "rename" /\ c.close = o.close
        /\ c.ret = NoFd /\ c.access = {} /\ c.robbed = call[t].robbed /\ c.a = o.a /\ c.name = o.name
        /\ c.b = o.b /\ c.toName = o.toName /\ c.gates = o.gates \cup {gate}
    BY <1>1, <2>1 DEF Calls, Points
  <2> HIDE DEF c
  <2>4. GateMode(c) = GateMode(o)
    BY <1>1, <2>3 DEF GateMode
  <2>5. Holding(t, c, table)
    BY <1>1, <2>3 DEF CallOK, Holding, Astray
  <2>6. Progress(c)
    BY <1>1, <2>3 DEF Progress
  <2>7. Temporary(c, table) /\ Source(c, table) /\ Target(c, table) /\ OpenGated(c, table)
    BY <1>1, <2>3 DEF CallOK, Temporary, Source, Target, OpenGated
  <2>8. SourceAsked(c, table)
    BY <1>1, <2>3, <2>4 DEF CallOK, SourceAsked
  <2>9. TargetAsked(c, table)
    BY <2>1, <2>3 DEF TargetAsked
  <2>10. CallOK(t, c, table)
    BY <2>3, <2>5, <2>6, <2>7, <2>8, <2>9 DEF CallOK, AccessGated, Modest
  <2>11. FsOK'
    BY <1>3, FsKept DEF Inv
  <2> QED
    BY <1>1, <1>3, <2>2, <2>3, <2>10, <2>11, GoesOn
<1> QED
  BY <1>2, <1>3 DEF GateTo

\* gh_std_execute opens the shell.
LEMMA OpenShellActs ==
    ASSUME Inv, NEW t \in Threads, OpenShell(t)
    PROVE  Acts(t)
<1> DEFINE o == call[t]
<1>1. /\ o \in Calls /\ o.pc = "shell" /\ CallOK(t, o, table) /\ o.op \in {"execute", "popen"}
      /\ o.ret = NoFd /\ o.access = {}
  BY DEF Inv, OpenShell, At, CallOK, Progress, Calls
<1>2. CASE Full
  BY <1>1, <1>2, FailsPlainly DEF OpenShell
<1>3. CASE ~Full
  <2> DEFINE c == [o EXCEPT !.pc = "gateexec", !.a.fd = NewFd, !.close = {NewFd}]
  <2>1. NewFd \in Fds
    BY <1>3, NewFdFree
  <2>2. /\ c \in Calls /\ c.pc = "gateexec" /\ c.op = o.op /\ c.close = {NewFd}
        /\ c.ret = NoFd /\ c.access = {} /\ c.robbed = call[t].robbed
    BY <1>1, <2>1 DEF Calls, Pathfds, Points
  <2>3. Go(t, c) /\ table' = Opened(t, "shell", Nowhere) /\ KeepFs /\ KeepBounds
    BY <1>3 DEF OpenShell
  <2> HIDE DEF c
  <2>4. /\ TableOK(table') /\ Touches(t)
        /\ NewFd \in Fds /\ table'[NewFd].owner = t
        /\ \A fd \in Fds \ {NewFd} : table'[fd] = table[fd]
    BY <1>3, <2>3, OpenTable DEF Inv, Kinds
  <2>5. Holding(t, c, table')
    BY <1>1, <2>2, <2>4 DEF Holding
  <2>6. Progress(c)
    BY <1>1, <2>2 DEF Progress
  <2>7. /\ Temporary(c, table') /\ Source(c, table') /\ Target(c, table')
        /\ SourceAsked(c, table') /\ TargetAsked(c, table') /\ OpenGated(c, table')
    BY <2>2 DEF Temporary, Source, Target, SourceAsked, TargetAsked, OpenGated
  <2>8. CallOK(t, c, table')
    BY <2>2, <2>5, <2>6, <2>7 DEF CallOK, AccessGated, Modest
  <2>9. FsOK'
    BY <2>3, FsKept DEF Inv
  <2> QED
    BY <1>1, <2>2, <2>3, <2>4, <2>8, <2>9, GoMeans, OwnCall DEF Inv
<1> QED
  BY <1>2, <1>3

\* gh_permexec_gate leaves the program open.
LEMMA GateExecActs ==
    ASSUME Inv, NEW t \in Threads, GateExec(t)
    PROVE  Acts(t)
<1> DEFINE o == call[t]
<1>1. /\ o \in Calls /\ o.pc = "gateexec" /\ CallOK(t, o, table) /\ o.op \in {"execute", "popen"}
      /\ o.ret = NoFd /\ o.access = {}
  BY DEF Inv, GateExec, At, CallOK, Progress, Calls
<1>2. CASE Full \/ table[o.a.fd] = Free
  BY <1>1, <1>2, FailsPlainly DEF GateExec
<1>3. CASE ~(Full \/ table[o.a.fd] = Free)
  <2>1. PICK pc \in {"run", "rejected"} : Go(t, [o EXCEPT !.pc = pc])
    BY <1>3 DEF GateExec
  <2> DEFINE c == [o EXCEPT !.pc = pc]
  <2>2. /\ c \in Calls /\ c.pc = pc /\ c.op = o.op /\ c.close = o.close
        /\ c.ret = NoFd /\ c.access = {} /\ c.robbed = call[t].robbed
    BY <1>1 DEF Calls, Points
  <2>3. Go(t, c) /\ table' = Opened(t, "shell", Nowhere) /\ KeepFs /\ KeepBounds
    BY <1>3, <2>1 DEF GateExec
  <2> HIDE DEF c
  <2>4. Holding(t, c, table')
    BY <1>1, <1>3, <2>2, <2>3, HoldsMore DEF Kinds
  <2>5. Progress(c)
    BY <1>1, <2>2 DEF Progress
  <2>6. /\ Temporary(c, table') /\ Source(c, table') /\ Target(c, table')
        /\ SourceAsked(c, table') /\ TargetAsked(c, table') /\ OpenGated(c, table')
    BY <1>1, <2>2 DEF Temporary, Source, Target, SourceAsked, TargetAsked, OpenGated
  <2>7. CallOK(t, c, table')
    BY <2>2, <2>4, <2>5, <2>6 DEF CallOK, AccessGated, Modest
  <2>8. FsOK'
    BY <2>3, FsKept DEF Inv
  <2> QED
    BY <1>1, <1>3, <2>2, <2>3, <2>7, <2>8, GoesOnWith DEF Kinds
<1> QED
  BY <1>2, <1>3

\* openpty, fork and waitpid.
LEMMA RunActs ==
    ASSUME Inv, NEW t \in Threads, Run(t)
    PROVE  Acts(t)
<1> DEFINE o == call[t]
<1>1. /\ o \in Calls /\ o.pc = "run" /\ CallOK(t, o, table) /\ o.op \in {"execute", "popen"}
      /\ o.ret = NoFd /\ o.access = {}
  BY DEF Inv, Run, At, CallOK, Progress, Calls
<1>2. CASE Fail(t, o)
  BY <1>1, <1>2, FailsPlainly
<1>3. ASSUME Finish(t, o), KeepFs, KeepBounds
      PROVE  Acts(t)
  <2>1. \A fd \in o.close : table[fd].owner = t \/ (fd = 0 /\ Strays(o))
    BY <1>1 DEF CallOK, Holding, Astray, Strays
  <2>2. Losing([op |-> o.op, pc |-> o.pc, result |-> o.result])
    BY <1>1 DEF Losing
  <2>3. FsOK' /\ AccessGated(o)
    BY <1>1, <1>3, FsKept DEF Inv, AccessGated, Modest
  <2> QED
    BY <1>1, <1>3, <2>1, <2>2, <2>3, Finishes
<1>4. ASSUME o.op = "popen", Cardinality(FreeFds) >= 2, table' = Opened(t, "pty", Nowhere),
             Go(t, [o EXCEPT !.pc = "close", !.ret = NewFd]), KeepFs, KeepBounds
      PROVE  Acts(t)
  <2> DEFINE c == [o EXCEPT !.pc = "close", !.ret = NewFd]
  <2>1. ~Full
    BY <1>4, FS_EmptySet DEF Full
  <2>2. NewFd \in Fds /\ NewFd # NoFd
    BY <2>1, NewFdFree, Owners
  <2>3. /\ c \in Calls /\ c.pc = "close" /\ c.op = "popen" /\ c.close = o.close
        /\ c.ret = NewFd /\ c.access = {} /\ c.robbed = call[t].robbed
    BY <1>1, <1>4, <2>2 DEF Calls, Points
  <2>4. Go(t, c)
    BY <1>4
  <2> HIDE DEF c
  <2>5. Holding(t, c, table')
    BY <1>1, <1>4, <2>1, <2>3, HoldsMore DEF Kinds
  <2>6. Progress(c)
    BY <2>2, <2>3 DEF Progress
  <2>7. /\ Temporary(c, table') /\ Source(c, table') /\ Target(c, table')
        /\ SourceAsked(c, table') /\ TargetAsked(c, table') /\ OpenGated(c, table')
    BY <2>3 DEF Temporary, Source, Target, SourceAsked, TargetAsked, OpenGated
  <2>8. CallOK(t, c, table')
    BY <2>3, <2>5, <2>6, <2>7 DEF CallOK, AccessGated, Modest
  <2>9. FsOK'
    BY <1>4, FsKept DEF Inv
  <2> QED
    BY <1>1, <1>4, <2>1, <2>3, <2>4, <2>8, <2>9, GoesOnWith DEF Kinds
<1> QED
  BY <1>2, <1>3, <1>4 DEF Run

\* A name that is free is given to a node.
LEMMA Placed ==
    ASSUME PlaceOK(place), NEW node \in Nodes, NEW d \in Dirs, NEW name \in Names, ~Exists(d, name),
           place' = [place EXCEPT ![node] = [dir |-> d, name |-> name, live |-> TRUE]]
    PROVE  PlaceOK(place')
<1> DEFINE p == [dir |-> d, name |-> name, live |-> TRUE]
<1>1. /\ p \in Entries /\ p.dir = d /\ p.name = name /\ p.live
      /\ \A n \in Nodes : place[n] # p
  BY DEF Entries, ObjNames, Exists, Entry
<1>2. place' = [place EXCEPT ![node] = p]
  OBVIOUS
<1> HIDE DEF p
<1>3. /\ place' \in [Nodes -> Entries] /\ place'[node] = p
      /\ \A n \in Nodes \ {node} : place'[n] = place[n]
  BY <1>1, <1>2 DEF PlaceOK
<1>4. ASSUME NEW n \in Nodes, NEW m \in Nodes, place'[n] = place'[m], place'[n].live
      PROVE  n = m
  BY <1>1, <1>3, <1>4 DEF PlaceOK
<1> QED
  BY <1>1, <1>3, <1>4 DEF PlaceOK

\* A file is open: what is returned and what was used are what was asked about.
LEMMA Returns ==
    ASSUME Inv, NEW t \in Threads, call[t].pc = "act", call[t].op \in {"open", "opentemp"}, ~Full,
           NEW what \in Kinds, NEW id \in Dirs \cup Nodes \cup {Nowhere},
           what = "dir" => id \in Dirs, what = "node" => id \in Nodes,
           NEW where, where.dir \in Dirs \cup {Nowhere}, where.name \in ObjNames,
           NEW use \in SUBSET Modes, Return(t, call[t], what, id, where, use), FsOK',
           call[t].op = "open" /\ ~call[t].robbed /\ Links = {} =>
              \E gate \in call[t].gates :
                 IF gate.name = NoName THEN id = gate.id
                 ELSE where.dir = gate.id /\ where.name = gate.name,
           call[t].op = "open" => Modest(use, call[t])
    PROVE  Acts(t)
<1> DEFINE o == call[t]
           spot == [dir |-> where.dir, name |-> where.name]
           c == [o EXCEPT !.pc = "close", !.ret = NewFd, !.access = use, !.found = spot]
<1>1. /\ o \in Calls /\ CallOK(t, o, table) /\ o.name \in Names
      /\ o.op = "open" => o.flags \in OpenFlags
  BY DEF Inv, CallOK, Progress
<1>2. NewFd \in Fds /\ NewFd # NoFd
  BY NewFdFree, Owners
<1>3. spot \in Where /\ spot.dir = where.dir /\ spot.name = where.name
  BY DEF Where
<1>4. Go(t, c) /\ table' = Opened(t, what, id)
  BY DEF Return
<1> HIDE DEF spot
<1>5. /\ c \in Calls /\ c.pc = "close" /\ c.op = o.op /\ c.close = o.close
      /\ c.ret = NewFd /\ c.access = use /\ c.found = spot /\ c.gates = o.gates
      /\ c.name = o.name /\ c.flags = o.flags /\ c.b = o.b /\ c.robbed = o.robbed
  BY <1>1, <1>2, <1>3 DEF Calls, Points
<1> HIDE DEF c
<1>6. /\ Holding(t, c, table') /\ table'[NewFd].id = id
      /\ ~c.robbed => \A fd \in o.close : table'[fd] = table[fd]
  <2>2. o.pc \notin {"toolarge", "close", "respond"} /\ c.pc \notin {"idle", "respond"}
    BY <1>5
  <2> QED
    BY <1>4, <1>5, <2>2, HoldsMore
<1>7. Progress(c)
  BY <1>1, <1>2, <1>5 DEF Progress
<1>8. Temporary(c, table')
  BY <1>1, <1>5, <1>6 DEF CallOK, Temporary
<1>9. /\ Source(c, table') /\ Target(c, table')
      /\ SourceAsked(c, table') /\ TargetAsked(c, table')
  BY <1>5 DEF Source, Target, SourceAsked, TargetAsked
<1>10. ASSUME Links = {} PROVE OpenGated(c, table')
  <2>1. SUFFICES ASSUME o.op = "open", ~o.robbed
                 PROVE  \E gate \in o.gates :
                           IF gate.name = NoName THEN table'[NewFd].id = gate.id
                           ELSE spot = [dir |-> gate.id, name |-> gate.name]
    BY <1>5 DEF OpenGated
  <2>2. PICK gate \in o.gates : IF gate.name = NoName THEN id = gate.id
                                ELSE where.dir = gate.id /\ where.name = gate.name
    BY <1>10, <2>1
  <2>3. CASE gate.name = NoName
    BY <1>6, <2>2, <2>3
  <2>4. CASE gate.name # NoName
    BY <2>2, <2>4 DEF spot
  <2> QED
    BY <2>3, <2>4
<1>11. AccessGated(c)
  <2>1. CASE o.op = "open"
    BY <1>5, <2>1 DEF AccessGated, Modest
  <2>2. CASE o.op = "opentemp"
    BY <1>5, <2>2 DEF AccessGated
  <2> QED
    BY <2>1, <2>2
<1>12. CallOK(t, c, table')
  BY <1>6, <1>7, <1>8, <1>9, <1>10, <1>11 DEF CallOK
<1> QED
  BY <1>4, <1>5, <1>12, GoesOnWith

\* What open(2) does with the flags are accesses.
LEMMA OpenUseTyped ==
    ASSUME NEW flags \in Flags, NEW created \in BOOLEAN
    PROVE  OpenUse(flags, created) \subseteq Modes
<1>1. flags.acc \in {"r", "w", "rw"}
  BY DEF Flags
<1>2. Access(flags.acc) \subseteq {"READ", "WRITE"}
  BY <1>1 DEF Access
<1> QED
  BY <1>2 DEF OpenUse, Modes

\* ghost.open asks for all that open(2) does, except for the truncation.
LEMMA OpenAsks ==
    ASSUME NEW flags \in Flags, NEW created \in BOOLEAN, NEW exists \in BOOLEAN,
           created => flags.creat /\ ~exists
    PROVE  OpenUse(flags, created) \subseteq OpenMode(flags, exists) \cup {"TRUNCATE"}
BY DEF OpenUse, OpenMode

\* openat by a name in a directory: the place of what is opened, and of nothing else.
LEMMA OpensByName ==
    ASSUME Inv, NEW t \in Threads, call[t].pc = "act", call[t].op \in {"open", "opentemp"}, ~Full,
           NEW d \in Dirs \cup {Nowhere}, NEW name \in Names, NEW flags \in Flags,
           OpenByName(t, call[t], d, name, flags),
           call[t].op = "open" =>
              /\ flags = call[t].flags /\ call[t].flags.creat
              /\ \E gate \in call[t].gates :
                    /\ gate.name = name /\ gate.mode = GateMode(call[t])
                    /\ ~call[t].robbed => gate.id = d
              /\ call[t].a.name # NoName
    PROVE  /\ Acts(t)
           /\ \A n \in Nodes : place'[n] # place[n] =>
                 place[n] = NoPlace /\ place'[n].dir = d /\ place'[n].name = name
<1> DEFINE o == call[t]
<1>1. /\ place \in [Nodes -> Entries] /\ PlaceOK(place) /\ FsOK /\ LinkTo \in Nodes
      /\ name # NoName /\ "node" \in Kinds
  BY StdFsAssumption DEF Inv, FsOK, PlaceOK, Kinds
<1>2. ASSUME o.op = "open", NEW created \in BOOLEAN
      PROVE  Modest(OpenUse(flags, created), o)
  <2>2. GateMode(o) = OpenMode(flags, FALSE)
    BY <1>2 DEF GateMode
  <2>3. OpenUse(flags, created) \subseteq GateMode(o) \cup {"TRUNCATE"}
    BY <1>2, <2>2, OpenAsks
  <2> QED
    BY <1>2, <2>3 DEF Modest
<1>3. ASSUME Exists(d, name), KeepFs,
             NEW node, node = IF NodeAt(d, name) \in Links THEN LinkTo ELSE NodeAt(d, name),
             Return(t, o, "node", node, place[node], OpenUse(flags, FALSE))
      PROVE  Acts(t)
  <2>1. NodeAt(d, name) \in Nodes /\ place[NodeAt(d, name)] = [dir |-> d, name |-> name, live |-> TRUE]
    BY <1>3 DEF Exists, NodeAt, Entry
  <2>2. node \in Nodes /\ place[node] \in Entries
    BY <1>1, <1>3, <2>1
  <2>3. place[node].dir \in Dirs \cup {Nowhere} /\ place[node].name \in ObjNames
    BY <2>2 DEF Entries
  <2>4. Links = {} => place[node].dir = d /\ place[node].name = name
    BY <1>3, <2>1
  <2>5. FsOK'
    BY <1>1, <1>3, FsKept DEF Return
  <2>6. OpenUse(flags, FALSE) \subseteq Modes
    BY OpenUseTyped
  <2>7. o.op = "open" /\ ~o.robbed /\ Links = {} =>
           \E gate \in o.gates : IF gate.name = NoName THEN node = gate.id
                                 ELSE place[node].dir = gate.id /\ place[node].name = gate.name
    BY <1>1, <2>4
  <2>8. node \in Dirs \cup Nodes \cup {Nowhere}
    BY <2>2
  <2>9. o.op = "open" => Modest(OpenUse(flags, FALSE), o)
    BY <1>2
  <2> QED
    BY <1>1, <1>3, <2>2, <2>3, <2>5, <2>6, <2>7, <2>8, <2>9, Returns
<1>4. ASSUME d # Nowhere, ~Exists(d, name), Unused # {}, UNCHANGED at,
             NEW node, node = CHOOSE n \in Unused : TRUE,
             Return(t, o, "node", node, [dir |-> d, name |-> name], OpenUse(flags, TRUE)),
             place' = [place EXCEPT ![node] = [dir |-> d, name |-> name, live |-> TRUE]]
      PROVE  /\ Acts(t)
             /\ \A n \in Nodes : place'[n] # place[n] =>
                   place[n] = NoPlace /\ place'[n].dir = d /\ place'[n].name = name
  <2>1. node \in Nodes /\ place[node] = NoPlace
    BY <1>4 DEF Unused
  <2>2. PlaceOK(place')
    BY <1>1, <1>4, <2>1, Placed
  <2>3. FsOK'
    BY <1>1, <1>4, <2>2 DEF FsOK, Return, KeepBounds
  <2>4. OpenUse(flags, TRUE) \subseteq Modes
    BY OpenUseTyped
  <2>5. /\ [dir |-> d, name |-> name].dir \in Dirs \cup {Nowhere}
        /\ [dir |-> d, name |-> name].name \in ObjNames
    BY DEF ObjNames
  <2>6. o.op = "open" /\ ~o.robbed /\ Links = {} =>
           \E gate \in o.gates :
              IF gate.name = NoName THEN node = gate.id
              ELSE [dir |-> d, name |-> name].dir = gate.id /\ [dir |-> d, name |-> name].name = gate.name
    BY <1>1
  <2>7. o.op = "open" => Modest(OpenUse(flags, TRUE), o)
    BY <1>2
  <2>8. node \in Dirs \cup Nodes \cup {Nowhere}
    BY <2>1
  <2>9. Acts(t)
    BY <1>1, <1>4, <2>1, <2>3, <2>4, <2>5, <2>6, <2>7, <2>8, Returns
  <2>10. \A n \in Nodes : place'[n] # place[n] =>
            place[n] = NoPlace /\ place'[n].dir = d /\ place'[n].name = name
    BY <1>1, <1>4, <2>1
  <2> QED
    BY <2>9, <2>10
<1>5. ASSUME Fail(t, o)
      PROVE  Acts(t) /\ place' = place
  BY <1>5, FailsPlainly DEF Fail, KeepFs
<1>6. CASE Exists(d, name)
  BY <1>3, <1>5, <1>6 DEF OpenByName, KeepFs
<1>7. CASE ~Exists(d, name)
  BY <1>4, <1>5, <1>7 DEF OpenByName
<1> QED
  BY <1>6, <1>7

\* What a step changes in the file system its call has asked about, unless it was robbed.
ChangesGated(t) ==
    \A n \in Nodes : place'[n] # place[n] /\ call[t].op # "opentemp" /\ ~call[t].robbed =>
       \A p \in {place[n], place'[n]} \ {NoPlace} :
          \E gate \in call[t].gates : p.dir = gate.id /\ p.name = gate.name

\* A step that leaves the file system alone.
LEMMA NothingChanged ==
    ASSUME NEW t \in Threads, place' = place
    PROVE  ChangesGated(t)
BY DEF ChangesGated

\* ghost.open
LEMMA ActOpenActs ==
    ASSUME Inv, NEW t \in Threads, ActOpen(t)
    PROVE  Acts(t) /\ ChangesGated(t)
<1> DEFINE o == call[t]
           object == table[o.a.fd]
<1>1. /\ o \in Calls /\ o.pc = "act" /\ o.op = "open" /\ CallOK(t, o, table)
      /\ o.flags \in OpenFlags /\ o.flags \in Flags /\ o.a.fd \in Fds /\ o.a.name \in ObjNames
  BY DEF Inv, ActOpen, At, CallOK, Progress, Calls, Pathfds
<1>2. PICK gate \in o.gates :
         /\ gate.name = o.a.name /\ gate.mode = GateMode(o)
         /\ ~o.robbed => gate.id = object.id
  BY <1>1 DEF CallOK, SourceAsked
<1>3. object \in Descriptors /\ DescriptorOK(object) /\ TableOK(table)
  BY <1>1 DEF Inv, TableOK
<1>4. ASSUME Fail(t, o) PROVE Acts(t) /\ ChangesGated(t)
  BY <1>1, <1>4, FailsPlainly, NothingChanged DEF Fail, KeepFs
<1>5. ASSUME ~Full, o.a.name = NoName, KeepFs, NEW where,
             where.dir \in Dirs \cup {Nowhere}, where.name \in ObjNames,
             Return(t, o, object.what, object.id, where, OpenUse(o.flags, FALSE))
      PROVE  Acts(t) /\ ChangesGated(t)
  <2>1. /\ object.what \in Kinds /\ object.id \in Dirs \cup Nodes \cup {Nowhere}
        /\ object.what = "dir" => object.id \in Dirs
        /\ object.what = "node" => object.id \in Nodes
    BY <1>3 DEF Descriptors, DescriptorOK
  <2>2. OpenUse(o.flags, FALSE) \subseteq Modes
    BY <1>1, OpenUseTyped
  <2>3. OpenUse(o.flags, FALSE) \subseteq gate.mode \cup {"TRUNCATE"}
    <3>1. GateMode(o) = OpenMode(o.flags, TRUE)
      BY <1>1, <1>5 DEF GateMode
    <3> QED
      BY <1>1, <1>2, <3>1, OpenAsks
  <2>4. FsOK'
    BY <1>5, FsKept DEF Inv, Return
  <2>5. ~o.robbed => \E g \in o.gates : IF g.name = NoName THEN object.id = g.id
                                        ELSE where.dir = g.id /\ where.name = g.name
    BY <1>2, <1>5
  <2>6. Modest(OpenUse(o.flags, FALSE), o)
    BY <1>1, <1>2, <2>3 DEF Modest
  <2> HIDE DEF object
  <2>7. Acts(t)
    BY <1>1, <1>5, <2>1, <2>2, <2>4, <2>5, <2>6, Returns
  <2> QED
    BY <1>5, <2>7, NothingChanged DEF KeepFs
<1>6. ASSUME ~Full, o.a.name = NoName, object.what = "node", KeepFs,
             Return(t, o, "node", object.id, place[object.id], OpenUse(o.flags, FALSE))
      PROVE  Acts(t) /\ ChangesGated(t)
  <2>1. object.id \in Nodes
    BY <1>3, <1>6 DEF DescriptorOK
  <2>2. place[object.id] \in Entries
    BY <2>1 DEF Inv, FsOK, PlaceOK
  <2>3. place[object.id].dir \in Dirs \cup {Nowhere} /\ place[object.id].name \in ObjNames
    BY <2>2 DEF Entries
  <2> QED
    BY <1>5, <1>6, <2>3
<1>7. ASSUME ~Full, o.a.name = NoName, KeepFs,
             Return(t, o, object.what, object.id, NoPlace, OpenUse(o.flags, FALSE))
      PROVE  Acts(t) /\ ChangesGated(t)
  <2>1. NoPlace.dir \in Dirs \cup {Nowhere} /\ NoPlace.name \in ObjNames
    BY DEF NoPlace, ObjNames
  <2> QED
    BY <1>5, <1>7, <2>1
<1>8. ASSUME ~Full, o.a.name # NoName, OpenByName(t, o, DirOf(o.a.fd), o.a.name, o.flags)
      PROVE  Acts(t) /\ ChangesGated(t)
  <2> DEFINE d == DirOf(o.a.fd)
  <2>1. /\ o.flags.creat /\ o.a.name \in Names
        /\ ~o.robbed => object.what = "dir"
    BY <1>1, <1>8 DEF CallOK, Source, ObjNames
  <2>2. d \in Dirs \cup {Nowhere} /\ (~o.robbed => d = object.id)
    BY <1>1, <1>3, <2>1, DirOfTyped
  <2>3. OpenByName(t, o, d, o.a.name, o.flags)
    BY <1>8
  <2> HIDE DEF d, object
  <2>4. /\ Acts(t)
        /\ \A n \in Nodes : place'[n] # place[n] =>
              place[n] = NoPlace /\ place'[n].dir = d /\ place'[n].name = o.a.name
    BY <1>1, <1>2, <1>8, <2>1, <2>2, <2>3, OpensByName
  <2> QED
    BY <1>2, <2>2, <2>4 DEF ChangesGated
<1> QED
  BY <1>4, <1>6, <1>7, <1>8 DEF ActOpen, Reopen

\* ghost.opentemp
LEMMA ActTempActs ==
    ASSUME Inv, NEW t \in Threads, ActTemp(t)
    PROVE  Acts(t) /\ ChangesGated(t)
<1> DEFINE o == call[t]
           flags == [o.flags EXCEPT !.acc = "rw", !.trunc = FALSE, !.append = FALSE]
<1>1. /\ o \in Calls /\ o.pc = "act" /\ o.op = "opentemp" /\ CallOK(t, o, table)
      /\ o.name \in Names /\ o.flags \in Flags
  BY DEF Inv, ActTemp, At, CallOK, Progress, Calls
<1>2. ChangesGated(t)
  BY <1>1 DEF ChangesGated
<1>3. CASE Full
  BY <1>1, <1>2, <1>3, FailsPlainly DEF ActTemp
<1>4. CASE ~Full
  <2> DEFINE d == DirOf(o.b.fd)
  <2>1. d \in Dirs \cup {Nowhere}
    <3>1. o.b.fd \in Fds
      BY <1>1 DEF Calls, Pathfds
    <3> QED
      BY <3>1, DirOfTyped DEF Inv
  <2>2. flags \in Flags
    BY <1>1 DEF Flags
  <2>3. OpenByName(t, o, d, o.name, flags)
    BY <1>4 DEF ActTemp
  <2> HIDE DEF flags, d
  <2>4. Acts(t)
    BY <1>1, <1>4, <2>1, <2>2, <2>3, OpensByName
  <2> QED
    BY <1>2, <2>4
<1> QED
  BY <1>3, <1>4

\* A name is removed.
LEMMA Unlinked ==
    ASSUME PlaceOK(place), NEW gone \in SUBSET Nodes,
           place' = [n \in Nodes |-> IF n \in gone THEN [place[n] EXCEPT !.live = FALSE] ELSE place[n]]
    PROVE  /\ PlaceOK(place')
           /\ \A n \in Nodes : place'[n].dir = place[n].dir /\ place'[n].name = place[n].name
<1>1. ASSUME NEW n \in Nodes
      PROVE  /\ place'[n] \in Entries
             /\ place'[n].dir = place[n].dir /\ place'[n].name = place[n].name
             /\ place'[n].live => place'[n] = place[n]
             /\ place[n] = NoPlace => place'[n] = NoPlace
  <2>1. place[n] \in Entries
    BY DEF PlaceOK
  <2>2. CASE n \in gone
    <3>1. place'[n] = [place[n] EXCEPT !.live = FALSE]
      BY <2>2
    <3>2. /\ place'[n] \in Entries /\ place'[n].live = FALSE
          /\ place'[n].dir = place[n].dir /\ place'[n].name = place[n].name
      BY <2>1, <3>1 DEF Entries
    <3>3. place[n] = NoPlace => place'[n] = NoPlace
      <4>1. \A e \in Entries :
               e.dir = Nowhere /\ e.name = NoName /\ e.live = FALSE => e = NoPlace
        BY DEF Entries, NoPlace
      <4>2. NoPlace.dir = Nowhere /\ NoPlace.name = NoName
        BY DEF NoPlace
      <4> QED
        BY <3>2, <4>1, <4>2, Zenon
    <3> QED
      BY <3>2, <3>3
  <2>3. CASE n \notin gone
    <3>1. place'[n] = place[n]
      BY <2>3
    <3> QED
      BY <2>1, <3>1
  <2> QED
    BY <2>2, <2>3
<1>2. place' \in [Nodes -> Entries]
  BY <1>1
<1>3. ASSUME NEW n \in Nodes, NEW m \in Nodes, place'[n] = place'[m], place'[n].live
      PROVE  n = m
  <2>1. place'[n] = place[n] /\ place'[m] = place[m]
    BY <1>1, <1>3
  <2> QED
    BY <1>3, <2>1 DEF PlaceOK
<1> QED
  BY <1>1, <1>2, <1>3 DEF PlaceOK

\* ghost.remove
LEMMA ActRemoveActs ==
    ASSUME Inv, NEW t \in Threads, ActRemove(t)
    PROVE  Acts(t) /\ ChangesGated(t)
<1> DEFINE o == call[t]
           d == DirOf(o.a.fd)
<1>1. /\ o \in Calls /\ o.pc = "act" /\ o.op = "remove" /\ CallOK(t, o, table) /\ o.ret = NoFd
  BY DEF Inv, ActRemove, At, CallOK, Progress
<1>2. PICK gate \in o.gates : /\ gate.name = o.a.name /\ gate.mode = {"UNLINK"}
                              /\ ~o.robbed => gate.id = d
  <2>1. ~o.robbed => d = table[o.a.fd].id
    BY <1>1, DirOfTyped DEF Inv, CallOK, Source, Calls, Pathfds
  <2> QED
    BY <1>1, <2>1 DEF CallOK, SourceAsked, GateMode
<1>3. CASE Removed(o) = {}
  <2>1. Fail(t, [o EXCEPT !.close = {}])
    BY <1>3 DEF ActRemove
  <2>2. Losing([op |-> o.op, pc |-> o.pc, result |-> "ERROR"])
    BY <1>1 DEF Losing
  <2>3. {} \in SUBSET Fds /\ o.pc \notin {"idle", "close", "respond"}
    BY <1>1
  <2>4. Acts(t)
    BY <2>1, <2>2, <2>3, Fails
  <2> QED
    BY <2>1, <2>4, NothingChanged DEF Fail, KeepFs
<1>4. CASE Removed(o) # {}
  <2> DEFINE c == [o EXCEPT !.access = {"UNLINK"}]
  <2>1. /\ c \in Calls /\ c.op = "remove" /\ c.pc = "act" /\ c.close = o.close /\ c.ret = NoFd
        /\ c.gates = o.gates /\ c.access = {"UNLINK"}
    BY <1>1 DEF Calls, Modes
  <2>2. /\ place' = [n \in Nodes |-> IF n \in Removed(o) THEN [place[n] EXCEPT !.live = FALSE] ELSE place[n]]
        /\ Finish(t, c) /\ at' = at /\ KeepBounds
    BY <1>4 DEF ActRemove
  <2> HIDE DEF c
  <2>3. /\ \A fd \in c.close : table[fd].owner = t \/ (fd = 0 /\ Strays(o))
        /\ \A fd \in Fds : table[fd].owner = t => fd \in c.close \cup {c.ret}
    BY <1>1, <2>1 DEF CallOK, Holding, Astray, Strays
  <2>4. AccessGated(c)
    BY <1>2, <2>1 DEF AccessGated, Modest
  <2>5. /\ PlaceOK(place')
        /\ \A n \in Nodes : place'[n].dir = place[n].dir /\ place'[n].name = place[n].name
    <3>1. Removed(o) \subseteq Nodes /\ PlaceOK(place)
      BY DEF Removed, Entry, Inv, FsOK
    <3> QED
      BY <2>2, <3>1, Unlinked
  <2>6. FsOK'
    BY <2>2, <2>5 DEF Inv, FsOK, KeepBounds
  <2>7. Acts(t)
    BY <1>1, <2>1, <2>2, <2>3, <2>4, <2>6, Finishes
  <2>8. ASSUME NEW n \in Nodes, place'[n] # place[n]
        PROVE  place[n].dir = d /\ place[n].name = o.a.name
    <3>1. n \in Removed(o)
      BY <2>2, <2>8
    <3> QED
      BY <3>1 DEF Removed, Entry
  <2>9. ChangesGated(t)
    BY <1>2, <2>5, <2>8 DEF ChangesGated
  <2> QED
    BY <2>7, <2>9
<1> QED
  BY <1>3, <1>4

\* ghost.rename
LEMMA ActRenameActs ==
    ASSUME Inv, NEW t \in Threads, ActRename(t)
    PROVE  Acts(t) /\ ChangesGated(t)
<1> DEFINE o == call[t]
           from == DirOf(o.a.fd)
           to == DirOf(o.b.fd)
           node == NodeAt(from, o.a.name)
<1>1. /\ o \in Calls /\ o.pc = "act" /\ o.op = "rename" /\ CallOK(t, o, table) /\ o.ret = NoFd
      /\ o.b.fd \in Fds /\ o.b.name \in ObjNames
  BY DEF Inv, ActRename, At, CallOK, Progress, Calls, Pathfds
<1>2. PICK gate \in o.gates : /\ gate.name = o.a.name /\ gate.mode = {"MOVE"}
                              /\ ~o.robbed => gate.id = from
  <2>1. ~o.robbed => from = table[o.a.fd].id
    BY <1>1, DirOfTyped DEF Inv, CallOK, Source, Calls, Pathfds
  <2> QED
    BY <1>1, <2>1 DEF CallOK, SourceAsked, GateMode
<1>3. PICK second \in o.gates : /\ second.name = o.b.name /\ second.mode = {"CREATEFILE"}
                                /\ ~o.robbed => second.id = to
  <2>1. ~o.robbed => to = table[o.b.fd].id
    BY <1>1, DirOfTyped DEF Inv, CallOK, Target
  <2> QED
    BY <1>1, <2>1 DEF CallOK, TargetAsked
<1>4. to \in Dirs \cup {Nowhere} /\ o.b.name \in Names
  BY <1>1, DirOfTyped DEF Inv, CallOK, Target, ObjNames
<1>5. CASE ~Movable(from, o.a.name, to, o.b.name)
  <2>1. Fail(t, o)
    BY <1>5 DEF ActRename
  <2> QED
    BY <1>1, <2>1, FailsPlainly, NothingChanged DEF Fail, KeepFs
<1>6. CASE Movable(from, o.a.name, to, o.b.name)
  <2> DEFINE c == [o EXCEPT !.access = {"MOVE", "CREATEFILE"}]
  <2>1. /\ c \in Calls /\ c.op = "rename" /\ c.pc = "act" /\ c.close = o.close /\ c.ret = NoFd
        /\ c.gates = o.gates /\ c.access = {"MOVE", "CREATEFILE"}
    BY <1>1 DEF Calls, Modes
  <2>2. /\ place' = [place EXCEPT ![node] = [dir |-> to, name |-> o.b.name, live |-> TRUE]]
        /\ Finish(t, c) /\ at' = at /\ KeepBounds
    BY <1>6 DEF ActRename
  <2>3. /\ node \in Nodes /\ place[node] = [dir |-> from, name |-> o.a.name, live |-> TRUE]
        /\ ~Exists(to, o.b.name) /\ to \in Dirs
    BY <1>4, <1>6 DEF Movable, Exists, NodeAt, Entry
  <2> HIDE DEF c, node, from, to
  <2>4. /\ \A fd \in c.close : table[fd].owner = t \/ (fd = 0 /\ Strays(o))
        /\ \A fd \in Fds : table[fd].owner = t => fd \in c.close \cup {c.ret}
    BY <1>1, <2>1 DEF CallOK, Holding, Astray, Strays
  <2>5. AccessGated(c)
    BY <1>2, <1>3, <2>1 DEF AccessGated, Modest
  <2>6. PlaceOK(place) /\ place \in [Nodes -> Entries]
    BY DEF Inv, FsOK, PlaceOK
  <2>7. PlaceOK(place')
    BY <1>4, <2>2, <2>3, <2>6, Placed
  <2>8. FsOK'
    BY <2>2, <2>7 DEF Inv, FsOK, KeepBounds
  <2>9. Acts(t)
    BY <1>1, <2>1, <2>2, <2>4, <2>5, <2>8, Finishes
  <2>10. ASSUME NEW n \in Nodes, place'[n] # place[n]
         PROVE  /\ place[n].dir = from /\ place[n].name = o.a.name
                /\ place'[n].dir = to /\ place'[n].name = o.b.name
    <3>1. n = node
      BY <2>2, <2>6, <2>10
    <3>2. place'[n] = [dir |-> to, name |-> o.b.name, live |-> TRUE]
      BY <2>2, <2>3, <2>6, <3>1
    <3> QED
      BY <2>3, <3>1, <3>2
  <2>11. ChangesGated(t)
    BY <1>2, <1>3, <2>10 DEF ChangesGated
  <2> QED
    BY <2>9, <2>11
<1> QED
  BY <1>5, <1>6

\* A thread that is not in a call.
LEMMA IdleCallOK ==
    ASSUME NEW t \in Threads, NEW tb, \A fd \in Fds : tb[fd].owner # t
    PROVE  CallOK(t, Idle, tb)
<1>1. /\ Temporary(Idle, tb) /\ Source(Idle, tb) /\ Target(Idle, tb)
      /\ SourceAsked(Idle, tb) /\ TargetAsked(Idle, tb) /\ OpenGated(Idle, tb)
  BY IdleTyped DEF Temporary, Source, Target, SourceAsked, TargetAsked, OpenGated
<1>2. Holding(t, Idle, tb)
  BY IdleTyped DEF Holding
<1>3. Progress(Idle)
  BY IdleTyped DEF Progress
<1>4. AccessGated(Idle)
  BY IdleTyped DEF AccessGated, Modest
<1> QED
  BY <1>1, <1>2, <1>3, <1>4 DEF CallOK

\* The call closes what it has used.
LEMMA CloseActs ==
    ASSUME Inv, NEW t \in Threads, Close(t)
    PROVE  Acts(t)
<1> DEFINE o == call[t]
<1>1. /\ o \in Calls /\ o.pc = "close" /\ CallOK(t, o, table)
      /\ o.op \in {"open", "opentemp", "popen"}
  BY DEF Inv, Close, At, CallOK, Progress
<1>2. Finish(t, o) /\ FsOK'
  BY FsKept DEF Close, Inv
<1>3. /\ \A fd \in o.close : table[fd].owner = t \/ (fd = 0 /\ Strays(o))
      /\ o.ret # NoFd => \/ table[o.ret].owner = t /\ o.ret \notin o.close
                         \/ o.ret = 0 /\ o.robbed
  BY <1>1 DEF CallOK, Holding, Astray, Strays
<1>3a. Losing([op |-> o.op, pc |-> o.pc, result |-> "ERROR"])
  BY <1>1 DEF Losing
<1>4. ASSUME NEW fd \in Fds, table[fd].owner = t, fd \notin o.close \cup {o.ret}
      PROVE  Losing([op |-> o.op, pc |-> o.pc, result |-> o.result])
  <2>1. o.op \in {"opentemp", "execute", "popen"}
    BY <1>1, <1>4 DEF CallOK, Holding
  <2> QED
    BY <2>1 DEF Losing
<1>5. AccessGated(o)
  BY <1>1 DEF CallOK
<1> QED
  BY <1>1, <1>2, <1>3, <1>3a, <1>4, <1>5, Finishes

\* gh_rpc_respondtomsg, whether or not it reaches the script.
LEMMA RespondActs ==
    ASSUME Inv, NEW t \in Threads, Respond(t) \/ RespondFails(t)
    PROVE  Acts(t)
<1> DEFINE o == call[t]
           fds == {o.ret} \cap Fds
<1>1. /\ o \in Calls /\ o.pc = "respond" /\ CallOK(t, o, table) /\ o.close = {}
      /\ KeepFs /\ KeepBounds /\ TableOK(table) /\ t # "none" /\ t # "nobody"
      /\ o.ret \in Fds \cup {NoFd} /\ call \in [Threads -> Calls]
  BY Owners DEF Inv, Respond, RespondFails, At, CallOK, Progress, Calls
<1>2. \A fd \in Fds : table[fd].owner = t => fd = o.ret
  BY <1>1, Owners DEF CallOK, Holding
<1>3. o.ret # NoFd => o.ret \in Fds /\ (table[o.ret].owner = t \/ (o.ret = 0 /\ o.robbed))
  BY <1>1 DEF CallOK, Holding
<1>4. ASSUME Respond(t)
      PROVE  /\ Goes(t, Idle)
             /\ TableOK(table') /\ Touches(t) /\ \A fd \in Fds : table'[fd].owner # t
  <2>1. /\ table' = [fd \in Fds |-> IF fd \in fds THEN Free ELSE table[fd]]
        /\ GoClosing(t, Idle, fds)
    BY <1>4 DEF Respond
  <2>2. TableOK(table')
    BY <1>1, <2>1, Owners DEF TableOK
  <2>3. ASSUME NEW u \in Threads \ {t}, NEW fd \in fds, table[fd].owner = u
        PROVE  call'[u].robbed
    <3>1. call[u] \in Calls
      BY <1>1
    <3>2. call'[u] = [call[u] EXCEPT !.robbed = @ \/ \E gone \in fds : table[gone].owner = u]
      BY <2>1 DEF GoClosing
    <3> QED
      BY <2>3, <3>1, <3>2 DEF Calls
  <2>4. Touches(t)
    <3> SUFFICES ASSUME NEW fd \in Fds, table'[fd] # table[fd]
                 PROVE  \/ /\ table[fd].owner \in {t, "none"}
                           /\ table'[fd].owner \in {t, "nobody", "none"}
                        \/ /\ fd = 0 /\ table'[fd] = Free /\ Strays(o)
                           /\ \A u \in Threads \ {t} : table[fd].owner = u => call'[u].robbed
      BY DEF Touches
    <3>1. fd \in fds /\ fd = o.ret /\ table'[fd] = Free /\ o.ret # NoFd
      BY <2>1, Owners
    <3>2. CASE table[fd].owner = t
      BY <3>1, <3>2, Owners
    <3>3. CASE fd = 0 /\ o.robbed
      BY <2>3, <3>1, <3>3 DEF Strays
    <3> QED
      BY <1>3, <3>1, <3>2, <3>3
  <2>5. \A fd \in Fds : table'[fd].owner # t
    BY <1>1, <1>2, <2>1, Owners
  <2>6. Goes(t, Idle)
    BY <1>1, <2>1, GoMeans
  <2> QED
    BY <2>2, <2>4, <2>5, <2>6
<1>5. ASSUME RespondFails(t)
      PROVE  /\ Goes(t, Idle)
             /\ TableOK(table') /\ Touches(t) /\ \A fd \in Fds : table'[fd].owner # t
  <2> DEFINE lost == Lost(table[o.ret], o)
  <2>1. /\ table' = [table EXCEPT ![o.ret] = IF table[o.ret].owner = t THEN lost ELSE table[o.ret]]
        /\ o.ret \in Fds
    BY <1>3, <1>5 DEF RespondFails
  <2>2. lost \in Descriptors /\ DescriptorOK(lost) /\ lost.owner = "nobody"
    <3>1. Losing([op |-> o.op, pc |-> o.pc, result |-> o.result])
      BY <1>1 DEF Losing
    <3> QED
      BY <1>1, <2>1, <3>1, LostOf DEF TableOK
  <2> HIDE DEF lost
  <2>3. TableOK(table')
    BY <1>1, <2>1, <2>2 DEF TableOK
  <2>4. Touches(t)
    BY <1>1, <2>1, <2>2 DEF Touches, TableOK
  <2>5. \A fd \in Fds : table'[fd].owner # t
    BY <1>1, <1>2, <2>1, <2>2 DEF TableOK
  <2>6. Goes(t, Idle)
    BY <1>1, <1>5, GoMeans DEF RespondFails
  <2> QED
    BY <2>3, <2>4, <2>5, <2>6
<1>6. /\ Goes(t, Idle)
      /\ TableOK(table') /\ Touches(t) /\ \A fd \in Fds : table'[fd].owner # t
  BY <1>4, <1>5
<1>7. CallOK(t, Idle, table')
  BY <1>6, IdleCallOK
<1>8. FsOK'
  BY <1>1, FsKept DEF Inv
<1> QED
  BY <1>1, <1>6, <1>7, <1>8, IdleTyped, OwnCall

\* What other processes do.
LEMMA Others ==
    ASSUME Inv, OtherCreates \/ OtherRemoves \/ OtherMoves \/ OtherMovesDir
    PROVE  Inv' /\ table' = table /\ call' = call
<1>1. /\ world' = world + 1 /\ world < MaxWorld /\ table' = table /\ call' = call /\ calls' = calls
      /\ MaxWorld \in Nat /\ world \in 0 .. MaxWorld /\ FsOK /\ PlaceOK(place)
  BY StdFsAssumption DEF OtherCreates, OtherRemoves, OtherMoves, OtherMovesDir, Changes, Inv, FsOK
<1>2. world' \in 0 .. MaxWorld
  BY <1>1
<1>3. ASSUME OtherCreates \/ OtherMoves PROVE FsOK'
  <2>1. PICK n \in Nodes, d \in Dirs, name \in Names :
           /\ ~Exists(d, name)
           /\ place' = [place EXCEPT ![n] = [dir |-> d, name |-> name, live |-> TRUE]]
    BY <1>3 DEF OtherCreates, OtherMoves
  <2>2. PlaceOK(place') /\ at' = at
    BY <1>1, <1>3, <2>1, Placed DEF OtherCreates, OtherMoves
  <2> QED
    BY <1>1, <1>2, <2>2 DEF FsOK
<1>4. ASSUME OtherRemoves PROVE FsOK'
  <2>1. PICK n \in Nodes : place' = [place EXCEPT ![n].live = FALSE]
    BY <1>4 DEF OtherRemoves
  <2>2. place' = [m \in Nodes |-> IF m \in {n} THEN [place[m] EXCEPT !.live = FALSE] ELSE place[m]]
    BY <1>1, <2>1 DEF PlaceOK
  <2>3. PlaceOK(place') /\ at' = at
    BY <1>1, <1>4, <2>2, Unlinked DEF OtherRemoves
  <2> QED
    BY <1>1, <1>2, <2>3 DEF FsOK
<1>5. ASSUME OtherMovesDir PROVE FsOK'
  <2>1. PICK d \in Dirs, loc \in Locs : DirAt(loc) = Nowhere /\ at' = [at EXCEPT ![d] = loc]
    BY <1>5 DEF OtherMovesDir
  <2>2. \A e \in Dirs : at[e] # loc
    BY <2>1, StdFsAssumption DEF DirAt
  <2>3. at' \in [Dirs -> Locs] /\ \A e, f \in Dirs : at'[e] = at'[f] => e = f
    BY <1>1, <2>1, <2>2 DEF FsOK
  <2>4. place' = place
    BY <1>5 DEF OtherMovesDir
  <2> QED
    BY <1>1, <1>2, <2>3, <2>4 DEF FsOK
<1>6. FsOK'
  BY <1>1, <1>3, <1>4, <1>5
<1> QED
  BY <1>1, <1>6 DEF Inv

\* The initial state.
LEMMA Initially ==
    ASSUME Init
    PROVE  Inv
<1>1. FsOK
  <2>1. NoPlace \in Entries /\ ~NoPlace.live
    BY DEF NoPlace, Entries, ObjNames
  <2>2. place \in [Nodes -> Entries] /\ \A n \in Nodes : place[n] = NoPlace
    BY <2>1 DEF Init
  <2>3. PlaceOK(place)
    BY <2>1, <2>2 DEF PlaceOK
  <2> QED
    BY <2>3, StdFsAssumption DEF Init, FsOK
<1>2. PICK app \in AppFds :
         table = [fd \in Fds |-> IF fd < app THEN Object("app", Nowhere, "app") ELSE Free]
  BY DEF Init
<1>3. /\ Object("app", Nowhere, "app") \in Descriptors /\ DescriptorOK(Object("app", Nowhere, "app"))
      /\ Object("app", Nowhere, "app").owner = "app"
  <2>1. /\ Object("app", Nowhere, "app") \in Descriptors
        /\ Object("app", Nowhere, "app").owner = "app" /\ Object("app", Nowhere, "app").what = "app"
    BY DEF Object, Descriptors, Kinds, NoOne, Ops, Points, Results
  <2>2. Object("app", Nowhere, "app") # Free
    BY <2>1, Owners
  <2> QED
    BY <2>1, <2>2 DEF DescriptorOK
<1>4. TableOK(table)
  BY <1>2, <1>3, Owners DEF TableOK
<1>5. ASSUME NEW t \in Threads PROVE CallOK(t, call[t], table)
  <2>1. \A fd \in Fds : table[fd].owner # t
    BY <1>2, <1>3, Owners
  <2>2. call[t] = Idle
    BY DEF Init
  <2> QED
    BY <2>1, <2>2, IdleCallOK
<1>6. call \in [Threads -> Calls]
  BY IdleTyped DEF Init
<1> QED
  BY <1>1, <1>4, <1>5, <1>6 DEF Inv

(***************************************************************************)
(* The theorems                                                            *)
(***************************************************************************)

\* Every step is one of a call, or leaves descriptors and calls alone.
LEMMA Steps ==
    ASSUME Inv, [Next]_vars
    PROVE  /\ Inv'
           /\ \/ \E t \in Threads : Acts(t) /\ ChangesGated(t)
              \/ table' = table /\ call' = call
<1>1. ASSUME NEW t \in Threads,
             \/ CallOpen(t) \/ CallTemp(t) \/ CallRemove(t) \/ CallRename(t) \/ CallRequest(t)
             \/ CallExecute(t) \/ CallRefused(t)
      PROVE  Acts(t) /\ ChangesGated(t)
  <2>1. place' = place
    BY <1>1 DEF CallOpen, CallTemp, CallRemove, CallRename, CallRequest, CallExecute, CallRefused, Start
  <2> QED
    BY <1>1, <2>1, CallActs, NothingChanged
<1>2. ASSUME NEW t \in Threads,
             OpenTmp(t) \/ Look(t) \/ Trailing(t) \/ TooLarge(t) \/ TrailingTo(t) \/ Gate(t) \/ GateTo(t)
      PROVE  Acts(t) /\ ChangesGated(t)
  <2>1. place' = place
    BY <1>2 DEF OpenTmp, Look, Trailing, TooLarge, TrailingTo, Gate, GateTo, Fail, KeepFs
  <2> QED
    BY <1>2, <2>1, OpenTmpActs, LookActs, TrailingActs, TooLargeActs, TrailingToActs, GateActs,
       GateToActs, NothingChanged
<1>3. ASSUME NEW t \in Threads,
             \/ Close(t) \/ OpenShell(t) \/ GateExec(t) \/ Rejected(t) \/ Run(t)
             \/ Respond(t) \/ RespondFails(t)
      PROVE  Acts(t) /\ ChangesGated(t)
  <2>1. place' = place
    BY <1>3 DEF Close, OpenShell, GateExec, Rejected, Run, Respond, RespondFails, Fail, KeepFs
  <2> QED
    BY <1>3, <2>1, CloseActs, OpenShellActs, GateExecActs, TooLargeActs, RunActs, RespondActs,
       NothingChanged
<1>4. ASSUME NEW t \in Threads, ActOpen(t) \/ ActTemp(t) \/ ActRemove(t) \/ ActRename(t)
      PROVE  Acts(t) /\ ChangesGated(t)
  BY <1>4, ActOpenActs, ActTempActs, ActRemoveActs, ActRenameActs
<1>5. CASE OtherCreates \/ OtherRemoves \/ OtherMoves \/ OtherMovesDir
  BY <1>5, Others
<1>6. CASE UNCHANGED vars
  <2>1. /\ at' = at /\ place' = place /\ table' = table /\ call' = call /\ calls' = calls
        /\ world' = world
    BY <1>6 DEF vars
  <2> QED
    BY <2>1 DEF Inv, FsOK
<1>7. ASSUME NEW t \in Threads, Acts(t) /\ ChangesGated(t)
      PROVE  Inv' /\ \E u \in Threads : Acts(u) /\ ChangesGated(u)
  BY <1>7 DEF Acts
<1> QED
  BY <1>1, <1>2, <1>3, <1>4, <1>5, <1>6, <1>7 DEF Next

\* The inductive invariant holds.
LEMMA AlwaysInv == Spec => []Inv
<1>1. Init => Inv
  BY Initially
<1>2. Inv /\ [Next]_vars => Inv'
  BY Steps
<1> QED
  BY <1>1, <1>2, PTL DEF Spec

\* Types, for any number of threads, directories and descriptors: no two directories are in
\* one place and no two nodes have one name, and a descriptor in use has an owner.
THEOREM StdFsTyped == Spec => []TypeOK
<1>1. Inv => TypeOK
  <2> SUFFICES ASSUME Inv PROVE TypeOK
    OBVIOUS
  <2>1. FsOK /\ PlaceOK(place)
    BY DEF Inv, FsOK
  <2>2. ASSUME NEW fd \in Fds
        PROVE  table[fd].owner \in Threads \cup {"app", "nobody"} \/ table[fd] = Free
    <3>1. table[fd] \in Descriptors /\ DescriptorOK(table[fd])
      BY DEF Inv, TableOK
    <3>2. table[fd].owner \in Threads \cup {"app", "nobody", "none"}
      BY <3>1 DEF Descriptors
    <3> QED
      BY <3>1, <3>2 DEF DescriptorOK
  <2>3. \A t \in Threads : call[t].close \subseteq Fds /\ call[t].ret \in Fds \cup {NoFd}
    BY DEF Inv, Calls
  <2> QED
    BY <2>1, <2>2, <2>3 DEF TypeOK, FsOK, PlaceOK
<1> QED
  BY <1>1, AlwaysInv, PTL

\* The descriptors that the file functions lose are those that their early returns, the PathFD
\* of gh_std_opentemp, the exec gate and a close(2) that fails leave open, and no others.
THEOREM LossesKnown == Spec => []LostKnown
<1>1. Inv => LostKnown
  BY DEF Inv, TableOK, DescriptorOK, Losing, LostKnown
<1> QED
  BY <1>1, AlwaysInv, PTL

\* No call closes a descriptor of the application or of a call on another thread, except that
\* a ghost.remove whose directory cannot be opened closes descriptor 0, which the PathFD that
\* gh_std_unlinkat has not filled in refers to, and that a call which has lost its descriptor 0
\* in this way closes 0 all the same.
THEOREM OwnDescriptors == Spec => OwnedOnly
<1> DEFINE Step == \A fd \in Fds, t \in Threads :
                      call'[t].pc # call[t].pc /\ table[fd] # Free /\ table'[fd] = Free =>
                         \/ table[fd].owner = t
                         \/ /\ fd = 0
                            /\ \/ call[t].op = "remove" /\ call[t].pc \in {"trailing", "toolarge"}
                               \/ call[t].robbed
<1>1. Inv /\ [Next]_vars => [Step]_vars
  <2> SUFFICES ASSUME Inv, [Next]_vars, NEW fd \in Fds, NEW t \in Threads,
                      call'[t].pc # call[t].pc, table[fd] # Free, table'[fd] = Free
               PROVE  \/ table[fd].owner = t
                      \/ /\ fd = 0
                         /\ \/ call[t].op = "remove" /\ call[t].pc \in {"trailing", "toolarge"}
                            \/ call[t].robbed
    OBVIOUS
  <2>1. PICK u \in Threads : Acts(u)
    BY Steps
  <2>2. u = t
    BY <2>1 DEF Acts
  <2>3. table[fd].owner # "none"
    BY DEF Inv, TableOK, DescriptorOK
  <2> QED
    BY <2>1, <2>2, <2>3 DEF Acts, Touches, Strays
<1> QED
  BY <1>1, AlwaysInv, PTL DEF Spec, OwnedOnly

\* A call that was not robbed of its descriptor changes the file system only in a place that it
\* asked about, whatever other threads and processes do between the question and the change.
THEOREM ChangesAsked == Spec => ChangesAreGated
<1> DEFINE Step == \A n \in Nodes, t \in Threads :
                      place'[n] # place[n] /\ call'[t].pc # call[t].pc
                         /\ call[t].op # "opentemp" /\ ~call[t].robbed =>
                         \A p \in {place[n], place'[n]} \ {NoPlace} :
                            \E gate \in call[t].gates : p.dir = gate.id /\ p.name = gate.name
<1>1. Inv /\ [Next]_vars => [Step]_vars
  <2> SUFFICES ASSUME Inv, [Next]_vars, NEW n \in Nodes, NEW t \in Threads, ~call[t].robbed,
                      place'[n] # place[n], call'[t].pc # call[t].pc, call[t].op # "opentemp"
               PROVE  \A p \in {place[n], place'[n]} \ {NoPlace} :
                         \E gate \in call[t].gates : p.dir = gate.id /\ p.name = gate.name
    OBVIOUS
  <2>1. PICK u \in Threads : Acts(u) /\ ChangesGated(u)
    BY Steps
  <2>2. u = t
    BY <2>1 DEF Acts
  <2> QED
    BY <2>1, <2>2 DEF ChangesGated
<1> QED
  BY <1>1, AlwaysInv, PTL DEF Spec, ChangesAreGated

\* Without symbolic links, what ghost.open returns is the node, or the name in the directory,
\* that the user was asked about, unless another thread has closed the descriptor in between.
THEOREM OpenedAsked ==
    ASSUME Links = {}
    PROVE  Spec => []OpenedIsGated
<1>1. Inv => OpenedIsGated
  BY DEF Inv, CallOK, OpenGated, OpenedIsGated
<1> QED
  BY <1>1, AlwaysInv, PTL

\* Whatever flags the script chooses and whatever happens to its descriptors, a call other than
\* ghost.opentemp does nothing that it has not asked for, the truncation by ghost.open excepted.
THEOREM AccessAsked == Spec => []AccessIsGated
<1>1. Inv => AccessIsGated
  BY DEF Inv, CallOK, AccessGated, Modest, AccessIsGated, Asked
<1> QED
  BY <1>1, AlwaysInv, PTL

=============================================================================
