--------------------------- MODULE CallFrameProofs ---------------------------
(***************************************************************************)
(* Proofs about CallFrame: when no mapping has to move and no string holds *)
(* a null byte, the arguments of a call and its returned value arrive, the *)
(* seal is not refused, and a process writes where nothing is mapped only  *)
(* when a call with the frame has failed before, however often the shared  *)
(* memory grows, whatever fails, and for every size of header, file and    *)
(* page.                                                                   *)
(***************************************************************************)
EXTENDS CallFrame, FiniteSetTheorems, SequenceTheorems, WellFoundedInduction, TLAPS

\* What t_string_len can carry through strncpy: no character is the null byte.
CStrings == \A s \in Strings : \A i \in DOMAIN s : s[i] # 0

Cells == [type : {"nil", "byte", "number", "string"}, val : Nat]
Statuses == {"none", "ok", "missing", "error", "param", "memory"}

\* lua_callfunction is between the message and its answer.
Busy == spc \in {"call", "return", "unmap", "send"}

\* It has the memory mapped.
Mapping == spc \in {"call", "return", "unmap"}

\* The cells from off on are the variant that holds v.
Holds(cells, off, v) ==
    /\ cells[off] = [type |-> v.type, val |-> IF v.type = "string" THEN Len(v.str) ELSE v.val]
    /\ \A i \in 1 .. Len(v.str) : cells[off + Header + i - 1] = Byte(v.str[i])

\* Where it ends.
End(off, v) == off + Header + Len(v.str)

-----------------------------------------------------------------------------
(* The inductive invariant. *)

\* The shape of the shared memory,
FileShape ==
    /\ file = [cells |-> file.cells, sealed |-> file.sealed] /\ file.sealed \in BOOLEAN
    /\ FileSize \in Nat /\ DOMAIN file.cells = 0 .. FileSize - 1
    /\ mem \in [Procs -> [data : Addresses, occupied : Nat, size : Nat]]
    /\ maps \in [Procs -> SUBSET [at : Addresses, write : BOOLEAN]]

\* of the host,
HostShape ==
    /\ hpc \in {"open", "calling", "seal", "timedout", "unmapped", "crashed", "closed"}
    /\ frame \in [params : Seq(Nat), returned : BOOLEAN, retval : Int, status : Statuses]
    /\ args \in Seq(Values)
    /\ adds \in 0 .. MaxAdds /\ calls \in 0 .. MaxCalls

\* and of the subjail and the messages.
SubShape ==
    /\ spc \in {"idle", "call", "return", "unmap", "send", "dead", "crashed"}
    /\ reply \in [params : Seq(Nat), status : Statuses, ptr : Nat, fatal : BOOLEAN]
    /\ value \in Values
    /\ request \in Seq([params : Seq(Nat), occupied : Nat])
    /\ result \in Seq([status : Statuses, ptr : Nat])

\* There is one call at a time: a request, a run of lua_callfunction, or a result.
OneCall ==
    /\ Len(request) <= 1 /\ Len(result) <= 1
    /\ request # << >> => result = << >> /\ ~Busy
    /\ result # << >> => ~Busy
    /\ hpc = "open" => request = << >> /\ result = << >> /\ ~Busy
    /\ hpc = "seal" => result # << >>

\* What is occupied fits the mapping, and the mapping the file.
Sizes ==
    /\ \A p \in Procs : mem[p].occupied <= mem[p].size /\ mem[p].size <= FileSize
    /\ 1 <= mem["host"].size
    /\ spc \in {"call", "return"} =>
          mem["sub"].occupied = mem["host"].occupied /\ mem["host"].size <= mem["sub"].size
    /\ hpc = "open" /\ ~file.sealed => mem["sub"].size = 0
    /\ hpc = "seal" \/ (hpc \in {"open", "calling"} /\ file.sealed) =>
          mem["host"].occupied = mem["host"].size /\ mem["host"].size = FileSize

\* The seal ends the use of the memory; only a returned frame has a sealed one.
Sealing ==
    /\ Busy \/ result # << >> => ~file.sealed
    /\ ~file.sealed => ~frame.returned /\ frame.retval = -1
    /\ hpc = "open" /\ file.sealed => frame.returned

\* Each process has at most the mapping that its gh_fdmem knows.
Mapped ==
    /\ \A m \in maps["host"] : m.at = mem["host"].data
    /\ hpc \in {"open", "calling"} /\ ~file.sealed =>
          [at |-> mem["host"].data, write |-> TRUE] \in maps["host"]
    /\ maps["sub"] = IF Mapping THEN {[at |-> mem["sub"].data, write |-> TRUE]} ELSE {}

\* The pointers ps lead to the values vs, in the part of the memory below top.
Held(ps, vs, cells, top) ==
    /\ Len(ps) = Len(vs)
    /\ \A i \in 1 .. Len(vs) :
          1 <= ps[i] /\ End(ps[i] - 1, vs[i]) <= top /\ Holds(cells, ps[i] - 1, vs[i])

\* The arguments are in the part of the memory that the host occupies, and the message and
\* lua_callfunction have the pointers to them.
ArgsStored ==
    /\ Len(frame.params) <= MaxParams
    /\ Held(frame.params, args, file.cells, mem["host"].occupied)
    /\ request # << >> => Head(request) = [params |-> frame.params, occupied |-> mem["host"].occupied]
    /\ spc \in {"call", "return"} => reply.params = frame.params

\* A result leads to the value that the function returned, or nowhere.
Leads(status, ptr) ==
    IF status = "ok" THEN 1 <= ptr /\ End(ptr - 1, value) <= FileSize /\ Holds(file.cells, ptr - 1, value)
                     ELSE ptr = 0

ValueStored ==
    /\ spc \in {"call", "return"} => reply.status = "ok" /\ reply.ptr = 0
    /\ spc \in {"unmap", "send"} => Leads(reply.status, reply.ptr)
    /\ result # << >> => Leads(Head(result).status, Head(result).ptr)
    /\ -1 <= frame.retval /\ frame.retval < FileSize
    /\ hpc = "open" /\ frame.returned =>
          IF frame.status = "ok" THEN 0 <= frame.retval /\ Holds(file.cells, frame.retval, value)
                                 ELSE frame.retval = -1

\* As long as the frame has not failed.
UseInv == FileShape /\ HostShape /\ SubShape /\ OneCall /\ Sizes /\ Sealing /\ Mapped /\ ArgsStored /\ ValueStored

\* In a frame that has failed the mappings may reach past the file: each process may cut it
\* to what it needs itself, but not into what it occupies.
LateSizes ==
    /\ \A p \in Procs : mem[p].occupied <= mem[p].size
    /\ 1 <= FileSize /\ 1 <= mem["host"].size
    /\ spc \in {"call", "return"} => 1 <= mem["sub"].size /\ ~file.sealed
    /\ hpc = "timedout" /\ file.sealed => mem["host"].occupied = mem["host"].size

\* The host's mapping is there after a timeout, and gone after a failure to map.
LateMapped ==
    /\ hpc = "timedout" /\ ~file.sealed => [at |-> mem["host"].data, write |-> TRUE] \in maps["host"]
    /\ hpc = "unmapped" => maps["host"] = {}
    /\ spc \in {"call", "return"} => [at |-> mem["sub"].data, write |-> TRUE] \in maps["sub"]

\* The pointers ps lead to the first of the arguments, in a part of the memory that the host
\* occupies and the file has.
Carried(ps, top) ==
    /\ top <= mem["host"].occupied /\ top <= FileSize
    /\ Len(ps) <= Len(args)
    /\ \A i \in 1 .. Len(ps) :
          1 <= ps[i] /\ End(ps[i] - 1, args[i]) <= top /\ Holds(file.cells, ps[i] - 1, args[i])

LateArgs ==
    /\ Len(frame.params) <= MaxParams /\ Len(args) = Len(frame.params)
    /\ \A i \in 1 .. Len(frame.params) : 1 <= frame.params[i] /\ frame.params[i] <= mem["host"].occupied
    /\ Len(request) <= 1
    /\ request # << >> => Carried(Head(request).params, Head(request).occupied)
    /\ spc \in {"call", "return"} => request = << >> /\ Carried(reply.params, mem["sub"].occupied)

\* Only a sealed file has a value that the frame refers to.
LateValue ==
    /\ -1 <= frame.retval /\ frame.retval < FileSize
    /\ ~file.sealed => frame.retval = -1

LateInv == FileShape /\ HostShape /\ SubShape /\ LateSizes /\ LateMapped /\ LateArgs /\ LateValue

Inv == IF InUse THEN UseInv ELSE LateInv

-----------------------------------------------------------------------------
(* Numbers and sizes. *)

\* The order of the natural numbers as a relation.
LessThan == {pair \in Nat \X Nat : pair[1] < pair[2]}

\* Every set of natural numbers has a least element.
LEMMA LeastNumber ==
    ASSUME NEW T, T \subseteq Nat, T # {}
    PROVE  \E x \in T : \A y \in T : x <= y
<1>1. IsWellFoundedOn(LessThan, Nat)
  <2>1. LessThan = OpToRel(<, Nat)
    BY DEF OpToRel, LessThan
  <2> QED
    BY <2>1, NatLessThanWellFounded
<1>2. PICK x \in T : \A y \in T : <<y, x>> \notin LessThan
  BY <1>1, WFMin
<1>3. ASSUME NEW y \in T PROVE x <= y
  <2>1. x \in Nat /\ y \in Nat /\ <<y, x>> \notin LessThan
    BY <1>2
  <2> QED
    BY <2>1 DEF LessThan
<1> QED
  BY <1>3

\* The sizes of the rounds of gh_fdmem_new's loop.
Doubling(f, size, n) ==
    f \in [0 .. n -> Nat] /\ \A k \in 0 .. n : f[k] = IF k = 0 THEN size ELSE 2 * f[k - 1]

\* They are defined for every number of rounds: a first number without them would follow one
\* with them.
LEMMA RoundsExist ==
    ASSUME NEW size \in Nat, NEW n \in Nat
    PROVE  \E f : Doubling(f, size, n)
<1> DEFINE Without == {m \in Nat : ~\E f : Doubling(f, size, m)}
<1>1. SUFFICES ASSUME Without # {} PROVE FALSE
  OBVIOUS
<1>2. PICK m \in Without : \A k \in Without : m <= k
  BY <1>1, LeastNumber
<1>3. CASE m = 0
  <2>1. Doubling([k \in 0 .. 0 |-> size], size, 0)
    BY DEF Doubling
  <2> QED
    BY <1>2, <1>3, <2>1
<1>4. CASE m # 0
  <2>1. m - 1 \in Nat /\ ~(m <= m - 1)
    BY <1>2, <1>4
  <2>2. PICK f : Doubling(f, size, m - 1)
    BY <1>2, <2>1
  <2> DEFINE g == [k \in 0 .. m |-> IF k = m THEN 2 * f[m - 1] ELSE f[k]]
  <2>3. g \in [0 .. m -> Nat]
    <3>1. ASSUME NEW k \in 0 .. m PROVE (IF k = m THEN 2 * f[m - 1] ELSE f[k]) \in Nat
      BY <2>1, <2>2, <3>1 DEF Doubling
    <3> QED
      BY <3>1
  <2>4. ASSUME NEW k \in 0 .. m PROVE g[k] = IF k = 0 THEN size ELSE 2 * g[k - 1]
    <3>1. CASE k = m
      BY <1>4, <2>1, <3>1
    <3>2. CASE k # m
      <4>1. k \in 0 .. m - 1 /\ g[k] = f[k]
        BY <2>1, <2>4, <3>2
      <4>2. k # 0 => g[k - 1] = f[k - 1]
        BY <2>1, <4>1
      <4> QED
        BY <2>2, <4>1, <4>2 DEF Doubling
    <3> QED
      BY <3>1, <3>2
  <2>5. Doubling(g, size, m)
    BY <2>3, <2>4 DEF Doubling
  <2> QED
    BY <1>2, <2>5
<1> QED
  BY <1>3, <1>4

\* The loop of gh_fdmem_new ends with a size that is enough and no smaller than before.
LEMMA NewSizeFits ==
    ASSUME NEW size \in Nat, 1 <= size, NEW need \in Nat
    PROVE  NewSize(size, need) \in Nat /\ size <= NewSize(size, need) /\ need <= NewSize(size, need)
<1> DEFINE Rounds(f) == f = [k \in 0 .. need |-> IF k = 0 THEN size ELSE 2 * f[k - 1]]
           round == CHOOSE f : Rounds(f)
           fit == {k \in 0 .. need : need <= round[k]}
<1>1. NewSize(size, need) = round[Min(fit)]
  BY DEF NewSize
<1>2. PICK g : Doubling(g, size, need)
  BY RoundsExist
<1>3. Rounds(g)
  BY <1>2 DEF Doubling
<1>4. Rounds(round)
  BY <1>3
<1>5. \A k \in 0 .. need : round[k] = IF k = 0 THEN size ELSE 2 * round[k - 1]
  BY <1>4
<1> HIDE DEF round
<1> DEFINE Big(k) == round[k] \in Nat /\ k + 1 <= round[k] /\ size <= round[k]
           Small == {k \in 0 .. need : ~Big(k)}
<1>6. Small = {}
  <2>1. SUFFICES ASSUME Small # {} PROVE FALSE
    OBVIOUS
  <2>0. Small \subseteq Nat
    OBVIOUS
  <2> HIDE DEF Small
  <2>2. PICK k \in Small : \A j \in Small : k <= j
    BY <2>0, <2>1, LeastNumber
  <2> USE DEF Small
  <2>3. CASE k = 0
    BY <1>5, <2>2, <2>3
  <2>4. CASE k # 0
    <3>1. k - 1 \in 0 .. need /\ ~(k <= k - 1)
      BY <2>2, <2>4
    <3>2. Big(k - 1)
      BY <2>2, <3>1
    <3>3. round[k] = 2 * round[k - 1]
      BY <1>5, <2>2, <2>4
    <3>4. Big(k)
      BY <2>2, <2>4, <3>2, <3>3
    <3> QED
      BY <2>2, <3>4
  <2> QED
    BY <2>3, <2>4
<1>7. \A k \in 0 .. need : Big(k)
  BY <1>6
<1>8. need \in fit
  BY <1>7
<1>9. Min(fit) \in fit
  <2>1. fit \subseteq Nat /\ fit # {}
    BY <1>8
  <2>2. PICK x \in fit : \A y \in fit : x <= y
    BY <2>1, LeastNumber
  <2> QED
    BY <2>2 DEF Min
<1> QED
  BY <1>1, <1>7, <1>9

\* The number of cells of a file.
LEMMA CellCount ==
    ASSUME NEW cells, NEW n \in Nat, DOMAIN cells = 0 .. n - 1
    PROVE  Cardinality(DOMAIN cells) = n
BY FS_Interval

-----------------------------------------------------------------------------
(* Variants. *)

\* The parts of a value.
LEMMA ValueTyped ==
    ASSUME NEW v \in Values
    PROVE  /\ v.type \in {"nil", "number", "string"} /\ v.val \in Nat
           /\ v.str \in Seq(0 .. 1) /\ (CStrings => \A i \in 1 .. Len(v.str) : v.str[i] # 0)
           /\ v.type # "string" => v.str = << >>
           /\ v = [type |-> v.type, val |-> v.val, str |-> v.str]
           /\ v.type = "string" => v.val = 0
           /\ v.type = "nil" => v = Nil
<1>1. CASE v \in [type : {"nil"}, val : {0}, str : {<< >>}]
  <2>1. v.str = << >> /\ << >> \in Seq(0 .. 1) /\ Len(<< >>) = 0
    BY <1>1
  <2>2. v = [type |-> "nil", val |-> 0, str |-> << >>]
    BY <1>1
  <2> QED
    BY <2>1, <2>2 DEF Nil
<1>2. CASE v \in [type : {"number"}, val : 1 .. MaxAdds + 1, str : {<< >>}]
  <2>1. v.str = << >> /\ << >> \in Seq(0 .. 1) /\ Len(<< >>) = 0
    BY <1>2
  <2>2. v.type = "number" /\ v.val \in Nat /\ v = [type |-> v.type, val |-> v.val, str |-> v.str]
    BY <1>2, FrameAssumption
  <2> QED
    BY <2>1, <2>2
<1>3. CASE v \in [type : {"string"}, val : {0}, str : Strings]
  <2>1. v.str \in Strings /\ v.str \in Seq(0 .. 1)
    BY <1>3, FrameAssumption
  <2>2. CStrings => \A i \in 1 .. Len(v.str) : v.str[i] # 0
    BY <2>1 DEF CStrings
  <2> QED
    BY <1>3, <2>1, <2>2
<1> QED
  BY <1>1, <1>2, <1>3 DEF Values

\* Encode writes the variant, at least one cell of it.
LEMMA EncodeHolds ==
    ASSUME CStrings, NEW v \in Values, NEW extra \in Nat
    PROVE  /\ Encode(v, extra) \in Seq(Cells)
           /\ Len(Encode(v, extra)) = Header + Len(v.str) + extra
           /\ Encode(v, extra)[1] = [type |-> v.type, val |-> IF v.type = "string" THEN Len(v.str) ELSE v.val]
           /\ \A i \in 1 .. Len(v.str) : Encode(v, extra)[Header + i] = Byte(v.str[i])
<1> DEFINE h == [type |-> v.type, val |-> IF v.type = "string" THEN Len(v.str) ELSE v.val]
           pad == [i \in 1 .. Header - 1 |-> Byte(0)]
           chars == [i \in 1 .. Len(v.str) |-> Byte(Strncpy(v.str)[i])]
           zeros == [i \in 1 .. extra |-> Byte(0)]
<1>1. Header \in Nat /\ Header >= 1 /\ Len(v.str) \in Nat
  BY ValueTyped, FrameAssumption
<1>2. \A i \in 1 .. Len(v.str) : Strncpy(v.str)[i] = v.str[i] /\ v.str[i] \in Nat
  BY ValueTyped DEF Strncpy
<1>3. h \in Cells /\ Byte(0) \in Cells /\ \A i \in 1 .. Len(v.str) : chars[i] = Byte(v.str[i]) /\ chars[i] \in Cells
  BY <1>1, <1>2, ValueTyped DEF Cells, Byte
<1>4. Encode(v, extra) = <<h>> \o pad \o chars \o zeros
  BY DEF Encode
<1>5. pad \in Seq(Cells) /\ Len(pad) = Header - 1
  BY <1>1, <1>3
<1>6. chars \in Seq(Cells) /\ Len(chars) = Len(v.str)
  <2>1. chars \in [1 .. Len(v.str) -> Cells]
    BY <1>3
  <2> QED
    BY <1>1, <2>1
<1>7. zeros \in Seq(Cells) /\ Len(zeros) = extra
  BY <1>3
<1> HIDE DEF h, pad, chars, zeros
<1> DEFINE front == <<h>> \o pad
           most == front \o chars
<1>8. front \in Seq(Cells) /\ Len(front) = Header /\ front[1] = h
  BY <1>1, <1>3, <1>5
<1> HIDE DEF front
<1>9. /\ most \in Seq(Cells) /\ Len(most) = Header + Len(v.str) /\ most[1] = h
      /\ \A i \in 1 .. Len(v.str) : most[Header + i] = chars[i]
  BY <1>1, <1>6, <1>8
<1> HIDE DEF most
<1>10. Encode(v, extra) = most \o zeros
  BY <1>4 DEF most, front
<1>11. /\ Encode(v, extra) \in Seq(Cells) /\ Len(Encode(v, extra)) = Header + Len(v.str) + extra
       /\ Encode(v, extra)[1] = h
       /\ \A i \in 1 .. Len(v.str) : Encode(v, extra)[Header + i] = chars[i]
  <2>1. \A j \in 1 .. Len(most) : (most \o zeros)[j] = most[j]
    BY <1>7, <1>9
  <2>2. \A i \in 1 .. Len(v.str) : Header + i \in 1 .. Len(most)
    BY <1>1, <1>9
  <2>3. 1 \in 1 .. Len(most)
    BY <1>1, <1>9
  <2>4. (most \o zeros) \in Seq(Cells) /\ Len(most \o zeros) = Len(most) + extra
    <3>1. most \in Seq(Cells) /\ zeros \in Seq(Cells)
      BY <1>7, <1>9
    <3>2. (most \o zeros) \in Seq(Cells) /\ Len(most \o zeros) = Len(most) + Len(zeros)
      BY <3>1
    <3> QED
      BY <1>7, <3>2
  <2> QED
    BY <1>9, <1>10, <2>1, <2>2, <2>3, <2>4
<1> QED
  BY <1>3, <1>11 DEF h

\* Decode reads it back.
LEMMA DecodeHolds ==
    ASSUME NEW v \in Values, NEW off, Holds(file.cells, off, v)
    PROVE  Decode(off) = v
<1>1. CASE v.type = "string"
  <2>1. file.cells[off].type = "string" /\ file.cells[off].val = Len(v.str)
    BY <1>1 DEF Holds
  <2>2. [i \in 1 .. Len(v.str) |-> file.cells[off + Header + i - 1].val] = [i \in 1 .. Len(v.str) |-> v.str[i]]
    <3>1. ASSUME NEW i \in 1 .. Len(v.str) PROVE file.cells[off + Header + i - 1].val = v.str[i]
      <4>1. file.cells[off + Header + i - 1] = Byte(v.str[i])
        BY DEF Holds
      <4> QED
        BY <4>1 DEF Byte
    <3> QED
      BY <3>1
  <2>3. [i \in 1 .. Len(v.str) |-> v.str[i]] = v.str
    BY ValueTyped
  <2> QED
    BY <1>1, <2>1, <2>2, <2>3, ValueTyped DEF Decode
<1>2. CASE v.type # "string"
  BY <1>2, ValueTyped DEF Decode, Holds
<1> QED
  BY <1>1, <1>2

\* Where a variant ends.
LEMMA EndNat ==
    ASSUME NEW v \in Values, NEW off \in Nat
    PROVE  End(off, v) \in Nat /\ off < End(off, v)
<1> DEFINE len == Len(v.str)
<1>1. Header \in Nat /\ Header >= 1 /\ len \in Nat /\ End(off, v) = off + Header + len
  BY ValueTyped, FrameAssumption DEF End
<1> HIDE DEF len
<1> QED
  BY <1>1

\* A variant stays when the cells below its end do.
LEMMA HoldsKept ==
    ASSUME NEW v \in Values, NEW off \in Nat, NEW n \in Nat, NEW old, NEW new,
           End(off, v) <= n, \A i \in 0 .. n - 1 : new[i] = old[i], Holds(old, off, v)
    PROVE  Holds(new, off, v)
<1> DEFINE len == Len(v.str)
<1>1. Header \in Nat /\ Header >= 1 /\ len \in Nat /\ off + Header + len <= n
  BY ValueTyped, FrameAssumption DEF End
<1> HIDE DEF len
<1>2. off \in 0 .. n - 1
  BY <1>1
<1>3. ASSUME NEW i \in 1 .. len PROVE off + Header + i - 1 \in 0 .. n - 1
  BY <1>1
<1> QED
  BY <1>2, <1>3 DEF Holds, len

\* A variant that was written whole is there.
LEMMA HoldsWritten ==
    ASSUME CStrings, NEW v \in Values, NEW extra \in Nat, NEW off \in Nat, NEW cells,
           \A i \in 1 .. Len(Encode(v, extra)) : cells[off + i - 1] = Encode(v, extra)[i]
    PROVE  Holds(cells, off, v)
<1> DEFINE len == Len(v.str)
           all == Len(Encode(v, extra))
<1>1. Header \in Nat /\ Header >= 1 /\ len \in Nat
  BY ValueTyped, FrameAssumption
<1>2. all = Header + len + extra
  BY EncodeHolds
<1>0. \A i \in 1 .. all : cells[off + i - 1] = Encode(v, extra)[i]
  OBVIOUS
<1> HIDE DEF len, all
<1>3. cells[off] = Encode(v, extra)[1]
  <2>1. 1 \in 1 .. all /\ off + 1 - 1 = off
    BY <1>1, <1>2
  <2> QED
    BY <1>0, <2>1
<1>4. ASSUME NEW i \in 1 .. len PROVE cells[off + Header + i - 1] = Encode(v, extra)[Header + i]
  <2>1. Header + i \in 1 .. all /\ off + (Header + i) - 1 = off + Header + i - 1
    BY <1>1, <1>2
  <2> QED
    BY <1>0, <2>1
<1> QED
  BY <1>3, <1>4, EncodeHolds DEF Holds, len

-----------------------------------------------------------------------------
(* gh_fdmem_new. *)

\* What a process may store: its mapping is where its gh_fdmem says, and something is stored.
CanStore(p) == 1 <= mem[p].size /\ [at |-> mem[p].data, write |-> TRUE] \in maps[p]

\* The pages of a file hold all of it.
LEMMA PagesCover ==
    ASSUME NEW n \in Nat, NEW k \in Nat, k <= n
    PROVE  k <= Page * Pages(n)
<1>1. Page \in Nat /\ 1 <= Page
  BY FrameAssumption
<1> DEFINE m == n + Page - 1
           d == m \div Page
<1>2. m \in Nat
  BY <1>1
<1>3. d \in Int /\ m < Page * d + Page
  <2> HIDE DEF m
  <2> QED
    BY <1>1, <1>2
<1>4. Page * d \in Int
  <2> HIDE DEF d
  <2> QED
    BY <1>1, <1>3
<1>5. Pages(n) = d
  BY DEF Pages
<1> HIDE DEF d
<1> DEFINE top == Page * d
<1>6. top \in Int /\ n + Page - 1 < top + Page
  BY <1>3, <1>4
<1> HIDE DEF top
<1>7. k <= top
  BY <1>1, <1>6
<1> QED
  BY <1>5, <1>7 DEF top

\* The file that a Store leaves when it grew or did not.
LEMMA WrittenCells ==
    ASSUME NEW n \in Nat, NEW held, DOMAIN held = 0 .. n - 1, NEW block \in Seq(Cells), NEW off \in Nat, NEW cells,
           cells = [i \in DOMAIN held |-> IF i \in off .. off + Len(block) - 1 THEN block[i - off + 1] ELSE held[i]]
    PROVE  /\ DOMAIN cells = 0 .. n - 1
           /\ \A i \in 0 .. off - 1 : i < n => cells[i] = held[i]
           /\ off + Len(block) <= n => \A i \in 1 .. Len(block) : cells[off + i - 1] = block[i]
<1>1. Len(block) \in Nat
  OBVIOUS
<1>2. ASSUME off + Len(block) <= n, NEW i \in 1 .. Len(block) PROVE cells[off + i - 1] = block[i]
  <2>1. off + i - 1 \in 0 .. n - 1 /\ off + i - 1 \in off .. off + Len(block) - 1 /\ (off + i - 1) - off + 1 = i
    BY <1>1, <1>2
  <2> QED
    BY <2>1
<1>3. ASSUME NEW i \in 0 .. off - 1, i < n PROVE cells[i] = held[i]
  <2>1. i \in 0 .. n - 1 /\ i \notin off .. off + Len(block) - 1
    BY <1>1, <1>3
  <2> QED
    BY <2>1
<1> QED
  BY <1>2, <1>3

\* ftruncate keeps what is occupied.
LEMMA TruncatedKeeps ==
    ASSUME FileShape, NEW size \in Nat, NEW n \in Nat, n <= FileSize, n <= size
    PROVE  /\ DOMAIN Truncated(size) = 0 .. size - 1
           /\ \A i \in 0 .. n - 1 : Truncated(size)[i] = file.cells[i]
<1>1. ASSUME NEW i \in 0 .. n - 1 PROVE i \in 0 .. size - 1 /\ i \in DOMAIN file.cells
  BY DEF FileShape
<1> QED
  BY <1>1 DEF Truncated

\* The file has what k cells below it hold, as it was.
Keeps(k) == k <= FileSize' /\ \A i \in 0 .. k - 1 : file'.cells[i] = file.cells[i]

\* gh_fdmem_new and the writes of its caller disturb nothing that is occupied; where the file
\* is as large as the mapping, they put the block behind it.
LEMMA StoreKeeps ==
    ASSUME Movers = {}, FileShape, 1 <= FileSize, NEW p \in Procs, mem[p].occupied <= mem[p].size, CanStore(p),
           NEW block \in Seq(Cells), Store(p, block)
    PROVE  /\ maps' = maps /\ Hits(p)
           /\ mem' \in [Procs -> [data : Addresses, occupied : Nat, size : Nat]]
           /\ \A q \in Procs : q # p => mem'[q] = mem[q]
           /\ mem'[p].data = mem[p].data /\ mem'[p].occupied = mem[p].occupied + Len(block)
           /\ mem'[p].occupied <= mem'[p].size /\ mem[p].size <= mem'[p].size
           /\ file' = [cells |-> file'.cells, sealed |-> file'.sealed] /\ file'.sealed = file.sealed
           /\ FileSize' \in Nat /\ DOMAIN file'.cells = 0 .. FileSize' - 1 /\ 1 <= FileSize'
           /\ \A k \in Nat : k <= mem[p].occupied /\ k <= FileSize => Keeps(k)
           /\ mem[p].size <= FileSize =>
                 /\ mem'[p].size <= FileSize'
                 /\ \A i \in 1 .. Len(block) : file'.cells[mem[p].occupied + i - 1] = block[i]
<1> DEFINE off == mem[p].occupied
           len == Len(block)
           size == IF Fits(p, len) THEN mem[p].size ELSE NewSize(mem[p].size, off + len)
           held == IF Fits(p, len) THEN file.cells ELSE Truncated(size)
           n == IF Fits(p, len) THEN FileSize ELSE size
<1>1. /\ off \in Nat /\ len \in Nat /\ mem[p].size \in Nat /\ off <= mem[p].size
      /\ FileSize \in Nat /\ 1 <= mem[p].size
  BY DEF FileShape, CanStore
<1>2. /\ size \in Nat /\ mem[p].size <= size /\ off + len <= size /\ n \in Nat /\ 1 <= n
      /\ mem[p].size <= FileSize => size <= n
  <2> DEFINE now == mem[p].size
             need == off + len
  <2>1. need \in Nat /\ now \in Nat /\ 1 <= now
    BY <1>1
  <2>2. Fits(p, len) <=> need <= now
    BY DEF Fits
  <2> HIDE DEF now, need
  <2>3. NewSize(now, need) \in Nat /\ now <= NewSize(now, need) /\ need <= NewSize(now, need)
    BY <2>1, NewSizeFits
  <2> QED
    BY <1>1, <2>1, <2>2, <2>3 DEF now, need
<1>3. /\ DOMAIN held = 0 .. n - 1
      /\ \A k \in Nat : k <= off /\ k <= FileSize => k <= n /\ \A i \in 0 .. k - 1 : held[i] = file.cells[i]
  <2>1. CASE Fits(p, len)
    BY <2>1 DEF FileShape
  <2>2. CASE ~Fits(p, len)
    <3> DEFINE grown == NewSize(mem[p].size, off + len)
    <3>1. held = Truncated(grown) /\ n = grown /\ size = grown
      BY <2>2
    <3> HIDE DEF grown
    <3>2. grown \in Nat /\ off <= grown
      BY <1>1, <1>2, <3>1
    <3>3. DOMAIN Truncated(grown) = 0 .. grown - 1
      BY DEF Truncated
    <3>4. ASSUME NEW k \in Nat, k <= off, k <= FileSize
          PROVE  k <= grown /\ \A i \in 0 .. k - 1 : Truncated(grown)[i] = file.cells[i]
      <4>1. k <= grown
        BY <1>1, <3>2, <3>4
      <4> QED
        BY <3>2, <3>4, <4>1, TruncatedKeeps
    <3> QED
      BY <3>1, <3>3, <3>4
  <2> QED
    BY <2>1, <2>2
<1>4. maps' = maps
  <2>1. Remaps(p, size) = {maps[p]}
    BY DEF Remaps
  <2>2. maps' = [maps EXCEPT ![p] = maps[p]]
    BY <2>1 DEF Store
  <2> QED
    BY <2>2 DEF FileShape
<1>5. Hits(p)
  BY <1>4 DEF Hits, CanStore
<1>6. mem' = [mem EXCEPT ![p].size = size, ![p].occupied = off + len]
  BY DEF Store
<1>7. file' = [file EXCEPT !.cells =
                 [i \in DOMAIN held |-> IF i \in off .. off + len - 1 THEN block[i - off + 1] ELSE held[i]]]
  BY <1>5 DEF Store
<1> HIDE DEF off, len, size, held, n
<1> DEFINE cells == [i \in DOMAIN held |-> IF i \in off .. off + len - 1 THEN block[i - off + 1] ELSE held[i]]
<1>8. /\ DOMAIN cells = 0 .. n - 1
      /\ \A i \in 0 .. off - 1 : i < n => cells[i] = held[i]
      /\ off + len <= n => \A i \in 1 .. len : cells[off + i - 1] = block[i]
  <2>1. n \in Nat /\ off \in Nat /\ DOMAIN held = 0 .. n - 1
    BY <1>1, <1>2, <1>3
  <2>2. cells = [i \in DOMAIN held |-> IF i \in off .. off + Len(block) - 1 THEN block[i - off + 1] ELSE held[i]]
    BY DEF len
  <2> HIDE DEF cells
  <2>3. /\ DOMAIN cells = 0 .. n - 1
        /\ \A i \in 0 .. off - 1 : i < n => cells[i] = held[i]
        /\ off + Len(block) <= n => \A i \in 1 .. Len(block) : cells[off + i - 1] = block[i]
    BY <2>1, <2>2, WrittenCells
  <2> QED
    BY <2>3 DEF len
<1>9. file' = [cells |-> cells, sealed |-> file.sealed]
  BY <1>7 DEF FileShape
<1> HIDE DEF cells
<1>10. FileSize' = n
  BY <1>2, <1>8, <1>9, CellCount DEF FileSize
<1>11. /\ mem' \in [Procs -> [data : Addresses, occupied : Nat, size : Nat]]
       /\ \A q \in Procs : q # p => mem'[q] = mem[q]
       /\ mem'[p].data = mem[p].data /\ mem'[p].occupied = off + len /\ mem'[p].size = size
  <2> DEFINE all == off + len
  <2>1. all \in Nat /\ size \in Nat /\ mem \in [Procs -> [data : Addresses, occupied : Nat, size : Nat]]
    BY <1>1, <1>2 DEF FileShape
  <2>2. mem' = [mem EXCEPT ![p].size = size, ![p].occupied = all]
    BY <1>6
  <2> HIDE DEF all
  <2>3. mem[p] \in [data : Addresses, occupied : Nat, size : Nat]
    BY <2>1
  <2>4. mem'[p] = [data |-> mem[p].data, occupied |-> all, size |-> size]
    BY <2>1, <2>2, <2>3
  <2>5. \A q \in Procs : q # p => mem'[q] = mem[q]
    BY <2>1, <2>2
  <2>6. mem' \in [Procs -> [data : Addresses, occupied : Nat, size : Nat]]
    BY <2>1, <2>2, <2>3
  <2> QED
    BY <2>4, <2>5, <2>6 DEF all
<1>12. ASSUME NEW k \in Nat, k <= off, k <= FileSize PROVE Keeps(k)
  <2>1. k <= n /\ \A i \in 0 .. k - 1 : held[i] = file.cells[i]
    BY <1>3, <1>12
  <2>2. ASSUME NEW i \in 0 .. k - 1 PROVE file'.cells[i] = file.cells[i]
    <3>1. i \in 0 .. off - 1 /\ i < n
      BY <1>1, <1>2, <1>12, <2>1
    <3> QED
      BY <1>8, <1>9, <2>1, <3>1
  <2> QED
    BY <1>10, <2>1, <2>2 DEF Keeps
<1>13. ASSUME mem[p].size <= FileSize
       PROVE  size <= n /\ \A i \in 1 .. len : file'.cells[off + i - 1] = block[i]
  <2>1. size <= n /\ off + len <= n
    BY <1>1, <1>2, <1>13
  <2> QED
    BY <1>8, <1>9, <2>1
<1>14. /\ file' = [cells |-> file'.cells, sealed |-> file'.sealed] /\ file'.sealed = file.sealed
       /\ DOMAIN file'.cells = 0 .. n - 1
  BY <1>8, <1>9
<1> QED
  BY <1>1, <1>2, <1>4, <1>5, <1>10, <1>11, <1>12, <1>13, <1>14 DEF off, len


\* As long as the frame has not failed they put the block behind what was occupied, in the
\* file, and do not fault.
LEMMA StoreDoes ==
    ASSUME Movers = {}, FileShape, Sizes, NEW p \in Procs, CanStore(p),
           NEW block \in Seq(Cells), Store(p, block)
    PROVE  /\ maps' = maps /\ Hits(p)
           /\ mem' \in [Procs -> [data : Addresses, occupied : Nat, size : Nat]]
           /\ \A q \in Procs : q # p => mem'[q] = mem[q]
           /\ mem'[p].data = mem[p].data /\ mem'[p].occupied = mem[p].occupied + Len(block)
           /\ mem'[p].occupied <= mem'[p].size /\ mem[p].size <= mem'[p].size
           /\ file' = [cells |-> file'.cells, sealed |-> file'.sealed] /\ file'.sealed = file.sealed
           /\ FileSize' \in Nat /\ DOMAIN file'.cells = 0 .. FileSize' - 1 /\ mem'[p].size <= FileSize'
           /\ \A i \in 0 .. mem[p].occupied - 1 : file'.cells[i] = file.cells[i]
           /\ \A i \in 1 .. Len(block) : file'.cells[mem[p].occupied + i - 1] = block[i]
           /\ mem'[p].occupied <= Page * Pages(FileSize')
<1>1. /\ mem[p].occupied <= mem[p].size /\ mem[p].size <= FileSize /\ 1 <= mem[p].size
      /\ mem[p].occupied \in Nat /\ mem[p].size \in Nat /\ FileSize \in Nat
  BY DEF FileShape, Sizes, CanStore
<1>2. 1 <= FileSize /\ mem[p].occupied <= FileSize
  BY <1>1
<1>3. /\ maps' = maps /\ Hits(p)
      /\ mem' \in [Procs -> [data : Addresses, occupied : Nat, size : Nat]]
      /\ \A q \in Procs : q # p => mem'[q] = mem[q]
      /\ mem'[p].data = mem[p].data /\ mem'[p].occupied = mem[p].occupied + Len(block)
      /\ mem'[p].occupied <= mem'[p].size /\ mem[p].size <= mem'[p].size
      /\ file' = [cells |-> file'.cells, sealed |-> file'.sealed] /\ file'.sealed = file.sealed
      /\ FileSize' \in Nat /\ DOMAIN file'.cells = 0 .. FileSize' - 1
      /\ \A k \in Nat : k <= mem[p].occupied /\ k <= FileSize => Keeps(k)
      /\ mem'[p].size <= FileSize'
      /\ \A i \in 1 .. Len(block) : file'.cells[mem[p].occupied + i - 1] = block[i]
  BY <1>1, <1>2, StoreKeeps
<1>4. \A i \in 0 .. mem[p].occupied - 1 : file'.cells[i] = file.cells[i]
  <2>1. Keeps(mem[p].occupied)
    BY <1>1, <1>2, <1>3
  <2> QED
    BY <2>1 DEF Keeps
<1>5. mem'[p].occupied <= Page * Pages(FileSize')
  <2> DEFINE top == mem'[p].occupied
             all == FileSize'
  <2>1. top \in Nat /\ all \in Nat /\ top <= all
    BY <1>3
  <2> HIDE DEF top, all
  <2>2. top <= Page * Pages(all)
    BY <2>1, PagesCover
  <2> QED
    BY <2>2 DEF top, all, Pages
<1> QED
  BY <1>3, <1>4, <1>5

\* A failure leaves mappings and gh_fdmem as they were, and what is occupied in the file.
LEMMA StoreFailsKeeps ==
    ASSUME FileShape, 1 <= FileSize, NEW p \in Procs, mem[p].occupied <= mem[p].size, 1 <= mem[p].size,
           NEW block \in Seq(Cells), StoreFails(p, block)
    PROVE  /\ maps' = maps /\ mem' = mem
           /\ file' = [cells |-> file'.cells, sealed |-> file'.sealed] /\ file'.sealed = file.sealed
           /\ FileSize' \in Nat /\ DOMAIN file'.cells = 0 .. FileSize' - 1 /\ 1 <= FileSize'
           /\ \A k \in Nat : k <= mem[p].occupied /\ k <= FileSize => Keeps(k)
           /\ mem[p].size <= FileSize => mem[p].size <= FileSize'
           /\ file.sealed => file' = file
<1> DEFINE size == NewSize(mem[p].size, mem[p].occupied + Len(block))
           off == mem[p].occupied
<1>1. off \in Nat /\ Len(block) \in Nat /\ mem[p].size \in Nat /\ off <= mem[p].size /\ FileSize \in Nat
  BY DEF FileShape
<1>2. size \in Nat /\ mem[p].size <= size
  <2> DEFINE now == mem[p].size
             need == mem[p].occupied + Len(block)
  <2>1. need \in Nat /\ now \in Nat /\ 1 <= now
    BY <1>1
  <2> HIDE DEF now, need
  <2>2. NewSize(now, need) \in Nat /\ now <= NewSize(now, need)
    BY <2>1, NewSizeFits
  <2> QED
    BY <2>2 DEF now, need
<1>3. maps' = maps /\ mem' = mem
  BY DEF StoreFails
<1>4. CASE file' = file
  BY <1>1, <1>3, <1>4 DEF FileShape, FileSize, Keeps
<1>5. CASE file' = [file EXCEPT !.cells = Truncated(size)] /\ ~file.sealed
  <2>1. DOMAIN Truncated(size) = 0 .. size - 1
    BY DEF Truncated
  <2>2. file' = [cells |-> Truncated(size), sealed |-> file.sealed]
    BY <1>5 DEF FileShape
  <2>3. FileSize' = size
    BY <1>2, <2>1, <2>2, CellCount DEF FileSize
  <2> HIDE DEF size
  <2>4. ASSUME NEW k \in Nat, k <= off, k <= FileSize PROVE Keeps(k)
    <3>1. k <= size
      BY <1>1, <1>2, <2>4
    <3>2. \A i \in 0 .. k - 1 : Truncated(size)[i] = file.cells[i]
      BY <1>2, <2>4, <3>1, TruncatedKeeps
    <3> QED
      BY <2>2, <2>3, <3>1, <3>2 DEF Keeps
  <2>5. 1 <= size
    BY <1>1, <1>2
  <2> QED
    BY <1>2, <1>3, <1>5, <2>1, <2>2, <2>3, <2>4, <2>5
<1>6. file' = file \/ (file' = [file EXCEPT !.cells = Truncated(size)] /\ ~file.sealed)
  BY DEF StoreFails
<1> QED
  BY <1>4, <1>5, <1>6

\* As long as the frame has not failed, the file is at least as large as the mapping.
LEMMA StoreFailsDoes ==
    ASSUME FileShape, Sizes, NEW p \in Procs, 1 <= mem[p].size, NEW block \in Seq(Cells), StoreFails(p, block)
    PROVE  /\ maps' = maps /\ mem' = mem
           /\ file' = [cells |-> file'.cells, sealed |-> file'.sealed] /\ file'.sealed = file.sealed
           /\ FileSize' \in Nat /\ DOMAIN file'.cells = 0 .. FileSize' - 1 /\ mem[p].size <= FileSize'
           /\ \A i \in 0 .. mem[p].occupied - 1 : file'.cells[i] = file.cells[i]
           /\ file.sealed => file' = file
<1>1. /\ mem[p].occupied <= mem[p].size /\ mem[p].size <= FileSize
      /\ mem[p].occupied \in Nat /\ mem[p].size \in Nat /\ FileSize \in Nat
  BY DEF FileShape, Sizes
<1>2. 1 <= FileSize /\ mem[p].occupied <= FileSize
  BY <1>1
<1>3. Keeps(mem[p].occupied)
  BY <1>1, <1>2, StoreFailsKeeps
<1> QED
  BY <1>1, <1>2, <1>3, StoreFailsKeeps DEF Keeps

-----------------------------------------------------------------------------
(* The arguments. *)

\* Arguments stay when the cells below them do.
LEMMA HeldKept ==
    ASSUME NEW ps \in Seq(Nat), NEW vs \in Seq(Values), NEW old, NEW new,
           NEW top \in Nat, NEW limit \in Nat, top <= limit,
           \A i \in 0 .. top - 1 : new[i] = old[i], Held(ps, vs, old, top)
    PROVE  Held(ps, vs, new, limit)
<1> SUFFICES ASSUME NEW i \in 1 .. Len(vs)
             PROVE  1 <= ps[i] /\ End(ps[i] - 1, vs[i]) <= limit /\ Holds(new, ps[i] - 1, vs[i])
  BY DEF Held
<1>1. 1 <= ps[i] /\ End(ps[i] - 1, vs[i]) <= top /\ Holds(old, ps[i] - 1, vs[i])
  BY DEF Held
<1>2. ps[i] \in Nat /\ vs[i] \in Values
  BY DEF Held
<1> DEFINE off == ps[i] - 1
           v == vs[i]
<1>3. off \in Nat
  BY <1>1, <1>2
<1>4. End(off, v) \in Nat
  <2> HIDE DEF off, v
  <2>1. v \in Values
    BY <1>2 DEF v
  <2> QED
    BY <1>3, <2>1, EndNat
<1> HIDE DEF off, v
<1>5. Holds(new, off, v)
  BY <1>1, <1>2, <1>3, HoldsKept DEF off, v
<1>6. End(off, v) <= limit
  BY <1>1, <1>4 DEF off, v
<1> QED
  BY <1>1, <1>5, <1>6 DEF off, v

\* One more argument, behind the others.
LEMMA HeldAppend ==
    ASSUME NEW ps \in Seq(Nat), NEW vs \in Seq(Values), NEW cells, NEW top \in Nat, NEW off \in Nat,
           NEW v \in Values, Held(ps, vs, cells, top), End(off, v) <= top, Holds(cells, off, v)
    PROVE  Held(Append(ps, off + 1), Append(vs, v), cells, top)
<1> DEFINE qs == Append(ps, off + 1)
           ws == Append(vs, v)
<1>1. Len(ps) \in Nat /\ Len(vs) = Len(ps)
  BY DEF Held
<1>2. Len(qs) = Len(ps) + 1 /\ Len(ws) = Len(ps) + 1
  BY <1>1
<1>3. /\ \A i \in 1 .. Len(ps) : qs[i] = ps[i] /\ ws[i] = vs[i]
      /\ qs[Len(ps) + 1] = off + 1 /\ ws[Len(ps) + 1] = v /\ (off + 1) - 1 = off
  BY <1>1
<1> HIDE DEF qs, ws
<1>4. ASSUME NEW i \in 1 .. Len(ws)
      PROVE  1 <= qs[i] /\ End(qs[i] - 1, ws[i]) <= top /\ Holds(cells, qs[i] - 1, ws[i])
  <2>1. CASE i = Len(ps) + 1
    BY <1>3, <2>1
  <2>2. CASE i # Len(ps) + 1
    <3>1. i \in 1 .. Len(ps) /\ i \in 1 .. Len(vs)
      BY <1>1, <1>2, <2>2
    <3> QED
      BY <1>3, <3>1 DEF Held
  <2> QED
    BY <2>1, <2>2
<1> QED
  BY <1>2, <1>4 DEF Held, qs, ws

-----------------------------------------------------------------------------
(* The steps of the host. *)

\* The state a gh_thread_callframe_* function finds when it can store: the first call is to come.
LEMMA OpenStores ==
    ASSUME UseInv, hpc = "open", NEW block \in Seq(Cells), 1 <= Len(block), Fits("host", Len(block)) \/ ~file.sealed
    PROVE  ~file.sealed /\ CanStore("host")
<1>1. ~file.sealed
  <2>1. mem["host"].occupied \in Nat /\ mem["host"].size \in Nat /\ Len(block) \in Nat
    BY DEF UseInv, FileShape, Procs
  <2> QED
    BY <2>1 DEF UseInv, Sizes, Fits
<1> QED
  BY <1>1 DEF UseInv, Sizes, Mapped, CanStore

\* The block of an argument.
LEMMA ArgBlock ==
    ASSUME CStrings, NEW v \in Values, NEW extra \in Nat
    PROVE  /\ Encode(v, extra) \in Seq(Cells) /\ 1 <= Len(Encode(v, extra))
           /\ Len(v.str) \in Nat /\ Header \in Nat /\ 1 <= Header
           /\ \A off \in Nat : End(off, v) \in Nat /\ End(off, v) <= off + Len(Encode(v, extra)) /\ off < End(off, v)
<1> DEFINE len == Len(v.str)
           all == Len(Encode(v, extra))
<1>0. len \in Nat /\ Header \in Nat /\ 1 <= Header
  BY ValueTyped, FrameAssumption
<1>1. len \in Nat /\ Header \in Nat /\ 1 <= Header /\ all = Header + len + extra
  BY <1>0, EncodeHolds
<1>2. \A off : End(off, v) = off + Header + len
  BY DEF End
<1> HIDE DEF len, all
<1>3. \A off \in Nat : End(off, v) \in Nat /\ End(off, v) <= off + all /\ off < End(off, v)
  BY <1>1, <1>2
<1>4. 1 <= all
  BY <1>1
<1> QED
  BY <1>1, <1>3, <1>4, EncodeHolds DEF len, all

\* gh_thread_callframe_int, _double and _lstring.
LEMMA AddParamStep ==
    ASSUME Movers = {}, CStrings, UseInv, hpc = "open", NEW v \in Values, AddParam(v)
    PROVE  UseInv' /\ hpc' = "open"
<1> DEFINE block == Encode(v, 0)
           off == mem["host"].occupied
<1>0. block \in Seq(Cells) /\ 1 <= Len(block) /\ Len(block) \in Nat
  BY ArgBlock
<1>1. hpc = "open" /\ Store("host", block) /\ (Fits("host", Len(block)) \/ ~file.sealed)
  BY DEF AddParam, Store
<1>2. ~file.sealed /\ CanStore("host")
  BY <1>0, <1>1, OpenStores
<1>3. /\ maps' = maps /\ Hits("host")
      /\ mem' \in [Procs -> [data : Addresses, occupied : Nat, size : Nat]]
      /\ mem'["sub"] = mem["sub"]
      /\ mem'["host"].data = mem["host"].data /\ mem'["host"].occupied = off + Len(block)
      /\ mem'["host"].occupied <= mem'["host"].size /\ mem["host"].size <= mem'["host"].size
      /\ file' = [cells |-> file'.cells, sealed |-> file'.sealed] /\ file'.sealed = file.sealed
      /\ FileSize' \in Nat /\ DOMAIN file'.cells = 0 .. FileSize' - 1 /\ mem'["host"].size <= FileSize'
      /\ \A i \in 0 .. off - 1 : file'.cells[i] = file.cells[i]
      /\ \A i \in 1 .. Len(block) : file'.cells[off + i - 1] = block[i]
      /\ mem'["host"].occupied <= Page * Pages(FileSize')
  <2>1. "host" \in Procs /\ "sub" \in Procs /\ "sub" # "host"
    BY DEF Procs
  <2> QED
    BY <1>0, <1>1, <1>2, <2>1, StoreDoes DEF UseInv
<1>4. /\ hpc' = "open" /\ UNCHANGED <<request, result, calls, spc, reply, value>>
      /\ adds < MaxAdds /\ adds' = adds + 1
  BY <1>3 DEF AddParam, subVars, Written
<1>5. \/ Len(frame.params) + 1 > MaxParams /\ UNCHANGED <<frame, args>>
      \/ /\ ~(Len(frame.params) + 1 > MaxParams)
         /\ frame' = [frame EXCEPT !.params = Append(@, off + 1)] /\ args' = Append(args, v)
  BY DEF AddParam, VirtPtr
<1>6. frame \in [params : Seq(Nat), returned : BOOLEAN, retval : Int, status : Statuses] /\ args \in Seq(Values)
      /\ off \in Nat /\ mem["host"].size \in Nat /\ MaxParams \in Nat
  BY FrameAssumption DEF UseInv, FileShape, HostShape, Procs
<1>7. /\ frame' \in [params : Seq(Nat), returned : BOOLEAN, retval : Int, status : Statuses]
      /\ args' \in Seq(Values) /\ Len(frame'.params) <= MaxParams
      /\ frame'.returned = frame.returned /\ frame'.retval = frame.retval /\ frame'.status = frame.status
  <2>1. CASE UNCHANGED <<frame, args>>
    BY <1>6, <2>1 DEF UseInv, ArgsStored
  <2>2. CASE /\ ~(Len(frame.params) + 1 > MaxParams)
             /\ frame' = [frame EXCEPT !.params = Append(@, off + 1)] /\ args' = Append(args, v)
    <3> DEFINE ps == Append(frame.params, off + 1)
    <3>1. frame.params \in Seq(Nat) /\ off + 1 \in Nat
      BY <1>6
    <3>2. ps \in Seq(Nat) /\ Len(ps) = Len(frame.params) + 1
      BY <3>1
    <3>3. Len(ps) <= MaxParams
      BY <1>6, <2>2, <3>1, <3>2
    <3>4. frame' = [frame EXCEPT !.params = ps] /\ args' \in Seq(Values)
      BY <1>6, <2>2
    <3> HIDE DEF ps
    <3> QED
      BY <1>6, <3>2, <3>3, <3>4
  <2> QED
    BY <1>5, <2>1, <2>2
<1>8. Held(frame'.params, args', file'.cells, mem'["host"].occupied)
  <2> DEFINE top == mem'["host"].occupied
  <2>1. top \in Nat /\ off <= top /\ top = off + Len(block)
    BY <1>0, <1>3, <1>6, SMTT(30)
  <2>2. Held(frame.params, args, file'.cells, top)
    <3>1. Held(frame.params, args, file.cells, off) /\ frame.params \in Seq(Nat)
      BY <1>6 DEF UseInv, ArgsStored
    <3>2. \A i \in 0 .. off - 1 : file'.cells[i] = file.cells[i]
      BY <1>3
    <3>3. args \in Seq(Values) /\ off \in Nat /\ top \in Nat /\ off <= top
      BY <1>6, <2>1
    <3> HIDE DEF off, top
    <3> QED
      BY <3>1, <3>2, <3>3, HeldKept
  <2>3. Holds(file'.cells, off, v)
    <3> HIDE DEF off
    <3> QED
      BY <1>3, <1>6, HoldsWritten
  <2>4. End(off, v) <= top
    BY <1>6, <2>1, ArgBlock
  <2>5. CASE UNCHANGED <<frame, args>>
    BY <2>2, <2>5
  <2>6. CASE frame' = [frame EXCEPT !.params = Append(@, off + 1)] /\ args' = Append(args, v)
    <3>1. frame'.params = Append(frame.params, off + 1) /\ frame.params \in Seq(Nat)
      BY <1>6, <2>6
    <3> HIDE DEF off, top
    <3>2. Held(Append(frame.params, off + 1), Append(args, v), file'.cells, top)
      BY <1>6, <2>1, <2>2, <2>3, <2>4, <3>1, HeldAppend
    <3> QED
      BY <2>6, <3>1, <3>2 DEF top
  <2> QED
    BY <1>5, <2>5, <2>6
<1> HIDE DEF block, off
<1>9. FileShape' /\ HostShape' /\ SubShape'
  <2>1. FileShape'
    BY <1>3 DEF UseInv, FileShape
  <2>2. HostShape'
    BY <1>4, <1>7, FrameAssumption DEF UseInv, HostShape
  <2>3. SubShape'
    BY <1>4 DEF UseInv, SubShape
  <2> QED
    BY <2>1, <2>2, <2>3
<1>10. OneCall'
  BY <1>1, <1>4 DEF UseInv, OneCall, Busy
<1>11. Sizes'
  <2>1. mem["sub"].size = 0 /\ mem["sub"].occupied <= mem["sub"].size /\ 1 <= mem["host"].size
        /\ spc \notin {"call", "return"}
    BY <1>1, <1>2 DEF UseInv, Sizes, OneCall, Busy, Procs
  <2>2. mem'["host"].size \in Nat
    BY <1>3 DEF Procs
  <2> QED
    BY <1>2, <1>3, <1>4, <1>6, <2>1, <2>2 DEF Sizes, Procs
<1>12. Sealing'
  BY <1>1, <1>2, <1>3, <1>4, <1>7 DEF UseInv, Sealing, Busy
<1>13. Mapped'
  BY <1>1, <1>2, <1>3, <1>4 DEF UseInv, Mapped, Mapping
<1>14. ArgsStored'
  <2>1. request = << >> /\ spc \notin {"call", "return"}
    BY <1>1 DEF UseInv, OneCall, Busy
  <2> QED
    BY <1>4, <1>7, <1>8, <2>1 DEF ArgsStored
<1>15. ValueStored'
  <2>1. result = << >> /\ ~Busy /\ frame.retval = -1 /\ ~frame.returned
    BY <1>1, <1>2 DEF UseInv, OneCall, Sealing
  <2> QED
    BY <1>3, <1>4, <1>7, <2>1 DEF ValueStored, Busy
<1> QED
  BY <1>4, <1>9, <1>10, <1>11, <1>12, <1>13, <1>14, <1>15 DEF UseInv

\* A step that leaves the memory alone.
LEMMA QuietMemory ==
    ASSUME UseInv, UNCHANGED <<file, mem, maps>>
    PROVE  FileShape' /\ FileSize' = FileSize
BY DEF UseInv, FileShape, FileSize

\* One that leaves the cells alone.
LEMMA QuietCells ==
    ASSUME file'.cells = file.cells
    PROVE  FileSize' = FileSize
BY DEF FileSize

\* munmap of the mapping that gh_fdmem knows leaves none.
LEMMA UnmappedNone ==
    ASSUME UseInv
    PROVE  Unmapped("host") = {} /\ Unmapped("sub") = {}
BY DEF UseInv, Mapped, Unmapped

\* What is known of the numbers of a gh_fdmem.
LEMMA MemTyped ==
    ASSUME UseInv
    PROVE  /\ FileSize \in Nat
           /\ mem["host"].occupied \in Nat /\ mem["host"].size \in Nat /\ mem["host"].data \in Addresses
           /\ mem["sub"].occupied \in Nat /\ mem["sub"].size \in Nat /\ mem["sub"].data \in Addresses
           /\ mem["host"].occupied <= mem["host"].size /\ mem["host"].size <= FileSize /\ 1 <= mem["host"].size
           /\ mem["sub"].occupied <= mem["sub"].size /\ mem["sub"].size <= FileSize
BY DEF UseInv, FileShape, Sizes, Procs

\* A gh_thread_callframe_* function that fails.
LEMMA AddParamFailsStep ==
    ASSUME CStrings, UseInv, hpc = "open", NEW v \in Values, AddParamFails(v)
    PROVE  UseInv'
<1> DEFINE block == Encode(v, 0)
<1>1. hpc = "open" /\ StoreFails("host", block) /\ adds' = adds + 1 /\ adds < MaxAdds
      /\ UNCHANGED <<hpc, frame, args, request, result, calls, spc, reply, value>>
  BY DEF AddParamFails, subVars
<1>2. block \in Seq(Cells)
  BY ArgBlock
<1>3. /\ maps' = maps /\ mem' = mem
      /\ file' = [cells |-> file'.cells, sealed |-> file'.sealed] /\ file'.sealed = file.sealed
      /\ FileSize' \in Nat /\ DOMAIN file'.cells = 0 .. FileSize' - 1 /\ mem["host"].size <= FileSize'
      /\ \A i \in 0 .. mem["host"].occupied - 1 : file'.cells[i] = file.cells[i]
      /\ file.sealed => file' = file
  <2>1. "host" \in Procs
    BY DEF Procs
  <2> QED
    BY <1>1, <1>2, <2>1, MemTyped, StoreFailsDoes DEF UseInv
<1> HIDE DEF block
<1>4. FileShape' /\ HostShape' /\ SubShape'
  <2>1. FileShape'
    BY <1>3 DEF UseInv, FileShape
  <2>2. HostShape'
    BY <1>1, FrameAssumption DEF UseInv, HostShape
  <2>3. SubShape'
    BY <1>1 DEF UseInv, SubShape
  <2> QED
    BY <2>1, <2>2, <2>3
<1>5. OneCall'
  BY <1>1 DEF UseInv, OneCall, Busy
<1>6. Sizes'
  <2>1. CASE file.sealed
    BY <1>1, <1>3, <2>1 DEF UseInv, Sizes, FileSize
  <2>2. CASE ~file.sealed
    <3>1. mem["sub"].size = 0 /\ mem["sub"].occupied <= mem["sub"].size /\ spc \notin {"call", "return"}
      BY <1>1, <2>2 DEF UseInv, Sizes, OneCall, Busy, Procs
    <3> QED
      BY <1>1, <1>3, <2>2, <3>1, MemTyped DEF Sizes, Procs
  <2> QED
    BY <2>1, <2>2
<1>7. Sealing'
  BY <1>1, <1>3 DEF UseInv, Sealing, Busy
<1>8. Mapped'
  BY <1>1, <1>3 DEF UseInv, Mapped, Mapping
<1>9. ArgsStored'
  <2>1. Held(frame.params, args, file'.cells, mem["host"].occupied)
    <3> DEFINE top == mem["host"].occupied
    <3>1. frame.params \in Seq(Nat) /\ args \in Seq(Values) /\ Held(frame.params, args, file.cells, top)
      BY DEF UseInv, HostShape, ArgsStored
    <3>2. top \in Nat /\ top <= top /\ \A i \in 0 .. top - 1 : file'.cells[i] = file.cells[i]
      BY <1>3, MemTyped
    <3> HIDE DEF top
    <3>3. Held(frame.params, args, file'.cells, top)
      BY <3>1, <3>2, HeldKept
    <3> QED
      BY <3>3 DEF top
  <2> QED
    BY <1>1, <1>3, <2>1 DEF UseInv, ArgsStored
<1>10. ValueStored'
  <2>1. result = << >> /\ ~Busy
    BY <1>1 DEF UseInv, OneCall
  <2>2. CASE file.sealed
    BY <1>1, <1>3, <2>1, <2>2, QuietCells DEF UseInv, ValueStored, Busy
  <2>3. CASE ~file.sealed
    <3>1. frame.retval = -1 /\ ~frame.returned
      BY <2>3 DEF UseInv, Sealing
    <3> QED
      BY <1>1, <1>3, <2>1, <3>1 DEF ValueStored, Busy
  <2> QED
    BY <2>2, <2>3
<1> QED
  BY <1>4, <1>5, <1>6, <1>7, <1>8, <1>9, <1>10 DEF UseInv

\* gh_thread_call sends the message.
LEMMA CallStep ==
    ASSUME UseInv, Call
    PROVE  UseInv'
<1> DEFINE m == [params |-> frame.params, occupied |-> mem["host"].occupied]
<1>1. /\ hpc = "open" /\ hpc' = "calling" /\ calls' = calls + 1 /\ calls < MaxCalls
      /\ UNCHANGED <<file, mem, maps, frame, result, args, adds, spc, reply, value>>
  BY DEF Call, subVars
<1>2. request = << >> /\ result = << >> /\ ~Busy
  BY <1>1 DEF UseInv, OneCall
<1>3. m \in [params : Seq(Nat), occupied : Nat]
  BY MemTyped DEF UseInv, HostShape
<1>4. request' = Append(request, m)
  BY DEF Call
<1> HIDE DEF m
<1>5. request' \in Seq([params : Seq(Nat), occupied : Nat]) /\ Len(request') = 1 /\ Head(request') = m
  BY <1>2, <1>3, <1>4
<1>6. FileShape' /\ FileSize' = FileSize
  BY <1>1, QuietMemory
<1>7. HostShape' /\ SubShape'
  BY <1>1, <1>5, FrameAssumption DEF UseInv, HostShape, SubShape
<1>8. OneCall'
  BY <1>1, <1>2, <1>5 DEF UseInv, OneCall, Busy
<1>9. Sizes' /\ Sealing' /\ Mapped'
  BY <1>1, <1>6 DEF UseInv, Sizes, Sealing, Mapped, Busy, Mapping
<1>10. ArgsStored'
  BY <1>1, <1>5 DEF UseInv, ArgsStored, m
<1>11. ValueStored'
  BY <1>1, <1>2, <1>6 DEF UseInv, ValueStored, Busy
<1> QED
  BY <1>6, <1>7, <1>8, <1>9, <1>10, <1>11 DEF UseInv

\* gh_fdmem_sync.
LEMMA SyncStep ==
    ASSUME UseInv, Sync
    PROVE  UseInv'
<1>1. /\ hpc = "calling" /\ hpc' = "seal" /\ result # << >> /\ ~file.sealed
      /\ UNCHANGED <<file, frame, request, result, args, adds, calls, spc, reply, value>>
  BY DEF Sync, subVars
<1>2. PICK a \in Addresses :
          /\ maps' = [maps EXCEPT !["host"] = Unmapped("host") \cup {[at |-> a, write |-> TRUE]}]
          /\ mem' = [mem EXCEPT !["host"] = [data |-> a, size |-> FileSize, occupied |-> FileSize]]
  BY DEF Sync, Free
<1>3. /\ maps'["host"] = {[at |-> a, write |-> TRUE]} /\ maps'["sub"] = maps["sub"]
      /\ maps' \in [Procs -> SUBSET [at : Addresses, write : BOOLEAN]]
  <2> DEFINE left == {[at |-> a, write |-> TRUE]}
  <2>1. maps' = [maps EXCEPT !["host"] = left]
    BY <1>2, UnmappedNone
  <2>2. left \in SUBSET [at : Addresses, write : BOOLEAN]
    BY <1>2
  <2> HIDE DEF left
  <2>3. maps'["host"] = left /\ maps'["sub"] = maps["sub"] /\ maps' \in [Procs -> SUBSET [at : Addresses, write : BOOLEAN]]
    BY <2>1, <2>2 DEF UseInv, FileShape, Procs
  <2> QED
    BY <2>3 DEF left
<1>4. /\ mem'["host"].data = a /\ mem'["host"].size = FileSize /\ mem'["host"].occupied = FileSize
      /\ mem'["sub"] = mem["sub"]
      /\ mem' \in [Procs -> [data : Addresses, occupied : Nat, size : Nat]]
  BY <1>2, MemTyped DEF UseInv, FileShape, Procs
<1>5. FileSize' = FileSize
  BY <1>1, QuietCells
<1>6. request = << >> /\ ~Busy
  BY <1>1 DEF UseInv, OneCall
<1>7. FileShape'
  BY <1>1, <1>3, <1>4, <1>5 DEF UseInv, FileShape
<1>8. HostShape' /\ SubShape' /\ OneCall'
  BY <1>1 DEF UseInv, HostShape, SubShape, OneCall, Busy
<1>9. Sizes'
  BY <1>1, <1>4, <1>5, <1>6, MemTyped DEF Sizes, Busy, Procs
<1>10. Sealing' /\ Mapped'
  BY <1>1, <1>3, <1>4, <1>6 DEF UseInv, Sealing, Mapped, Busy, Mapping
<1>11. ArgsStored'
  <2>1. frame.params \in Seq(Nat) /\ args \in Seq(Values) /\ Held(frame.params, args, file.cells, mem["host"].occupied)
    BY DEF UseInv, HostShape, ArgsStored
  <2>2. mem["host"].occupied <= FileSize
    BY MemTyped
  <2>3. Held(frame.params, args, file.cells, FileSize)
    BY <2>1, <2>2, MemTyped, HeldKept
  <2> QED
    BY <1>1, <1>4, <1>6, <2>3 DEF UseInv, ArgsStored, Busy
<1>12. ValueStored'
  BY <1>1, <1>5 DEF UseInv, ValueStored, Leads
<1> QED
  BY <1>7, <1>8, <1>9, <1>10, <1>11, <1>12 DEF UseInv

\* A queue with at most one message, and one in it.
LEMMA OneElement ==
    ASSUME NEW S, NEW s \in Seq(S), Len(s) <= 1, s # << >>
    PROVE  Len(s) = 1 /\ Head(s) \in S /\ Tail(s) = << >>
<1>1. Len(s) = 1
  <2> DEFINE n == Len(s)
  <2>1. n \in Nat \ {0} /\ n <= 1
    BY EmptySeq, Zenon
  <2> HIDE DEF n
  <2>2. n = 1
    BY <2>1
  <2> QED
    BY <2>2 DEF n
<1>2. Tail(s) \in Seq(S) /\ Len(Tail(s)) = 0
  BY <1>1
<1>3. Tail(s) = << >>
  BY <1>2, EmptySeq
<1> QED
  BY <1>1, <1>3

\* The result is taken from the socket.
LEMMA ResultTaken ==
    ASSUME UseInv, result # << >>
    PROVE  /\ Tail(result) = << >> /\ request = << >> /\ ~Busy /\ ~file.sealed
           /\ Head(result) \in [status : Statuses, ptr : Nat] /\ Leads(Head(result).status, Head(result).ptr)
<1>1. result \in Seq([status : Statuses, ptr : Nat]) /\ Len(result) <= 1
  BY DEF UseInv, SubShape, OneCall
<1>2. Tail(result) = << >> /\ Head(result) \in [status : Statuses, ptr : Nat]
  BY <1>1, OneElement
<1>3. ~Busy /\ request = << >> /\ ~file.sealed
  BY DEF UseInv, OneCall, Sealing
<1>4. Leads(Head(result).status, Head(result).ptr)
  BY DEF UseInv, ValueStored
<1> QED
  BY <1>2, <1>3, <1>4

\* gh_fdmem_realptr finds what a result leads to.
LEMMA RealPtrFinds ==
    ASSUME NEW p, mem[p].occupied \in Nat, NEW ptr \in Nat, NEW v \in Values
    PROVE  /\ ptr = 0 => RealPtr(p, ptr, Header) = -1
           /\ 1 <= ptr /\ End(ptr - 1, v) <= mem[p].occupied => RealPtr(p, ptr, Header) = ptr - 1
           /\ 1 <= ptr /\ End(ptr - 1, v) <= mem[p].occupied => RealPtr(p, ptr, 1) = ptr - 1
<1> DEFINE len == Len(v.str)
           top == mem[p].occupied
<1>1. Header \in Nat /\ Header >= 1 /\ len \in Nat /\ End(ptr - 1, v) = ptr - 1 + Header + len /\ top \in Nat
  BY ValueTyped, FrameAssumption DEF End
<1>2. \A q : RealCell(p, q) = IF q = 0 \/ q - 1 >= top THEN -1 ELSE q - 1
  BY DEF RealCell
<1> HIDE DEF len, top
<1>3. /\ RealPtr(p, ptr, Header) = (IF RealCell(p, ptr + Header - 1) = -1 THEN -1 ELSE RealCell(p, ptr))
      /\ RealPtr(p, ptr, 1) = (IF RealCell(p, ptr + 1 - 1) = -1 THEN -1 ELSE RealCell(p, ptr))
  BY DEF RealPtr
<1>4. ptr = 0 => RealCell(p, ptr) = -1
  BY <1>2
<1>5. ASSUME 1 <= ptr, ptr - 1 + Header + len <= top
      PROVE  /\ RealCell(p, ptr) = ptr - 1 /\ ptr - 1 # -1
             /\ RealCell(p, ptr + Header - 1) # -1 /\ ptr + 1 - 1 = ptr
  <2>1. ptr - 1 < top /\ ptr + Header - 1 # 0 /\ (ptr + Header - 1) - 1 < top /\ (ptr + Header - 1) - 1 # -1
    BY <1>1, <1>5
  <2>2. ptr + 1 - 1 = ptr /\ ptr - 1 # -1 /\ ~(ptr - 1 >= top) /\ ptr # 0 /\ ~((ptr + Header - 1) - 1 >= top)
    BY <1>1, <1>5, <2>1
  <2>3. RealCell(p, ptr) = ptr - 1
    BY <1>2, <2>2
  <2>4. RealCell(p, ptr + Header - 1) = (ptr + Header - 1) - 1
    BY <1>2, <2>1, <2>2
  <2> QED
    BY <2>1, <2>2, <2>3, <2>4
<1>6. ptr = 0 => RealPtr(p, ptr, Header) = -1
  BY <1>3, <1>4
<1>7. ASSUME 1 <= ptr, End(ptr - 1, v) <= top PROVE RealPtr(p, ptr, Header) = ptr - 1 /\ RealPtr(p, ptr, 1) = ptr - 1
  BY <1>1, <1>3, <1>5, <1>7
<1> QED
  BY <1>6, <1>7 DEF top

\* gh_fdmem_seal and the returned value.
LEMMA SealStep ==
    ASSUME UseInv, Seal
    PROVE  UseInv'
<1> DEFINE r == Head(result)
           p == RealPtr("host", r.ptr, Header)
<1>1. /\ hpc = "seal" /\ hpc' = "open" /\ file' = [file EXCEPT !.sealed = TRUE] /\ result' = Tail(result)
      /\ UNCHANGED <<request, args, adds, calls, spc, reply, value>>
      /\ frame' = [frame EXCEPT !.returned = TRUE, !.status = r.status, !.retval = IF p # -1 THEN p ELSE @]
  BY DEF Seal, subVars
<1>2. PICK a \in Addresses :
          /\ maps' = [maps EXCEPT !["host"] = Unmapped("host") \cup {[at |-> a, write |-> FALSE]}]
          /\ mem' = [mem EXCEPT !["host"].data = a]
  BY DEF Seal, Free
<1>3. result # << >>
  BY <1>1 DEF UseInv, OneCall
<1>4. /\ result' = << >> /\ request = << >> /\ ~Busy /\ ~file.sealed
      /\ r \in [status : Statuses, ptr : Nat] /\ Leads(r.status, r.ptr)
  BY <1>1, <1>3, ResultTaken
<1>5. /\ maps'["sub"] = maps["sub"] /\ maps'["host"] = {[at |-> a, write |-> FALSE]}
      /\ maps' \in [Procs -> SUBSET [at : Addresses, write : BOOLEAN]]
  <2> DEFINE left == {[at |-> a, write |-> FALSE]}
  <2>1. maps' = [maps EXCEPT !["host"] = left]
    BY <1>2, UnmappedNone
  <2>2. left \in SUBSET [at : Addresses, write : BOOLEAN]
    BY <1>2
  <2> HIDE DEF left
  <2>3. maps'["host"] = left /\ maps'["sub"] = maps["sub"] /\ maps' \in [Procs -> SUBSET [at : Addresses, write : BOOLEAN]]
    BY <2>1, <2>2 DEF UseInv, FileShape, Procs
  <2> QED
    BY <2>3 DEF left
<1>6. /\ mem' \in [Procs -> [data : Addresses, occupied : Nat, size : Nat]] /\ mem'["sub"] = mem["sub"]
      /\ mem'["host"].data = a
      /\ mem'["host"].occupied = mem["host"].occupied /\ mem'["host"].size = mem["host"].size
  BY <1>2 DEF UseInv, FileShape, Procs
<1>7. /\ file' = [cells |-> file'.cells, sealed |-> file'.sealed] /\ file'.cells = file.cells /\ file'.sealed = TRUE
      /\ FileSize' = FileSize
  <2>1. file' = [cells |-> file.cells, sealed |-> TRUE]
    BY <1>1 DEF UseInv, FileShape
  <2> QED
    BY <2>1, QuietCells
<1>8. mem["host"].occupied = mem["host"].size /\ mem["host"].size = FileSize
  BY <1>1 DEF UseInv, Sizes
<1>9. /\ frame.retval = -1 /\ value \in Values
      /\ frame \in [params : Seq(Nat), returned : BOOLEAN, retval : Int, status : Statuses]
  BY <1>4 DEF UseInv, Sealing, HostShape, SubShape
<1>10. IF r.status = "ok" THEN p = r.ptr - 1 /\ p \in Nat /\ p < FileSize /\ Holds(file.cells, p, value)
                          ELSE p = -1
  <2> DEFINE ptr == r.ptr
  <2>1. ptr \in Nat /\ Leads(r.status, ptr) /\ mem["host"].occupied \in Nat
    BY <1>4, MemTyped
  <2>2. p = RealPtr("host", ptr, Header)
    OBVIOUS
  <2> HIDE DEF ptr, p
  <2>3. CASE r.status = "ok"
    <3>1. 1 <= ptr /\ End(ptr - 1, value) <= FileSize /\ Holds(file.cells, ptr - 1, value)
      BY <2>1, <2>3 DEF Leads
    <3>2. p = ptr - 1
      BY <1>8, <1>9, <2>1, <2>2, <3>1, RealPtrFinds
    <3>3. ptr - 1 \in Nat
      BY <2>1, <3>1
    <3>4. ptr - 1 < FileSize
      BY <1>9, <3>1, <3>3, EndNat, MemTyped
    <3> QED
      BY <2>3, <3>1, <3>2, <3>3, <3>4 DEF ptr
  <2>4. CASE r.status # "ok"
    <3>1. ptr = 0
      BY <2>1, <2>4 DEF Leads
    <3>2. p = -1
      BY <1>9, <2>1, <2>2, <3>1, RealPtrFinds
    <3> QED
      BY <2>4, <3>2
  <2> QED
    BY <2>3, <2>4
<1> HIDE DEF p, r
<1>11. /\ frame' \in [params : Seq(Nat), returned : BOOLEAN, retval : Int, status : Statuses]
       /\ frame'.params = frame.params /\ frame'.returned = TRUE /\ frame'.status = r.status /\ frame'.retval = p
  <2>1. (IF p # -1 THEN p ELSE frame.retval) = p /\ p \in Int
    BY <1>9, <1>10
  <2>2. frame' = [frame EXCEPT !.returned = TRUE, !.status = r.status, !.retval = p]
    BY <1>1, <2>1
  <2> QED
    BY <1>4, <1>9, <2>1, <2>2
<1>12. FileShape'
  BY <1>5, <1>6, <1>7 DEF UseInv, FileShape
<1>13. HostShape' /\ SubShape'
  <2>1. hpc' = "open" /\ UNCHANGED <<request, args, adds, calls, spc, reply, value>>
    BY <1>1
  <2>2. result' = << >>
    BY <1>4
  <2> QED
    BY <1>11, <2>1, <2>2 DEF UseInv, HostShape, SubShape
<1>14. OneCall'
  <2>1. hpc' = "open" /\ request' = << >> /\ result' = << >> /\ ~Busy'
    BY <1>1, <1>4 DEF Busy
  <2> QED
    BY <2>1 DEF OneCall
<1>15. Sizes'
  BY <1>1, <1>4, <1>6, <1>7, <1>8, MemTyped DEF Sizes, Busy, Procs
<1>16. Sealing' /\ Mapped'
  BY <1>1, <1>4, <1>5, <1>6, <1>7, <1>11 DEF UseInv, Sealing, Mapped, Busy, Mapping
<1>17. ArgsStored'
  BY <1>1, <1>4, <1>6, <1>7, <1>11 DEF UseInv, ArgsStored, Busy
<1>18. ValueStored'
  <2>1. -1 <= p /\ p < FileSize
    BY <1>10, MemTyped
  <2>2. IF r.status = "ok" THEN 0 <= p /\ Holds(file.cells, p, value) ELSE p = -1
    BY <1>10
  <2> QED
    BY <1>1, <1>4, <1>7, <1>11, <2>1, <2>2 DEF ValueStored, Busy
<1> QED
  BY <1>12, <1>13, <1>14, <1>15, <1>16, <1>17, <1>18 DEF UseInv

-----------------------------------------------------------------------------
(* The steps of the subjail. *)

\* The request is taken from the socket: the host waits or has given up.
LEMMA RequestTaken ==
    ASSUME UseInv, request # << >>
    PROVE  /\ Tail(request) = << >> /\ result = << >> /\ ~Busy /\ hpc \notin {"open", "seal"}
           /\ Head(request) = [params |-> frame.params, occupied |-> mem["host"].occupied]
<1>1. request \in Seq([params : Seq(Nat), occupied : Nat]) /\ Len(request) <= 1
  BY DEF UseInv, SubShape, OneCall
<1>2. Tail(request) = << >>
  BY <1>1, OneElement
<1>3. result = << >> /\ ~Busy /\ hpc \notin {"open", "seal"}
  BY DEF UseInv, OneCall
<1>4. Head(request) = [params |-> frame.params, occupied |-> mem["host"].occupied]
  BY DEF UseInv, ArgsStored
<1> QED
  BY <1>2, <1>3, <1>4

\* While lua_callfunction runs there is no message, and the host waits or has given up.
LEMMA BusyAlone ==
    ASSUME UseInv, Busy
    PROVE  request = << >> /\ result = << >> /\ hpc \notin {"open", "seal"} /\ ~file.sealed /\ frame.retval = -1
BY DEF UseInv, OneCall, Sealing

\* gh_fdmem_ctorfdo.
LEMMA SubMapStep ==
    ASSUME UseInv, SubMap
    PROVE  UseInv'
<1> DEFINE m == Head(request)
<1>1. /\ spc = "idle" /\ spc' = "call" /\ request # << >> /\ ~file.sealed /\ request' = Tail(request)
      /\ reply' = [params |-> m.params, status |-> "ok", ptr |-> 0, fatal |-> FALSE]
      /\ UNCHANGED <<file, result, value, hpc, frame, args, adds, calls>>
  BY DEF SubMap, hostVars
<1>2. PICK a \in Addresses :
          /\ maps' = [maps EXCEPT !["sub"] = @ \cup {[at |-> a, write |-> TRUE]}]
          /\ mem' = [mem EXCEPT !["sub"] = [data |-> a, size |-> FileSize, occupied |-> m.occupied]]
  BY DEF SubMap, Free
<1>3. /\ request' = << >> /\ result = << >> /\ hpc \notin {"open", "seal"}
      /\ m.params = frame.params /\ m.occupied = mem["host"].occupied
  BY <1>1, RequestTaken
<1>4. /\ maps'["host"] = maps["host"] /\ maps'["sub"] = {[at |-> a, write |-> TRUE]}
      /\ maps' \in [Procs -> SUBSET [at : Addresses, write : BOOLEAN]]
  <2> DEFINE left == {[at |-> a, write |-> TRUE]}
  <2>1. maps["sub"] = {}
    BY <1>1 DEF UseInv, Mapped, Mapping
  <2>2. maps' = [maps EXCEPT !["sub"] = left]
    BY <1>2, <2>1
  <2>3. left \in SUBSET [at : Addresses, write : BOOLEAN]
    BY <1>2
  <2> HIDE DEF left
  <2>4. maps'["sub"] = left /\ maps'["host"] = maps["host"] /\ maps' \in [Procs -> SUBSET [at : Addresses, write : BOOLEAN]]
    BY <2>2, <2>3 DEF UseInv, FileShape, Procs
  <2> QED
    BY <2>4 DEF left
<1> HIDE DEF m
<1>5. /\ mem' \in [Procs -> [data : Addresses, occupied : Nat, size : Nat]] /\ mem'["host"] = mem["host"]
      /\ mem'["sub"].data = a /\ mem'["sub"].size = FileSize /\ mem'["sub"].occupied = mem["host"].occupied
  BY <1>2, <1>3, MemTyped DEF UseInv, FileShape, Procs
<1>6. FileSize' = FileSize
  BY <1>1, QuietCells
<1>7. /\ reply' \in [params : Seq(Nat), status : Statuses, ptr : Nat, fatal : BOOLEAN]
      /\ reply'.params = frame.params /\ reply'.status = "ok" /\ reply'.ptr = 0
  BY <1>1, <1>3 DEF UseInv, HostShape, Statuses
<1>8. spc' = "call" /\ request' = << >> /\ UNCHANGED <<file, result, value, hpc, frame, args, adds, calls>> /\ ~file.sealed
  BY <1>1, <1>3
<1>9. FileShape'
  BY <1>4, <1>5, <1>6, <1>8 DEF UseInv, FileShape
<1>10. HostShape' /\ SubShape'
  BY <1>7, <1>8 DEF UseInv, HostShape, SubShape
<1>11. OneCall'
  BY <1>3, <1>8 DEF UseInv, OneCall, Busy
<1>12. Sizes'
  BY <1>3, <1>5, <1>6, <1>8, MemTyped DEF Sizes, Procs
<1>13. Sealing' /\ Mapped'
  BY <1>3, <1>4, <1>5, <1>8 DEF UseInv, Sealing, Mapped, Busy, Mapping
<1>14. ArgsStored'
  BY <1>5, <1>7, <1>8 DEF UseInv, ArgsStored
<1>15. ValueStored'
  BY <1>3, <1>6, <1>7, <1>8 DEF UseInv, ValueStored
<1> QED
  BY <1>9, <1>10, <1>11, <1>12, <1>13, <1>14, <1>15 DEF UseInv

\* It fails, and the message loop ends.
LEMMA SubMapFailsStep ==
    ASSUME UseInv, SubMapFails
    PROVE  UseInv'
<1>1. /\ spc = "idle" /\ spc' = "dead" /\ request # << >> /\ request' = Tail(request)
      /\ UNCHANGED <<file, mem, maps, result, reply, value, hpc, frame, args, adds, calls>>
  BY DEF SubMapFails, hostVars
<1>2. request' = << >> /\ result = << >> /\ hpc \notin {"open", "seal"}
  BY <1>1, RequestTaken
<1>3. FileShape' /\ FileSize' = FileSize
  BY <1>1, QuietMemory
<1>4. HostShape' /\ SubShape' /\ OneCall'
  BY <1>1, <1>2 DEF UseInv, HostShape, SubShape, OneCall, Busy
<1>5. Sizes' /\ Sealing' /\ Mapped'
  BY <1>1, <1>2, <1>3 DEF UseInv, Sizes, Sealing, Mapped, Busy, Mapping
<1>6. ArgsStored'
  BY <1>1, <1>2 DEF UseInv, ArgsStored
<1>7. ValueStored'
  BY <1>1, <1>2, <1>3 DEF UseInv, ValueStored
<1> QED
  BY <1>3, <1>4, <1>5, <1>6, <1>7 DEF UseInv

\* The function returns.
LEMMA SubCallStep ==
    ASSUME UseInv, SubCall
    PROVE  UseInv'
<1>1. /\ spc = "call" /\ spc' = "return" /\ value' \in Values
      /\ UNCHANGED <<file, mem, maps, request, result, reply, hpc, frame, args, adds, calls>>
  BY DEF SubCall, hostVars
<1>2. Busy
  BY <1>1 DEF Busy
<1>3. request = << >> /\ result = << >> /\ hpc \notin {"open", "seal"}
  BY <1>2, BusyAlone
<1>4. FileShape' /\ FileSize' = FileSize
  BY <1>1, QuietMemory
<1>5. HostShape' /\ SubShape' /\ OneCall'
  BY <1>1, <1>3 DEF UseInv, HostShape, SubShape, OneCall, Busy
<1>6. Sizes' /\ Sealing' /\ Mapped'
  BY <1>1, <1>3, <1>4 DEF UseInv, Sizes, Sealing, Mapped, Busy, Mapping
<1>7. ArgsStored'
  BY <1>1, <1>3 DEF UseInv, ArgsStored
<1>8. ValueStored'
  BY <1>1, <1>3, <1>4 DEF UseInv, ValueStored
<1> QED
  BY <1>4, <1>5, <1>6, <1>7, <1>8 DEF UseInv

\* The function is not called, or raises an error.
LEMMA SubCallFailsStep ==
    ASSUME UseInv, SubCallFails
    PROVE  UseInv'
<1>1. /\ spc = "call" /\ spc' = "unmap"
      /\ UNCHANGED <<file, mem, maps, request, result, value, hpc, frame, args, adds, calls>>
  BY DEF SubCallFails, hostVars
<1>2. PICK status \in {"missing", "error", "param"} : reply' = [reply EXCEPT !.status = status]
  BY DEF SubCallFails
<1>3. Busy
  BY <1>1 DEF Busy
<1>4. request = << >> /\ result = << >> /\ hpc \notin {"open", "seal"}
  BY <1>3, BusyAlone
<1>5. /\ reply' \in [params : Seq(Nat), status : Statuses, ptr : Nat, fatal : BOOLEAN]
      /\ reply'.status # "ok" /\ reply'.ptr = 0
  BY <1>1, <1>2 DEF UseInv, SubShape, ValueStored, Statuses
<1>6. FileShape' /\ FileSize' = FileSize
  BY <1>1, QuietMemory
<1>7. HostShape' /\ SubShape' /\ OneCall'
  BY <1>1, <1>4, <1>5 DEF UseInv, HostShape, SubShape, OneCall, Busy
<1>8. Sizes' /\ Sealing' /\ Mapped'
  BY <1>1, <1>4, <1>6 DEF UseInv, Sizes, Sealing, Mapped, Busy, Mapping
<1>9. ArgsStored'
  BY <1>1, <1>4 DEF UseInv, ArgsStored
<1>10. ValueStored'
  BY <1>1, <1>4, <1>5, <1>6 DEF UseInv, ValueStored, Leads
<1> QED
  BY <1>6, <1>7, <1>8, <1>9, <1>10 DEF UseInv

\* The block of a returned value.
LEMMA ReturnBlockIs ==
    ASSUME CStrings, UseInv
    PROVE  \E extra \in Nat : ReturnBlock = Encode(value, extra)
BY DEF ReturnBlock

\* The parts of the invariant that a store of the subjail keeps.
LEMMA SubStored ==
    ASSUME UseInv, spc = "return", spc' = "unmap", maps' = maps,
           UNCHANGED <<request, result, value, hpc, frame, args, adds, calls>>,
           mem' \in [Procs -> [data : Addresses, occupied : Nat, size : Nat]], mem'["host"] = mem["host"],
           mem'["sub"].data = mem["sub"].data, mem'["sub"].occupied <= mem'["sub"].size,
           mem["sub"].size <= mem'["sub"].size, mem'["sub"].size <= FileSize',
           file' = [cells |-> file'.cells, sealed |-> file'.sealed], file'.sealed = file.sealed,
           FileSize' \in Nat, DOMAIN file'.cells = 0 .. FileSize' - 1,
           \A i \in 0 .. mem["sub"].occupied - 1 : file'.cells[i] = file.cells[i],
           reply' \in [params : Seq(Nat), status : Statuses, ptr : Nat, fatal : BOOLEAN],
           Leads(reply.status, reply.ptr)'
    PROVE  UseInv'
<1>1. request = << >> /\ result = << >> /\ hpc \notin {"open", "seal"} /\ ~file.sealed /\ frame.retval = -1
  <2>1. Busy
    BY DEF Busy
  <2> QED
    BY <2>1, BusyAlone
<1>2. mem["sub"].occupied = mem["host"].occupied /\ mem["host"].size <= mem["sub"].size
  BY DEF UseInv, Sizes
<1>3. FileShape'
  BY DEF UseInv, FileShape
<1>4. HostShape' /\ SubShape'
  BY DEF UseInv, HostShape, SubShape
<1>5. OneCall'
  BY <1>1 DEF UseInv, OneCall
<1>6. Sizes'
  <2>1. mem'["sub"].size \in Nat
    BY DEF Procs
  <2> QED
    BY <1>1, <1>2, <2>1, MemTyped DEF Sizes, Procs
<1>7. Sealing' /\ Mapped'
  BY <1>1 DEF UseInv, Sealing, Mapped, Mapping
<1>8. ArgsStored'
  <2> DEFINE top == mem["host"].occupied
  <2>1. frame.params \in Seq(Nat) /\ args \in Seq(Values) /\ Held(frame.params, args, file.cells, top)
    BY DEF UseInv, HostShape, ArgsStored
  <2>2. top \in Nat /\ top <= top /\ \A i \in 0 .. top - 1 : file'.cells[i] = file.cells[i]
    BY <1>2, MemTyped
  <2> HIDE DEF top
  <2>3. Held(frame.params, args, file'.cells, top)
    BY <2>1, <2>2, HeldKept
  <2> QED
    BY <1>1, <2>3 DEF UseInv, ArgsStored, top
<1>9. ValueStored'
  BY <1>1 DEF ValueStored
<1> QED
  BY <1>3, <1>4, <1>5, <1>6, <1>7, <1>8, <1>9 DEF UseInv

\* lua_callfunction_getreturn.
LEMMA SubReturnStep ==
    ASSUME Movers = {}, CStrings, UseInv, SubReturn
    PROVE  UseInv' /\ spc' = "unmap"
<1> DEFINE off == mem["sub"].occupied
<1>1. /\ spc = "return" /\ Store("sub", ReturnBlock)
      /\ UNCHANGED <<request, result, value, hpc, frame, args, adds, calls>>
      /\ reply' = [reply EXCEPT !.ptr = off + 1]
      /\ spc' \in Written("sub", "unmap")
  BY DEF SubReturn, hostVars, VirtPtr
<1>2. PICK extra \in Nat : ReturnBlock = Encode(value, extra)
  BY ReturnBlockIs
<1>3. value \in Values
  BY DEF UseInv, SubShape
<1> DEFINE block == Encode(value, extra)
<1>4. block \in Seq(Cells) /\ Len(block) \in Nat /\ off \in Nat
      /\ End(off, value) <= off + Len(block) /\ End(off, value) \in Nat
  <2>1. off \in Nat
    BY MemTyped
  <2> HIDE DEF off
  <2>2. /\ block \in Seq(Cells)
        /\ \A o \in Nat : End(o, value) \in Nat /\ End(o, value) <= o + Len(block) /\ o < End(o, value)
    BY <1>3, ArgBlock
  <2> HIDE DEF block
  <2>3. Len(block) \in Nat
    BY <2>2
  <2>4. End(off, value) \in Nat /\ End(off, value) <= off + Len(block)
    BY <2>1, <2>2, Zenon
  <2> QED
    BY <2>1, <2>2, <2>3, <2>4
<1>5. CanStore("sub")
  <2>1. 1 <= mem["sub"].size
    BY <1>1, MemTyped DEF UseInv, Sizes
  <2> QED
    BY <1>1, <2>1 DEF CanStore, UseInv, Mapped, Mapping
<1>6. /\ maps' = maps /\ Hits("sub")
      /\ mem' \in [Procs -> [data : Addresses, occupied : Nat, size : Nat]]
      /\ mem'["host"] = mem["host"]
      /\ mem'["sub"].data = mem["sub"].data /\ mem'["sub"].occupied = off + Len(block)
      /\ mem'["sub"].occupied <= mem'["sub"].size /\ mem["sub"].size <= mem'["sub"].size
      /\ file' = [cells |-> file'.cells, sealed |-> file'.sealed] /\ file'.sealed = file.sealed
      /\ FileSize' \in Nat /\ DOMAIN file'.cells = 0 .. FileSize' - 1 /\ mem'["sub"].size <= FileSize'
      /\ \A i \in 0 .. off - 1 : file'.cells[i] = file.cells[i]
      /\ \A i \in 1 .. Len(block) : file'.cells[off + i - 1] = block[i]
      /\ mem'["sub"].occupied <= Page * Pages(FileSize')
  <2>1. "host" \in Procs /\ "sub" \in Procs /\ "sub" # "host"
    BY DEF Procs
  <2>2. Store("sub", block)
    BY <1>1, <1>2
  <2> QED
    BY <1>4, <1>5, <2>1, <2>2, StoreDoes DEF UseInv
<1>7. Holds(file'.cells, off, value)
  <2> HIDE DEF off
  <2> QED
    BY <1>3, <1>4, <1>6, HoldsWritten
<1>8. End(off, value) <= FileSize'
  <2>1. mem'["sub"].size \in Nat /\ off + Len(block) \in Nat
    BY <1>4, <1>6 DEF Procs
  <2> HIDE DEF off, block
  <2> QED
    BY <1>4, <1>6, <2>1
<1>9. /\ reply' \in [params : Seq(Nat), status : Statuses, ptr : Nat, fatal : BOOLEAN]
      /\ reply'.status = "ok" /\ reply'.ptr = off + 1 /\ (off + 1) - 1 = off /\ 1 <= off + 1
  <2>1. reply \in [params : Seq(Nat), status : Statuses, ptr : Nat, fatal : BOOLEAN] /\ reply.status = "ok"
    BY <1>1 DEF UseInv, SubShape, ValueStored
  <2>2. off \in Nat /\ reply' = [reply EXCEPT !.ptr = off + 1]
    BY <1>1, <1>4
  <2> HIDE DEF off
  <2> DEFINE next == off + 1
  <2>3. next \in Nat /\ next - 1 = off /\ 1 <= next /\ reply' = [reply EXCEPT !.ptr = next]
    BY <2>2
  <2> HIDE DEF next
  <2>4. /\ reply' \in [params : Seq(Nat), status : Statuses, ptr : Nat, fatal : BOOLEAN]
        /\ reply'.status = "ok" /\ reply'.ptr = next
    BY <2>1, <2>3
  <2> QED
    BY <2>3, <2>4 DEF next
<1>10. Leads(reply.status, reply.ptr)'
  BY <1>1, <1>7, <1>8, <1>9 DEF Leads
<1>11. spc' = "unmap"
  BY <1>1, <1>6 DEF Written
<1> QED
  BY <1>1, <1>6, <1>9, <1>10, <1>11, SubStored

\* The returned value does not fit and cannot be made to.
LEMMA SubReturnFailsStep ==
    ASSUME CStrings, UseInv, SubReturnFails
    PROVE  UseInv'
<1>1. /\ spc = "return" /\ StoreFails("sub", ReturnBlock) /\ spc' = "unmap"
      /\ UNCHANGED <<request, result, value, hpc, frame, args, adds, calls>>
      /\ reply' = [reply EXCEPT !.status = "memory", !.fatal = TRUE]
  BY DEF SubReturnFails, hostVars
<1>2. PICK extra \in Nat : ReturnBlock = Encode(value, extra)
  BY ReturnBlockIs
<1>3. ReturnBlock \in Seq(Cells)
  BY <1>2, ArgBlock DEF UseInv, SubShape
<1>4. 1 <= mem["sub"].size /\ "sub" \in Procs
  BY <1>1, MemTyped DEF UseInv, Sizes, Procs
<1>5. /\ maps' = maps /\ mem' = mem
      /\ file' = [cells |-> file'.cells, sealed |-> file'.sealed] /\ file'.sealed = file.sealed
      /\ FileSize' \in Nat /\ DOMAIN file'.cells = 0 .. FileSize' - 1 /\ mem["sub"].size <= FileSize'
      /\ \A i \in 0 .. mem["sub"].occupied - 1 : file'.cells[i] = file.cells[i]
  BY <1>1, <1>3, <1>4, StoreFailsDoes DEF UseInv
<1>6. /\ reply' \in [params : Seq(Nat), status : Statuses, ptr : Nat, fatal : BOOLEAN]
      /\ reply'.status = "memory" /\ reply'.ptr = 0
  BY <1>1 DEF UseInv, SubShape, ValueStored, Statuses
<1>7. Leads(reply.status, reply.ptr)'
  BY <1>6 DEF Leads
<1>8. mem \in [Procs -> [data : Addresses, occupied : Nat, size : Nat]]
      /\ mem["sub"].occupied <= mem["sub"].size /\ mem["sub"].size <= mem["sub"].size
  BY MemTyped DEF UseInv, FileShape
<1> QED
  BY <1>1, <1>5, <1>6, <1>7, <1>8, SubStored

\* gh_fdmem_dtor.
LEMMA SubUnmapStep ==
    ASSUME UseInv, SubUnmap
    PROVE  UseInv'
<1>1. /\ spc = "unmap" /\ spc' = "send" /\ maps' = [maps EXCEPT !["sub"] = Unmapped("sub")]
      /\ UNCHANGED <<file, mem, request, result, reply, value, hpc, frame, args, adds, calls>>
  BY DEF SubUnmap, hostVars
<1>2. maps'["sub"] = {} /\ maps'["host"] = maps["host"] /\ maps' \in [Procs -> SUBSET [at : Addresses, write : BOOLEAN]]
  BY <1>1, UnmappedNone DEF UseInv, FileShape, Procs
<1>3. FileSize' = FileSize
  BY <1>1, QuietCells
<1>4. FileShape'
  BY <1>1, <1>2, <1>3 DEF UseInv, FileShape
<1>5. HostShape' /\ SubShape' /\ OneCall'
  BY <1>1 DEF UseInv, HostShape, SubShape, OneCall, Busy
<1>6. Sizes' /\ Sealing' /\ Mapped'
  BY <1>1, <1>2, <1>3 DEF UseInv, Sizes, Sealing, Mapped, Busy, Mapping
<1>7. ArgsStored'
  BY <1>1 DEF UseInv, ArgsStored
<1>8. ValueStored'
  BY <1>1, <1>3 DEF UseInv, ValueStored, Leads
<1> QED
  BY <1>4, <1>5, <1>6, <1>7, <1>8 DEF UseInv

\* The result is sent.
LEMMA SubSendStep ==
    ASSUME UseInv, SubSend
    PROVE  UseInv'
<1> DEFINE r == [status |-> reply.status, ptr |-> reply.ptr]
<1>1. /\ spc = "send" /\ spc' \in {"idle", "dead"} /\ result' = Append(result, r)
      /\ UNCHANGED <<file, mem, maps, request, reply, value, hpc, frame, args, adds, calls>>
  BY DEF SubSend, hostVars
<1>2. Busy
  BY <1>1 DEF Busy
<1>3. request = << >> /\ result = << >> /\ hpc \notin {"open", "seal"} /\ ~file.sealed
  BY <1>2, BusyAlone
<1>4. r \in [status : Statuses, ptr : Nat] /\ r.status = reply.status /\ r.ptr = reply.ptr
  BY DEF UseInv, SubShape
<1> HIDE DEF r
<1>5. result' \in Seq([status : Statuses, ptr : Nat]) /\ Len(result') = 1 /\ Head(result') = r /\ result' # << >>
  BY <1>1, <1>3, <1>4
<1>6. Leads(reply.status, reply.ptr)
  BY <1>1 DEF UseInv, ValueStored
<1>7. FileShape' /\ FileSize' = FileSize
  BY <1>1, QuietMemory
<1>8. HostShape' /\ SubShape' /\ OneCall'
  BY <1>1, <1>3, <1>5 DEF UseInv, HostShape, SubShape, OneCall, Busy
<1>9. Sizes' /\ Sealing' /\ Mapped'
  BY <1>1, <1>3, <1>7 DEF UseInv, Sizes, Sealing, Mapped, Busy, Mapping
<1>10. ArgsStored'
  BY <1>1, <1>3 DEF UseInv, ArgsStored
<1>11. ValueStored'
  <2>1. Leads(Head(result).status, Head(result).ptr)'
    BY <1>1, <1>4, <1>5, <1>6, <1>7 DEF Leads
  <2> QED
    BY <1>1, <1>3, <1>7, <2>1 DEF UseInv, ValueStored
<1> QED
  BY <1>7, <1>8, <1>9, <1>10, <1>11 DEF UseInv

-----------------------------------------------------------------------------
(* A call fails. *)

\* What holds of a frame in use holds of one that has failed.
LEMMA UseIsLate ==
    ASSUME UseInv, InUse
    PROVE  LateInv
<1>1. FileShape /\ HostShape /\ SubShape
  BY DEF UseInv
<1>2. hpc \notin {"timedout", "unmapped"}
  BY DEF InUse
<1>3. LateSizes
  <2>1. 1 <= FileSize
    BY MemTyped
  <2>2. spc \in {"call", "return"} => 1 <= mem["sub"].size /\ ~file.sealed
    BY MemTyped DEF UseInv, Sizes, Sealing, Busy
  <2> QED
    BY <1>2, <2>1, <2>2 DEF LateSizes, UseInv, Sizes
<1>4. LateMapped
  BY <1>2 DEF LateMapped, UseInv, Mapped, Mapping
<1>5. Carried(frame.params, mem["host"].occupied)
  <2>1. mem["host"].occupied <= mem["host"].occupied /\ mem["host"].occupied <= FileSize
    BY MemTyped
  <2>2. Held(frame.params, args, file.cells, mem["host"].occupied) /\ Len(args) \in Nat
    BY DEF UseInv, ArgsStored, HostShape
  <2> QED
    BY <2>1, <2>2 DEF Held, Carried
<1>6. LateArgs
  <2>1. Len(frame.params) <= MaxParams /\ Len(args) = Len(frame.params) /\ Len(request) <= 1
    BY DEF UseInv, ArgsStored, Held, OneCall
  <2>2. ASSUME NEW i \in 1 .. Len(frame.params)
        PROVE  1 <= frame.params[i] /\ frame.params[i] <= mem["host"].occupied
    <3> DEFINE ptr == frame.params[i]
               v == args[i]
    <3>1. ptr \in Nat /\ v \in Values /\ 1 <= ptr /\ End(ptr - 1, v) <= mem["host"].occupied
      <4>1. i \in 1 .. Len(args) /\ frame.params \in Seq(Nat) /\ args \in Seq(Values)
        BY <2>1 DEF UseInv, HostShape
      <4> QED
        BY <4>1 DEF UseInv, ArgsStored, Held
    <3> HIDE DEF ptr, v
    <3>2. ptr - 1 \in Nat
      BY <3>1
    <3>3. End(ptr - 1, v) \in Nat /\ ptr - 1 < End(ptr - 1, v)
      BY <3>1, <3>2, EndNat
    <3> QED
      BY <3>1, <3>2, <3>3, MemTyped DEF ptr
  <2>3. ASSUME request # << >> PROVE Carried(Head(request).params, Head(request).occupied)
    <3>1. Head(request).params = frame.params /\ Head(request).occupied = mem["host"].occupied
      BY <2>3, RequestTaken
    <3> QED
      BY <1>5, <3>1
  <2>4. ASSUME spc \in {"call", "return"} PROVE request = << >> /\ Carried(reply.params, mem["sub"].occupied)
    <3>0. request = << >>
      BY <2>4, BusyAlone DEF Busy
    <3>1. reply.params = frame.params /\ mem["sub"].occupied = mem["host"].occupied
      BY <2>4 DEF UseInv, ArgsStored, Sizes
    <3> QED
      BY <1>5, <3>0, <3>1
  <2> QED
    BY <2>1, <2>2, <2>3, <2>4 DEF LateArgs
<1>7. LateValue
  BY DEF LateValue, UseInv, ValueStored, Sealing
<1> QED
  BY <1>1, <1>3, <1>4, <1>6, <1>7 DEF LateInv

\* The arguments of a message stay when nothing that they are in changes.
LEMMA LateQuiet ==
    ASSUME LateInv, file'.cells = file.cells, UNCHANGED <<mem, frame, request, spc, reply, args>>
    PROVE  LateArgs' /\ FileSize' = FileSize
<1>1. FileSize' = FileSize
  BY QuietCells
<1> QED
  BY <1>1 DEF LateInv, LateArgs, Carried

\* gh_thread_call gives up.
LEMMA CallFailsStep ==
    ASSUME UseInv, CallFails
    PROVE  LateInv' /\ hpc' = "timedout"
<1>1. /\ hpc = "calling" /\ hpc' = "timedout"
      /\ UNCHANGED <<file, mem, maps, frame, request, result, args, adds, calls, spc, reply, value>>
  BY DEF CallFails, subVars
<1>2. LateInv
  BY <1>1, UseIsLate DEF InUse
<1>3. LateArgs' /\ FileSize' = FileSize
  BY <1>1, <1>2, LateQuiet
<1>4. FileShape' /\ HostShape' /\ SubShape'
  BY <1>1, <1>3 DEF UseInv, FileShape, HostShape, SubShape
<1>5. LateSizes' /\ LateMapped'
  BY <1>1, <1>2, <1>3 DEF UseInv, Sizes, Mapped, LateInv, LateSizes, LateMapped
<1>6. LateValue'
  BY <1>1, <1>2, <1>3 DEF LateInv, LateValue
<1> QED
  BY <1>1, <1>3, <1>4, <1>5, <1>6 DEF LateInv

\* gh_fdmem_sync fails.
LEMMA SyncFailsStep ==
    ASSUME UseInv, SyncFails
    PROVE  LateInv' /\ hpc' = "unmapped"
<1>1. /\ hpc = "calling" /\ hpc' = "unmapped" /\ result # << >> /\ result' = Tail(result)
      /\ maps' = [maps EXCEPT !["host"] = Unmapped("host")]
      /\ UNCHANGED <<file, mem, frame, request, args, adds, calls, spc, reply, value>>
  BY DEF SyncFails, subVars
<1>2. result' = << >>
  BY <1>1, ResultTaken
<1>3. maps'["host"] = {} /\ maps'["sub"] = maps["sub"] /\ maps' \in [Procs -> SUBSET [at : Addresses, write : BOOLEAN]]
  BY <1>1, UnmappedNone DEF UseInv, FileShape, Procs
<1>4. LateInv
  BY <1>1, UseIsLate DEF InUse
<1>5. LateArgs' /\ FileSize' = FileSize
  BY <1>1, <1>4, LateQuiet
<1>6. FileShape' /\ HostShape' /\ SubShape'
  BY <1>1, <1>2, <1>3, <1>5 DEF UseInv, FileShape, HostShape, SubShape
<1>7. LateSizes' /\ LateMapped' /\ LateValue'
  BY <1>1, <1>3, <1>4, <1>5 DEF LateInv, LateSizes, LateMapped, LateValue
<1> QED
  BY <1>1, <1>5, <1>6, <1>7 DEF LateInv

\* gh_fdmem_seal fails.
LEMMA SealFailsStep ==
    ASSUME UseInv, SealFails
    PROVE  LateInv' /\ hpc' = "unmapped"
<1>1. /\ hpc = "seal" /\ hpc' = "unmapped" /\ result' = Tail(result)
      /\ file' = [file EXCEPT !.sealed = ~Shared] /\ maps' = [maps EXCEPT !["host"] = Unmapped("host")]
      /\ UNCHANGED <<mem, frame, request, args, adds, calls, spc, reply, value>>
  BY DEF SealFails, subVars
<1>2. result # << >>
  BY <1>1 DEF UseInv, OneCall
<1>3. result' = << >> /\ ~Busy /\ ~file.sealed
  BY <1>1, <1>2, ResultTaken
<1>4. maps'["host"] = {} /\ maps'["sub"] = maps["sub"] /\ maps' \in [Procs -> SUBSET [at : Addresses, write : BOOLEAN]]
  BY <1>1, UnmappedNone DEF UseInv, FileShape, Procs
<1>5. file' = [cells |-> file'.cells, sealed |-> file'.sealed] /\ file'.cells = file.cells /\ file'.sealed \in BOOLEAN
  <2>1. file' = [cells |-> file.cells, sealed |-> ~Shared]
    BY <1>1 DEF UseInv, FileShape
  <2> QED
    BY <2>1
<1>6. LateInv
  BY <1>1, UseIsLate DEF InUse
<1>7. LateArgs' /\ FileSize' = FileSize
  BY <1>1, <1>5, <1>6, LateQuiet
<1>8. FileShape' /\ HostShape' /\ SubShape'
  <2>1. FileShape'
    BY <1>1, <1>4, <1>5, <1>7 DEF UseInv, FileShape
  <2>0. hpc' = "unmapped" /\ UNCHANGED <<mem, frame, request, args, adds, calls, spc, reply, value>> /\ result' = << >>
    BY <1>1, <1>3
  <2>2. HostShape' /\ SubShape'
    BY <2>0 DEF UseInv, HostShape, SubShape
  <2> QED
    BY <2>1, <2>2
<1>9. spc \notin {"call", "return"} /\ frame.retval = -1
  BY <1>3 DEF Busy, UseInv, Sealing
<1>10. LateSizes' /\ LateMapped' /\ LateValue'
  BY <1>1, <1>4, <1>6, <1>7, <1>9 DEF LateInv, LateSizes, LateMapped, LateValue
<1> QED
  BY <1>1, <1>7, <1>8, <1>10 DEF LateInv

\* gh_thread_callframe_dtor.
LEMMA CloseStep ==
    ASSUME LateInv, Close
    PROVE  LateInv' /\ hpc' = "closed"
<1>1. /\ hpc' = "closed" /\ maps' = [maps EXCEPT !["host"] = Unmapped("host")]
      /\ UNCHANGED <<file, mem, frame, request, result, args, adds, calls, spc, reply, value>>
  BY DEF Close, subVars
<1>2. maps'["sub"] = maps["sub"] /\ maps' \in [Procs -> SUBSET [at : Addresses, write : BOOLEAN]]
  <2>1. Unmapped("host") \subseteq maps["host"] /\ maps \in [Procs -> SUBSET [at : Addresses, write : BOOLEAN]]
    BY DEF Unmapped, LateInv, FileShape
  <2> QED
    BY <1>1, <2>1 DEF Procs
<1>3. LateArgs' /\ FileSize' = FileSize
  BY <1>1, LateQuiet
<1>4. FileShape' /\ HostShape' /\ SubShape'
  BY <1>1, <1>2, <1>3 DEF LateInv, FileShape, HostShape, SubShape
<1>5. LateSizes' /\ LateMapped' /\ LateValue'
  BY <1>1, <1>2, <1>3 DEF LateInv, LateSizes, LateMapped, LateValue
<1> QED
  BY <1>1, <1>3, <1>4, <1>5 DEF LateInv

-----------------------------------------------------------------------------
(* Steps after a call has failed. *)

\* The pointers of a message lead to arguments in the next state.
CarriedNext(ps, top) ==
    /\ top <= mem'["host"].occupied /\ top <= FileSize'
    /\ Len(ps) <= Len(args')
    /\ \A i \in 1 .. Len(ps) :
          1 <= ps[i] /\ End(ps[i] - 1, args'[i]) <= top /\ Holds(file'.cells, ps[i] - 1, args'[i])

\* They stay when the part of the file that they are in does, and arguments are only added.
LEMMA CarriedKept ==
    ASSUME NEW ps \in Seq(Nat), NEW top \in Nat, args \in Seq(Values), args' \in Seq(Values),
           Carried(ps, top), Keeps(top), top <= mem'["host"].occupied,
           Len(args) <= Len(args'), \A i \in 1 .. Len(args) : args'[i] = args[i]
    PROVE  CarriedNext(ps, top)
<1>1. Len(ps) \in Nat /\ Len(args) \in Nat /\ Len(args') \in Nat /\ Len(ps) <= Len(args)
  BY DEF Carried
<1>2. Len(ps) <= Len(args')
  BY <1>1
<1>3. ASSUME NEW i \in 1 .. Len(ps)
      PROVE  1 <= ps[i] /\ End(ps[i] - 1, args'[i]) <= top /\ Holds(file'.cells, ps[i] - 1, args'[i])
  <2> DEFINE off == ps[i] - 1
             v == args[i]
  <2>1. i \in 1 .. Len(args) /\ ps[i] \in Nat
    BY <1>1
  <2>2. args'[i] = v /\ v \in Values
    BY <2>1
  <2>3. 1 <= ps[i] /\ End(off, v) <= top /\ Holds(file.cells, off, v)
    BY DEF Carried
  <2>4. off \in Nat
    BY <2>1, <2>3
  <2>5. \A j \in 0 .. top - 1 : file'.cells[j] = file.cells[j]
    BY DEF Keeps
  <2> HIDE DEF off, v
  <2>6. Holds(file'.cells, off, v)
    BY <2>2, <2>3, <2>4, <2>5, HoldsKept
  <2> QED
    BY <2>2, <2>3, <2>6 DEF off
<1> QED
  BY <1>2, <1>3 DEF CarriedNext, Keeps

\* What a failed frame keeps when the host, or nobody, writes: a step that keeps what the host
\* occupies, adds at most to it and to the arguments, and leaves the subjail alone.
LEMMA LateHostKeeps ==
    ASSUME LateInv, args' \in Seq(Values), UNCHANGED <<request, spc, reply>>,
           mem'["sub"] = mem["sub"], mem'["host"].occupied \in Nat, mem["host"].occupied <= mem'["host"].occupied,
           \A k \in Nat : k <= mem["host"].occupied /\ k <= FileSize => Keeps(k),
           Len(args) <= Len(args'), \A i \in 1 .. Len(args) : args'[i] = args[i]
    PROVE  /\ request' # << >> => Carried(Head(request).params, Head(request).occupied)'
           /\ spc' \in {"call", "return"} => Carried(reply.params, mem["sub"].occupied)'
<1>1. args \in Seq(Values) /\ mem["host"].occupied \in Nat
  BY DEF LateInv, HostShape, FileShape, Procs
<1>2. ASSUME NEW ps \in Seq(Nat), NEW top \in Nat, Carried(ps, top) PROVE CarriedNext(ps, top)
  <2>1. top <= mem["host"].occupied /\ top <= FileSize
    BY <1>2 DEF Carried
  <2>2. Keeps(top) /\ top <= mem'["host"].occupied
    BY <1>1, <2>1
  <2> QED
    BY <1>1, <1>2, <2>2, CarriedKept
<1>3. ASSUME request' # << >> PROVE Carried(Head(request).params, Head(request).occupied)'
  <2> DEFINE ps == Head(request).params
             top == Head(request).occupied
  <2>1. request # << >> /\ request \in Seq([params : Seq(Nat), occupied : Nat]) /\ Len(request) <= 1
    BY <1>3 DEF LateInv, SubShape, LateArgs
  <2>2. Head(request) \in [params : Seq(Nat), occupied : Nat]
    BY <2>1, OneElement
  <2>3. ps \in Seq(Nat) /\ top \in Nat /\ Carried(ps, top)
    BY <2>1, <2>2 DEF LateInv, LateArgs
  <2> HIDE DEF ps, top
  <2>4. CarriedNext(ps, top)
    BY <1>2, <2>3
  <2>5. Head(request').params = ps /\ Head(request').occupied = top
    BY DEF ps, top
  <2> QED
    BY <2>4, <2>5 DEF CarriedNext, Carried
<1>4. ASSUME spc' \in {"call", "return"} PROVE Carried(reply.params, mem["sub"].occupied)'
  <2> DEFINE ps == reply.params
             top == mem["sub"].occupied
  <2>1. ps \in Seq(Nat) /\ top \in Nat
    BY DEF LateInv, SubShape, FileShape, Procs
  <2>2. Carried(ps, top)
    BY <1>4 DEF LateInv, LateArgs
  <2> HIDE DEF ps, top
  <2>3. CarriedNext(ps, top)
    BY <1>2, <2>1, <2>2
  <2>4. reply'.params = ps /\ mem'["sub"].occupied = top
    BY DEF ps, top
  <2> QED
    BY <2>3, <2>4 DEF CarriedNext, Carried
<1> QED
  BY <1>3, <1>4

\* A store of the host: into its mapping when the call has timed out, nowhere when the memory
\* is gone.
LEMMA LateStore ==
    ASSUME Movers = {}, LateInv, hpc \in {"timedout", "unmapped"},
           NEW block \in Seq(Cells), 1 <= Len(block), Store("host", block)
    PROVE  /\ maps' = maps
           /\ mem' \in [Procs -> [data : Addresses, occupied : Nat, size : Nat]]
           /\ mem'["sub"] = mem["sub"] /\ mem'["host"].data = mem["host"].data
           /\ mem'["host"].occupied = mem["host"].occupied + Len(block)
           /\ mem'["host"].occupied <= mem'["host"].size /\ mem["host"].size <= mem'["host"].size
           /\ file' = [cells |-> file'.cells, sealed |-> file'.sealed] /\ file'.sealed = file.sealed
           /\ FileSize' \in Nat /\ DOMAIN file'.cells = 0 .. FileSize' - 1 /\ 1 <= FileSize'
           /\ \A k \in Nat : k <= mem["host"].occupied /\ k <= FileSize => Keeps(k)
           /\ file.sealed => FileSize' = FileSize
           /\ hpc = "timedout" =>
                 /\ ~file.sealed /\ Hits("host")
                 /\ mem["host"].size <= FileSize => mem'["host"].size <= FileSize'
<1>1. /\ mem["host"].occupied \in Nat /\ mem["host"].size \in Nat /\ Len(block) \in Nat /\ FileSize \in Nat
      /\ "host" \in Procs /\ "sub" \in Procs /\ "sub" # "host"
      /\ mem["host"].occupied <= mem["host"].size /\ 1 <= mem["host"].size /\ 1 <= FileSize
      /\ FileShape
  BY DEF LateInv, LateSizes, FileShape, Procs
<1>2. Fits("host", Len(block)) \/ (~file.sealed /\ HasMapping("host"))
  BY DEF Store
<1>3. CASE hpc = "timedout"
  <2>1. ~file.sealed
    <3>1. file.sealed => mem["host"].occupied = mem["host"].size
      BY <1>3 DEF LateInv, LateSizes
    <3>2. file.sealed => ~Fits("host", Len(block))
      BY <1>1, <3>1 DEF Fits
    <3> QED
      BY <1>2, <3>2
  <2>2. CanStore("host")
    BY <1>1, <1>3, <2>1 DEF CanStore, LateInv, LateMapped
  <2> QED
    BY <1>1, <2>1, <2>2, StoreKeeps
<1>4. CASE hpc = "unmapped"
  <2>1. maps["host"] = {}
    BY <1>4 DEF LateInv, LateMapped
  <2>2. Fits("host", Len(block))
    BY <1>2, <2>1 DEF HasMapping
  <2>3. maps' = maps
    <3>1. maps' = [maps EXCEPT !["host"] = maps["host"]]
      BY <2>2 DEF Store
    <3> QED
      BY <1>1, <3>1 DEF FileShape
  <2>4. ~Hits("host")
    BY <2>1, <2>3 DEF Hits
  <2>5. file' = file
    <3>1. file' = [file EXCEPT !.cells = file.cells]
      BY <2>2, <2>4 DEF Store
    <3> QED
      BY <1>1, <3>1 DEF FileShape
  <2>6. /\ mem' \in [Procs -> [data : Addresses, occupied : Nat, size : Nat]]
        /\ mem'["sub"] = mem["sub"] /\ mem'["host"].data = mem["host"].data
        /\ mem'["host"].occupied = mem["host"].occupied + Len(block) /\ mem'["host"].size = mem["host"].size
    <3> DEFINE all == mem["host"].occupied + Len(block)
    <3>1. mem' = [mem EXCEPT !["host"].size = mem["host"].size, !["host"].occupied = all]
      BY <2>2 DEF Store
    <3>2. all \in Nat /\ mem \in [Procs -> [data : Addresses, occupied : Nat, size : Nat]]
      BY <1>1 DEF FileShape
    <3> HIDE DEF all
    <3>3. mem'["host"] = [data |-> mem["host"].data, occupied |-> all, size |-> mem["host"].size]
      BY <1>1, <3>1, <3>2
    <3>4. mem'["sub"] = mem["sub"]
      BY <1>1, <3>1, <3>2
    <3>5. mem' \in [Procs -> [data : Addresses, occupied : Nat, size : Nat]]
      BY <1>1, <3>1, <3>2
    <3> QED
      BY <3>3, <3>4, <3>5 DEF all
  <2>7. mem'["host"].occupied <= mem'["host"].size /\ mem["host"].size <= mem'["host"].size
    BY <1>1, <2>2, <2>6 DEF Fits
  <2>8. FileSize' = FileSize
    BY <2>5, QuietCells
  <2>9. \A k \in Nat : k <= FileSize => Keeps(k)
    BY <2>5, <2>8 DEF Keeps
  <2> QED
    BY <1>1, <1>4, <2>3, <2>5, <2>6, <2>7, <2>8, <2>9 DEF FileShape
<1> QED
  BY <1>3, <1>4

\* gh_thread_callframe_int, _double and _lstring on a frame that has failed.
LEMMA LateAddParamStep ==
    ASSUME Movers = {}, CStrings, LateInv, ~InUse, NEW v \in Values, AddParam(v)
    PROVE  /\ LateInv' /\ hpc' \in {hpc, "crashed"}
           /\ hpc' = "crashed" => hpc = "unmapped" \/ (hpc = "timedout" /\ FileSize < mem["host"].size)
<1> DEFINE block == Encode(v, 0)
           off == mem["host"].occupied
<1>0. block \in Seq(Cells) /\ 1 <= Len(block) /\ Len(block) \in Nat
  BY ArgBlock
<1>1. hpc \in {"timedout", "unmapped"} /\ Store("host", block)
  BY DEF AddParam, Fillable, InUse
<1>2. /\ maps' = maps
      /\ mem' \in [Procs -> [data : Addresses, occupied : Nat, size : Nat]]
      /\ mem'["sub"] = mem["sub"] /\ mem'["host"].data = mem["host"].data
      /\ mem'["host"].occupied = off + Len(block)
      /\ mem'["host"].occupied <= mem'["host"].size /\ mem["host"].size <= mem'["host"].size
      /\ file' = [cells |-> file'.cells, sealed |-> file'.sealed] /\ file'.sealed = file.sealed
      /\ FileSize' \in Nat /\ DOMAIN file'.cells = 0 .. FileSize' - 1 /\ 1 <= FileSize'
      /\ \A k \in Nat : k <= off /\ k <= FileSize => Keeps(k)
      /\ file.sealed => FileSize' = FileSize
      /\ hpc = "timedout" =>
            /\ ~file.sealed /\ Hits("host")
            /\ mem["host"].size <= FileSize => mem'["host"].size <= FileSize'
  <2> HIDE DEF block
  <2> QED
    BY <1>0, <1>1, LateStore
<1>3. /\ hpc' \in Written("host", hpc) /\ UNCHANGED <<request, result, calls, spc, reply, value>>
      /\ adds < MaxAdds /\ adds' = adds + 1
  BY DEF AddParam, subVars
<1>4. \/ UNCHANGED <<frame, args>>
      \/ /\ ~(Len(frame.params) + 1 > MaxParams)
         /\ frame' = [frame EXCEPT !.params = Append(@, off + 1)] /\ args' = Append(args, v)
  BY DEF AddParam, VirtPtr
<1>5. frame \in [params : Seq(Nat), returned : BOOLEAN, retval : Int, status : Statuses] /\ args \in Seq(Values)
      /\ off \in Nat /\ mem["host"].size \in Nat /\ MaxParams \in Nat /\ FileSize \in Nat
  BY FrameAssumption DEF LateInv, FileShape, HostShape, Procs
<1>6. mem'["host"].occupied \in Nat /\ mem'["host"].size \in Nat /\ off + 1 <= mem'["host"].occupied
      /\ off <= mem'["host"].occupied /\ 1 <= mem'["host"].size
  <2>1. mem'["host"].occupied \in Nat /\ mem'["host"].size \in Nat
    BY <1>2 DEF Procs
  <2>2. 1 <= mem["host"].size
    BY DEF LateInv, LateSizes
  <2> HIDE DEF block, off
  <2> QED
    BY <1>0, <1>2, <1>5, <2>1, <2>2
<1> HIDE DEF block
<1>7. hpc' \in {hpc, "crashed"}
  BY <1>3 DEF Written
<1>8. hpc' = "crashed" => hpc = "unmapped" \/ (hpc = "timedout" /\ FileSize < mem["host"].size)
  <2> SUFFICES ASSUME hpc = "timedout", ~(FileSize < mem["host"].size), hpc' = "crashed" PROVE FALSE
    BY <1>1
  <2> DEFINE top == mem'["host"].occupied
             all == FileSize'
  <2>1. mem'["host"].size <= FileSize' /\ Hits("host")
    BY <1>2, <1>5
  <2>2. top \in Nat /\ all \in Nat /\ top <= all
    BY <1>2, <1>6, <2>1
  <2> HIDE DEF top, all
  <2>3. top <= Page * Pages(all)
    BY <2>2, PagesCover
  <2>4. Written("host", hpc) = {hpc}
    BY <2>1, <2>3 DEF Written, top, all, Pages
  <2> QED
    BY <1>3, <2>4
<1>9. /\ frame' \in [params : Seq(Nat), returned : BOOLEAN, retval : Int, status : Statuses]
      /\ args' \in Seq(Values) /\ Len(frame'.params) <= MaxParams /\ Len(args') = Len(frame'.params)
      /\ frame'.retval = frame.retval
      /\ Len(args) <= Len(args') /\ \A i \in 1 .. Len(args) : args'[i] = args[i]
      /\ \A i \in 1 .. Len(frame'.params) : 1 <= frame'.params[i] /\ frame'.params[i] <= mem'["host"].occupied
  <2>0. /\ Len(frame.params) <= MaxParams /\ Len(args) = Len(frame.params) /\ Len(args) \in Nat
        /\ frame.params \in Seq(Nat)
        /\ \A i \in 1 .. Len(frame.params) : 1 <= frame.params[i] /\ frame.params[i] <= off
    BY <1>5 DEF LateInv, LateArgs
  <2> HIDE DEF off
  <2>1. CASE UNCHANGED <<frame, args>>
    <3>1. ASSUME NEW i \in 1 .. Len(frame.params)
          PROVE  1 <= frame.params[i] /\ frame.params[i] <= mem'["host"].occupied
      <4>1. frame.params[i] \in Nat /\ 1 <= frame.params[i] /\ frame.params[i] <= off
        BY <2>0
      <4> QED
        BY <1>5, <1>6, <4>1
    <3> QED
      BY <1>5, <2>0, <2>1, <3>1
  <2>2. CASE /\ ~(Len(frame.params) + 1 > MaxParams)
             /\ frame' = [frame EXCEPT !.params = Append(@, off + 1)] /\ args' = Append(args, v)
    <3> DEFINE ps == Append(frame.params, off + 1)
               n == Len(frame.params)
    <3>1. off + 1 \in Nat
      BY <1>5
    <3>2. /\ ps \in Seq(Nat) /\ Len(ps) = n + 1 /\ ps[n + 1] = off + 1
          /\ \A i \in 1 .. n : ps[i] = frame.params[i]
      BY <2>0, <3>1
    <3>3. /\ Append(args, v) \in Seq(Values) /\ Len(Append(args, v)) = n + 1
          /\ \A i \in 1 .. Len(args) : Append(args, v)[i] = args[i]
      BY <1>5, <2>0
    <3>4. frame' = [frame EXCEPT !.params = ps]
      BY <2>2
    <3> HIDE DEF ps
    <3>5. /\ frame' \in [params : Seq(Nat), returned : BOOLEAN, retval : Int, status : Statuses]
          /\ frame'.params = ps /\ frame'.retval = frame.retval
      BY <1>5, <3>2, <3>4
    <3>6. ASSUME NEW i \in 1 .. n + 1 PROVE 1 <= ps[i] /\ ps[i] <= mem'["host"].occupied
      <4>1. CASE i = n + 1
        BY <1>5, <1>6, <3>2, <4>1
      <4>2. CASE i # n + 1
        <5>1. i \in 1 .. n /\ n \in Nat
          BY <2>0, <4>2
        <5>2. ps[i] \in Nat /\ 1 <= ps[i] /\ ps[i] <= off
          BY <2>0, <3>2, <5>1
        <5> QED
          BY <1>5, <1>6, <5>2
      <4> QED
        BY <4>1, <4>2
    <3>7. n + 1 <= MaxParams /\ n <= n + 1
      BY <1>5, <2>0, <2>2
    <3> QED
      BY <2>0, <2>2, <3>2, <3>3, <3>5, <3>6, <3>7
  <2> QED
    BY <1>4, <2>1, <2>2
<1>10. /\ request' # << >> => Carried(Head(request).params, Head(request).occupied)'
       /\ spc' \in {"call", "return"} => Carried(reply.params, mem["sub"].occupied)'
  BY <1>2, <1>3, <1>6, <1>9, LateHostKeeps
<1>11. FileShape' /\ HostShape' /\ SubShape'
  <2>1. FileShape'
    BY <1>2 DEF LateInv, FileShape
  <2>2. HostShape'
    BY <1>1, <1>3, <1>7, <1>9, FrameAssumption DEF LateInv, HostShape
  <2>3. SubShape'
    BY <1>3 DEF LateInv, SubShape
  <2> QED
    BY <2>1, <2>2, <2>3
<1>12. LateSizes'
  <2>1. hpc' = "timedout" => ~file'.sealed
    BY <1>1, <1>2, <1>7
  <2>2. mem["sub"].occupied <= mem["sub"].size
    BY DEF LateInv, LateSizes, Procs
  <2> QED
    BY <1>2, <1>3, <1>6, <2>1, <2>2 DEF LateInv, LateSizes, Procs
<1>13. LateMapped'
  BY <1>1, <1>2, <1>3, <1>7 DEF LateInv, LateMapped
<1>14. LateArgs'
  BY <1>3, <1>9, <1>10 DEF LateInv, LateArgs
<1>15. LateValue'
  <2>1. CASE file.sealed
    BY <1>2, <1>9, <2>1 DEF LateInv, LateValue
  <2>2. CASE ~file.sealed
    BY <1>2, <1>9, <2>2 DEF LateInv, LateValue
  <2> QED
    BY <2>1, <2>2
<1> QED
  BY <1>7, <1>8, <1>11, <1>12, <1>13, <1>14, <1>15 DEF LateInv

\* One that fails.
LEMMA LateAddParamFailsStep ==
    ASSUME CStrings, LateInv, NEW v \in Values, AddParamFails(v)
    PROVE  LateInv' /\ hpc' = hpc
<1> DEFINE block == Encode(v, 0)
<1>1. /\ StoreFails("host", block) /\ adds' = adds + 1 /\ adds < MaxAdds
      /\ UNCHANGED <<hpc, frame, args, request, result, calls, spc, reply, value>>
  BY DEF AddParamFails, subVars
<1>2. block \in Seq(Cells)
  BY ArgBlock
<1> HIDE DEF block
<1>3. /\ maps' = maps /\ mem' = mem
      /\ file' = [cells |-> file'.cells, sealed |-> file'.sealed] /\ file'.sealed = file.sealed
      /\ FileSize' \in Nat /\ DOMAIN file'.cells = 0 .. FileSize' - 1 /\ 1 <= FileSize'
      /\ \A k \in Nat : k <= mem["host"].occupied /\ k <= FileSize => Keeps(k)
      /\ file.sealed => file' = file
  <2>1. "host" \in Procs /\ FileShape /\ 1 <= FileSize /\ 1 <= mem["host"].size
        /\ mem["host"].occupied <= mem["host"].size
    BY DEF Procs, LateInv, LateSizes
  <2> QED
    BY <1>1, <1>2, <2>1, StoreFailsKeeps
<1>4. /\ request' # << >> => Carried(Head(request).params, Head(request).occupied)'
      /\ spc' \in {"call", "return"} => Carried(reply.params, mem["sub"].occupied)'
  <2>1. /\ args' \in Seq(Values) /\ Len(args) <= Len(args') /\ \A i \in 1 .. Len(args) : args'[i] = args[i]
        /\ mem'["host"].occupied \in Nat /\ mem["host"].occupied <= mem'["host"].occupied
    BY <1>1, <1>3 DEF LateInv, HostShape, FileShape, Procs
  <2> QED
    BY <1>1, <1>3, <2>1, LateHostKeeps
<1>5. FileShape' /\ HostShape' /\ SubShape'
  <2>1. FileShape'
    BY <1>3 DEF LateInv, FileShape
  <2>2. HostShape' /\ SubShape'
    BY <1>1, FrameAssumption DEF LateInv, HostShape, SubShape
  <2> QED
    BY <2>1, <2>2
<1>6. LateSizes' /\ LateMapped'
  BY <1>1, <1>3 DEF LateInv, LateSizes, LateMapped
<1>7. LateArgs'
  BY <1>1, <1>3, <1>4 DEF LateInv, LateArgs
<1>8. LateValue'
  <2>1. CASE file.sealed
    BY <1>1, <1>3, <2>1, QuietCells DEF LateInv, LateValue
  <2>2. CASE ~file.sealed
    BY <1>1, <1>3, <2>2 DEF LateInv, LateValue
  <2> QED
    BY <2>1, <2>2
<1> QED
  BY <1>1, <1>5, <1>6, <1>7, <1>8 DEF LateInv

\* gh_fdmem_ctorfdo, when the host has given up.
LEMMA LateSubMapStep ==
    ASSUME LateInv, SubMap
    PROVE  LateInv'
<1> DEFINE m == Head(request)
<1>1. /\ spc' = "call" /\ request # << >> /\ ~file.sealed /\ request' = Tail(request)
      /\ reply' = [params |-> m.params, status |-> "ok", ptr |-> 0, fatal |-> FALSE]
      /\ UNCHANGED <<file, result, value, hpc, frame, args, adds, calls>>
  BY DEF SubMap, hostVars
<1>2. PICK a \in Addresses :
          /\ maps' = [maps EXCEPT !["sub"] = @ \cup {[at |-> a, write |-> TRUE]}]
          /\ mem' = [mem EXCEPT !["sub"] = [data |-> a, size |-> FileSize, occupied |-> m.occupied]]
  BY DEF SubMap, Free
<1>3. request' = << >> /\ m \in [params : Seq(Nat), occupied : Nat] /\ Carried(m.params, m.occupied)
  <2>1. request \in Seq([params : Seq(Nat), occupied : Nat]) /\ Len(request) <= 1
    BY DEF LateInv, SubShape, LateArgs
  <2>2. Tail(request) = << >> /\ m \in [params : Seq(Nat), occupied : Nat]
    BY <1>1, <2>1, OneElement
  <2> QED
    BY <1>1, <2>2 DEF LateInv, LateArgs
<1>4. /\ maps'["host"] = maps["host"] /\ [at |-> a, write |-> TRUE] \in maps'["sub"]
      /\ maps' \in [Procs -> SUBSET [at : Addresses, write : BOOLEAN]]
  <2> DEFINE left == maps["sub"] \cup {[at |-> a, write |-> TRUE]}
  <2>1. maps \in [Procs -> SUBSET [at : Addresses, write : BOOLEAN]] /\ "sub" \in Procs /\ "host" \in Procs
    BY DEF LateInv, FileShape, Procs
  <2>2. left \in SUBSET [at : Addresses, write : BOOLEAN] /\ [at |-> a, write |-> TRUE] \in left
    <3>1. [at |-> a, write |-> TRUE] \in [at : Addresses, write : BOOLEAN]
      BY <1>2
    <3>2. maps["sub"] \in SUBSET [at : Addresses, write : BOOLEAN]
      BY <2>1
    <3> QED
      BY <3>1, <3>2, Zenon
  <2>3. maps' = [maps EXCEPT !["sub"] = left]
    BY <1>2
  <2> HIDE DEF left
  <2> QED
    BY <2>1, <2>2, <2>3
<1> HIDE DEF m
<1>5. FileSize \in Nat /\ 1 <= FileSize /\ m.occupied \in Nat /\ m.occupied <= FileSize /\ m.params \in Seq(Nat)
  BY <1>3 DEF LateInv, FileShape, LateSizes, Carried
<1>6. /\ mem' \in [Procs -> [data : Addresses, occupied : Nat, size : Nat]] /\ mem'["host"] = mem["host"]
      /\ mem'["sub"].data = a /\ mem'["sub"].size = FileSize /\ mem'["sub"].occupied = m.occupied
  BY <1>2, <1>5 DEF LateInv, FileShape, Procs
<1>7. FileSize' = FileSize
  BY <1>1, QuietCells
<1>8. /\ reply' \in [params : Seq(Nat), status : Statuses, ptr : Nat, fatal : BOOLEAN]
      /\ reply'.params = m.params
  BY <1>1, <1>5 DEF Statuses
<1>9. spc' = "call" /\ request' = << >> /\ UNCHANGED <<file, result, value, hpc, frame, args, adds, calls>> /\ ~file.sealed
  BY <1>1, <1>3
<1>10. FileShape'
  BY <1>4, <1>6, <1>7, <1>9 DEF LateInv, FileShape
<1>11. HostShape' /\ SubShape'
  BY <1>8, <1>9 DEF LateInv, HostShape, SubShape
<1>12. LateSizes'
  BY <1>5, <1>6, <1>7, <1>9 DEF LateInv, LateSizes, Procs
<1>13. LateMapped'
  BY <1>4, <1>6, <1>9 DEF LateInv, LateMapped
<1>14. LateArgs'
  <2>1. Carried(reply.params, mem["sub"].occupied)'
    BY <1>3, <1>6, <1>7, <1>8, <1>9 DEF Carried
  <2> QED
    BY <1>6, <1>9, <2>1 DEF LateInv, LateArgs
<1>15. LateValue'
  BY <1>7, <1>9 DEF LateInv, LateValue
<1> QED
  BY <1>10, <1>11, <1>12, <1>13, <1>14, <1>15 DEF LateInv

\* It fails, and the message loop ends.
LEMMA LateSubMapFailsStep ==
    ASSUME LateInv, SubMapFails
    PROVE  LateInv'
<1>1. /\ spc' = "dead" /\ request # << >> /\ request' = Tail(request)
      /\ UNCHANGED <<file, mem, maps, result, reply, value, hpc, frame, args, adds, calls>>
  BY DEF SubMapFails, hostVars
<1>2. request' = << >>
  <2>1. request \in Seq([params : Seq(Nat), occupied : Nat]) /\ Len(request) <= 1
    BY DEF LateInv, SubShape, LateArgs
  <2> QED
    BY <1>1, <2>1, OneElement
<1>3. FileSize' = FileSize
  BY <1>1, QuietCells
<1>4. FileShape' /\ HostShape' /\ SubShape'
  BY <1>1, <1>2, <1>3 DEF LateInv, FileShape, HostShape, SubShape
<1>5. LateSizes' /\ LateMapped' /\ LateValue'
  BY <1>1, <1>3 DEF LateInv, LateSizes, LateMapped, LateValue
<1>6. LateArgs'
  BY <1>1, <1>2 DEF LateInv, LateArgs
<1> QED
  BY <1>4, <1>5, <1>6 DEF LateInv

\* The function returns, or is not called, or raises an error.
LEMMA LateSubCallStep ==
    ASSUME LateInv, SubCall \/ SubCallFails
    PROVE  LateInv' /\ spc' \in {"return", "unmap"}
<1>1. /\ spc = "call" /\ spc' \in {"return", "unmap"} /\ value' \in Values
      /\ UNCHANGED <<file, mem, maps, request, result, hpc, frame, args, adds, calls>>
  BY DEF SubCall, SubCallFails, hostVars, LateInv, SubShape
<1>2. reply' \in [params : Seq(Nat), status : Statuses, ptr : Nat, fatal : BOOLEAN] /\ reply'.params = reply.params
  <2>1. reply \in [params : Seq(Nat), status : Statuses, ptr : Nat, fatal : BOOLEAN]
    BY DEF LateInv, SubShape
  <2>2. reply' = reply \/ \E status \in {"missing", "error", "param"} : reply' = [reply EXCEPT !.status = status]
    BY DEF SubCall, SubCallFails
  <2> QED
    BY <2>1, <2>2 DEF Statuses
<1>3. FileSize' = FileSize
  BY <1>1, QuietCells
<1>4. FileShape' /\ HostShape' /\ SubShape'
  BY <1>1, <1>2, <1>3 DEF LateInv, FileShape, HostShape, SubShape
<1>5. LateSizes' /\ LateMapped' /\ LateValue'
  BY <1>1, <1>3 DEF LateInv, LateSizes, LateMapped, LateValue
<1>6. LateArgs'
  BY <1>1, <1>2, <1>3 DEF LateInv, LateArgs, Carried
<1> QED
  BY <1>1, <1>4, <1>5, <1>6 DEF LateInv

\* What a failed frame keeps when the subjail has stored, or tried to.
LEMMA LateSubStored ==
    ASSUME LateInv, spc = "return", spc' \in {"unmap", "crashed"}, maps' = maps,
           UNCHANGED <<request, result, value, hpc, frame, args, adds, calls>>, request = << >>,
           mem' \in [Procs -> [data : Addresses, occupied : Nat, size : Nat]], mem'["host"] = mem["host"],
           mem'["sub"].occupied <= mem'["sub"].size,
           file' = [cells |-> file'.cells, sealed |-> file'.sealed], file'.sealed = file.sealed,
           FileSize' \in Nat, DOMAIN file'.cells = 0 .. FileSize' - 1, 1 <= FileSize',
           reply' \in [params : Seq(Nat), status : Statuses, ptr : Nat, fatal : BOOLEAN]
    PROVE  LateInv'
<1>1. ~file.sealed /\ frame.retval = -1
  BY DEF LateInv, LateSizes, LateValue
<1>2. FileShape'
  BY DEF LateInv, FileShape
<1>3. HostShape' /\ SubShape'
  BY DEF LateInv, HostShape, SubShape
<1>4. LateSizes' /\ LateMapped'
  BY <1>1 DEF LateInv, LateSizes, LateMapped, Procs
<1>5. LateArgs'
  BY DEF LateInv, LateArgs
<1>6. LateValue'
  BY <1>1 DEF LateValue
<1> QED
  BY <1>2, <1>3, <1>4, <1>5, <1>6 DEF LateInv

\* lua_callfunction_getreturn, when the host has given up.
LEMMA LateSubReturnStep ==
    ASSUME Movers = {}, CStrings, LateInv, SubReturn
    PROVE  LateInv' /\ (spc' = "crashed" => FileSize < mem["sub"].size)
<1> DEFINE off == mem["sub"].occupied
           block == ReturnBlock
<1>1. /\ spc = "return" /\ Store("sub", block) /\ spc' \in Written("sub", "unmap")
      /\ UNCHANGED <<request, result, value, hpc, frame, args, adds, calls>>
      /\ reply' = [reply EXCEPT !.ptr = off + 1]
  BY DEF SubReturn, hostVars, VirtPtr
<1>2. block \in Seq(Cells)
  <2>1. value \in Values
    BY DEF LateInv, SubShape
  <2> QED
    BY <2>1, ArgBlock DEF ReturnBlock
<1>3. /\ FileShape /\ FileSize \in Nat /\ 1 <= FileSize /\ "sub" \in Procs /\ "host" \in Procs /\ "sub" # "host"
      /\ off <= mem["sub"].size /\ off \in Nat /\ mem["sub"].size \in Nat /\ CanStore("sub")
  BY <1>1 DEF LateInv, FileShape, LateSizes, LateMapped, Procs, CanStore
<1> HIDE DEF block
<1>4. /\ maps' = maps /\ Hits("sub")
      /\ mem' \in [Procs -> [data : Addresses, occupied : Nat, size : Nat]] /\ mem'["host"] = mem["host"]
      /\ mem'["sub"].occupied <= mem'["sub"].size
      /\ file' = [cells |-> file'.cells, sealed |-> file'.sealed] /\ file'.sealed = file.sealed
      /\ FileSize' \in Nat /\ DOMAIN file'.cells = 0 .. FileSize' - 1 /\ 1 <= FileSize'
      /\ mem["sub"].size <= FileSize => mem'["sub"].size <= FileSize'
  BY <1>1, <1>2, <1>3, StoreKeeps
<1>5. spc' \in {"unmap", "crashed"}
  BY <1>1 DEF Written
<1>6. spc' = "crashed" => FileSize < mem["sub"].size
  <2> SUFFICES ASSUME ~(FileSize < mem["sub"].size), spc' = "crashed" PROVE FALSE
    OBVIOUS
  <2> DEFINE top == mem'["sub"].occupied
             all == FileSize'
  <2>1. mem'["sub"].size <= FileSize' /\ mem'["sub"].size \in Nat /\ top \in Nat
    BY <1>3, <1>4
  <2>2. top \in Nat /\ all \in Nat /\ top <= all
    BY <1>4, <2>1
  <2> HIDE DEF top, all
  <2>3. top <= Page * Pages(all)
    BY <2>2, PagesCover
  <2>4. Written("sub", "unmap") = {"unmap"}
    BY <1>4, <2>3 DEF Written, top, all, Pages
  <2> QED
    BY <1>1, <2>4
<1>7. reply' \in [params : Seq(Nat), status : Statuses, ptr : Nat, fatal : BOOLEAN]
  <2> DEFINE next == off + 1
  <2>1. next \in Nat /\ reply' = [reply EXCEPT !.ptr = next]
    BY <1>1, <1>3
  <2> HIDE DEF next
  <2> QED
    BY <2>1 DEF LateInv, SubShape
<1>8. request = << >>
  BY <1>1 DEF LateInv, LateArgs
<1> QED
  BY <1>1, <1>4, <1>5, <1>6, <1>7, <1>8, LateSubStored

\* The returned value does not fit and cannot be made to.
LEMMA LateSubReturnFailsStep ==
    ASSUME CStrings, LateInv, SubReturnFails
    PROVE  LateInv' /\ spc' = "unmap"
<1> DEFINE block == ReturnBlock
<1>1. /\ spc = "return" /\ StoreFails("sub", block) /\ spc' = "unmap"
      /\ UNCHANGED <<request, result, value, hpc, frame, args, adds, calls>>
      /\ reply' = [reply EXCEPT !.status = "memory", !.fatal = TRUE]
  BY DEF SubReturnFails, hostVars
<1>2. block \in Seq(Cells)
  <2>1. value \in Values
    BY DEF LateInv, SubShape
  <2> QED
    BY <2>1, ArgBlock DEF ReturnBlock
<1>3. /\ FileShape /\ 1 <= FileSize /\ "sub" \in Procs
      /\ mem["sub"].occupied <= mem["sub"].size /\ 1 <= mem["sub"].size
  BY <1>1 DEF LateInv, LateSizes, Procs
<1> HIDE DEF block
<1>4. /\ maps' = maps /\ mem' = mem
      /\ file' = [cells |-> file'.cells, sealed |-> file'.sealed] /\ file'.sealed = file.sealed
      /\ FileSize' \in Nat /\ DOMAIN file'.cells = 0 .. FileSize' - 1 /\ 1 <= FileSize'
  BY <1>1, <1>2, <1>3, StoreFailsKeeps
<1>5. reply' \in [params : Seq(Nat), status : Statuses, ptr : Nat, fatal : BOOLEAN]
  BY <1>1 DEF LateInv, SubShape, Statuses
<1>6. mem \in [Procs -> [data : Addresses, occupied : Nat, size : Nat]] /\ request = << >>
  BY <1>1 DEF LateInv, FileShape, LateArgs
<1> QED
  BY <1>1, <1>3, <1>4, <1>5, <1>6, LateSubStored

\* gh_fdmem_dtor, and the result.
LEMMA LateSubEndStep ==
    ASSUME LateInv, SubUnmap \/ SubSend
    PROVE  LateInv' /\ spc' \in {"send", "idle", "dead"}
<1>1. /\ spc' \in {"send", "idle", "dead"}
      /\ UNCHANGED <<file, mem, request, reply, value, hpc, frame, args, adds, calls>>
  BY DEF SubUnmap, SubSend, hostVars
<1>2. maps'["host"] = maps["host"] /\ maps' \in [Procs -> SUBSET [at : Addresses, write : BOOLEAN]]
  <2>1. Unmapped("sub") \subseteq maps["sub"] /\ maps \in [Procs -> SUBSET [at : Addresses, write : BOOLEAN]]
    BY DEF Unmapped, LateInv, FileShape
  <2>2. maps' = maps \/ maps' = [maps EXCEPT !["sub"] = Unmapped("sub")]
    BY DEF SubUnmap, SubSend
  <2> QED
    BY <2>1, <2>2 DEF Procs
<1>3. result' \in Seq([status : Statuses, ptr : Nat])
  <2> DEFINE r == [status |-> reply.status, ptr |-> reply.ptr]
  <2>1. r \in [status : Statuses, ptr : Nat] /\ result \in Seq([status : Statuses, ptr : Nat])
    BY DEF LateInv, SubShape
  <2>2. result' = result \/ result' = Append(result, r)
    BY DEF SubUnmap, SubSend
  <2> DEFINE R == [status : Statuses, ptr : Nat]
  <2>3. r \in R /\ result \in Seq(R)
    BY <2>1
  <2> HIDE DEF r, R
  <2>4. Append(result, r) \in Seq(R)
    BY <2>3
  <2>5. result' \in Seq(R)
    BY <2>2, <2>3, <2>4
  <2> QED
    BY <2>5 DEF R
<1>4. FileSize' = FileSize
  BY <1>1, QuietCells
<1>5. FileShape' /\ HostShape' /\ SubShape'
  <2>1. FileShape'
    BY <1>1, <1>2, <1>4 DEF LateInv, FileShape
  <2>2. HostShape' /\ SubShape'
    BY <1>1, <1>3 DEF LateInv, HostShape, SubShape
  <2> QED
    BY <2>1, <2>2
<1>6. LateSizes' /\ LateMapped' /\ LateValue'
  BY <1>1, <1>2, <1>4 DEF LateInv, LateSizes, LateMapped, LateValue
<1>7. LateArgs'
  BY <1>1, <1>4 DEF LateInv, LateArgs, Carried
<1> QED
  BY <1>1, <1>5, <1>6, <1>7 DEF LateInv

-----------------------------------------------------------------------------
(* The theorems. *)

\* A new frame on an idle subjail.
LEMMA InvInit ==
    ASSUME Init
    PROVE  Inv
<1> USE DEF Init
<1>1. DOMAIN file.cells = 0 .. Initial - 1 /\ Initial \in Nat /\ 1 <= Initial /\ MaxParams \in Nat /\ MaxAdds \in Nat /\ MaxCalls \in Nat
  BY FrameAssumption
<1>2. FileSize = Initial
  BY <1>1, CellCount DEF FileSize
<1>3. FileShape
  BY <1>1, <1>2 DEF FileShape, Procs, Addresses
<1>4. HostShape /\ SubShape
  BY <1>1 DEF HostShape, SubShape, Statuses, Values, Nil
<1>5. OneCall /\ Sealing
  BY DEF OneCall, Sealing, Busy
<1>6. Sizes
  BY <1>1, <1>2 DEF Sizes, Procs
<1>7. Mapped
  <2>1. /\ maps["host"] = {[at |-> 0, write |-> TRUE]} /\ maps["sub"] = {}
        /\ mem["host"].data = 0 /\ spc = "idle"
    BY DEF Procs
  <2> HIDE DEF Init
  <2> QED
    BY <2>1 DEF Mapped, Mapping
<1>8. ArgsStored /\ ValueStored
  BY <1>1, <1>2 DEF ArgsStored, Held, ValueStored
<1>9. UseInv
  BY <1>3, <1>4, <1>5, <1>6, <1>7, <1>8 DEF UseInv
<1> QED
  BY <1>9 DEF Inv, InUse

\* What FaultsFollowFailure says of a step.
FaultStep ==
    /\ hpc # "crashed" /\ hpc' = "crashed" =>
          hpc = "unmapped" \/ (hpc = "timedout" /\ FileSize < mem["host"].size)
    /\ spc # "crashed" /\ spc' = "crashed" => ~InUse /\ FileSize < mem["sub"].size

\* Every step keeps the invariant, and no process faults in a frame that has not failed.
LEMMA InvStep ==
    ASSUME Movers = {}, CStrings, Inv, [Next]_vars
    PROVE  Inv' /\ FaultStep
<1>0. hpc' = hpc => InUse' = InUse
  BY DEF InUse
<1>1. CASE \E v \in Values \ {Nil} : AddParam(v)
  <2>1. PICK v \in Values : AddParam(v)
    BY <1>1
  <2>2. spc' = spc
    BY <2>1 DEF AddParam, subVars
  <2>3. CASE InUse
    <3>1. hpc = "open"
      BY <2>1, <2>3 DEF AddParam, Fillable, InUse
    <3>2. UseInv' /\ hpc' = "open"
      BY <2>1, <2>3, <3>1, AddParamStep DEF Inv
    <3> QED
      BY <2>2, <3>2 DEF Inv, InUse, FaultStep
  <2>4. CASE ~InUse
    <3>1. /\ LateInv' /\ hpc' \in {hpc, "crashed"}
          /\ hpc' = "crashed" => hpc = "unmapped" \/ (hpc = "timedout" /\ FileSize < mem["host"].size)
      BY <2>1, <2>4, LateAddParamStep DEF Inv
    <3>2. ~InUse'
      BY <2>4, <3>1 DEF InUse
    <3> QED
      BY <2>2, <3>1, <3>2 DEF Inv, FaultStep
  <2> QED
    BY <2>3, <2>4
<1>2. CASE \E v \in Values \ {Nil} : AddParamFails(v)
  <2>1. PICK v \in Values : AddParamFails(v)
    BY <1>2
  <2>2. hpc' = hpc /\ spc' = spc /\ Fillable
    BY <2>1 DEF AddParamFails, subVars
  <2>3. CASE InUse
    <3>1. hpc = "open"
      BY <2>2, <2>3 DEF Fillable, InUse
    <3> QED
      BY <1>0, <2>1, <2>2, <2>3, <3>1, AddParamFailsStep DEF Inv, FaultStep
  <2>4. CASE ~InUse
    BY <1>0, <2>1, <2>2, <2>4, LateAddParamFailsStep DEF Inv, FaultStep
  <2> QED
    BY <2>3, <2>4
<1>3. CASE Call \/ Sync \/ Seal
  <2>1. InUse /\ InUse' /\ hpc' # "crashed" /\ spc' = spc
    BY <1>3 DEF Call, Sync, Seal, subVars, InUse
  <2>2. UseInv
    BY <2>1 DEF Inv
  <2>3. UseInv'
    BY <1>3, <2>2, CallStep, SyncStep, SealStep
  <2> QED
    BY <2>1, <2>3 DEF Inv, FaultStep
<1>4. CASE CallFails \/ SyncFails \/ SealFails
  <2>1. InUse /\ spc' = spc
    BY <1>4 DEF CallFails, SyncFails, SealFails, subVars, InUse
  <2>2. UseInv
    BY <2>1 DEF Inv
  <2>3. LateInv' /\ hpc' \in {"timedout", "unmapped"}
    BY <1>4, <2>2, CallFailsStep, SyncFailsStep, SealFailsStep
  <2> QED
    BY <2>1, <2>3 DEF Inv, InUse, FaultStep
<1>5. CASE Close
  <2>1. LateInv
    BY UseIsLate DEF Inv
  <2>2. LateInv' /\ hpc' = "closed" /\ spc' = spc
    BY <1>5, <2>1, CloseStep DEF Close, subVars
  <2> QED
    BY <2>2 DEF Inv, InUse, FaultStep
<1>6. CASE SubMap \/ SubMapFails \/ SubCall \/ SubCallFails
  <2>1. hpc' = hpc /\ spc' # "crashed"
    BY <1>6 DEF SubMap, SubMapFails, SubCall, SubCallFails, hostVars
  <2>2. CASE InUse
    <3>1. UseInv'
      BY <1>6, <2>2, SubMapStep, SubMapFailsStep, SubCallStep, SubCallFailsStep DEF Inv
    <3> QED
      BY <1>0, <2>1, <2>2, <3>1 DEF Inv, FaultStep
  <2>3. CASE ~InUse
    <3>1. LateInv'
      BY <1>6, <2>3, LateSubMapStep, LateSubMapFailsStep, LateSubCallStep DEF Inv
    <3> QED
      BY <1>0, <2>1, <2>3, <3>1 DEF Inv, FaultStep
  <2> QED
    BY <2>2, <2>3
<1>7. CASE SubReturn
  <2>1. hpc' = hpc
    BY <1>7 DEF SubReturn, hostVars
  <2>2. CASE InUse
    <3>1. UseInv' /\ spc' = "unmap"
      BY <1>7, <2>2, SubReturnStep DEF Inv
    <3> QED
      BY <1>0, <2>1, <2>2, <3>1 DEF Inv, FaultStep
  <2>3. CASE ~InUse
    <3>1. LateInv' /\ (spc' = "crashed" => FileSize < mem["sub"].size)
      BY <1>7, <2>3, LateSubReturnStep DEF Inv
    <3> QED
      BY <1>0, <2>1, <2>3, <3>1 DEF Inv, FaultStep
  <2> QED
    BY <2>2, <2>3
<1>8. CASE SubReturnFails \/ SubUnmap \/ SubSend
  <2>1. hpc' = hpc /\ spc' # "crashed"
    BY <1>8 DEF SubReturnFails, SubUnmap, SubSend, hostVars
  <2>2. CASE InUse
    <3>1. UseInv'
      BY <1>8, <2>2, SubReturnFailsStep, SubUnmapStep, SubSendStep DEF Inv
    <3> QED
      BY <1>0, <2>1, <2>2, <3>1 DEF Inv, FaultStep
  <2>3. CASE ~InUse
    <3>1. LateInv'
      BY <1>8, <2>3, LateSubReturnFailsStep, LateSubEndStep DEF Inv
    <3> QED
      BY <1>0, <2>1, <2>3, <3>1 DEF Inv, FaultStep
  <2> QED
    BY <2>2, <2>3
<1>9. CASE UNCHANGED vars
  <2>1. UNCHANGED <<file, mem, maps, hpc, frame, request, result, spc, reply, args, value, adds, calls>>
    BY <1>9 DEF vars
  <2>2. FileShape /\ HostShape /\ SubShape
    BY DEF Inv, UseInv, LateInv
  <2>3. FileSize' = FileSize
    BY <2>1, QuietCells
  <2>4. FileShape' /\ HostShape' /\ SubShape'
    BY <2>1, <2>2, <2>3 DEF FileShape, HostShape, SubShape
  <2>5. CASE InUse
    <3>1. OneCall' /\ Sizes' /\ Sealing' /\ Mapped'
      BY <2>1, <2>3, <2>5 DEF Inv, UseInv, OneCall, Sizes, Sealing, Mapped, Busy, Mapping
    <3>2. ArgsStored' /\ ValueStored'
      BY <2>1, <2>3, <2>5 DEF Inv, UseInv, ArgsStored, ValueStored, Leads
    <3> QED
      BY <1>0, <2>1, <2>4, <2>5, <3>1, <3>2 DEF Inv, UseInv, FaultStep
  <2>6. CASE ~InUse
    <3>1. LateArgs'
      BY <2>1, <2>6, LateQuiet DEF Inv
    <3>2. LateSizes' /\ LateMapped' /\ LateValue'
      BY <2>1, <2>3, <2>6 DEF Inv, LateInv, LateSizes, LateMapped, LateValue
    <3> QED
      BY <1>0, <2>1, <2>4, <2>6, <3>1, <3>2 DEF Inv, LateInv, FaultStep
  <2> QED
    BY <2>5, <2>6
<1> QED
  BY <1>1, <1>2, <1>3, <1>4, <1>5, <1>6, <1>7, <1>8, <1>9 DEF Next

\* The invariant holds always.
LEMMA InvAlways ==
    ASSUME Movers = {}, CStrings
    PROVE  Spec => []Inv
<1>1. Init => Inv
  BY InvInit
<1>2. Inv /\ [Next]_vars => Inv'
  BY InvStep
<1> QED
  BY <1>1, <1>2, PTL DEF Spec

\* What both parts of the invariant say.
LEMMA InvLate ==
    ASSUME Inv
    PROVE  LateInv
BY UseIsLate DEF Inv

\* Every reachable state of a call frame is well typed, and no capacity is exceeded: what a
\* process takes for occupied fits its mapping, the mapping is in the file as long as the frame
\* has not failed, and a frame has no more pointers than a message can carry, for every size of
\* header, file and page and however often the memory grows.
THEOREM FrameTyped ==
    ASSUME Movers = {}, CStrings
    PROVE  Spec => []TypeOK
<1>1. Inv => TypeOK
  <2> SUFFICES ASSUME Inv, LateInv PROVE TypeOK
    BY InvLate
  <2>1. /\ file.sealed \in BOOLEAN /\ DOMAIN file.cells = 0 .. FileSize - 1 /\ FileSize \in Nat
        /\ hpc \in {"open", "calling", "seal", "timedout", "unmapped", "crashed", "closed"}
        /\ spc \in {"idle", "call", "return", "unmap", "send", "dead", "crashed"}
        /\ adds \in 0 .. MaxAdds /\ calls \in 0 .. MaxCalls
    BY DEF LateInv, FileShape, HostShape, SubShape
  <2>2. ASSUME NEW p \in Procs
        PROVE  /\ mem[p].data \in Addresses /\ mem[p].occupied \in 0 .. mem[p].size
               /\ maps[p] \subseteq [at : Addresses, write : BOOLEAN]
               /\ InUse => mem[p].size <= FileSize
    <3>1. /\ mem[p].data \in Addresses /\ mem[p].occupied \in 0 .. mem[p].size
          /\ maps[p] \subseteq [at : Addresses, write : BOOLEAN]
      BY DEF LateInv, FileShape, LateSizes
    <3>2. InUse => mem[p].size <= FileSize
      BY DEF Inv, UseInv, Sizes
    <3> QED
      BY <3>1, <3>2
  <2>3. Len(frame.params) <= MaxParams /\ Len(args) = Len(frame.params)
    BY DEF LateInv, LateArgs
  <2>4. ASSUME NEW i \in DOMAIN frame.params PROVE frame.params[i] \in 1 .. mem["host"].occupied
    <3>1. frame.params \in Seq(Nat) /\ mem["host"].occupied \in Nat
      BY DEF LateInv, HostShape, FileShape, Procs
    <3>2. i \in 1 .. Len(frame.params) /\ frame.params[i] \in Nat
      BY <3>1
    <3> QED
      BY <3>1, <3>2 DEF LateInv, LateArgs
  <2>5. frame.returned \in BOOLEAN /\ frame.retval \in -1 .. FileSize - 1
    <3>1. frame.returned \in BOOLEAN /\ frame.retval \in Int /\ -1 <= frame.retval /\ frame.retval < FileSize
      BY DEF LateInv, HostShape, LateValue
    <3> QED
      BY <2>1, <3>1
  <2> QED
    BY <2>1, <2>2, <2>3, <2>4, <2>5 DEF TypeOK
<1> QED
  BY <1>1, InvAlways, PTL

\* The values that lua_callfunction reads through the pointers of the message are those that
\* the application passed to the gh_thread_callframe_* functions, also when the host has given
\* up and goes on filling the frame.
THEOREM ArgumentsArrive ==
    ASSUME Movers = {}, CStrings
    PROVE  Spec => []ArgsArrive
<1>1. Inv => ArgsArrive
  <2> SUFFICES ASSUME Inv, LateInv, spc = "call"
               PROVE  /\ Len(reply.params) <= Len(args) /\ (InUse => Len(reply.params) = Len(args))
                      /\ \A i \in DOMAIN reply.params : RealPtr("sub", reply.params[i], 1) # -1
                                                /\ Decode(RealPtr("sub", reply.params[i], 1)) = args[i]
    BY InvLate DEF ArgsArrive
  <2>1. Carried(reply.params, mem["sub"].occupied)
    BY DEF LateInv, LateArgs
  <2>2. Len(reply.params) <= Len(args) /\ (InUse => Len(reply.params) = Len(args))
    BY <2>1 DEF Carried, Inv, UseInv, ArgsStored, Held
  <2>3. ASSUME NEW i \in DOMAIN reply.params
        PROVE  RealPtr("sub", reply.params[i], 1) # -1 /\ Decode(RealPtr("sub", reply.params[i], 1)) = args[i]
    <3> DEFINE ptr == reply.params[i]
               v == args[i]
    <3>1. /\ ptr \in Nat /\ v \in Values /\ 1 <= ptr /\ End(ptr - 1, v) <= mem["sub"].occupied
          /\ Holds(file.cells, ptr - 1, v) /\ mem["sub"].occupied \in Nat
      <4>1. /\ reply.params \in Seq(Nat) /\ args \in Seq(Values) /\ mem["sub"].occupied \in Nat
            /\ Len(reply.params) \in Nat /\ Len(args) \in Nat
        BY DEF LateInv, HostShape, SubShape, FileShape, Procs
      <4>2. i \in 1 .. Len(reply.params) /\ i \in 1 .. Len(args)
        BY <2>2, <4>1
      <4>3. ptr \in Nat /\ v \in Values
        BY <4>1, <4>2
      <4> QED
        BY <2>1, <4>1, <4>2, <4>3 DEF Carried
    <3>2. reply.params[i] = ptr
      OBVIOUS
    <3> HIDE DEF ptr, v
    <3>3. RealPtr("sub", ptr, 1) = ptr - 1
      BY <3>1, RealPtrFinds
    <3>4. ptr - 1 # -1
      BY <3>1
    <3>5. Decode(ptr - 1) = v
      BY <3>1, DecodeHolds
    <3> QED
      BY <3>2, <3>3, <3>4, <3>5 DEF v
  <2> QED
    BY <2>2, <2>3
<1> QED
  BY <1>1, InvAlways, PTL

\* After gh_thread_call the frame holds the value that the Lua function returned, and none
\* after a call without one.
THEOREM ValueArrives ==
    ASSUME Movers = {}, CStrings
    PROVE  Spec => []ReturnArrives
<1>1. Inv => ReturnArrives
  <2> SUFFICES ASSUME UseInv, hpc = "open", frame.returned PROVE ReturnArrives
    BY DEF ReturnArrives, Inv, InUse
  <2>1. IF frame.status = "ok" THEN 0 <= frame.retval /\ Holds(file.cells, frame.retval, value)
                               ELSE frame.retval = -1
    BY DEF UseInv, ValueStored
  <2>2. value \in Values /\ frame.retval \in Int
    BY DEF UseInv, SubShape, HostShape
  <2>3. CASE frame.status = "ok"
    <3>1. Decode(frame.retval) = value
      BY <2>1, <2>2, <2>3, DecodeHolds
    <3>2. frame.retval # -1
      BY <2>1, <2>2, <2>3
    <3> QED
      BY <2>3, <3>1, <3>2 DEF ReturnArrives
  <2>4. CASE frame.status # "ok"
    BY <2>1, <2>4 DEF ReturnArrives
  <2> QED
    BY <2>3, <2>4
<1> QED
  BY <1>1, InvAlways, PTL

\* Neither process writes where nothing is mapped, or past the end of the file, unless a call
\* with the frame has failed before; then the host does so only if its memory is gone or was cut
\* by a late answer, and the subjail only if the host has cut the file.
THEOREM WritesAreMapped ==
    ASSUME Movers = {}, CStrings
    PROVE  Spec => FaultsFollowFailure
<1>1. Spec => []Inv
  BY InvAlways
<1>2. Inv /\ [Next]_vars => [FaultStep]_vars
  BY InvStep
<1>3. [][FaultStep]_vars => FaultsFollowFailure
  <2>1. [FaultStep]_vars =>
           [/\ hpc # "crashed" /\ hpc' = "crashed" =>
                  hpc = "unmapped" \/ (hpc = "timedout" /\ FileSize < mem["host"].size)
            /\ spc # "crashed" /\ spc' = "crashed" => ~InUse /\ FileSize < mem["sub"].size]_vars
    BY DEF FaultStep
  <2> QED
    BY <2>1, PTL DEF FaultsFollowFailure
<1> QED
  BY <1>1, <1>2, <1>3, PTL DEF Spec

\* When gh_fdmem_seal asks for the seals, no mapping in either process allows writing.
THEOREM SealIsGiven ==
    ASSUME Movers = {}, CStrings
    PROVE  Spec => []SealAlone
<1>1. Inv => SealAlone
  <2> SUFFICES ASSUME UseInv, hpc = "seal" PROVE ~Shared
    BY DEF SealAlone, Inv, InUse
  <2>1. ~Busy
    BY DEF UseInv, OneCall
  <2>2. maps["sub"] = {}
    BY <2>1 DEF UseInv, Mapped, Mapping, Busy
  <2> QED
    BY <2>2, UnmappedNone DEF Shared
<1> QED
  BY <1>1, InvAlways, PTL
=============================================================================
