------------------------------ MODULE CallFrame ------------------------------
(***************************************************************************)
(* A call of a Lua function from the host: gh_thread_callframe_* and       *)
(* gh_thread_call on one side, lua_callfunction on the other, and the      *)
(* shared memory (fdmem.c) that carries the arguments one way and the      *)
(* returned value the other.  The memory is a file; each process maps it,  *)
(* grows it, and finds values in it by pointers relative to its start plus *)
(* one.  The host seals the file before it reads the returned value.       *)
(*                                                                         *)
(* Sizes are counted in cells.  A gh_variant is Header cells, the first of *)
(* which holds its type and value, followed by one cell per character; the *)
(* other header cells are the zero bytes that end t_string_len.  The       *)
(* LUAINFO exchange of a call is the subject of Session: here a call is a  *)
(* request and a result, or a failure to get one.                          *)
(***************************************************************************)
EXTENDS Integers, Sequences, FiniteSetsExt

CONSTANTS
    Header,       \* sizeof(gh_variant)
    Initial,      \* GH_IPCFDMEM_INITIALCAPACITY
    Page,         \* cells that the kernel maps together
    Strings,      \* strings passed and returned: sequences of characters, 0 for '\0'
    MaxParams,    \* GH_IPCMSG_LUACALL_MAXPARAMS
    MaxAdds,      \* bound: attempts to add an argument
    MaxCalls,     \* bound: calls with the same frame
    Movers,       \* processes whose mappings the kernel may have to move
    Faults        \* subset of {"memory", "timeout"}: what may fail

Procs == {"host", "sub"}

ASSUME FrameAssumption ==
    /\ {Header, Initial, Page, MaxParams} \subseteq Nat \ {0}
    /\ MaxAdds \in Nat /\ MaxCalls \in Nat
    /\ Strings \subseteq Seq(0 .. 1)
    /\ Movers \subseteq Procs
    /\ Faults \subseteq {"memory", "timeout"}

VARIABLES
    file,     \* the memory file: its cells (its size is their number), whether it is sealed
    mem,      \* gh_fdmem of each process: data, size, occupied
    maps,     \* mappings of the file that each process really has
    hpc,      \* host: "open", "calling", "seal", "closed", "crashed"; after a call that failed,
              \* "timedout" when the memory is as it was, "unmapped" when it is gone
    frame,    \* gh_thread_callframe: param_ptrs, returned, return_value (-1 for NULL); the
              \* result code of the latest call that returned
    request,  \* LUACALL messages on their way
    result,   \* LUARESULT messages on their way
    spc,      \* subjail: "idle", "call", "return", "unmap", "send", "dead",
              \* "crashed"
    reply,    \* lua_callfunction's locals: parameters, result code, return pointer, whether
              \* it returns an error to the message loop
    args,     \* what the application passed
    value,    \* what the Lua function of the latest call returned
    adds, calls

vars == <<file, mem, maps, hpc, frame, request, result, spc, reply, args, value, adds, calls>>

Values == [type : {"nil"}, val : {0}, str : {<< >>}]
          \cup [type : {"number"}, val : 1 .. MaxAdds + 1, str : {<< >>}]
          \cup [type : {"string"}, val : {0}, str : Strings]

Nil == [type |-> "nil", val |-> 0, str |-> << >>]
Byte(b) == [type |-> "byte", val |-> b]

-----------------------------------------------------------------------------
(* The kernel's part. *)

Addresses == 0 .. 2

\* munmap(fdmem->data): removes the mapping at that address, and succeeds if there is none.
Unmapped(p) == {m \in maps[p] : m.at # mem[p].data}

\* mmap: a mapping at an address that the process does not use.
Free(used) == {a \in Addresses : \A m \in used : m.at # a}

Pages(n) == (n + Page - 1) \div Page

-----------------------------------------------------------------------------
(* fdmem.c *)

FileSize == Cardinality(DOMAIN file.cells)

\* The loop of gh_fdmem_new: double the capacity until the block fits.
NewSize(size, need) ==
    LET round[k \in 0 .. need] == IF k = 0 THEN size ELSE 2 * round[k - 1]
    IN  round[Min({k \in 0 .. need : need <= round[k]})]

Fits(p, len) == mem[p].occupied + len <= mem[p].size

\* ftruncate: what the file holds stays, what is added is zero.
Truncated(size) == [i \in 0 .. size - 1 |-> IF i \in DOMAIN file.cells THEN file.cells[i] ELSE Byte(0)]

\* What mremap leaves behind when the mapping grows to size: the same mapping or, when it
\* needs more pages and the next ones are taken, one at another address.  ipcfdmem_resize
\* does not store that address.
Remaps(p, size) ==
    {maps[p]} \cup
    {Unmapped(p) \cup {[at |-> a, write |-> TRUE]} :
        a \in IF p \in Movers /\ Pages(size) > Pages(mem[p].size) THEN Free(maps[p]) ELSE {}}

\* The caller's writes through the pointer that gh_fdmem_new returned hit the file.
Hits(p) == [at |-> mem[p].data, write |-> TRUE] \in maps'[p]

\* Where the process is after these writes, pc if all is well.  A write through a stale pointer
\* faults, or goes where something else is mapped by then; one to a page that lies beyond the
\* end of the file faults.
Written(p, pc) ==
    IF ~Hits(p) THEN {pc, "crashed"}
    ELSE IF mem'[p].occupied <= Page * Pages(FileSize') THEN {pc} ELSE {"crashed"}

\* What mremap asks for.
HasMapping(p) == \E m \in maps[p] : m.at = mem[p].data

\* gh_fdmem_new and its caller's writes of a block.
Store(p, block) ==
    LET off  == mem[p].occupied
        len  == Len(block)
        size == IF Fits(p, len) THEN mem[p].size ELSE NewSize(mem[p].size, off + len)
        held == IF Fits(p, len) THEN file.cells ELSE Truncated(size)
    IN  /\ Fits(p, len) \/ (~file.sealed /\ HasMapping(p))
        /\ \E left \in IF Fits(p, len) THEN {maps[p]} ELSE Remaps(p, size) :
              maps' = [maps EXCEPT ![p] = left]
        /\ mem' = [mem EXCEPT ![p].size = size, ![p].occupied = off + len]
        /\ file' = [file EXCEPT !.cells =
              IF Hits(p)
              THEN [i \in DOMAIN held |-> IF i \in off .. off + len - 1 THEN block[i - off + 1] ELSE held[i]]
              ELSE held]

\* gh_fdmem_new fails: ftruncate is refused by a seal or by the system, or mremap after it, for
\* one because nothing is mapped there any more.
StoreFails(p, block) ==
    LET cut == [file EXCEPT !.cells = Truncated(NewSize(mem[p].size, mem[p].occupied + Len(block)))]
    IN  /\ ~Fits(p, Len(block))
        /\ \/ file.sealed /\ file' = file
           \/ ~file.sealed /\ "memory" \in Faults /\ file' \in {file, cut}
           \/ ~file.sealed /\ ~HasMapping(p) /\ file' = cut
        /\ UNCHANGED <<mem, maps>>

\* ipcfdmem_realptr, gh_fdmem_realptr and gh_fdmem_virtptr, with offsets for addresses and
\* -1 for NULL.
RealCell(p, ptr) == IF ptr = 0 \/ ptr - 1 >= mem[p].occupied THEN -1 ELSE ptr - 1
RealPtr(p, ptr, size) == IF RealCell(p, ptr + size - 1) = -1 THEN -1 ELSE RealCell(p, ptr)
VirtPtrZeroBased(off) == off
VirtPtr(off) == off + 1

-----------------------------------------------------------------------------
(* Variants. *)

\* strncpy: the characters up to the first '\0', then zeros.
Strncpy(s) == [i \in DOMAIN s |-> IF \E j \in 1 .. i : s[j] = 0 THEN 0 ELSE s[i]]

\* The cells of a variant that holds v, with `extra` zero cells after its characters.
Encode(v, extra) ==
    <<[type |-> v.type, val |-> IF v.type = "string" THEN Len(v.str) ELSE v.val]>>
    \o [i \in 1 .. Header - 1 |-> Byte(0)]
    \o [i \in 1 .. Len(v.str) |-> Byte(Strncpy(v.str)[i])]
    \o [i \in 1 .. extra |-> Byte(0)]

\* The value whose variant starts at an offset.  A zero type is GH_VARIANT_NIL.
Decode(off) ==
    LET h == file.cells[off]
    IN  IF h.type = "string"
        THEN [type |-> "string", val |-> 0,
              str |-> [i \in 1 .. h.val |-> file.cells[off + Header + i - 1].val]]
        ELSE IF h.type = "number" THEN [type |-> "number", val |-> h.val, str |-> << >>] ELSE Nil

-----------------------------------------------------------------------------
(* The host: gh_thread_callframe_* and gh_thread_call. *)

subVars == <<spc, reply, value>>

\* Arguments are added to a frame that has failed as to any other.
Fillable == hpc \in {"open", "timedout", "unmapped"}

\* gh_thread_callframe_int, _double and _lstring.  An argument too many is refused after
\* it has been stored.
AddParamUncounted(v) ==
    /\ Fillable /\ adds < MaxAdds /\ adds' = adds + 1
    /\ Store("host", Encode(v, 0))
    /\ hpc' = hpc
    /\ frame' = [frame EXCEPT !.params = Append(@, VirtPtr(mem["host"].occupied))]
    /\ args' = Append(args, v)
    /\ UNCHANGED <<request, result, calls, subVars>>

AddParam(v) ==
    /\ Fillable /\ adds < MaxAdds /\ adds' = adds + 1
    /\ Store("host", Encode(v, 0))
    /\ hpc' \in Written("host", hpc)
    /\ IF Len(frame.params) + 1 > MaxParams
       THEN UNCHANGED <<frame, args>>
       ELSE /\ frame' = [frame EXCEPT !.params = Append(@, VirtPtr(mem["host"].occupied))]
            /\ args' = Append(args, v)
    /\ UNCHANGED <<request, result, calls, subVars>>

AddParamFails(v) ==
    /\ Fillable /\ adds < MaxAdds /\ adds' = adds + 1
    /\ StoreFails("host", Encode(v, 0))
    /\ UNCHANGED <<hpc, frame, args, request, result, calls, subVars>>

\* gh_thread_call sends the frame's pointers and how much of the memory is occupied.  What a
\* call after a failed one receives is the subject of Session.
Call ==
    /\ hpc = "open" /\ calls < MaxCalls /\ calls' = calls + 1
    /\ request' = Append(request, [params |-> frame.params, occupied |-> mem["host"].occupied])
    /\ hpc' = "calling"
    /\ UNCHANGED <<file, mem, maps, frame, result, args, adds, subVars>>

\* No LUAINFO or LUARESULT in time, or the end of the socket.
CallFails ==
    /\ hpc = "calling"
    /\ "timeout" \in Faults \/ (spc \in {"dead", "crashed"} /\ result = << >>)
    /\ hpc' = "timedout"
    /\ UNCHANGED <<file, mem, maps, frame, request, result, args, adds, calls, subVars>>

\* gh_fdmem_sync: unmap, then map all of the file, all of it occupied.
SyncKeepingOccupied ==
    /\ hpc = "calling" /\ result # << >> /\ ~file.sealed
    /\ \E a \in Free(Unmapped("host")) :
          /\ maps' = [maps EXCEPT !["host"] = Unmapped("host") \cup {[at |-> a, write |-> TRUE]}]
          /\ mem' = [mem EXCEPT !["host"].data = a, !["host"].size = FileSize]
    /\ hpc' = "seal"
    /\ UNCHANGED <<file, frame, request, result, args, adds, calls, subVars>>

Sync ==
    /\ hpc = "calling" /\ result # << >> /\ ~file.sealed
    /\ \E a \in Free(Unmapped("host")) :
          /\ maps' = [maps EXCEPT !["host"] = Unmapped("host") \cup {[at |-> a, write |-> TRUE]}]
          /\ mem' = [mem EXCEPT !["host"] = [data |-> a, size |-> FileSize, occupied |-> FileSize]]
    /\ hpc' = "seal"
    /\ UNCHANGED <<file, frame, request, result, args, adds, calls, subVars>>

\* F_SEAL_WRITE is refused while a mapping other than the one just removed allows writing.
Shared == \E m \in Unmapped("host") \cup maps["sub"] : m.write

\* gh_fdmem_seal and the rest of gh_thread_callframe_loadreturnvalue.
Seal ==
    LET r == Head(result) IN
    /\ hpc = "seal" /\ ~Shared
    /\ file' = [file EXCEPT !.sealed = TRUE]
    /\ \E a \in Free(Unmapped("host")) :
          /\ maps' = [maps EXCEPT !["host"] = Unmapped("host") \cup {[at |-> a, write |-> FALSE]}]
          /\ mem' = [mem EXCEPT !["host"].data = a]
    /\ frame' = [frame EXCEPT !.returned = TRUE, !.status = r.status,
                     !.retval = IF RealPtr("host", r.ptr, Header) # -1
                                THEN RealPtr("host", r.ptr, Header) ELSE @]
    /\ result' = Tail(result)
    /\ hpc' = "open"
    /\ UNCHANGED <<request, args, adds, calls, subVars>>

\* The file cannot be mapped: the frame keeps a pointer to memory that is no longer mapped.
SyncFails ==
    /\ hpc = "calling" /\ result # << >>
    /\ file.sealed \/ "memory" \in Faults
    /\ maps' = [maps EXCEPT !["host"] = Unmapped("host")]
    /\ result' = Tail(result)
    /\ hpc' = "unmapped"
    /\ UNCHANGED <<file, mem, frame, request, args, adds, calls, subVars>>

\* The kernel refuses the seal, or sets it and then the file cannot be mapped again.
SealFails ==
    /\ hpc = "seal"
    /\ Shared \/ "memory" \in Faults
    /\ file' = [file EXCEPT !.sealed = ~Shared]
    /\ maps' = [maps EXCEPT !["host"] = Unmapped("host")]
    /\ result' = Tail(result)
    /\ hpc' = "unmapped"
    /\ UNCHANGED <<mem, frame, request, args, adds, calls, subVars>>

\* gh_thread_callframe_dtor.
Close ==
    /\ Fillable
    /\ maps' = [maps EXCEPT !["host"] = Unmapped("host")]
    /\ hpc' = "closed"
    /\ UNCHANGED <<file, mem, frame, request, result, args, adds, calls, subVars>>

-----------------------------------------------------------------------------
(* The subjail: lua_callfunction. *)

hostVars == <<hpc, frame, args, adds, calls>>

\* gh_fdmem_ctorfdo with the descriptor that came with the message.
SubMap ==
    /\ spc = "idle" /\ request # << >> /\ ~file.sealed
    /\ \E a \in Free(maps["sub"]) :
          /\ maps' = [maps EXCEPT !["sub"] = @ \cup {[at |-> a, write |-> TRUE]}]
          /\ mem' = [mem EXCEPT !["sub"] =
                        [data |-> a, size |-> FileSize, occupied |-> Head(request).occupied]]
    /\ reply' = [params |-> Head(request).params, status |-> "ok", ptr |-> 0, fatal |-> FALSE]
    /\ request' = Tail(request)
    /\ spc' = "call"
    /\ UNCHANGED <<file, result, value, hostVars>>

\* It fails, for one because the frame was used before and its file is sealed: the error
\* ends the message loop.
SubMapFails ==
    /\ spc = "idle" /\ request # << >>
    /\ file.sealed \/ "memory" \in Faults
    /\ request' = Tail(request)
    /\ spc' = "dead"
    /\ UNCHANGED <<file, mem, maps, result, reply, value, hostVars>>

BadParam == \E i \in DOMAIN reply.params : RealPtr("sub", reply.params[i], 1) = -1

\* The callback does not exist, a pointer leads nowhere, or the function raises an error.
SubCallFails ==
    /\ spc = "call"
    /\ \E status \in {"missing", "error"} \cup IF BadParam THEN {"param"} ELSE {} :
          /\ BadParam => status # "error"
          /\ reply' = [reply EXCEPT !.status = status]
    /\ spc' = "unmap"
    /\ UNCHANGED <<file, mem, maps, request, result, value, hostVars>>

SubCall ==
    /\ spc = "call" /\ ~BadParam
    /\ value' \in Values
    /\ spc' = "return"
    /\ UNCHANGED <<file, mem, maps, request, result, reply, hostVars>>

ReturnBlock == Encode(value, IF value.type = "string" THEN 1 ELSE 0)

\* lua_callfunction_getreturn.
SubReturn ==
    /\ spc = "return"
    /\ Store("sub", ReturnBlock)
    /\ reply' = [reply EXCEPT !.ptr = VirtPtr(mem["sub"].occupied)]
    /\ spc' \in Written("sub", "unmap")
    /\ UNCHANGED <<request, result, value, hostVars>>

SubReturnFails ==
    /\ spc = "return"
    /\ StoreFails("sub", ReturnBlock)
    /\ reply' = [reply EXCEPT !.status = "memory", !.fatal = TRUE]
    /\ spc' = "unmap"
    /\ UNCHANGED <<request, result, value, hostVars>>

\* gh_fdmem_dtor comes before the result is sent.
SubUnmapForgotten ==
    /\ spc = "unmap"
    /\ spc' = "send"
    /\ UNCHANGED <<file, mem, maps, request, result, reply, value, hostVars>>

SubUnmap ==
    /\ spc = "unmap"
    /\ maps' = [maps EXCEPT !["sub"] = Unmapped("sub")]
    /\ spc' = "send"
    /\ UNCHANGED <<file, mem, request, result, reply, value, hostVars>>

SubSend ==
    /\ spc = "send"
    /\ result' = Append(result, [status |-> reply.status, ptr |-> reply.ptr])
    /\ spc' = IF reply.fatal THEN "dead" ELSE "idle"
    /\ UNCHANGED <<file, mem, maps, request, reply, value, hostVars>>

-----------------------------------------------------------------------------
\* gh_thread_callframe_ctor on a subjail that is waiting for messages.
Init ==
    /\ file = [cells |-> [i \in 0 .. Initial - 1 |-> Byte(0)], sealed |-> FALSE]
    /\ mem = [p \in Procs |-> [data |-> 0, occupied |-> 0, size |-> IF p = "host" THEN Initial ELSE 0]]
    /\ maps = [p \in Procs |-> IF p = "host" THEN {[at |-> 0, write |-> TRUE]} ELSE {}]
    /\ hpc = "open" /\ spc = "idle"
    /\ frame = [params |-> << >>, returned |-> FALSE, retval |-> -1, status |-> "none"]
    /\ reply = [params |-> << >>, status |-> "none", ptr |-> 0, fatal |-> FALSE]
    /\ request = << >> /\ result = << >>
    /\ args = << >> /\ value = Nil
    /\ adds = 0 /\ calls = 0

Next ==
    \/ \E v \in Values \ {Nil} : AddParam(v) \/ AddParamFails(v)
    \/ Call \/ CallFails \/ Sync \/ SyncFails \/ Seal \/ SealFails \/ Close
    \/ SubMap \/ SubMapFails \/ SubCall \/ SubCallFails
    \/ SubReturn \/ SubReturnFails \/ SubUnmap \/ SubSend

Spec == Init /\ [][Next]_vars

-----------------------------------------------------------------------------
\* The frame has not failed.
InUse == hpc \in {"open", "calling", "seal"}

\* Types, and the capacities that fdmem.c and GH_IPCMSG_LUACALL_MAXPARAMS bound: what is
\* occupied fits the mapping, as long as the frame has not failed the mapping does not reach
\* past the file, and a frame has at most MaxParams pointers.
TypeOK ==
    /\ file.sealed \in BOOLEAN
    /\ DOMAIN file.cells = 0 .. FileSize - 1
    /\ \A p \in Procs :
          /\ mem[p].data \in Addresses
          /\ mem[p].occupied \in 0 .. mem[p].size
          /\ InUse => mem[p].size <= FileSize
          /\ maps[p] \subseteq [at : Addresses, write : BOOLEAN]
    /\ hpc \in {"open", "calling", "seal", "timedout", "unmapped", "crashed", "closed"}
    /\ spc \in {"idle", "call", "return", "unmap", "send", "dead", "crashed"}
    /\ Len(frame.params) <= MaxParams /\ Len(args) = Len(frame.params)
    /\ \A i \in DOMAIN frame.params : frame.params[i] \in 1 .. mem["host"].occupied
    /\ frame.returned \in BOOLEAN /\ frame.retval \in -1 .. FileSize - 1
    /\ adds \in 0 .. MaxAdds /\ calls \in 0 .. MaxCalls

\* The arguments that lua_callfunction reads through the pointers of the message are those
\* that the application passed to gh_thread_callframe_*, wherever the memory was grown in
\* between; also when the host has given up waiting and adds to the frame meanwhile.
ArgsArrive ==
    spc = "call" =>
        /\ Len(reply.params) <= Len(args) /\ (InUse => Len(reply.params) = Len(args))
        /\ \A i \in DOMAIN reply.params :
              LET off == RealPtr("sub", reply.params[i], 1) IN off # -1 /\ Decode(off) = args[i]

\* After gh_thread_call the frame holds the value that the Lua function returned; after a
\* call without a value it holds none, so the gh_thread_callframe_get* functions fail.
ReturnArrives ==
    hpc = "open" /\ frame.returned =>
        IF frame.status = "ok"
        THEN frame.retval # -1 /\ Decode(frame.retval) = value
        ELSE frame.retval = -1

\* When gh_fdmem_seal asks for the seals, the mapping it has just removed was the last one
\* that allowed writing, in either process: the kernel does not refuse the seal.
SealAlone == hpc = "seal" => ~Shared

\* No process writes where nothing is mapped, or past the end of the file, as long as no call
\* with the frame has failed.  The host does so in no other frame than one whose memory a
\* failing gh_fdmem_sync or gh_fdmem_seal has unmapped (they leave data and size as they were,
\* and gh_thread_callframe_* write there), or one that the subjail cut short with ftruncate when
\* it answered too late; the subjail only after the host, having given up, has cut the file.
FaultsFollowFailure ==
    [][/\ hpc # "crashed" /\ hpc' = "crashed" =>
             hpc = "unmapped" \/ (hpc = "timedout" /\ FileSize < mem["host"].size)
       /\ spc # "crashed" /\ spc' = "crashed" => ~InUse /\ FileSize < mem["sub"].size]_vars

\* No process writes where nothing is mapped, whatever has failed before.
NoFault == hpc # "crashed" /\ spc # "crashed"

\* gh_fdmem's data is the address of its mapping for as long as there is one.
DataIsMapped == \A p \in Procs : maps[p] # {} => \E m \in maps[p] : m.at = mem[p].data

\* gh_thread_callframe_getstring: the byte before the end is compared with '\0' first, then
\* the byte after it.
GetString ==
    LET h    == file.cells[frame.retval]
        data == frame.retval + Header
        past == data + h.val
    IN  /\ frame.returned /\ frame.retval # -1
        /\ h.type = "string"
        /\ file.cells[past - 1] # Byte(0)
        /\ past < mem["host"].occupied /\ file.cells[past] = Byte(0)

\* gh_thread_callframe_getstring succeeds when the function returned a string.
StringIsReadable ==
    hpc = "open" /\ frame.returned /\ frame.status = "ok" /\ value.type = "string" => GetString
=============================================================================
