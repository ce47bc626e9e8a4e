----------------------------- MODULE PolicyFile -----------------------------
(***************************************************************************)
(* The policy file (perms.c, writer.c, parser.c, and the parser and writer *)
(* halves of permfs.c and permexec.c): an application loads it when it     *)
(* starts, decisions of the end user and of the application are added to   *)
(* the policy in memory, and the policy is saved for the next start.       *)
(*                                                                         *)
(* A text is a sequence of cells.  A cell is a word, a brace, a quote or a *)
(* null byte; a path is one or more cells, so that a text can end inside   *)
(* it.  Blanks and comments between words carry no meaning and are left    *)
(* out, and every cell counts as one unit of the file's length.            *)
(***************************************************************************)
EXTENDS Naturals, Sequences, FiniteSets, SequencesExt

CONSTANTS
    Paths,       \* canonical paths, each the sequence of its cells
    Flags,       \* the flags of gh_permfs_mode as a sequence, in the order of their bits
    Hashes,      \* hashes of programs
    Keys,        \* keys of the generic permission system
    Rules,       \* (self, children) pairs that are added to the policy
    DefaultMode, \* permexec->default_mode
    OpenModes,   \* how applications open the file for saving: subset of {"trunc", "over", "same"}
    CrashIn,     \* those in which the application may end while it saves
    Faults,      \* subset of {"write", "drop", "retry"}
    MaxOps,      \* bound: additions to the policy, and saves
    MaxPrograms  \* bound: length of permexec->hashlist

Verbs == {"accept", "reject", "prompt"}
FlagSet == ToSet(Flags)
Modesets == [Verbs -> SUBSET FlagSet]
Empty == [verb \in Verbs |-> {}]

\* What a text consists of: words, the cells of paths, quotes, braces and null bytes.
Words == {"filesystem", "node", "exec", "cmdline", "generic", "key", "self", "children", "mode", "torn"}
         \cup Verbs \cup FlagSet \cup Hashes \cup Keys
PathCells == UNION {ToSet(path) : path \in Paths}
Cells == Words \cup PathCells \cup {"Q", "{", "}", "NUL"}

FsEntries == [path : Seq(Cells), self : Modesets, children : Modesets]
ExecEntries == [hash : Hashes, mode : Verbs]

ASSUME PolicyFileAssumption ==
    /\ Paths \subseteq Seq(STRING) /\ Flags \in Seq(STRING)
    /\ Rules \subseteq [self : Modesets, children : Modesets]
    /\ DefaultMode \in Verbs
    /\ OpenModes \subseteq {"trunc", "over", "same"}
    /\ CrashIn \subseteq OpenModes
    /\ Faults \subseteq {"write", "drop", "retry"}
    /\ MaxOps \in Nat /\ MaxPrograms \in Nat

VARIABLES
    fs,          \* perms->filesystem.file_perms
    exec,        \* perms->exec.hashlist
    registered,  \* whether the generic permission system is registered
    generic,     \* the entries of its instance
    habit,       \* how this application opens the file for saving
    disk,        \* contents of the policy file
    result,      \* what the last load in this process returned, "none" before it
    written,     \* the policies of the attempts to save that are in the file
    whole,       \* whether it is one, and that attempt reported success
    damaged,     \* history: what saves have done to the file since it was last thrown away
    ops

\* The ways in which a save harms the file: a crash leaves the rest of an older text behind
\* part of the new one ("torn"), or a save that reports success leaves the rest of a longer
\* text ("remains"), null bytes in front ("gap") or a path without one of its cells ("dropped").
Damages == {"torn", "remains", "gap", "dropped"}

vars == <<fs, exec, registered, generic, habit, disk, result, written, whole, damaged, ops>>
policyVars == <<fs, exec, generic>>
fileVars == <<habit, disk, written, whole, damaged>>

\* Scripts run, and the policy changes, after it was loaded.
Operation == result = "OK" /\ ops < MaxOps /\ ops' = ops + 1

-----------------------------------------------------------------------------
(* What a policy means, whatever the order and the number of its entries. *)

\* The first entry of a program decides (gh_permexec_hashlist_tryget).
ExecMode(list, hash) ==
    LET own == {i \in DOMAIN list : list[i].hash = hash}
    IN  IF own = {} THEN "none" ELSE list[Min(own)].mode

Meaning(list, programs, keys) ==
    [fs |-> ToSet(list), exec |-> [h \in Hashes |-> ExecMode(programs, h)], generic |-> keys]

Policy == Meaning(fs, exec, generic)
NoPolicy == Meaning(<< >>, << >>, {})

-----------------------------------------------------------------------------
(* Writing. *)

Quoted(cells) == <<"Q">> \o cells \o <<"Q">>

Block(header, entries) == header \o <<"{">> \o FlattenSeq(entries) \o <<"}">>

\* permfs_writemode: nothing for an empty mode, else every flag in the order of the bits.
ModeText(field, verb, mode) ==
    IF mode = {} THEN << >>
    ELSE <<field, verb>>
         \o FlattenSeq([i \in 1 .. Len(Flags) |-> IF Flags[i] \in mode THEN Quoted(<<Flags[i]>>) ELSE << >>])

\* permfs_writemodeset.
ModesetText(field, modeset) ==
    ModeText(field, "accept", modeset["accept"])
    \o ModeText(field, "reject", modeset["reject"])
    \o ModeText(field, "prompt", modeset["prompt"])

FsEntryText(e) == Block(Quoted(e.path), <<ModesetText("self", e.self), ModesetText("children", e.children)>>)

\* gh_permexec_write: accept is an identifier, the other modes are strings.
ExecEntryText(e) ==
    Block(Quoted(<<e.hash>>), <<<<"mode">>, IF e.mode = "accept" THEN <<"accept">> ELSE Quoted(<<e.mode>>)>>)

\* The save callback of the generic permission system writes its own block.
GenericText == Block(<<"generic", "key">>, [i \in 1 .. Cardinality(generic) |->
                        Block(Quoted(<<SetToSeq(generic)[i]>>), << >>)])

\* gh_perms_write: one block per permission handler.
Text ==
    Block(<<"filesystem", "node">>, [i \in DOMAIN fs |-> FsEntryText(fs[i])])
    \o Block(<<"exec", "cmdline">>, [i \in DOMAIN exec |-> ExecEntryText(exec[i])])
    \o (IF registered THEN GenericText ELSE << >>)

-----------------------------------------------------------------------------
(* Tokens. *)

Token(type, value) == [type |-> type, value |-> value]
Bad == Token("bad", << >>)

\* gh_permparser_nexttoken, one cell at a time.  "in" is the string being read; after a
\* backslash nothing ends it.
LexStep(lex, cell) ==
    IF lex.in THEN
        IF cell = "Q" /\ ~lex.escape
        THEN [lex EXCEPT !.in = FALSE, !.string = << >>, !.tokens = Append(@, Token("string", lex.string))]
        ELSE [lex EXCEPT !.escape = @ \/ cell = "BACKSLASH", !.string = Append(@, cell)]
    ELSE IF cell = "Q" THEN [lex EXCEPT !.in = TRUE]
    ELSE [lex EXCEPT !.tokens = Append(@, IF cell \in {"{", "}"} THEN Token(cell, << >>)
                                          ELSE IF cell \in Words THEN Token("identifier", <<cell>>)
                                          ELSE Bad)]

\* A null byte ends the text for the parser, and a string that is open at the end is an error.
Tokens(cells) ==
    LET ends == {i \in DOMAIN cells : cells[i] = "NUL"}
        last == IF ends = {} THEN Len(cells) ELSE (CHOOSE i \in ends : \A j \in ends : i <= j) - 1
        lex[n \in 0 .. last] ==
            IF n = 0 THEN [in |-> FALSE, escape |-> FALSE, string |-> << >>, tokens |-> << >>]
                     ELSE LexStep(lex[n - 1], cells[n])
        end == lex[last]
    IN  IF end.in THEN Append(end.tokens, Bad) ELSE end.tokens

-----------------------------------------------------------------------------
(* Parsing: a state of the parser is the place in the grammar and the policy so far. *)

Fail(p) == [p EXCEPT !.at = "error"]

\* permparser_findresourceparser.
Known(p) ==
    \/ p.resource \in {<<"filesystem", "node">>, <<"exec", "cmdline">>}
    \/ p.resource = <<"generic", "key">> /\ registered

HasEntry(list, path) == \E i \in DOMAIN list : list[i].path = path
IndexOf(list, path) == CHOOSE i \in DOMAIN list : list[i].path = path

Merge(a, b) == [verb \in Verbs |-> a[verb] \cup b[verb]]

\* gh_permfs_add: an existing entry takes both modesets into its own.
AddTo(list, path, self, children) ==
    IF HasEntry(list, path)
    THEN [list EXCEPT ![IndexOf(list, path)].self = Merge(Merge(@, self), children)]
    ELSE Append(list, [path |-> path, self |-> self, children |-> children])

\* Mutant: a second entry for a path starts afresh.
NewEntryReplacing(p, key) ==
    IF p.resource = <<"filesystem", "node">> THEN
        [p EXCEPT !.at = "key", !.path = key,
                  !.fs = Append(SelectSeq(@, LAMBDA e : e.path # key),
                                [path |-> key, self |-> Empty, children |-> Empty])]
    ELSE IF p.resource = <<"generic", "key">> /\ ToSet(key) \subseteq Keys THEN
        [p EXCEPT !.at = "key", !.generic = @ \cup ToSet(key)]
    ELSE IF p.resource = <<"exec", "cmdline">> /\ Len(key) = 1 /\ key[1] \in Hashes THEN
        [p EXCEPT !.at = "key", !.exec = Append(@, [hash |-> key[1], mode |-> DefaultMode])]
    ELSE Fail(p)

\* The newentry callbacks: permfsparser_newentry, permexecparser_newentry and that of the
\* generic permission system.
NewEntry(p, key) ==
    IF p.resource = <<"filesystem", "node">> THEN
        [p EXCEPT !.at = "key", !.path = key, !.fs = AddTo(@, key, Empty, Empty)]
    ELSE IF p.resource = <<"generic", "key">> /\ ToSet(key) \subseteq Keys THEN
        [p EXCEPT !.at = "key", !.generic = @ \cup ToSet(key)]
    ELSE IF p.resource = <<"exec", "cmdline">> /\ Len(key) = 1 /\ key[1] \in Hashes THEN
        [p EXCEPT !.at = "key", !.exec = Append(@, [hash |-> key[1], mode |-> DefaultMode])]
    ELSE Fail(p)

\* The setfield callbacks: the name of the field, its verb, and the flags that follow.
Field(p, word) ==
    IF \/ p.resource = <<"filesystem", "node">> /\ word \in {"self", "children"}
       \/ p.resource = <<"exec", "cmdline">> /\ word = "mode"
    THEN [p EXCEPT !.at = "verb", !.field = word]
    ELSE Fail(p)

Verb(p, word) ==
    IF word \notin Verbs THEN Fail(p)
    ELSE IF p.field = "mode" THEN [p EXCEPT !.at = "fields", !.exec[Len(p.exec)].mode = word]
    ELSE [p EXCEPT !.at = "flags", !.verb = word]

Flag(p, flag) ==
    IF flag \notin FlagSet THEN Fail(p)
    ELSE [p EXCEPT !.fs[IndexOf(p.fs, p.path)][p.field][p.verb] = @ \cup {flag}]

\* permparser_parsenextresource: what the next token does in each place.
ParseStep(p, token) ==
    LET is(type) == token.type = type
        to(place) == [p EXCEPT !.at = place]
        fields == p.at \in {"fields", "flags"}
    IN  CASE p.at = "top" /\ is("identifier")    -> [p EXCEPT !.at = "group", !.resource = token.value]
          [] p.at = "group" /\ is("identifier")  -> [p EXCEPT !.at = "resource", !.resource = @ \o token.value]
          [] p.at = "resource" /\ is("{")        -> IF Known(p) THEN to("entries") ELSE Fail(p)
          [] p.at = "entries" /\ is("}")         -> to("top")
          [] p.at = "entries" /\ is("string")    -> NewEntry(p, token.value)
          [] p.at = "key" /\ is("{")             -> to("fields")
          [] p.at = "flags" /\ is("string")      -> Flag(p, Head(token.value \o <<"NUL">>))
          [] fields /\ is("}")                   -> to("entries")
          [] fields /\ is("identifier")          -> Field(p, token.value[1])
          [] p.at = "verb" /\ is("identifier")   -> Verb(p, token.value[1])
          [] OTHER                               -> Fail(p)

\* gh_permparser_parse: into the policy in memory, up to the first error.  The text may
\* only end between two resources.
Parse(cells) ==
    LET tokens == Tokens(cells)
        start == [at |-> "top", resource |-> << >>, path |-> << >>, field |-> "mode", verb |-> "accept",
                  fs |-> fs, exec |-> exec, generic |-> generic]
        parse[n \in 0 .. Len(tokens)] ==
            IF n = 0 THEN start
            ELSE LET before == parse[n - 1]
                 IN  IF before.at = "error" THEN before ELSE ParseStep(before, tokens[n])
    IN  parse[Len(tokens)]

-----------------------------------------------------------------------------
(* The policy in memory. *)

\* gh_perms_registergeneric.  An application calls it before it loads the policy, or forgets.
RegisterGeneric ==
    /\ ~registered /\ result = "none"
    /\ registered' = TRUE
    /\ UNCHANGED <<policyVars, fileVars, result, ops>>

\* gh_permfs_add, by the application or for an answer to be remembered.
AddRule(path, rule) ==
    /\ Operation
    /\ fs' = AddTo(fs, path, rule.self, rule.children)
    /\ UNCHANGED <<exec, generic, registered, fileVars, result>>

\* An answer about a program that is to be remembered.
AddProgram(hash, mode) ==
    /\ Operation
    /\ ExecMode(exec, hash) \in {"none", "prompt"}
    /\ Len(exec) < MaxPrograms
    /\ exec' = Append(exec, [hash |-> hash, mode |-> mode])
    /\ UNCHANGED <<fs, generic, registered, fileVars, result>>

AddKey(key) ==
    /\ Operation
    /\ registered
    /\ generic' = generic \cup {key}
    /\ UNCHANGED <<fs, exec, registered, fileVars, result>>

\* Mutant: an end of the text inside a block is not an error.
LoadLenient ==
    /\ LET p == Parse(disk)
       IN  /\ Len(p.exec) <= MaxPrograms
           /\ fs' = p.fs /\ exec' = p.exec /\ generic' = p.generic
           /\ result' = IF p.at = "error" THEN "ERROR" ELSE "OK"
    /\ UNCHANGED <<registered, fileVars, ops>>

\* gh_perms_readfd, gh_perms_readbuffer.
Load ==
    /\ LET p == Parse(disk)
       IN  /\ Len(p.exec) <= MaxPrograms
           /\ fs' = p.fs /\ exec' = p.exec /\ generic' = p.generic
           /\ result' = IF p.at = "top" THEN "OK" ELSE "ERROR"
    /\ UNCHANGED <<registered, fileVars, ops>>

-----------------------------------------------------------------------------
(* The file. *)

\* What is in the file when it is opened, and where writing begins: at the front, or, on
\* the descriptor that the policy was read from, where gh_permparser_ctorfd left it.
Base == IF habit = "trunc" THEN << >> ELSE disk
Offset == IF habit = "same" THEN Len(disk) ELSE 0

\* write(2): what lies beyond the cells written stays, a gap before them reads as null bytes.
Write(base, offset, cells) ==
    [i \in 1 .. IF Len(base) > offset + Len(cells) THEN Len(base) ELSE offset + Len(cells) |->
        IF i > offset /\ i <= offset + Len(cells) THEN cells[i - offset]
        ELSE IF i <= Len(base) THEN base[i]
        ELSE "NUL"]

KeepMemory == UNCHANGED <<policyVars, registered, result, habit>>

\* Where a save that reports success began.  One that is tried again on the descriptor after
\* a write failed finds the file empty and the offset where the failure left it.
Begun ==
    {[base |-> Base, offset |-> Offset]}
    \cup {[base |-> << >>, offset |-> Offset + n] : n \in IF "retry" \in Faults THEN 1 .. Len(Text) - 1 ELSE {}}

\* What it wrote.  When a write fails inside a path, permwriter_writeescaped returns the error
\* and its caller does not look at it.
Written ==
    {Text}
    \cup {RemoveAt(Text, n) : n \in {n \in DOMAIN Text :
              "drop" \in Faults /\ Text[n] \in PathCells}}

\* What a save that reports success does to the file.
Damage(begun, cells) ==
    {d \in {"remains", "gap", "dropped"} :
        \/ d = "remains" /\ Len(begun.base) > begun.offset + Len(cells)
        \/ d = "gap" /\ begun.offset > Len(begun.base)
        \/ d = "dropped" /\ cells # Text}

\* gh_perms_write.
Save ==
    /\ Operation
    /\ \E begun \in Begun, cells \in Written :
          /\ disk' = Write(begun.base, begun.offset, cells)
          /\ damaged' = damaged \cup Damage(begun, cells)
    /\ written' = {Policy} /\ whole' = TRUE
    /\ KeepMemory

\* Mutant: what was written before the error stays in the file.
SaveFailsHalfway ==
    /\ Operation
    /\ "write" \in Faults
    /\ \E n \in 0 .. Len(Text) - 1 : disk' = Write(Base, Offset, SubSeq(Text, 1, n))
    /\ written' = {NoPolicy} /\ whole' = TRUE
    /\ KeepMemory /\ UNCHANGED damaged

\* A write fails or is cut short: the file is emptied.
SaveFails ==
    /\ Operation
    /\ "write" \in Faults
    /\ disk' = << >>
    /\ written' = {NoPolicy} /\ whole' = TRUE
    /\ KeepMemory /\ UNCHANGED damaged

\* A new process, before it loads.
Start ==
    /\ fs' = << >> /\ exec' = << >> /\ generic' = {} /\ registered' = FALSE
    /\ result' = "none"

\* The application ends and starts again.
Restart ==
    /\ Start
    /\ UNCHANGED <<fileVars, ops>>

\* It ends while it saves, after n cells and perhaps part of the next.
RestartInSave ==
    /\ Operation
    /\ habit \in CrashIn
    /\ \E n \in 0 .. Len(Text) - 1, rest \in {<< >>, <<"torn">>} :
          LET cells == SubSeq(Text, 1, n) \o rest
          IN  /\ disk' = Write(Base, Offset, cells)
              /\ damaged' = damaged \cup IF Len(Base) > Offset + Len(cells) THEN {"torn"} ELSE {}
    /\ written' = {Policy} \cup (IF habit = "trunc" THEN {NoPolicy} ELSE written)
    /\ whole' = FALSE
    /\ Start
    /\ UNCHANGED habit

\* The policy could not be read: the application throws the file away.
Discard ==
    /\ result = "ERROR"
    /\ disk' = << >>
    /\ written' = {NoPolicy} /\ whole' = TRUE /\ damaged' = {}
    /\ Start
    /\ UNCHANGED <<habit, ops>>

-----------------------------------------------------------------------------
Init ==
    /\ fs = << >> /\ exec = << >> /\ generic = {} /\ registered = FALSE
    /\ habit \in OpenModes /\ disk = << >> /\ result = "none"
    /\ written = {NoPolicy} /\ whole = TRUE /\ damaged = {}
    /\ ops = 0

Next ==
    \/ RegisterGeneric
    \/ \E path \in Paths, rule \in Rules : AddRule(path, rule)
    \/ \E hash \in Hashes, mode \in {"accept", "reject"} : AddProgram(hash, mode)
    \/ \E key \in Keys : AddKey(key)
    \/ Load
    \/ Save \/ SaveFails \/ RestartInSave \/ Restart \/ Discard

Spec == Init /\ [][Next]_vars

-----------------------------------------------------------------------------
\* Types; the filesystem policy has one entry for a path.
TypeOK ==
    /\ fs \in Seq(FsEntries) /\ \A i, j \in DOMAIN fs : fs[i].path = fs[j].path => i = j
    /\ exec \in Seq(ExecEntries)
    /\ generic \subseteq Keys /\ IsFiniteSet(generic) /\ registered \in BOOLEAN
    /\ disk \in Seq(Cells)
    /\ result \in {"none", "OK", "ERROR"}
    /\ habit \in OpenModes /\ whole \in BOOLEAN
    /\ damaged \subseteq Damages
    /\ ops \in 0 .. MaxOps

\* The single permissions that a filesystem policy consists of.
Grants(policy) ==
    UNION {{<<e.path, scope, verb, flag>> : flag \in e[scope][verb]} :
           e \in policy.fs, scope \in {"self", "children"}, verb \in Verbs}

\* The two texts that gh_perms_write makes and gh_permparser_parse does not take: a program
\* whose mode is a string, and a block of a permission system that is not registered.
Unreadable ==
    \/ \E p \in written, h \in Hashes : p.exec[h] \in {"reject", "prompt"}
    \/ ~registered /\ "generic" \in ToSet(disk)

\* A policy that was saved with success loads into a new process as the same policy, or is
\* refused for one of the reasons above: over an older file, also when its end remains, behind
\* an older copy of itself, and after attempts that failed.  Only a file that a crash has torn,
\* that a save has begun behind a gap, or that lacks a cell of a path does not.
RoundTrip ==
    [][Load /\ Policy = NoPolicy /\ whole /\ damaged \subseteq {"remains"} =>
       IF Unreadable THEN result' = "ERROR" ELSE result' = "OK" /\ Policy' \in written]_vars

\* What a load adds was in one of the policies written, except that a program without a mode
\* has the default mode.
NothingInvented ==
    /\ Grants(Policy') \subseteq Grants(Policy) \cup UNION {Grants(p) : p \in written}
    /\ \A h \in Hashes : Policy.exec[h] = "none" =>
          Policy'.exec[h] \in {"none", DefaultMode} \cup {p.exec[h] : p \in written}

\* A load, also one that fails in the middle and of a file that ends where a crash stopped the
\* save, brings in nothing that was not written.  One that reports success in a new process
\* has every block as it was in a policy that was written, or not at all: never half of the
\* rules.  However the file is opened, the four damages are the only way to another file.
LoadsWhatWasWritten ==
    [][Load /\ damaged = {} =>
       /\ NothingInvented
       /\ Policy = NoPolicy /\ result' = "OK" =>
             \A block \in DOMAIN NoPolicy :
                Policy'[block] \in {p[block] : p \in written \cup {NoPolicy}}]_vars

\* Every grant, the mode of every program and every key are still there after the step.
NothingLost ==
    /\ Grants(Policy) \subseteq Grants(Policy')
    /\ \A h \in Hashes : Policy.exec[h] # "none" => Policy'.exec[h] = Policy.exec[h]
    /\ generic \subseteq generic'

\* As long as the process lives, nothing is taken out of the policy in memory: not by a file
\* that is loaded over it and speaks of the same paths and programs, not by a load that fails
\* in the middle, and not by an answer that is added to an existing entry.
PolicyKept == [][NothingLost \/ result' = "none"]_vars
=============================================================================
