---------------------------- MODULE PolicyReader ----------------------------
(***************************************************************************)
(* The vocabulary of the proofs about PolicyFile.                          *)
(*                                                                         *)
(* PolicyFile lexes the whole text and then parses its tokens into the     *)
(* policy in memory.  Reader is the same as one machine that takes a cell  *)
(* at a time: Control says where it is, Effect what it has read, and       *)
(* neither looks at the policy in memory.  Out is what it makes of a text. *)
(* With it the file can be spoken of on its own: FileTraced, FileSays,     *)
(* GenericRefused and FileHeld say what its text means, and FileInv is the *)
(* inductive invariant of PolicyFile that they form.                       *)
(***************************************************************************)
EXTENDS PolicyFile

-----------------------------------------------------------------------------
(* Loops. *)

\* The order of the natural numbers as a relation.
Below == {pair \in Nat \X Nat : pair[1] < pair[2]}

\* The values of the rounds from a to b of a loop that starts with first.
Computes(f, first, Round, a, b, Good) ==
    /\ f \in [a .. b -> Good]
    /\ \A n \in a .. b : f[n] = IF n = a THEN first ELSE Round[<<f[n - 1], n>>]

-----------------------------------------------------------------------------
(* The values of the lexer and the parser. *)

\* Texts are sequences of cells.
Texts == Seq(Cells)

\* The cells that the writer prints itself.
Printed == {"filesystem", "node", "exec", "cmdline", "generic", "key", "self", "children", "mode", "torn"}
           \cup Verbs \cup {"Q", "{", "}", "NUL"}

\* Tokens, and the states of the lexer.
TokenSet == [type : {"string", "identifier", "{", "}", "bad"}, value : Texts]
LexStates == [in : BOOLEAN, escape : BOOLEAN, string : Texts, tokens : Seq(TokenSet)]

\* What the lexer begins with.
LexStart == [in |-> FALSE, escape |-> FALSE, string |-> << >>, tokens |-> << >>]

\* No two entries have the same path.
OnePerPath(list) == \A i, j \in DOMAIN list : list[i].path = list[j].path => i = j

\* e has the path of d, and all of its flags.
Covers(e, d) ==
    /\ e.path = d.path
    /\ \A verb \in Verbs : d.self[verb] \subseteq e.self[verb] /\ d.children[verb] \subseteq e.children[verb]

\* Every entry of old is still there, with all of its flags.
FsKept(old, new) == \A i \in DOMAIN old : i \in DOMAIN new /\ Covers(new[i], old[i])

\* Where the parser can be, and its states.
Places == {"top", "group", "resource", "entries", "key", "fields", "flags", "verb", "error"}

ParseStates ==
    [at : Places, resource : Texts, path : Texts, field : {"self", "children", "mode"}, verb : Verbs,
     fs : Seq(FsEntries), exec : Seq(ExecEntries), generic : SUBSET Keys]

\* The programs of old come first in new, as they were.
ExecKept(old, new) == Len(old) <= Len(new) /\ \A i \in 1 .. Len(old) : new[i] = old[i]

\* Inside an entry of a program.
InProgram(p) == p.at \in {"key", "fields", "verb", "flags"} /\ p.resource = <<"exec", "cmdline">>

\* What holds between two tokens: the policy that was in memory is still there; an entry of a
\* program that is being read is one that this text has added; and the fields that are being
\* read belong to the resource.
Parsed(p) ==
    /\ OnePerPath(p.fs) /\ FsKept(fs, p.fs)
    /\ ExecKept(exec, p.exec) /\ (InProgram(p) => Len(exec) < Len(p.exec))
    /\ generic \subseteq p.generic /\ IsFiniteSet(p.generic)
    /\ p.at = "verb" /\ p.field = "mode" => p.resource = <<"exec", "cmdline">>
    /\ p.at = "flags" => p.field \in {"self", "children"}

\* The states of the parser between two tokens.
GoodStates == {p \in ParseStates : Parsed(p)}

\* What every step does to the policy in memory.
Kept == FsKept(fs, fs') /\ ExecKept(exec, exec') /\ generic \subseteq generic'

-----------------------------------------------------------------------------
(* Machines. *)

\* A step takes a state and a cell to a state; Fold is the state behind a sequence.
Machine(S, C, step) == step \in [S \X C -> S]

Fold(step, s, seq) ==
    LET run[n \in 0 .. Len(seq)] == IF n = 0 THEN s ELSE step[<<run[n - 1], seq[n]>>]
    IN  run[Len(seq)]

\* The states of a run.
Path(f, step, s, seq) ==
    f[0] = s /\ \A n \in 1 .. Len(seq) : f[n] = step[<<f[n - 1], seq[n]>>]

\* f is the run over seq.
Run(S, f, step, s, seq) ==
    f \in [0 .. Len(seq) -> S] /\ Path(f, step, s, seq) /\ Fold(step, s, seq) = f[Len(seq)]

-----------------------------------------------------------------------------
(* Reading: the place in the text, and what is read there. *)

\* The three resources, and those that have a parser.
FsResource == <<"filesystem", "node">>
ExecResource == <<"exec", "cmdline">>
GenericResource == <<"generic", "key">>
Parsers(r) == {FsResource, ExecResource} \cup (IF r THEN {GenericResource} ELSE {})

\* A place: what is not looked at there has a fixed value.
Ctl(at, resource, path, field, verb) ==
    [at |-> at, resource |-> resource, path |-> path, field |-> field, verb |-> verb]
Places5 == [at : Places, resource : Texts, path : Texts, field : {"self", "children", "mode"}, verb : Verbs]

Top == Ctl("top", << >>, << >>, "mode", "accept")
Err == Ctl("error", << >>, << >>, "mode", "accept")
Heading(at, resource) == Ctl(at, resource, << >>, "mode", "accept")
Inside(at, resource, path) == Ctl(at, resource, path, "mode", "accept")
AtVerb(resource, path, field) == Ctl("verb", resource, path, field, "accept")

\* The parser of a resource takes the key; it takes the field.
KeyFits(resource, key) ==
    \/ resource = FsResource
    \/ resource = GenericResource /\ ToSet(key) \subseteq Keys
    \/ resource = ExecResource /\ Len(key) = 1 /\ key[1] \in Hashes

FieldFits(resource, word) ==
    \/ resource = FsResource /\ word \in {"self", "children"}
    \/ resource = ExecResource /\ word = "mode"

\* The flag of an empty string is the null byte.
FlagOf(token) == Head(token.value \o <<"NUL">>)

\* Where the parser comes to with a token.
Control(r, c, token) ==
    LET is(type) == token.type = type
        word == token.value[1]
    IN  CASE c.at = "top" /\ is("identifier")    -> Heading("group", token.value)
          [] c.at = "group" /\ is("identifier")  -> Heading("resource", c.resource \o token.value)
          [] c.at = "resource" /\ is("{") /\ c.resource \in Parsers(r) -> Heading("entries", c.resource)
          [] c.at = "entries" /\ is("}")         -> Top
          [] c.at = "entries" /\ is("string") /\ KeyFits(c.resource, token.value) ->
                Inside("key", c.resource, IF c.resource = FsResource THEN token.value ELSE << >>)
          [] c.at = "key" /\ is("{")             -> Inside("fields", c.resource, c.path)
          [] c.at = "flags" /\ is("string") /\ FlagOf(token) \in FlagSet -> c
          [] c.at \in {"fields", "flags"} /\ is("}") -> Heading("entries", c.resource)
          [] c.at \in {"fields", "flags"} /\ is("identifier") /\ FieldFits(c.resource, word) ->
                AtVerb(c.resource, c.path, word)
          [] c.at = "verb" /\ is("identifier") /\ word \in Verbs ->
                IF c.field = "mode" THEN Inside("fields", c.resource, c.path)
                ELSE Ctl("flags", c.resource, c.path, c.field, word)
          [] OTHER                               -> Err

\* What is read.
Scopes == {"self", "children"}
Pol(paths, grants, programs, keys) ==
    [paths |-> paths, grants |-> grants, exec |-> programs, generic |-> keys]
Pols == [paths : SUBSET Texts, grants : SUBSET (Texts \X Scopes \X Verbs \X FlagSet),
         exec : Seq(ExecEntries), generic : SUBSET Keys]

\* The last program gets a mode.
SetLast(list, mode) == [list EXCEPT ![Len(list)].mode = mode]

\* What is read with a token.
Effect(c, token, pol) ==
    LET is(type) == token.type = type
    IN  CASE c.at = "entries" /\ is("string") /\ c.resource = FsResource ->
                Pol(pol.paths \cup {token.value}, pol.grants, pol.exec, pol.generic)
          [] c.at = "entries" /\ is("string") /\ c.resource = GenericResource /\ ToSet(token.value) \subseteq Keys ->
                Pol(pol.paths, pol.grants, pol.exec, pol.generic \cup ToSet(token.value))
          [] c.at = "entries" /\ is("string") /\ c.resource = ExecResource
             /\ Len(token.value) = 1 /\ token.value[1] \in Hashes ->
                Pol(pol.paths, pol.grants,
                    Append(pol.exec, [hash |-> token.value[1], mode |-> DefaultMode]), pol.generic)
          [] c.at = "verb" /\ is("identifier") /\ c.field = "mode" /\ token.value[1] \in Verbs ->
                Pol(pol.paths, pol.grants, SetLast(pol.exec, token.value[1]), pol.generic)
          [] c.at = "flags" /\ is("string") /\ FlagOf(token) \in FlagSet /\ c.field \in Scopes ->
                Pol(pol.paths, pol.grants \cup {<<c.path, c.field, c.verb, FlagOf(token)>>}, pol.exec, pol.generic)
          [] OTHER -> pol

\* The paths and the permissions of a list of entries.
PathsOf(list) == {list[i].path : i \in DOMAIN list}
GrantsOf(list) ==
    {g \in Texts \X Scopes \X Verbs \X FlagSet :
        \E i \in DOMAIN list : list[i].path = g[1] /\ g[4] \in list[i][g[2]][g[3]]}

\* What a state of the parser has read.
PolOf(p) == Pol(PathsOf(p.fs), GrantsOf(p.fs), p.exec, p.generic)

\* The place of a state of the parser.
KeyOf(p) == IF p.resource = FsResource THEN p.path ELSE << >>
ControlOf(p) ==
    CASE p.at = "top" -> Top
      [] p.at = "error" -> Err
      [] p.at \in {"group", "resource", "entries"} -> Heading(p.at, p.resource)
      [] p.at \in {"key", "fields"} -> Inside(p.at, p.resource, KeyOf(p))
      [] p.at = "verb" -> AtVerb(p.resource, KeyOf(p), p.field)
      [] p.at = "flags" -> Ctl("flags", p.resource, KeyOf(p), p.field, p.verb)

\* The entry whose fields are read is in the list.
EntryThere(p) ==
    /\ p.at \in {"key", "fields", "verb", "flags"} /\ p.resource = FsResource => p.path \in PathsOf(p.fs)
    /\ p.at = "flags" \/ (p.at = "verb" /\ p.field # "mode") => p.resource = FsResource

\* One more flag in the entry of a path.
WithFlag(list, path, field, verb, flag) == [list EXCEPT ![IndexOf(list, path)][field][verb] = @ \cup {flag}]

\* The state after a token corresponds to the place and to what was read.
Corresponds(p, q, token) ==
    /\ EntryThere(q)
    /\ ControlOf(q) = Control(registered, ControlOf(p), token)
    /\ PolOf(q) = Effect(ControlOf(p), token, PolOf(p))

\* The parser's loop, one token at a time.
Advance(p, token) == IF p.at = "error" THEN p ELSE ParseStep(p, token)

-----------------------------------------------------------------------------
(* The lexer and the parser as machines, and the reader that is both of them. *)

\* Texts without null bytes and backslashes.
Plain == Cells \ {"NUL", "BACKSLASH"}

\* The lexer as a machine.
Lexer == [y \in LexStates \X Plain |-> LexStep(y[1], y[2])]

\* The parser between two tokens.
ParserStates == {p \in GoodStates : EntryThere(p)}
ParseStart ==
    [at |-> "top", resource |-> << >>, path |-> << >>, field |-> "mode", verb |-> "accept",
     fs |-> fs, exec |-> exec, generic |-> generic]
Parser == [y \in ParserStates \X TokenSet |-> Advance(y[1], y[2])]

\* The token of a cell outside a string.
TokenFor(cell) ==
    IF cell \in {"{", "}"} THEN Token(cell, << >>)
    ELSE IF cell \in Words THEN Token("identifier", <<cell>>) ELSE Bad

\* The lexer and the parser as one machine that reads cells.
ReadStates == [in : BOOLEAN, string : Texts, c : Places5, pol : Pols]
St(in, string, c, pol) == [in |-> in, string |-> string, c |-> c, pol |-> pol]

\* It takes a token; it takes a cell.
Take(r, x, token) == St(FALSE, << >>, Control(r, x.c, token), Effect(x.c, token, x.pol))
ReadCell(r, x, cell) ==
    IF x.in THEN IF cell = "Q" THEN Take(r, x, Token("string", x.string))
                 ELSE St(TRUE, Append(x.string, cell), x.c, x.pol)
    ELSE IF cell = "Q" THEN St(TRUE, x.string, x.c, x.pol)
    ELSE Take(r, x, TokenFor(cell))
Reader(r) == [y \in ReadStates \X Plain |-> ReadCell(r, y[1], y[2])]

\* A lexer with the tokens found so far, and the reader that has used them.
InStep(lex, x) ==
    LET p == Fold(Parser, ParseStart, lex.tokens)
    IN  /\ ~lex.escape /\ lex.in = x.in /\ lex.string = x.string /\ (~x.in => x.string = << >>)
        /\ ControlOf(p) = x.c /\ PolOf(p) = x.pol

\* Between two resources.
Begin(pol) == St(FALSE, << >>, Top, pol)

\* Permissions; more of them, of paths and of keys; another list of programs.
Perms == Texts \X Scopes \X Verbs \X FlagSet
Adds(pol, paths, grants, keys) ==
    Pol(pol.paths \cup paths, pol.grants \cup grants, pol.exec, pol.generic \cup keys)
WithExec(pol, list) == Pol(pol.paths, pol.grants, list, pol.generic)

\* In an entry of a program; the mode that is being read is that of a program.
InExec(c) == c.resource = ExecResource /\ c.at \in {"key", "fields", "verb", "flags"}
GoodPlace(c) == c.at = "verb" /\ c.field = "mode" => c.resource = ExecResource

\* What was in memory together with what is read; nothing.
Plus(base, pol) ==
    Pol(base.paths \cup pol.paths, base.grants \cup pol.grants, base.exec \o pol.exec, base.generic \cup pol.generic)
NoPol == Pol({}, {}, << >>, {})

\* What is read from a text, whatever was there before.
Out(r, cells) == Fold(Reader(r), Begin(NoPol), cells)

\* Less was read.
LessRead(p, q) ==
    p.paths \subseteq q.paths /\ p.grants \subseteq q.grants /\ p.generic \subseteq q.generic /\ ExecKept(p.exec, q.exec)

-----------------------------------------------------------------------------
(* The text of a policy, read from its beginning and up to a cut. *)

\* A cut of a text into a and b lies behind one into d and e, by m.
CutBehind(C, a, b, d, e) == \E m \in Seq(C) : a = d \o m /\ e = m \o b

\* The pieces of a text, one behind the other.
Pieces(f, seqs) == f[0] = << >> /\ \A i \in 1 .. Len(seqs) : f[i] = f[i - 1] \o seqs[i]

\* From every state of X the piece leads to a state of Y, through places and policies of K.
Tr(r, K, X, cells, Y) ==
    /\ cells \in Seq(Plain) /\ X \subseteq ReadStates
    /\ \A x \in X : Fold(Reader(r), x, cells) \in Y
    /\ \A x \in X, a, b \in Seq(Plain) :
          cells = a \o b => LET y == Fold(Reader(r), x, a) IN <<y.c, y.pol>> \in K

\* The reader between two tokens; the reader behind an error.
At(c, pol) == {St(FALSE, << >>, c, pol)}
Errors(K) == {x \in ReadStates : x.c = Err /\ <<x.c, x.pol>> \in K}

\* A token leads from one place to another and from one policy to another.
Mv(r, c, token, d, pol, q) == d = Control(r, c, token) /\ q = Effect(c, token, pol)

\* The tokens of a text of the writer.
Word(w) == Token("identifier", <<w>>)
String(w) == Token("string", w)
Open == Token("{", << >>)
Close == Token("}", << >>)

\* In an entry: its fields, or the flags of one of them.
FsPlaces(path) ==
    {Inside("fields", FsResource, path)} \cup {Ctl("flags", FsResource, path, f, v) : f \in Scopes, v \in Verbs}

\* What was read is part of what was written, except that a program without a mode has the
\* default mode.
ExecUpTo(list, all) ==
    /\ Len(list) <= Len(all)
    /\ \A i \in 1 .. Len(list) : list[i].hash = all[i].hash /\ list[i].mode \in {all[i].mode, DefaultMode}
PartOf(q, m) ==
    q.paths \subseteq m.paths /\ q.grants \subseteq m.grants /\ q.generic \subseteq m.generic /\ ExecUpTo(q.exec, m.exec)

\* Between two resources it is one of tops.
Seen(m, tops) == {y \in Places5 \X Pols : PartOf(y[2], m) /\ (y[1] = Top => y[2] \in tops)}

\* Between two tokens, at one of the places.
AtOneOf(S, pol) == {St(FALSE, << >>, c, pol) : c \in S}

\* More permissions.
WithGrants(pol, grants) == Pol(pol.paths, pol.grants \cup grants, pol.exec, pol.generic)

\* The permissions of a field.
FieldGrants(path, field, modeset) == {g \in Perms : g[1] = path /\ g[2] = field /\ g[4] \in modeset[g[3]]}

\* The permissions of an entry, and what is read with it.
EntryGrants(e) == {g \in Perms : g[1] = e.path /\ g[4] \in e[g[2]][g[3]]}
WithEntry(pol, e) == Pol(pol.paths \cup {e.path}, pol.grants \cup EntryGrants(e), pol.exec, pol.generic)

\* What is read with the first n entries of a list.
FirstGrants(list, n) == {g \in Perms : \E j \in 1 .. n : list[j].path = g[1] /\ g[4] \in list[j][g[2]][g[3]]}
FirstEntries(list, n) == Pol({list[j].path : j \in 1 .. n}, FirstGrants(list, n), << >>, {})

\* Every program is accepted: no mode is written as a string.
Accepted(list) == \A i \in DOMAIN list : list[i].mode = "accept"

\* More keys.
WithKeys(pol, keys) == Pol(pol.paths, pol.grants, pol.exec, pol.generic \cup keys)

\* The cells of the first two blocks, but for the paths.
Letters == {"filesystem", "node", "exec", "cmdline", "self", "children", "mode", "Q", "{", "}"}
           \cup Verbs \cup FlagSet \cup Hashes

\* The blocks of the writer, and the text of a policy.
FsText(list) == Block(FsResource, [i \in DOMAIN list |-> FsEntryText(list[i])])
ExecText(list) == Block(ExecResource, [i \in DOMAIN list |-> ExecEntryText(list[i])])
KeyText(keys) == Block(GenericResource, [i \in 1 .. Cardinality(keys) |->
                          Block(Quoted(<<SetToSeq(keys)[i]>>), << >>)])
PolicyText(list, programs, reg, keys) ==
    (FsText(list) \o ExecText(programs)) \o (IF reg THEN KeyText(keys) ELSE << >>)

\* Names that the file can hold as they are: none has a quote, a backslash or a null byte,
\* and none is the word that begins the block of the generic permission system.
PlainNames == (PathCells \cup FlagSet \cup Hashes \cup Keys) \cap {"Q", "BACKSLASH", "NUL", "generic"} = {}

\* A policy whose paths are of such cells.
Writable(list, programs, reg, keys) ==
    /\ list \in Seq(FsEntries) /\ PathsOf(list) \subseteq Paths
    /\ programs \in Seq(ExecEntries)
    /\ keys \subseteq Keys /\ IsFiniteSet(keys) /\ (~reg => keys = {})

\* What a reader has read at the end of the text, and between two of its resources.
All(r, list, programs, keys) == Pol(PathsOf(list), GrantsOf(list), programs, IF r THEN keys ELSE {})
Stages(r, list, programs, keys) ==
    {NoPol, Pol(PathsOf(list), GrantsOf(list), << >>, {})}
    \cup (IF Accepted(programs)
          THEN {Pol(PathsOf(list), GrantsOf(list), programs, {}), All(r, list, programs, keys)}
          ELSE {})

\* What is read of every beginning of a text is of m, and between two resources one of tops.
CutsRead(r, text, m, tops) ==
    \A a, b \in Seq(Plain) : text = a \o b =>
       LET y == Out(r, a)
       IN  y \in ReadStates /\ y.pol \in Pols /\ PartOf(y.pol, m) /\ (y.c = Top => y.pol \in tops)

\* Three texts one behind the other.
Cat(a, b) == a \o b
Joins(S) == /\ \A x, y \in S : Cat(x, y) \in S
            /\ \A x, y, z \in S : Cat(Cat(x, y), z) = Cat(x, Cat(y, z))

-----------------------------------------------------------------------------
(* What the file says and what is in memory. *)

\* The reader is between two resources.
Rest(y) == ~y.in /\ y.c = Top

\* The entry that decides.
Decides(list, hash, i) ==
    i \in DOMAIN list /\ list[i].hash = hash /\ \A j \in DOMAIN list : list[j].hash = hash => i <= j
Named(list, hash) == \E i \in DOMAIN list : list[i].hash = hash

\* The modes that a list gives, and those that are written as a string.
Modes(list) == [h \in Hashes |-> ExecMode(list, h)]
Blocked(modes) == \E h \in Hashes : modes[h] \in {"reject", "prompt"}

\* No entry of an accepted program says anything else.
Steady(list) == \A i \in DOMAIN list : ExecMode(list, list[i].hash) = "accept" => list[i].mode = "accept"

\* The filesystem part of a written policy, and that it is what was read.
FsSet(set) == set \subseteq FsEntries /\ \A d, e \in set : d.path = e.path => d = e
PathsIn(set) == {e.path : e \in set}
GrantsIn(set) == {g \in Perms : \E e \in set : e.path = g[1] /\ g[4] \in e[g[2]][g[3]]}
SameFs(set, q) == PathsIn(set) = q.paths /\ GrantsIn(set) = q.grants

\* What can have been written.
Policies == {w \in [fs : SUBSET FsEntries, exec : [Hashes -> Verbs \cup {"none"}], generic : SUBSET Keys] : FsSet(w.fs)}

\* Everything that was read is of one of the policies W, but for the default mode.
Traced(r, q, W) ==
    /\ q.paths \subseteq Paths
    /\ \A g \in q.grants : \E w \in W : g \in GrantsIn(w.fs)
    /\ \A h \in Hashes : \/ ExecMode(q.exec, h) \in {"none", DefaultMode}
                         \/ \E w \in W : ExecMode(q.exec, h) = w.exec[h]
    /\ ~r => q.generic = {}

\* Each of the three blocks is the one of a policy of W.
ByBlocks(q, W) ==
    /\ \E w \in W : SameFs(w.fs, q)
    /\ \E w \in W : w.exec = Modes(q.exec)
    /\ \E w \in W : w.generic = q.generic
    /\ Accepted(q.exec)

\* It is the policy w.
Same(w, q) == SameFs(w.fs, q) /\ w.exec = Modes(q.exec) /\ w.generic = q.generic

\* The policy in memory holds all of it, and gives its programs the same mode.
Held(q, list, programs, keys) ==
    /\ q.paths \subseteq PathsOf(list) /\ q.grants \subseteq GrantsOf(list) /\ q.generic \subseteq keys
    /\ \A h \in Hashes : ExecMode(q.exec, h) \in {"none", DefaultMode, ExecMode(programs, h)}
Confirmed(q, programs) == \A i \in DOMAIN q.exec : ExecMode(programs, q.exec[i].hash) = "accept"

\* Whatever a reader takes from it, and whether it comes to the end or not, was in one of the
\* policies W; at the end each block is the one of such a policy, or empty.
FileTraced(cells, W) ==
    \A r \in BOOLEAN : /\ Traced(r, Out(r, cells).pol, W)
                       /\ Rest(Out(r, cells)) => ByBlocks(Out(r, cells).pol, W \cup {NoPolicy})

\* It is refused if w has a mode that is written as a string, else it is w for every reader
\* that knows the blocks it has.
FileSays(cells, w) ==
    \A r \in BOOLEAN : /\ Blocked(w.exec) => ~Rest(Out(r, cells))
                       /\ ~Blocked(w.exec) /\ (r \/ "generic" \notin ToSet(cells)) =>
                             Rest(Out(r, cells)) /\ Same(w, Out(r, cells).pol)

\* A block of the generic permission system is refused where it is not registered.
GenericRefused(cells) == "generic" \in ToSet(cells) => \A r \in BOOLEAN : ~r => ~Rest(Out(r, cells))

\* It ends between two resources or in an error, and the policy in memory holds what it says.
FileHeld(cells, list, programs, keys) ==
    \A r \in BOOLEAN : /\ Rest(Out(r, cells)) \/ Out(r, cells).c = Err
                       /\ Held(Out(r, cells).pol, list, programs, keys)
                       /\ Rest(Out(r, cells)) => Confirmed(Out(r, cells).pol, programs)

\* A beginning of a text.
IsCut(a, text) == a \in Seq(Plain) /\ \E b \in Seq(Plain) : text = a \o b

\* Where a reader comes to.
Ends(r, y, list, programs, keys) ==
    /\ Rest(y) \/ y.c = Err
    /\ Held(y.pol, list, programs, keys) /\ (~r => y.pol.generic = {})
    /\ Rest(y) => Accepted(y.pol.exec) /\ Confirmed(y.pol, programs)

\* Where it comes to from x: to the end if it knows every block that was written.
Saved(r, x, y, list, programs, reg, keys) ==
    /\ Ends(r, y, list, programs, keys)
    /\ Rest(y) <=> (Rest(x) /\ Accepted(programs) /\ (r \/ ~reg))
    /\ Rest(y) => Same(Meaning(list, programs, keys), y.pol)

\* After a load: what the file says is in memory.  It can be read again, unless the policy
\* has come to have a mode that is written as a string; the entries of an accepted program agree.
InMemory ==
    /\ FileHeld(disk, fs, exec, generic) /\ Steady(exec)
    /\ Rest(Out(registered, disk)) \/ Blocked(Modes(exec))

\* The file and the policy in memory agree.
FileInv ==
    /\ disk \in Seq(Plain) /\ PathsOf(fs) \subseteq Paths /\ (~registered => generic = {})
    /\ written \subseteq Policies /\ FileTraced(disk, written) /\ GenericRefused(disk)
    /\ whole => \E w : written = {w} /\ FileSays(disk, w)
    /\ result = "OK" => InMemory
    /\ result = "ERROR" => ~Rest(Out(registered, disk))
    /\ result = "none" => fs = << >> /\ exec = << >> /\ generic = {}

\* No save has left the rest of a longer text.
Covered == "remains" \notin damaged

\* What is in front of the text after a save that harms nothing.
InFront == IF habit = "same" THEN disk ELSE << >>

\* The inductive invariant: they do as long as no save has harmed the file.
Intact == damaged = {} => FileInv

=============================================================================
