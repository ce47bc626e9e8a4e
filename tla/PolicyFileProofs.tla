-------------------------- MODULE PolicyFileProofs --------------------------
(***************************************************************************)
(* Proofs about PolicyFile.                                                *)
(*                                                                         *)
(*  - Whatever is in the policy file, a load takes nothing out of the      *)
(*    policy in memory, which stays well typed with one entry for a path   *)
(*    (NothingTakenOut and the theorems before it).                        *)
(*  - Where names are plain, and until a save has harmed the file, a load  *)
(*    of what was saved, or of as much of it as a crash let be written,    *)
(*    gives nothing that was not written (NothingLoadedUnwritten); if the  *)
(*    file is truncated or unchanged when it is opened for writing, what   *)
(*    was saved is what the next load gives (WrittenPolicyLoads).          *)
(*                                                                         *)
(* The writer, the lexer and the parser are loops over sequences.  A loop  *)
(* that stays in a set of good values is defined for every number of       *)
(* rounds (Rounds), and every value it computes is good (StaysGood).       *)
(* Reading a file is the fold of the machine Reader over its cells         *)
(* (ParseReads); what it reads does not depend on what was in memory       *)
(* (OutAdded).  Pieces of a text lead the reader from one set of states to *)
(* another (Tr), and these are composed up to the text of a policy         *)
(* (TextReads) and to a text cut anywhere (CutReads).  FileInv, which says *)
(* what the file means and that it is in memory, is then kept by every     *)
(* step that does not harm the file (FileStep).                            *)
(***************************************************************************)
EXTENDS PolicyReader, SequenceTheorems, FiniteSetTheorems, NaturalsInduction, WellFoundedInduction, TLAPS

----------------------------------------
(* Loops. *)

\* Every set of natural numbers has a least element.
LEMMA LeastNumber ==
    ASSUME NEW T, T \subseteq Nat, T # {}
    PROVE  \E x \in T : \A y \in T : x <= y
<1>1. IsWellFoundedOn(Below, Nat)
  <2>1. Below = OpToRel(<, Nat)
    BY DEF OpToRel, Below
  <2> QED BY <2>1, NatLessThanWellFounded
<1>2. PICK x \in T : \A y \in T : <<y, x>> \notin Below
  BY <1>1, WFMin
<1>3. ASSUME NEW y \in T PROVE x <= y
  <2>1. x \in Nat /\ y \in Nat /\ <<y, x>> \notin Below
    BY <1>2
  <2> QED BY <2>1 DEF Below
<1> QED BY <1>3

\* If the first value of a loop is good and each round keeps it good, all values are.
LEMMA StaysGood ==
    ASSUME NEW Good, NEW a \in Nat, NEW b \in Nat, NEW f, f[a] \in Good,
           \A n \in a + 1 .. b : f[n - 1] \in Good => f[n] \in Good
    PROVE  \A n \in a .. b : f[n] \in Good
<1> DEFINE Not == {n \in a .. b : f[n] \notin Good}
<1>1. SUFFICES ASSUME Not # {} PROVE FALSE
  OBVIOUS
<1>2. Not \subseteq Nat
  OBVIOUS
<1>3. PICK n \in Not : \A m \in Not : n <= m
  BY <1>1, <1>2, LeastNumber
<1>4. n \in a .. b /\ f[n] \notin Good /\ n # a
  BY <1>3
<1>5. n \in a + 1 .. b /\ n - 1 \in a .. b /\ ~(n <= n - 1)
  BY <1>4
<1>6. n - 1 \notin Not
  BY <1>3, <1>5
<1>7. f[n - 1] \in Good
  BY <1>5, <1>6
<1> QED BY <1>4, <1>5, <1>7

\* They are defined for every number of rounds: a first number without them would follow one
\* with them.
LEMMA Rounds ==
    ASSUME NEW Good, NEW a \in Nat, NEW b \in Nat, a <= b, NEW first \in Good,
           NEW Round, \A x \in Good, n \in a + 1 .. b : Round[<<x, n>>] \in Good
    PROVE  \E f : Computes(f, first, Round, a, b, Good)
<1> DEFINE Without == {m \in a .. b : ~\E f : Computes(f, first, Round, a, m, Good)}
<1>1. SUFFICES ASSUME Without # {} PROVE FALSE
  OBVIOUS
<1>2. Without \subseteq Nat
  OBVIOUS
<1> HIDE DEF Without
<1>3. PICK m \in Without : \A k \in Without : m <= k
  BY <1>1, <1>2, LeastNumber
<1> USE DEF Without
<1>4. CASE m = a
  <2>1. Computes([k \in a .. a |-> first], first, Round, a, a, Good)
    BY DEF Computes
  <2> QED BY <1>3, <1>4, <2>1
<1>5. CASE m # a
  <2>1. m \in a + 1 .. b /\ m - 1 \in a .. b /\ ~(m <= m - 1)
    BY <1>3, <1>5
  <2>2. PICK f : Computes(f, first, Round, a, m - 1, Good)
    BY <1>3, <2>1
  <2> DEFINE g == [k \in a .. m |-> IF k = m THEN Round[<<f[m - 1], m>>] ELSE f[k]]
  <2>3. f[m - 1] \in Good /\ \A k \in a .. m - 1 : f[k] \in Good
    BY <2>1, <2>2 DEF Computes
  <2>4. Round[<<f[m - 1], m>>] \in Good
    BY <2>1, <2>3
  <2>5. g \in [a .. m -> Good]
    <3>1. ASSUME NEW k \in a .. m PROVE (IF k = m THEN Round[<<f[m - 1], m>>] ELSE f[k]) \in Good
      <4>1. k = m \/ k \in a .. m - 1
        BY <2>1
      <4> QED BY <2>3, <2>4, <4>1
    <3> QED BY <3>1
  <2>6. ASSUME NEW k \in a .. m PROVE g[k] = IF k = a THEN first ELSE Round[<<g[k - 1], k>>]
    <3>1. CASE k = m
      <4>1. g[m] = Round[<<f[m - 1], m>>] /\ g[m - 1] = f[m - 1]
        BY <2>1
      <4> QED BY <1>5, <3>1, <4>1
    <3>2. CASE k # m
      <4>1. k \in a .. m - 1 /\ g[k] = f[k] /\ (k # a => g[k - 1] = f[k - 1])
        BY <2>1, <3>2
      <4>2. f[k] = IF k = a THEN first ELSE Round[<<f[k - 1], k>>]
        BY <2>2, <4>1 DEF Computes
      <4> QED BY <4>1, <4>2
    <3> QED BY <3>1, <3>2
  <2>7. Computes(g, first, Round, a, m, Good)
    BY <2>5, <2>6 DEF Computes
  <2> QED BY <1>3, <2>7
<1> QED BY <1>4, <1>5

----------------------------------------
(* The text that is written. *)

\* FlattenSeq, as the writer uses it: pieces of text make a text.
LEMMA FlattenTyped ==
    ASSUME NEW S, NEW seqs \in Seq(Seq(S))
    PROVE  FlattenSeq(seqs) \in Seq(S)
<1> DEFINE N == Len(seqs)
           Flat(f) == f = [i \in 1 .. N |-> IF i = 1 THEN seqs[i] ELSE f[i - 1] \o seqs[i]]
           flatten == CHOOSE f : Flat(f)
<1>0. N \in Nat /\ \A i \in 1 .. N : seqs[i] \in Seq(S)
  OBVIOUS
<1>1. FlattenSeq(seqs) = IF N = 0 THEN seqs ELSE flatten[N]
  BY DEF FlattenSeq
<1>2. CASE N = 0
  <2>1. seqs = << >>
    BY <1>2, EmptySeq
  <2> QED BY <1>1, <1>2, <2>1
<1>3. CASE N # 0
  <2> HIDE DEF N
  <2> DEFINE Round == [x \in Seq(S) \X (1 + 1 .. N) |-> x[1] \o seqs[x[2]]]
  <2>1. \A x \in Seq(S), n \in 1 + 1 .. N : Round[<<x, n>>] \in Seq(S) /\ Round[<<x, n>>] = x \o seqs[n]
    <3>1. ASSUME NEW x \in Seq(S), NEW n \in 1 + 1 .. N PROVE x \o seqs[n] \in Seq(S)
      BY <1>0, ConcatProperties
    <3>2. ASSUME NEW x \in Seq(S), NEW n \in 1 + 1 .. N PROVE Round[<<x, n>>] = x \o seqs[n]
      OBVIOUS
    <3> QED BY <3>1, <3>2
  <2> HIDE DEF Round
  <2>2. PICK g : Computes(g, seqs[1], Round, 1, N, Seq(S))
    <3>1. 1 \in Nat /\ N \in Nat /\ 1 <= N /\ seqs[1] \in Seq(S)
      BY <1>0, <1>3
    <3> QED BY <2>1, <3>1, Rounds
  <2>3. Flat(g)
    <3>1. ASSUME NEW i \in 1 .. N PROVE g[i] = IF i = 1 THEN seqs[i] ELSE g[i - 1] \o seqs[i]
      <4>1. CASE i = 1
        BY <2>2, <4>1 DEF Computes
      <4>2. CASE i # 1
        <5>1. i \in 1 + 1 .. N /\ i - 1 \in 1 .. N
          BY <1>0, <4>2
        <5>2. g[i - 1] \in Seq(S) /\ g[i] = Round[<<g[i - 1], i>>]
          BY <2>2, <4>2, <5>1 DEF Computes
        <5> QED BY <2>1, <4>2, <5>1, <5>2
      <4> QED BY <4>1, <4>2
    <3>2. g \in [1 .. N -> Seq(S)]
      BY <2>2 DEF Computes
    <3> QED BY <3>1, <3>2
  <2>4. Flat(flatten)
    BY <2>3
  <2> HIDE DEF flatten
  <2>5. \A i \in 1 .. N : flatten[i] = IF i = 1 THEN seqs[i] ELSE flatten[i - 1] \o seqs[i]
    BY <2>4
  <2>6. flatten[1] \in Seq(S)
    BY <1>0, <1>3, <2>5
  <2>7. ASSUME NEW n \in 1 + 1 .. N, flatten[n - 1] \in Seq(S) PROVE flatten[n] \in Seq(S)
    <3>1. n \in 1 .. N /\ n # 1 /\ seqs[n] \in Seq(S)
      BY <1>0
    <3> QED BY <2>5, <2>7, <3>1, ConcatProperties
  <2>8. \A n \in 1 .. N : flatten[n] \in Seq(S)
    BY <1>0, <2>6, <2>7, StaysGood
  <2> QED BY <1>0, <1>1, <1>3, <2>8
<1> QED BY <1>2, <1>3

\* They and what stands for flags, programs and keys are cells.
LEMMA PrintedCells ==
    Printed \subseteq Cells /\ FlagSet \subseteq Cells /\ Hashes \subseteq Cells /\ Keys \subseteq Cells
    /\ Verbs = {"accept", "reject", "prompt"}
BY DEF Printed, Cells, Words, Verbs

\* A cell is a text, and so is what follows a text by a text.
LEMMA Joined ==
    /\ << >> \in Texts
    /\ \A c \in Cells : <<c>> \in Texts
    /\ \A c, d \in Cells : <<c, d>> \in Texts
    /\ \A s, t \in Texts : s \o t \in Texts
<1>1. \A s, t \in Texts : s \o t \in Texts
  BY ConcatProperties DEF Texts
<1> QED BY <1>1 DEF Texts

\* A text in quotes, and a block of texts.
LEMMA BlockTyped ==
    ASSUME NEW header \in Texts, NEW entries \in Seq(Texts)
    PROVE  Quoted(header) \in Texts /\ Block(header, entries) \in Texts
<1>1. "Q" \in Cells /\ "{" \in Cells /\ "}" \in Cells
  BY PrintedCells DEF Printed
<1>2. FlattenSeq(entries) \in Texts
  BY FlattenTyped DEF Texts
<1> QED BY <1>1, <1>2, Joined, Zenon DEF Quoted, Block

\* permfs_writemode and permfs_writemodeset.
LEMMA ModeTextTyped ==
    ASSUME NEW field \in {"self", "children"}, NEW modeset \in Modesets
    PROVE  ModesetText(field, modeset) \in Texts
<1>1. field \in Cells /\ \A verb \in Verbs : verb \in Cells
  BY PrintedCells DEF Printed
<1>2. ASSUME NEW verb \in Verbs PROVE ModeText(field, verb, modeset[verb]) \in Texts
  <2> DEFINE N == Len(Flags)
             Part(i) == IF Flags[i] \in modeset[verb] THEN Quoted(<<Flags[i]>>) ELSE << >>
             parts == [i \in 1 .. N |-> Part(i)]
  <2>1. N \in Nat /\ DOMAIN Flags = 1 .. N
    BY PolicyFileAssumption
  <2>2. ASSUME NEW i \in 1 .. N PROVE Part(i) \in Texts
    <3>1. Flags[i] \in Cells
      BY <2>1, PrintedCells DEF FlagSet, ToSet
    <3>2. <<Flags[i]>> \in Texts /\ << >> \in Texts /\ << >> \in Seq(Texts)
      BY <3>1, Joined
    <3> QED BY <3>2, BlockTyped
  <2> HIDE DEF N, Part
  <2>3. parts \in Seq(Texts)
    BY <2>1, <2>2
  <2>4. FlattenSeq(parts) \in Texts
    BY <2>3, FlattenTyped DEF Texts
  <2>5. <<field, verb>> \in Texts /\ << >> \in Texts
    BY <1>1, Joined, Zenon
  <2>6. <<field, verb>> \o FlattenSeq(parts) \in Texts
    BY <2>4, <2>5, Joined, Zenon
  <2>7. ModeText(field, verb, modeset[verb]) =
            IF modeset[verb] = {} THEN << >> ELSE <<field, verb>> \o FlattenSeq(parts)
    BY DEF ModeText, parts, Part, N
  <2> HIDE DEF parts
  <2> QED BY <2>5, <2>6, <2>7
<1>3. "accept" \in Verbs /\ "reject" \in Verbs /\ "prompt" \in Verbs
  BY DEF Verbs
<1> QED BY <1>2, <1>3, Joined, Zenon DEF ModesetText

\* The entries of the three blocks.
LEMMA EntriesTyped ==
    /\ \A e \in FsEntries : FsEntryText(e) \in Texts
    /\ \A e \in ExecEntries : ExecEntryText(e) \in Texts
    /\ \A key \in Keys : Block(Quoted(<<key>>), << >>) \in Texts
<1>0. << >> \in Seq(Texts)
  OBVIOUS
<1>1. ASSUME NEW e \in FsEntries PROVE FsEntryText(e) \in Texts
  <2>1. e.path \in Texts /\ e.self \in Modesets /\ e.children \in Modesets
    BY DEF FsEntries, Texts
  <2>2. ModesetText("self", e.self) \in Texts /\ ModesetText("children", e.children) \in Texts
    BY <2>1, ModeTextTyped
  <2>3. <<ModesetText("self", e.self), ModesetText("children", e.children)>> \in Seq(Texts)
    BY <2>2
  <2>4. Quoted(e.path) \in Texts
    BY <1>0, <2>1, BlockTyped
  <2> QED BY <2>3, <2>4, BlockTyped DEF FsEntryText
<1>2. ASSUME NEW e \in ExecEntries PROVE ExecEntryText(e) \in Texts
  <2>1. e.hash \in Hashes /\ e.mode \in Verbs
    BY DEF ExecEntries
  <2>2. e.hash \in Cells /\ e.mode \in Cells /\ "mode" \in Cells /\ "accept" \in Cells
    BY <2>1, PrintedCells DEF Printed
  <2>3. <<e.hash>> \in Texts /\ <<e.mode>> \in Texts /\ <<"mode">> \in Texts /\ <<"accept">> \in Texts
    BY <2>2, Joined, Zenon
  <2>4. Quoted(<<e.hash>>) \in Texts /\ Quoted(<<e.mode>>) \in Texts
    BY <1>0, <2>3, BlockTyped
  <2> DEFINE said == IF e.mode = "accept" THEN <<"accept">> ELSE Quoted(<<e.mode>>)
  <2>5. said \in Texts
    BY <2>3, <2>4
  <2> HIDE DEF said
  <2>6. <<<<"mode">>, said>> \in Seq(Texts)
    BY <2>3, <2>5
  <2>7. Block(Quoted(<<e.hash>>), <<<<"mode">>, said>>) \in Texts
    BY <2>4, <2>6, BlockTyped
  <2> QED BY <2>7 DEF ExecEntryText, said
<1>3. ASSUME NEW key \in Keys PROVE Block(Quoted(<<key>>), << >>) \in Texts
  <2>1. <<key>> \in Texts
    BY PrintedCells, Joined
  <2> QED BY <1>0, <2>1, BlockTyped
<1> QED BY <1>1, <1>2, <1>3

\* The keys in the order in which they are written.
LEMMA KeysListed ==
    ASSUME NEW T, IsFiniteSet(T)
    PROVE  Cardinality(T) \in Nat /\ SetToSeq(T) \in [1 .. Cardinality(T) -> T]
<1> DEFINE N == Cardinality(T)
<1>1. N \in Nat /\ ExistsBijection(1 .. N, T)
  BY FS_CardinalityType
<1> HIDE DEF N
<1>0. PICK f : f \in Bijection(1 .. N, T)
  BY <1>1 DEF ExistsBijection
<1>2. f \in [1 .. N -> T] /\ IsInjective(f)
  BY <1>0 DEF Bijection, Injection
<1> QED BY <1>1, <1>2 DEF SetToSeq, N

\* gh_perms_write prints a text.
LEMMA TextTyped ==
    ASSUME TypeOK
    PROVE  Text \in Texts
<1>1. /\ fs \in Seq(FsEntries) /\ exec \in Seq(ExecEntries)
      /\ generic \subseteq Keys /\ IsFiniteSet(generic)
  BY DEF TypeOK
<1> DEFINE files == [i \in DOMAIN fs |-> FsEntryText(fs[i])]
           programs == [i \in DOMAIN exec |-> ExecEntryText(exec[i])]
           listed == SetToSeq(generic)
           keys == [i \in 1 .. Cardinality(generic) |-> Block(Quoted(<<listed[i]>>), << >>)]
<1>2. \A S, T : \A s \in Seq(S) : \A t : (t = [i \in DOMAIN s |-> t[i]] /\ \A i \in DOMAIN s : t[i] \in T) => t \in Seq(T)
  <2> SUFFICES ASSUME NEW S, NEW T, NEW s \in Seq(S), NEW t,
                      t = [i \in DOMAIN s |-> t[i]], \A i \in DOMAIN s : t[i] \in T
               PROVE  t \in Seq(T)
    OBVIOUS
  <2>1. DOMAIN s = 1 .. Len(s) /\ Len(s) \in Nat
    OBVIOUS
  <2>2. t \in [1 .. Len(s) -> T]
    BY <2>1
  <2> QED BY <2>1, <2>2, SeqDef
<1>3. files \in Seq(Texts)
  <2>1. ASSUME NEW i \in DOMAIN fs PROVE fs[i] \in FsEntries /\ files[i] = FsEntryText(fs[i])
    BY <1>1
  <2>2. \A i \in DOMAIN fs : files[i] \in Texts
    BY <2>1, EntriesTyped, Zenon
  <2>3. files = [i \in DOMAIN fs |-> files[i]]
    OBVIOUS
  <2> HIDE DEF files
  <2> QED BY <1>1, <1>2, <2>2, <2>3, Zenon
<1>4. programs \in Seq(Texts)
  <2>1. ASSUME NEW i \in DOMAIN exec PROVE exec[i] \in ExecEntries /\ programs[i] = ExecEntryText(exec[i])
    BY <1>1
  <2>2. \A i \in DOMAIN exec : programs[i] \in Texts
    BY <2>1, EntriesTyped, Zenon
  <2>3. programs = [i \in DOMAIN exec |-> programs[i]]
    OBVIOUS
  <2> HIDE DEF programs
  <2> QED BY <1>1, <1>2, <2>2, <2>3, Zenon
<1>5. keys \in Seq(Texts)
  <2> DEFINE N == Cardinality(generic)
  <2>1. N \in Nat /\ listed \in [1 .. N -> generic]
    BY <1>1, KeysListed
  <2> HIDE DEF N, listed
  <2>2. ASSUME NEW i \in 1 .. N PROVE Block(Quoted(<<listed[i]>>), << >>) \in Texts
    <3>1. listed[i] \in Keys
      BY <1>1, <2>1
    <3> QED BY <3>1, EntriesTyped, Zenon
  <2>3. [i \in 1 .. N |-> Block(Quoted(<<listed[i]>>), << >>)] \in [1 .. N -> Texts]
    BY <2>2
  <2>4. [i \in 1 .. N |-> Block(Quoted(<<listed[i]>>), << >>)] \in Seq(Texts)
    <3>1. \A n \in Nat : \A T : \A g \in [1 .. n -> T] : g \in Seq(T)
      OBVIOUS
    <3> QED BY <2>1, <2>3, <3>1, Zenon
  <2> QED BY <2>4 DEF N, keys
<1> HIDE DEF files, programs, keys
<1>6. <<"filesystem", "node">> \in Texts /\ <<"exec", "cmdline">> \in Texts /\ <<"generic", "key">> \in Texts
  <2>1. "filesystem" \in Cells /\ "node" \in Cells /\ "exec" \in Cells /\ "cmdline" \in Cells
        /\ "generic" \in Cells /\ "key" \in Cells
    BY PrintedCells DEF Printed
  <2> QED BY <2>1, Joined, Zenon
<1>7. /\ Block(<<"filesystem", "node">>, files) \in Texts
      /\ Block(<<"exec", "cmdline">>, programs) \in Texts
      /\ Block(<<"generic", "key">>, keys) \in Texts
  BY <1>3, <1>4, <1>5, <1>6, BlockTyped
<1>8. GenericText \in Texts
  BY <1>7 DEF GenericText, keys, listed
<1>9. (IF registered THEN GenericText ELSE << >>) \in Texts
  BY <1>8, Joined
<1> QED BY <1>7, <1>9, Joined, Zenon DEF Text, files, programs

\* write(2) leaves a text in the file.
LEMMA WriteTyped ==
    ASSUME NEW base \in Texts, NEW offset \in Nat, NEW cells \in Texts
    PROVE  Write(base, offset, cells) \in Texts
<1> DEFINE B == Len(base)
           L == Len(cells)
           N == IF B > offset + L THEN B ELSE offset + L
           Cell(i) == IF i > offset /\ i <= offset + L THEN cells[i - offset]
                      ELSE IF i <= B THEN base[i] ELSE "NUL"
<1>1. /\ B \in Nat /\ \A i \in 1 .. B : base[i] \in Cells
      /\ L \in Nat /\ \A i \in 1 .. L : cells[i] \in Cells
  BY DEF Texts
<1>2. "NUL" \in Cells
  BY PrintedCells DEF Printed
<1>3. Write(base, offset, cells) = [i \in 1 .. N |-> Cell(i)]
  BY DEF Write
<1> HIDE DEF B, L
<1>4. N \in Nat
  BY <1>1
<1>5. ASSUME NEW i \in 1 .. N PROVE Cell(i) \in Cells
  <2>0. i \in Nat /\ 1 <= i
    BY <1>4
  <2>1. CASE i > offset /\ i <= offset + L
    <3>1. i - offset \in 1 .. L
      BY <1>1, <2>0, <2>1
    <3> QED BY <1>1, <2>1, <3>1
  <2>2. CASE ~(i > offset /\ i <= offset + L) /\ i <= B
    BY <1>1, <2>0, <2>2
  <2>3. CASE ~(i > offset /\ i <= offset + L) /\ ~(i <= B)
    BY <1>2, <2>3
  <2> QED BY <2>1, <2>2, <2>3
<1> HIDE DEF N, Cell
<1>6. [i \in 1 .. N |-> Cell(i)] \in [1 .. N -> Cells]
  BY <1>5
<1> QED BY <1>3, <1>4, <1>6, SeqDef DEF Texts

----------------------------------------
(* Tokens. *)

\* One cell more is read.
LEMMA LexStepTyped ==
    ASSUME NEW lex \in LexStates, NEW cell \in Cells
    PROVE  LexStep(lex, cell) \in LexStates
<1>1. /\ lex.in \in BOOLEAN /\ lex.escape \in BOOLEAN /\ lex.string \in Texts
      /\ lex.tokens \in Seq(TokenSet)
  BY DEF LexStates
<1>2. << >> \in Texts /\ <<cell>> \in Texts
  BY Joined, Zenon
<1>3. ASSUME NEW token \in TokenSet
      PROVE  /\ Append(lex.tokens, token) \in Seq(TokenSet)
             /\ [lex EXCEPT !.in = FALSE, !.string = << >>, !.tokens = Append(@, token)] \in LexStates
             /\ [lex EXCEPT !.tokens = Append(@, token)] \in LexStates
  <2>1. Append(lex.tokens, token) \in Seq(TokenSet)
    BY <1>1, AppendProperties
  <2> QED BY <1>2, <2>1 DEF LexStates
<1>4. CASE lex.in /\ cell = "Q" /\ ~lex.escape
  <2>1. Token("string", lex.string) \in TokenSet
    BY <1>1 DEF Token, TokenSet
  <2>2. LexStep(lex, cell) =
            [lex EXCEPT !.in = FALSE, !.string = << >>, !.tokens = Append(@, Token("string", lex.string))]
    BY <1>4 DEF LexStep
  <2> QED BY <1>3, <2>1, <2>2
<1>5. CASE lex.in /\ ~(cell = "Q" /\ ~lex.escape)
  <2> DEFINE escape == lex.escape \/ cell = "BACKSLASH"
             string == Append(lex.string, cell)
  <2>1. string \in Texts
    BY <1>1, AppendProperties DEF Texts
  <2>2. escape \in BOOLEAN
    OBVIOUS
  <2>3. LexStep(lex, cell) = [lex EXCEPT !.escape = escape, !.string = string]
    BY <1>5 DEF LexStep
  <2> HIDE DEF escape, string
  <2>4. [lex EXCEPT !.escape = escape, !.string = string] \in LexStates
    BY <2>1, <2>2 DEF LexStates
  <2> QED BY <2>3, <2>4
<1>6. CASE ~lex.in /\ cell = "Q"
  <2>1. [lex EXCEPT !.in = TRUE] \in LexStates
    BY DEF LexStates
  <2> QED BY <1>6, <2>1 DEF LexStep
<1>7. CASE ~lex.in /\ cell # "Q"
  <2> DEFINE token == IF cell \in {"{", "}"} THEN Token(cell, << >>)
                      ELSE IF cell \in Words THEN Token("identifier", <<cell>>) ELSE Bad
  <2>1. token \in TokenSet
    BY <1>2 DEF Token, TokenSet, Bad
  <2>2. LexStep(lex, cell) = [lex EXCEPT !.tokens = Append(@, token)]
    BY <1>7 DEF LexStep
  <2> HIDE DEF token
  <2> QED BY <1>3, <2>1, <2>2
<1> QED BY <1>4, <1>5, <1>6, <1>7

\* gh_permparser_nexttoken finds tokens in every text.
LEMMA TokensTyped ==
    ASSUME NEW cells \in Texts
    PROVE  Tokens(cells) \in Seq(TokenSet)
<1> DEFINE ends == {i \in DOMAIN cells : cells[i] = "NUL"}
           last == IF ends = {} THEN Len(cells) ELSE (CHOOSE i \in ends : \A j \in ends : i <= j) - 1
           Reads(f) == f = [n \in 0 .. last |-> IF n = 0 THEN LexStart ELSE LexStep(f[n - 1], cells[n])]
           lex == CHOOSE f : Reads(f)
<1>1. Tokens(cells) = IF lex[last].in THEN Append(lex[last].tokens, Bad) ELSE lex[last].tokens
  BY DEF Tokens, LexStart
<1>2. Len(cells) \in Nat /\ \A i \in 1 .. Len(cells) : cells[i] \in Cells
  BY DEF Texts
<1>3. last \in 0 .. Len(cells)
  <2>1. CASE ends = {}
    BY <1>2, <2>1
  <2>2. CASE ends # {}
    <3>1. ends \subseteq 1 .. Len(cells)
      BY DEF Texts
    <3>2. ends \subseteq Nat
      BY <3>1
    <3> HIDE DEF ends
    <3>3. PICK i \in ends : \A j \in ends : i <= j
      BY <2>2, <3>2, LeastNumber
    <3>4. (CHOOSE k \in ends : \A j \in ends : k <= j) \in ends
      BY <3>3
    <3>5. (CHOOSE k \in ends : \A j \in ends : k <= j) \in 1 .. Len(cells)
      BY <3>1, <3>4
    <3> QED BY <1>2, <2>2, <3>5
  <2> QED BY <2>1, <2>2
<1> HIDE DEF last
<1>4. last \in Nat /\ \A n \in 0 + 1 .. last : cells[n] \in Cells
  BY <1>2, <1>3
<1>5. LexStart \in LexStates
  BY Joined DEF LexStart, LexStates
<1> DEFINE Round == [x \in LexStates \X (0 + 1 .. last) |-> LexStep(x[1], cells[x[2]])]
<1>6. \A x \in LexStates, n \in 0 + 1 .. last :
         Round[<<x, n>>] \in LexStates /\ Round[<<x, n>>] = LexStep(x, cells[n])
  <2>1. ASSUME NEW x \in LexStates, NEW n \in 0 + 1 .. last PROVE LexStep(x, cells[n]) \in LexStates
    BY <1>4, LexStepTyped
  <2>2. ASSUME NEW x \in LexStates, NEW n \in 0 + 1 .. last PROVE Round[<<x, n>>] = LexStep(x, cells[n])
    OBVIOUS
  <2> QED BY <2>1, <2>2
<1> HIDE DEF Round
<1>7. PICK g : Computes(g, LexStart, Round, 0, last, LexStates)
  <2>1. 0 \in Nat /\ last \in Nat /\ 0 <= last
    BY <1>4
  <2>2. \A x \in LexStates, n \in 0 + 1 .. last : Round[<<x, n>>] \in LexStates
    BY <1>6
  <2> HIDE DEF lex
  <2> QED BY <1>5, <2>1, <2>2, Rounds
<1>8. Reads(g)
  <2>1. ASSUME NEW n \in 0 .. last PROVE g[n] = IF n = 0 THEN LexStart ELSE LexStep(g[n - 1], cells[n])
    <3>1. CASE n = 0
      BY <1>7, <3>1 DEF Computes
    <3>2. CASE n # 0
      <4>1. n \in 0 + 1 .. last /\ n - 1 \in 0 .. last
        BY <1>4, <3>2
      <4>2. g[n - 1] \in LexStates /\ g[n] = Round[<<g[n - 1], n>>]
        BY <1>7, <3>2, <4>1 DEF Computes
      <4> QED BY <1>6, <3>2, <4>1, <4>2
    <3> QED BY <3>1, <3>2
  <2>2. g \in [0 .. last -> LexStates]
    BY <1>7 DEF Computes
  <2> QED BY <2>1, <2>2
<1>9. Reads(lex)
  BY <1>8
<1> HIDE DEF lex
<1>10. \A n \in 0 .. last : lex[n] = IF n = 0 THEN LexStart ELSE LexStep(lex[n - 1], cells[n])
  BY <1>9
<1>11. lex[0] \in LexStates
  BY <1>4, <1>5, <1>10
<1>12. ASSUME NEW n \in 0 + 1 .. last, lex[n - 1] \in LexStates PROVE lex[n] \in LexStates
  <2>1. n \in 0 .. last /\ n # 0
    OBVIOUS
  <2> QED BY <1>4, <1>10, <1>12, <2>1, LexStepTyped
<1>13. lex[last] \in LexStates
  <2>1. \A n \in 0 .. last : lex[n] \in LexStates
    BY <1>4, <1>11, <1>12, StaysGood
  <2> QED BY <1>4, <2>1
<1>14. lex[last].tokens \in Seq(TokenSet)
  BY <1>13 DEF LexStates
<1>15. Bad \in TokenSet
  BY Joined DEF Bad, Token, TokenSet
<1>16. Append(lex[last].tokens, Bad) \in Seq(TokenSet)
  BY <1>14, <1>15, AppendProperties
<1> QED BY <1>1, <1>14, <1>16

----------------------------------------
(* Lists of entries. *)

\* Keeping twice is keeping.
LEMMA FsKeptTwice ==
    ASSUME NEW a, NEW b, NEW c, FsKept(a, b), FsKept(b, c)
    PROVE  FsKept(a, c)
BY DEF FsKept, Covers

\* The list, with an entry that covers the one in its place.
LEMMA ReplacedKeeps ==
    ASSUME NEW list \in Seq(FsEntries), OnePerPath(list), NEW k \in DOMAIN list, NEW e \in FsEntries,
           Covers(e, list[k])
    PROVE  /\ [list EXCEPT ![k] = e] \in Seq(FsEntries)
           /\ OnePerPath([list EXCEPT ![k] = e])
           /\ FsKept(list, [list EXCEPT ![k] = e])
<1> DEFINE new == [list EXCEPT ![k] = e]
<1>1. new \in Seq(FsEntries)
  OBVIOUS
<1>2. DOMAIN new = DOMAIN list /\ \A i \in DOMAIN list : new[i] = IF i = k THEN e ELSE list[i]
  OBVIOUS
<1> HIDE DEF new
<1>3. \A i \in DOMAIN list : Covers(new[i], list[i])
  <2>1. \A i \in DOMAIN list : Covers(list[i], list[i])
    BY DEF Covers
  <2> QED BY <1>2, <2>1
<1>4. \A i \in DOMAIN list : new[i].path = list[i].path
  BY <1>3 DEF Covers
<1>5. OnePerPath(new)
  BY <1>2, <1>4 DEF OnePerPath
<1> QED BY <1>1, <1>2, <1>3, <1>5 DEF FsKept, new

\* Modesets that are joined.
LEMMA MergeTyped ==
    ASSUME NEW a \in Modesets, NEW b \in Modesets
    PROVE  /\ Merge(a, b) \in Modesets
           /\ \A verb \in Verbs : a[verb] \subseteq Merge(a, b)[verb]
BY DEF Merge, Modesets

\* gh_permfs_add keeps what the list holds.
LEMMA AddToKeeps ==
    ASSUME NEW list \in Seq(FsEntries), OnePerPath(list), NEW path \in Texts,
           NEW self \in Modesets, NEW children \in Modesets
    PROVE  /\ AddTo(list, path, self, children) \in Seq(FsEntries)
           /\ OnePerPath(AddTo(list, path, self, children))
           /\ FsKept(list, AddTo(list, path, self, children))
<1>1. CASE HasEntry(list, path)
  <2> DEFINE k == IndexOf(list, path)
             own == Merge(Merge(list[k].self, self), children)
             e == [list[k] EXCEPT !.self = own]
  <2>1. k \in DOMAIN list
    BY <1>1 DEF HasEntry, IndexOf
  <2>2. AddTo(list, path, self, children) = [list EXCEPT ![k] = e]
    BY <1>1 DEF AddTo
  <2> HIDE DEF k
  <2>3. /\ list[k] \in FsEntries /\ list[k].path \in Texts
        /\ list[k].self \in Modesets /\ list[k].children \in Modesets
    <3>1. list[k] \in FsEntries
      BY <2>1
    <3> QED BY <3>1 DEF FsEntries, Texts
  <2>4. own \in Modesets /\ \A verb \in Verbs : list[k].self[verb] \subseteq own[verb]
    <3>1. /\ Merge(list[k].self, self) \in Modesets
          /\ \A verb \in Verbs : list[k].self[verb] \subseteq Merge(list[k].self, self)[verb]
      BY <2>3, MergeTyped
    <3>2. /\ own \in Modesets
          /\ \A verb \in Verbs : Merge(list[k].self, self)[verb] \subseteq own[verb]
      BY <3>1, MergeTyped
    <3> QED BY <3>1, <3>2
  <2> HIDE DEF own
  <2>5. e \in FsEntries
    BY <2>3, <2>4 DEF FsEntries
  <2>6. Covers(e, list[k])
    <3>1. e.path = list[k].path /\ e.self = own /\ e.children = list[k].children
      BY <2>3 DEF FsEntries
    <3> QED BY <2>4, <3>1 DEF Covers
  <2> HIDE DEF e
  <2> QED BY <2>1, <2>2, <2>5, <2>6, ReplacedKeeps
<1>2. CASE ~HasEntry(list, path)
  <2> DEFINE e == [path |-> path, self |-> self, children |-> children]
             new == Append(list, e)
             N == Len(list)
  <2>1. AddTo(list, path, self, children) = new
    BY <1>2 DEF AddTo
  <2>2. e \in FsEntries /\ e.path = path
    BY DEF FsEntries, Texts
  <2> HIDE DEF e
  <2>3. new \in Seq(FsEntries)
    BY <2>2
  <2>4. /\ N \in Nat /\ DOMAIN list = 1 .. N /\ DOMAIN new = 1 .. N + 1
        /\ \A i \in 1 .. N : new[i] = list[i]
        /\ new[N + 1] = e
    BY <2>2
  <2> HIDE DEF new, N
  <2>5. OnePerPath(new)
    <3> SUFFICES ASSUME NEW i \in 1 .. N + 1, NEW j \in 1 .. N + 1, new[i].path = new[j].path
                 PROVE  i = j
      BY <2>4 DEF OnePerPath
    <3>1. (i \in 1 .. N \/ i = N + 1) /\ (j \in 1 .. N \/ j = N + 1)
      BY <2>4
    <3>2. \A k \in 1 .. N : list[k].path # path
      BY <1>2, <2>4 DEF HasEntry
    <3>3. CASE i \in 1 .. N /\ j \in 1 .. N
      BY <2>4, <3>3 DEF OnePerPath
    <3>4. CASE i \in 1 .. N /\ j = N + 1
      BY <2>2, <2>4, <3>2, <3>4
    <3>5. CASE i = N + 1 /\ j \in 1 .. N
      BY <2>2, <2>4, <3>2, <3>5
    <3>6. CASE i = N + 1 /\ j = N + 1
      BY <3>6
    <3> QED BY <3>1, <3>3, <3>4, <3>5, <3>6
  <2>6. FsKept(list, new)
    <3>1. \A i \in 1 .. N : i \in 1 .. N + 1
      BY <2>4
    <3> QED BY <2>4, <3>1 DEF FsKept, Covers
  <2> QED BY <2>1, <2>3, <2>5, <2>6
<1> QED BY <1>1, <1>2

\* A flag that is set keeps what the list holds.
LEMMA FlagKeeps ==
    ASSUME NEW list \in Seq(FsEntries), OnePerPath(list), NEW k,
           NEW field \in {"self", "children"}, NEW verb \in Verbs, NEW flag \in FlagSet
    PROVE  LET new == [list EXCEPT ![k][field][verb] = @ \cup {flag}]
           IN  new \in Seq(FsEntries) /\ OnePerPath(new) /\ FsKept(list, new)
<1> DEFINE new == [list EXCEPT ![k][field][verb] = @ \cup {flag}]
<1>1. CASE k \notin DOMAIN list
  <2>1. new = list
    BY <1>1
  <2>2. FsKept(list, list)
    BY DEF FsKept, Covers
  <2> QED BY <2>1, <2>2
<1>2. CASE k \in DOMAIN list
  <2> DEFINE d == list[k]
             mode == [d[field] EXCEPT ![verb] = @ \cup {flag}]
             e == [d EXCEPT ![field] = mode]
  <2>1. new = [list EXCEPT ![k] = e]
    BY <1>2
  <2>2. d \in FsEntries
    BY <1>2
  <2> HIDE DEF d
  <2>3. d.path \in Seq(Cells) /\ d.self \in Modesets /\ d.children \in Modesets /\ d[field] \in Modesets
    BY <2>2 DEF FsEntries
  <2>4. mode \in Modesets /\ \A v \in Verbs : d[field][v] \subseteq mode[v]
    BY <2>3 DEF Modesets
  <2> HIDE DEF mode
  <2>5. e \in FsEntries /\ Covers(e, d)
    <3>1. CASE field = "self"
      <4>1. e \in FsEntries /\ e.path = d.path /\ e.self = mode /\ e.children = d.children
        BY <2>2, <2>3, <2>4, <3>1 DEF FsEntries
      <4> QED BY <2>4, <3>1, <4>1 DEF Covers
    <3>2. CASE field = "children"
      <4>1. e \in FsEntries /\ e.path = d.path /\ e.children = mode /\ e.self = d.self
        BY <2>2, <2>3, <2>4, <3>2 DEF FsEntries
      <4> QED BY <2>4, <3>2, <4>1 DEF Covers
    <3> QED BY <3>1, <3>2
  <2> HIDE DEF e
  <2>6. /\ [list EXCEPT ![k] = e] \in Seq(FsEntries)
        /\ OnePerPath([list EXCEPT ![k] = e])
        /\ FsKept(list, [list EXCEPT ![k] = e])
    BY <1>2, <2>5, ReplacedKeeps DEF d
  <2> HIDE DEF new
  <2> QED BY <2>1, <2>6 DEF new
<1> QED BY <1>1, <1>2

----------------------------------------
(* The parser. *)

\* The programs, with one more, and with another mode for the last.
LEMMA ExecAdded ==
    ASSUME NEW old \in Seq(ExecEntries), NEW list \in Seq(ExecEntries), ExecKept(old, list),
           NEW e \in ExecEntries
    PROVE  /\ Append(list, e) \in Seq(ExecEntries) /\ ExecKept(old, Append(list, e))
           /\ Len(old) < Len(Append(list, e))
<1> DEFINE N == Len(old)
           M == Len(list)
           new == Append(list, e)
<1>1. /\ N \in Nat /\ M \in Nat /\ N <= M /\ \A i \in 1 .. N : list[i] = old[i]
      /\ new \in Seq(ExecEntries) /\ Len(new) = M + 1 /\ \A i \in 1 .. M : new[i] = list[i]
  BY DEF ExecKept
<1> HIDE DEF new
<1> SUFFICES new \in Seq(ExecEntries) /\ ExecKept(old, new) /\ Len(old) < Len(new)
  BY DEF new
<1> HIDE DEF N, M
<1>2. N <= M + 1 /\ N < M + 1 /\ \A i \in 1 .. N : i \in 1 .. M
  BY <1>1
<1> QED BY <1>1, <1>2 DEF ExecKept, N

\* The mode of the last program is set.
LEMMA ExecSet ==
    ASSUME NEW old \in Seq(ExecEntries), NEW list \in Seq(ExecEntries), ExecKept(old, list),
           Len(old) < Len(list), NEW mode \in Verbs
    PROVE  LET new == [list EXCEPT ![Len(list)].mode = mode]
           IN  new \in Seq(ExecEntries) /\ ExecKept(old, new) /\ Len(old) < Len(new)
<1> DEFINE N == Len(old)
           M == Len(list)
           e == [list[M] EXCEPT !.mode = mode]
           new == [list EXCEPT ![M] = e]
<1>1. N \in Nat /\ M \in Nat /\ N < M /\ \A i \in 1 .. N : list[i] = old[i]
  BY DEF ExecKept
<1>2. M \in DOMAIN list /\ DOMAIN list = 1 .. M
  <2> HIDE DEF N
  <2> QED BY <1>1
<1>3. [list EXCEPT ![Len(list)].mode = mode] = new
  BY <1>2
<1>4. e \in ExecEntries
  <2>1. list[M] \in ExecEntries
    BY <1>2
  <2> QED BY <2>1 DEF ExecEntries
<1> HIDE DEF e
<1>5. new \in Seq(ExecEntries) /\ Len(new) = M /\ \A i \in 1 .. M : i # M => new[i] = list[i]
  <2>1. new \in Seq(ExecEntries) /\ DOMAIN new = DOMAIN list
    BY <1>2, <1>4
  <2>2. \A i \in 1 .. M : i # M => new[i] = list[i]
    BY <1>2
  <2>3. Len(new) = M
    <3> HIDE DEF new
    <3> QED BY <1>1, <1>2, <2>1
  <2> QED BY <2>1, <2>2, <2>3
<1> HIDE DEF new, M, N
<1>6. N <= M /\ \A i \in 1 .. N : i \in 1 .. M /\ i # M
  BY <1>1
<1>7. ExecKept(old, new)
  BY <1>1, <1>5, <1>6 DEF ExecKept, N
<1> QED BY <1>1, <1>3, <1>5, <1>7 DEF N

\* An error, and a step that only changes the place, keep the policy.
LEMMA MovedGood ==
    ASSUME NEW p \in GoodStates, NEW place \in Places,
           place # "verb" /\ place # "flags",
           place \in {"key", "fields"} => InProgram(p) \/ p.resource # <<"exec", "cmdline">>
    PROVE  [p EXCEPT !.at = place] \in GoodStates
<1> DEFINE q == [p EXCEPT !.at = place]
<1>1. p \in ParseStates /\ Parsed(p)
  BY DEF GoodStates
<1>2. q \in ParseStates
  BY <1>1 DEF ParseStates
<1>3. /\ q.at = place /\ q.fs = p.fs /\ q.exec = p.exec /\ q.generic = p.generic
      /\ q.resource = p.resource /\ q.field = p.field
  BY <1>1 DEF ParseStates
<1> HIDE DEF q
<1>4. InProgram(q) => InProgram(p)
  BY <1>3 DEF InProgram, Places
<1>5. Parsed(q)
  BY <1>1, <1>3, <1>4 DEF Parsed
<1> QED BY <1>2, <1>5 DEF GoodStates, q

\* A finite set has finitely many images.
LEMMA ImageFinite ==
    ASSUME NEW S, NEW f, IsFiniteSet(S)
    PROVE  IsFiniteSet({f[i] : i \in S})
<1> DEFINE T == {f[i] : i \in S}
           g == [i \in S |-> f[i]]
<1>1. g \in Surjection(S, T)
  BY DEF Surjection
<1> HIDE DEF T, g
<1>2. IsFiniteSet(T)
  BY <1>1, FS_Surjection
<1> QED BY <1>2 DEF T

\* The newentry callbacks.
LEMMA NewEntryGood ==
    ASSUME TypeOK, NEW p \in GoodStates, p.at = "entries", NEW key \in Texts
    PROVE  NewEntry(p, key) \in GoodStates
<1>1. p \in ParseStates /\ Parsed(p)
  BY DEF GoodStates
<1>2. /\ p.fs \in Seq(FsEntries) /\ p.exec \in Seq(ExecEntries) /\ p.generic \subseteq Keys
      /\ p.resource \in Texts /\ exec \in Seq(ExecEntries)
  BY <1>1 DEF ParseStates, TypeOK
<1>3. CASE p.resource = <<"filesystem", "node">>
  <2> DEFINE new == AddTo(p.fs, key, Empty, Empty)
             q == [p EXCEPT !.at = "key", !.path = key, !.fs = new]
  <2>1. Empty \in Modesets
    BY DEF Empty, Modesets
  <2>2. new \in Seq(FsEntries) /\ OnePerPath(new) /\ FsKept(p.fs, new)
    BY <1>1, <1>2, <2>1, AddToKeeps DEF Parsed
  <2>3. NewEntry(p, key) = q
    BY <1>3 DEF NewEntry
  <2> HIDE DEF new
  <2>4. q \in ParseStates
    BY <1>1, <2>2 DEF ParseStates, Places
  <2>5. /\ q.at = "key" /\ q.fs = new /\ q.exec = p.exec /\ q.generic = p.generic
        /\ q.resource = p.resource /\ q.field = p.field
    BY <1>1 DEF ParseStates
  <2>6. FsKept(fs, new)
    BY <1>1, <2>2, FsKeptTwice DEF Parsed
  <2> HIDE DEF q
  <2>7. ~InProgram(q)
    <3>1. <<"filesystem", "node">> # <<"exec", "cmdline">>
      OBVIOUS
    <3> QED BY <1>3, <2>5, <3>1 DEF InProgram
  <2>8. Parsed(q)
    BY <1>1, <2>2, <2>5, <2>6, <2>7 DEF Parsed
  <2> QED BY <2>3, <2>4, <2>8 DEF GoodStates
<1>4. CASE p.resource # <<"filesystem", "node">> /\ p.resource = <<"generic", "key">> /\ ToSet(key) \subseteq Keys
  <2> DEFINE new == p.generic \cup ToSet(key)
             q == [p EXCEPT !.at = "key", !.generic = new]
  <2>1. new \subseteq Keys /\ IsFiniteSet(new) /\ generic \subseteq new
    <3>1. IsFiniteSet(ToSet(key))
      <4>1. key \in Seq(Cells)
        BY DEF Texts
      <4>2. IsFiniteSet(1 .. Len(key)) /\ DOMAIN key = 1 .. Len(key)
        BY <4>1, FS_Interval, LenProperties
      <4>3. IsFiniteSet({key[i] : i \in 1 .. Len(key)})
        BY <4>2, ImageFinite
      <4> QED BY <4>2, <4>3 DEF ToSet
    <3>2. IsFiniteSet(new)
      BY <1>1, <3>1, FS_Union DEF Parsed
    <3> QED BY <1>1, <1>2, <1>4, <3>2 DEF Parsed
  <2>2. NewEntry(p, key) = q
    BY <1>4 DEF NewEntry
  <2> HIDE DEF new
  <2>3. q \in ParseStates
    BY <1>1, <2>1 DEF ParseStates, Places
  <2>4. /\ q.at = "key" /\ q.fs = p.fs /\ q.exec = p.exec /\ q.generic = new
        /\ q.resource = p.resource /\ q.field = p.field
    BY <1>1 DEF ParseStates
  <2> HIDE DEF q
  <2>5. ~InProgram(q)
    <3>1. <<"generic", "key">> # <<"exec", "cmdline">>
      OBVIOUS
    <3> QED BY <1>4, <2>4, <3>1 DEF InProgram
  <2>6. Parsed(q)
    BY <1>1, <2>1, <2>4, <2>5 DEF Parsed
  <2> QED BY <2>2, <2>3, <2>6 DEF GoodStates
<1>5. CASE /\ p.resource # <<"filesystem", "node">> /\ ~(p.resource = <<"generic", "key">> /\ ToSet(key) \subseteq Keys)
           /\ p.resource = <<"exec", "cmdline">> /\ Len(key) = 1 /\ key[1] \in Hashes
  <2> DEFINE e == [hash |-> key[1], mode |-> DefaultMode]
             new == Append(p.exec, e)
             q == [p EXCEPT !.at = "key", !.exec = new]
  <2>1. e \in ExecEntries
    BY <1>5, PolicyFileAssumption DEF ExecEntries
  <2>2. new \in Seq(ExecEntries) /\ ExecKept(exec, new) /\ Len(exec) < Len(new)
    BY <1>1, <1>2, <2>1, ExecAdded DEF Parsed
  <2>3. NewEntry(p, key) = q
    BY <1>5 DEF NewEntry
  <2> HIDE DEF new
  <2>4. q \in ParseStates
    BY <1>1, <2>2 DEF ParseStates, Places
  <2>5. /\ q.at = "key" /\ q.fs = p.fs /\ q.exec = new /\ q.generic = p.generic
        /\ q.resource = p.resource /\ q.field = p.field
    BY <1>1 DEF ParseStates
  <2> HIDE DEF q
  <2>6. Parsed(q)
    BY <1>1, <2>2, <2>5 DEF Parsed
  <2> QED BY <2>3, <2>4, <2>6 DEF GoodStates
<1>6. Fail(p) \in GoodStates
  BY MovedGood DEF Fail, Places
<1> QED BY <1>3, <1>4, <1>5, <1>6 DEF NewEntry

\* The name of a field.
LEMMA FieldGood ==
    ASSUME NEW p \in GoodStates, p.at \in {"fields", "flags"}, NEW word
    PROVE  Field(p, word) \in GoodStates
<1>1. p \in ParseStates /\ Parsed(p)
  BY DEF GoodStates
<1>2. CASE \/ p.resource = <<"filesystem", "node">> /\ word \in {"self", "children"}
           \/ p.resource = <<"exec", "cmdline">> /\ word = "mode"
  <2> DEFINE q == [p EXCEPT !.at = "verb", !.field = word]
  <2>1. word \in {"self", "children", "mode"} /\ (word = "mode" => p.resource = <<"exec", "cmdline">>)
    BY <1>2
  <2>2. Field(p, word) = q
    BY <1>2 DEF Field
  <2>3. q \in ParseStates
    BY <1>1, <2>1 DEF ParseStates, Places
  <2>4. /\ q.at = "verb" /\ q.fs = p.fs /\ q.exec = p.exec /\ q.generic = p.generic
        /\ q.resource = p.resource /\ q.field = word
    BY <1>1 DEF ParseStates
  <2> HIDE DEF q
  <2>5. InProgram(q) => InProgram(p)
    BY <2>4 DEF InProgram
  <2>6. Parsed(q)
    BY <1>1, <2>1, <2>4, <2>5 DEF Parsed
  <2> QED BY <2>2, <2>3, <2>6 DEF GoodStates
<1>3. Fail(p) \in GoodStates
  BY MovedGood DEF Fail, Places
<1> QED BY <1>2, <1>3 DEF Field

\* The verb of a field.
LEMMA VerbGood ==
    ASSUME TypeOK, NEW p \in GoodStates, p.at = "verb", NEW word
    PROVE  Verb(p, word) \in GoodStates
<1>1. p \in ParseStates /\ Parsed(p)
  BY DEF GoodStates
<1>2. CASE word \in Verbs /\ p.field = "mode"
  <2> DEFINE new == [p.exec EXCEPT ![Len(p.exec)].mode = word]
             q == [p EXCEPT !.at = "fields", !.exec = new]
  <2>1. p.exec \in Seq(ExecEntries) /\ exec \in Seq(ExecEntries)
    BY <1>1 DEF ParseStates, TypeOK
  <2>2. InProgram(p)
    BY <1>1, <1>2 DEF Parsed, InProgram
  <2>3. new \in Seq(ExecEntries) /\ ExecKept(exec, new) /\ Len(exec) < Len(new)
    BY <1>1, <1>2, <2>1, <2>2, ExecSet DEF Parsed
  <2>4. Verb(p, word) = q
    BY <1>2 DEF Verb
  <2> HIDE DEF new
  <2>5. q \in ParseStates
    BY <1>1, <2>3 DEF ParseStates, Places
  <2>6. /\ q.at = "fields" /\ q.fs = p.fs /\ q.exec = new /\ q.generic = p.generic
        /\ q.resource = p.resource /\ q.field = p.field
    BY <1>1 DEF ParseStates
  <2> HIDE DEF q
  <2>7. Parsed(q)
    BY <1>1, <2>3, <2>6 DEF Parsed
  <2> QED BY <2>4, <2>5, <2>7 DEF GoodStates
<1>3. CASE word \in Verbs /\ p.field # "mode"
  <2> DEFINE q == [p EXCEPT !.at = "flags", !.verb = word]
  <2>1. Verb(p, word) = q
    BY <1>3 DEF Verb
  <2>2. q \in ParseStates
    BY <1>1, <1>3 DEF ParseStates, Places
  <2>3. /\ q.at = "flags" /\ q.fs = p.fs /\ q.exec = p.exec /\ q.generic = p.generic
        /\ q.resource = p.resource /\ q.field = p.field
    BY <1>1 DEF ParseStates
  <2>4. p.field \in {"self", "children"}
    BY <1>1, <1>3 DEF ParseStates
  <2> HIDE DEF q
  <2>5. InProgram(q) => InProgram(p)
    BY <2>3 DEF InProgram
  <2>6. Parsed(q)
    BY <1>1, <2>3, <2>4, <2>5 DEF Parsed
  <2> QED BY <2>1, <2>2, <2>6 DEF GoodStates
<1>4. Fail(p) \in GoodStates
  BY MovedGood DEF Fail, Places
<1> QED BY <1>2, <1>3, <1>4 DEF Verb

\* A flag of a field.
LEMMA FlagGood ==
    ASSUME NEW p \in GoodStates, p.at = "flags", NEW flag
    PROVE  Flag(p, flag) \in GoodStates
<1>1. p \in ParseStates /\ Parsed(p)
  BY DEF GoodStates
<1>2. CASE flag \in FlagSet
  <2> DEFINE k == IndexOf(p.fs, p.path)
             new == [p.fs EXCEPT ![k][p.field][p.verb] = @ \cup {flag}]
             q == [p EXCEPT !.fs = new]
  <2>1. Flag(p, flag) = q
    BY <1>2 DEF Flag
  <2> HIDE DEF k
  <2>2. p.fs \in Seq(FsEntries) /\ p.field \in {"self", "children"} /\ p.verb \in Verbs
    BY <1>1 DEF ParseStates, Parsed
  <2>3. new \in Seq(FsEntries) /\ OnePerPath(new) /\ FsKept(p.fs, new)
    BY <1>1, <1>2, <2>2, FlagKeeps DEF Parsed
  <2> HIDE DEF new
  <2>4. FsKept(fs, new)
    BY <1>1, <2>3, FsKeptTwice DEF Parsed
  <2>5. q \in ParseStates
    BY <1>1, <2>3 DEF ParseStates
  <2>6. /\ q.at = "flags" /\ q.fs = new /\ q.exec = p.exec /\ q.generic = p.generic
        /\ q.resource = p.resource /\ q.field = p.field
    BY <1>1 DEF ParseStates
  <2> HIDE DEF q
  <2>7. InProgram(q) => InProgram(p)
    BY <2>6 DEF InProgram
  <2>8. Parsed(q)
    BY <1>1, <2>3, <2>4, <2>6, <2>7 DEF Parsed
  <2> QED BY <2>1, <2>5, <2>8 DEF GoodStates
<1>3. Fail(p) \in GoodStates
  BY MovedGood DEF Fail, Places
<1> QED BY <1>2, <1>3 DEF Flag

\* The two words that name a resource.
LEMMA ResourceGood ==
    ASSUME NEW p \in GoodStates, NEW place \in {"group", "resource"}, NEW name \in Texts
    PROVE  [p EXCEPT !.at = place, !.resource = name] \in GoodStates
<1> DEFINE q == [p EXCEPT !.at = place, !.resource = name]
<1>1. p \in ParseStates /\ Parsed(p)
  BY DEF GoodStates
<1>2. q \in ParseStates
  BY <1>1 DEF ParseStates, Places
<1>3. q.at = place /\ q.fs = p.fs /\ q.exec = p.exec /\ q.generic = p.generic
  BY <1>1 DEF ParseStates
<1> HIDE DEF q
<1>4. ~InProgram(q)
  BY <1>3 DEF InProgram
<1>5. Parsed(q)
  BY <1>1, <1>3, <1>4 DEF Parsed
<1> QED BY <1>2, <1>5 DEF GoodStates, q

\* permparser_parsenextresource, for every token in every place.
LEMMA ParseStepGood ==
    ASSUME TypeOK, NEW p \in GoodStates, NEW token \in TokenSet
    PROVE  ParseStep(p, token) \in GoodStates
<1>1. token.value \in Texts /\ p \in ParseStates /\ p.resource \in Texts
  BY DEF TokenSet, GoodStates, ParseStates
<1>2. Fail(p) \in GoodStates
  BY MovedGood DEF Fail, Places
<1>3. CASE p.at = "top" /\ token.type = "identifier"
  <2>1. ParseStep(p, token) = [p EXCEPT !.at = "group", !.resource = token.value]
    BY <1>3 DEF ParseStep
  <2> QED BY <1>1, <2>1, ResourceGood
<1>4. CASE p.at = "group" /\ token.type = "identifier"
  <2> DEFINE name == p.resource \o token.value
  <2>1. ParseStep(p, token) = [p EXCEPT !.at = "resource", !.resource = name]
    BY <1>4 DEF ParseStep
  <2>2. name \in Texts
    BY <1>1, Joined, Zenon
  <2> HIDE DEF name
  <2> QED BY <2>1, <2>2, ResourceGood
<1>5. CASE p.at = "resource" /\ token.type = "{"
  <2>1. ParseStep(p, token) = IF Known(p) THEN [p EXCEPT !.at = "entries"] ELSE Fail(p)
    BY <1>5 DEF ParseStep
  <2>2. [p EXCEPT !.at = "entries"] \in GoodStates
    BY MovedGood DEF Places
  <2> QED BY <1>2, <2>1, <2>2
<1>6. CASE p.at = "entries" /\ token.type = "}"
  <2>1. ParseStep(p, token) = [p EXCEPT !.at = "top"]
    BY <1>6 DEF ParseStep
  <2> QED BY <2>1, MovedGood DEF Places
<1>7. CASE p.at = "entries" /\ token.type = "string"
  <2>1. ParseStep(p, token) = NewEntry(p, token.value)
    BY <1>7 DEF ParseStep
  <2> QED BY <1>1, <1>7, <2>1, NewEntryGood
<1>8. CASE p.at = "key" /\ token.type = "{"
  <2>1. ParseStep(p, token) = [p EXCEPT !.at = "fields"]
    BY <1>8 DEF ParseStep
  <2>2. InProgram(p) \/ p.resource # <<"exec", "cmdline">>
    BY <1>8 DEF InProgram
  <2> QED BY <2>1, <2>2, MovedGood DEF Places
<1>9. CASE p.at = "flags" /\ token.type = "string"
  <2>1. ParseStep(p, token) = Flag(p, Head(token.value \o <<"NUL">>))
    BY <1>9 DEF ParseStep
  <2> QED BY <1>9, <2>1, FlagGood
<1>10. CASE p.at \in {"fields", "flags"} /\ token.type = "}"
  <2>1. ParseStep(p, token) = [p EXCEPT !.at = "entries"]
    BY <1>10 DEF ParseStep
  <2> QED BY <2>1, MovedGood DEF Places
<1>11. CASE p.at \in {"fields", "flags"} /\ token.type = "identifier"
  <2>1. ParseStep(p, token) = Field(p, token.value[1])
    BY <1>11 DEF ParseStep
  <2> QED BY <1>11, <2>1, FieldGood
<1>12. CASE p.at = "verb" /\ token.type = "identifier"
  <2>1. ParseStep(p, token) = Verb(p, token.value[1])
    BY <1>12 DEF ParseStep
  <2> QED BY <1>12, <2>1, VerbGood
<1>13. CASE /\ ~(p.at = "top" /\ token.type = "identifier")
            /\ ~(p.at = "group" /\ token.type = "identifier")
            /\ ~(p.at = "resource" /\ token.type = "{")
            /\ ~(p.at = "entries" /\ token.type = "}")
            /\ ~(p.at = "entries" /\ token.type = "string")
            /\ ~(p.at = "key" /\ token.type = "{")
            /\ ~(p.at = "flags" /\ token.type = "string")
            /\ ~(p.at \in {"fields", "flags"} /\ token.type = "}")
            /\ ~(p.at \in {"fields", "flags"} /\ token.type = "identifier")
            /\ ~(p.at = "verb" /\ token.type = "identifier")
  <2>1. ParseStep(p, token) = Fail(p)
    BY <1>13 DEF ParseStep
  <2> QED BY <1>2, <2>1
<1> QED BY <1>3, <1>4, <1>5, <1>6, <1>7, <1>8, <1>9, <1>10, <1>11, <1>12, <1>13

\* gh_permparser_parse, for every text.
LEMMA ParseGood ==
    ASSUME TypeOK, NEW cells \in Texts
    PROVE  Parse(cells) \in GoodStates
<1> DEFINE tokens == Tokens(cells)
           N == Len(tokens)
           start == [at |-> "top", resource |-> << >>, path |-> << >>, field |-> "mode", verb |-> "accept",
                     fs |-> fs, exec |-> exec, generic |-> generic]
           Step(p, token) == IF p.at = "error" THEN p ELSE ParseStep(p, token)
           Reads(f) == f = [n \in 0 .. N |-> IF n = 0 THEN start ELSE Step(f[n - 1], tokens[n])]
           parse == CHOOSE f : Reads(f)
<1>1. Parse(cells) = parse[N]
  BY DEF Parse
<1>2. N \in Nat /\ \A n \in 0 + 1 .. N : tokens[n] \in TokenSet
  <2>1. tokens \in Seq(TokenSet)
    BY TokensTyped
  <2> HIDE DEF tokens
  <2> QED BY <2>1
<1>3. start \in GoodStates
  <2>1. << >> \in Texts /\ "accept" \in Verbs
    BY Joined DEF Verbs
  <2>2. start \in ParseStates
    BY <2>1 DEF ParseStates, Places, TypeOK
  <2>3. OnePerPath(fs) /\ IsFiniteSet(generic)
    BY DEF TypeOK, OnePerPath
  <2>4. FsKept(fs, fs)
    BY DEF FsKept, Covers
  <2>5. ExecKept(exec, exec)
    <3>1. Len(exec) \in Nat
      BY LenProperties DEF TypeOK
    <3> QED BY <3>1 DEF ExecKept
  <2>6. /\ start.at = "top" /\ start.fs = fs /\ start.exec = exec /\ start.generic = generic
    OBVIOUS
  <2> HIDE DEF start
  <2>7. Parsed(start)
    BY <2>3, <2>4, <2>5, <2>6 DEF Parsed, InProgram
  <2> QED BY <2>2, <2>7 DEF GoodStates
<1> HIDE DEF tokens, N, start
<1> DEFINE Round == [x \in GoodStates \X (0 + 1 .. N) |-> Step(x[1], tokens[x[2]])]
<1>4. ASSUME NEW x \in GoodStates, NEW n \in 0 + 1 .. N PROVE Step(x, tokens[n]) \in GoodStates
  BY <1>2, ParseStepGood
<1>5. ASSUME NEW x \in GoodStates, NEW n \in 0 + 1 .. N PROVE Round[<<x, n>>] = Step(x, tokens[n])
  <2> HIDE DEF Step
  <2> QED OBVIOUS
<1> HIDE DEF Round, Step
<1>6. PICK g : Computes(g, start, Round, 0, N, GoodStates)
  <2>1. 0 \in Nat /\ N \in Nat /\ 0 <= N
    BY <1>2
  <2>2. \A x \in GoodStates, n \in 0 + 1 .. N : Round[<<x, n>>] \in GoodStates
    BY <1>4, <1>5
  <2> QED BY <1>3, <2>1, <2>2, Rounds
<1>7. Reads(g)
  <2>1. ASSUME NEW n \in 0 .. N PROVE g[n] = IF n = 0 THEN start ELSE Step(g[n - 1], tokens[n])
    <3>1. CASE n = 0
      BY <1>6, <3>1 DEF Computes
    <3>2. CASE n # 0
      <4>1. n \in 0 + 1 .. N /\ n - 1 \in 0 .. N
        BY <1>2, <3>2
      <4>2. g[n - 1] \in GoodStates /\ g[n] = Round[<<g[n - 1], n>>]
        BY <1>6, <3>2, <4>1 DEF Computes
      <4> QED BY <1>5, <3>2, <4>1, <4>2
    <3> QED BY <3>1, <3>2
  <2>2. g \in [0 .. N -> GoodStates]
    BY <1>6 DEF Computes
  <2> QED BY <2>1, <2>2
<1>8. Reads(parse)
  BY <1>7
<1> HIDE DEF parse
<1>9. \A n \in 0 .. N : parse[n] = IF n = 0 THEN start ELSE Step(parse[n - 1], tokens[n])
  BY <1>8
<1>10. parse[0] \in GoodStates
  BY <1>2, <1>3, <1>9
<1>11. ASSUME NEW n \in 0 + 1 .. N, parse[n - 1] \in GoodStates PROVE parse[n] \in GoodStates
  <2>1. n \in 0 .. N /\ n # 0
    OBVIOUS
  <2> QED BY <1>4, <1>9, <1>11, <2>1
<1>12. \A n \in 0 .. N : parse[n] \in GoodStates
  BY <1>2, <1>10, <1>11, StaysGood
<1> QED BY <1>1, <1>2, <1>12

----------------------------------------
(* What a policy means. *)

\* The mode of a program that has one stays when programs are added behind it.
LEMMA ModeKept ==
    ASSUME NEW old \in Seq(ExecEntries), NEW new \in Seq(ExecEntries), ExecKept(old, new), NEW hash,
           ExecMode(old, hash) # "none"
    PROVE  ExecMode(new, hash) = ExecMode(old, hash)
<1> DEFINE N == Len(old)
           M == Len(new)
           mine == {i \in DOMAIN old : old[i].hash = hash}
           theirs == {i \in DOMAIN new : new[i].hash = hash}
<1>1. /\ N \in Nat /\ M \in Nat /\ DOMAIN old = 1 .. N /\ DOMAIN new = 1 .. M
      /\ N <= M /\ \A i \in 1 .. N : new[i] = old[i]
  BY DEF ExecKept
<1>2. mine # {} /\ ExecMode(old, hash) = old[Min(mine)].mode
  BY DEF ExecMode
<1>3. ExecMode(new, hash) = IF theirs = {} THEN "none" ELSE new[Min(theirs)].mode
  BY DEF ExecMode
<1> HIDE DEF N, M
<1>4. mine \subseteq Nat /\ theirs \subseteq Nat /\ mine \subseteq theirs /\ mine \subseteq 1 .. N
  BY <1>1
<1>5. \A i \in theirs : i \in 1 .. N => i \in mine
  BY <1>1
<1> HIDE DEF mine, theirs
<1>6. PICK x \in mine : \A y \in mine : x <= y
  BY <1>2, <1>4, LeastNumber
<1>7. \A y \in theirs : x <= y
  <2> SUFFICES ASSUME NEW y \in theirs, ~(x <= y) PROVE FALSE
    OBVIOUS
  <2>1. y \in Nat /\ x \in 1 .. N
    BY <1>4, <1>6
  <2>2. CASE y = 0
    BY <1>1, <2>2 DEF theirs
  <2>3. CASE y # 0
    <3>1. y \in 1 .. N
      BY <1>1, <2>1, <2>3
    <3> QED BY <1>5, <1>6, <3>1
  <2> QED BY <2>2, <2>3
<1>8. Min(mine) = x /\ Min(theirs) = x
  <2>1. x \in theirs /\ x \in Nat
    BY <1>4, <1>6
  <2>2. \A T : (T \subseteq Nat /\ x \in T /\ \A y \in T : x <= y) => Min(T) = x
    <3> SUFFICES ASSUME NEW T, T \subseteq Nat, x \in T, \A y \in T : x <= y PROVE Min(T) = x
      OBVIOUS
    <3>1. \A z \in T : (\A y \in T : z <= y) => z = x
      OBVIOUS
    <3>2. \E z \in T : \A y \in T : z <= y
      OBVIOUS
    <3> QED BY <3>1, <3>2 DEF Min
  <2> QED BY <1>4, <1>6, <1>7, <2>1, <2>2
<1>9. theirs # {} /\ x \in 1 .. N
  BY <1>4, <1>6
<1> QED BY <1>1, <1>2, <1>3, <1>8, <1>9

\* A flag in one of the modesets of an entry is a permission.
LEMMA Granted ==
    ASSUME NEW policy, NEW e \in policy.fs, NEW scope \in {"self", "children"}, NEW verb \in Verbs,
           NEW flag \in e[scope][verb]
    PROVE  <<e.path, scope, verb, flag>> \in Grants(policy)
<1> DEFINE F(d, s, v) == {<<d.path, s, v, f>> : f \in d[s][v]}
           Sets == {F(d, s, v) : d \in policy.fs, s \in {"self", "children"}, v \in Verbs}
<1>1. <<e.path, scope, verb, flag>> \in F(e, scope, verb)
  OBVIOUS
<1>2. Grants(policy) = UNION Sets
  BY DEF Grants
<1> HIDE DEF F
<1>3. F(e, scope, verb) \in Sets
  OBVIOUS
<1> HIDE DEF Sets
<1> QED BY <1>1, <1>2, <1>3

\* If the lists keep what they hold, no permission is lost.
LEMMA ListsKept ==
    ASSUME TypeOK, TypeOK', FsKept(fs, fs'), ExecKept(exec, exec'), generic \subseteq generic'
    PROVE  NothingLost
<1>1. fs \in Seq(FsEntries) /\ exec \in Seq(ExecEntries) /\ exec' \in Seq(ExecEntries)
  BY DEF TypeOK
<1>2. Grants(Policy) \subseteq Grants(Policy')
  <2>1. Policy.fs = ToSet(fs) /\ Policy'.fs = ToSet(fs')
    BY DEF Policy, Meaning
  <2> SUFFICES ASSUME NEW e \in ToSet(fs), NEW scope \in {"self", "children"}, NEW verb \in Verbs,
                      NEW flag \in e[scope][verb]
               PROVE  <<e.path, scope, verb, flag>> \in Grants(Policy')
    BY <2>1 DEF Grants
  <2>2. PICK i \in DOMAIN fs : e = fs[i]
    BY DEF ToSet
  <2> DEFINE d == fs'[i]
  <2>3. i \in DOMAIN fs' /\ Covers(d, e)
    BY <2>2 DEF FsKept
  <2>4. d \in ToSet(fs')
    BY <2>3 DEF ToSet
  <2> HIDE DEF d
  <2>5. d.path = e.path /\ flag \in d[scope][verb]
    BY <2>3 DEF Covers
  <2> QED BY <2>1, <2>4, <2>5, Granted
<1>3. ASSUME NEW h \in Hashes, Policy.exec[h] # "none" PROVE Policy'.exec[h] = Policy.exec[h]
  <2>1. Policy.exec[h] = ExecMode(exec, h) /\ Policy'.exec[h] = ExecMode(exec', h)
    BY DEF Policy, Meaning
  <2> QED BY <1>1, <1>3, <2>1, ModeKept
<1> QED BY <1>2, <1>3 DEF NothingLost

----------------------------------------
(* The steps. *)

\* A policy that does not change is kept.
LEMMA SameKept ==
    ASSUME TypeOK, UNCHANGED policyVars
    PROVE  Kept
<1>1. fs' = fs /\ exec' = exec /\ generic' = generic
  BY DEF policyVars
<1>2. FsKept(fs, fs)
  BY DEF FsKept, Covers
<1>3. ExecKept(exec, exec)
  <2>1. Len(exec) \in Nat
    BY LenProperties DEF TypeOK
  <2> QED BY <2>1 DEF ExecKept
<1> QED BY <1>1, <1>2, <1>3 DEF Kept

\* Parts of a text.
LEMMA PartTyped ==
    ASSUME NEW cells \in Texts
    PROVE  /\ \A n \in 0 .. Len(cells) : SubSeq(cells, 1, n) \in Texts
           /\ \A n \in DOMAIN cells : RemoveAt(cells, n) \in Texts
<1>1. Len(cells) \in Nat /\ cells \in Seq(Cells) /\ DOMAIN cells = 1 .. Len(cells)
  BY DEF Texts
<1>2. ASSUME NEW a \in Nat, NEW b \in Nat, 1 <= a, b <= Len(cells) PROVE SubSeq(cells, a, b) \in Texts
  <2>1. \A i \in a .. b : i \in 1 .. Len(cells)
    BY <1>1, <1>2
  <2>2. \A i \in a .. b : cells[i] \in Cells
    BY <1>1, <2>1
  <2> QED BY <1>1, <1>2, <2>2, SubSeqProperties DEF Texts
<1>3. ASSUME NEW n \in 0 .. Len(cells) PROVE SubSeq(cells, 1, n) \in Texts
  BY <1>1, <1>2
<1>4. ASSUME NEW n \in DOMAIN cells PROVE RemoveAt(cells, n) \in Texts
  <2>1. SubSeq(cells, 1, n - 1) \in Texts
    BY <1>1, <1>2
  <2>2. SubSeq(cells, n + 1, Len(cells)) \in Texts
    BY <1>1, <1>2
  <2> QED BY <2>1, <2>2, Joined DEF RemoveAt
<1> QED BY <1>3, <1>4

\* Where a save begins.
LEMMA BaseTyped ==
    ASSUME TypeOK
    PROVE  Base \in Texts /\ Offset \in Nat /\ << >> \in Texts
<1>1. disk \in Texts /\ Len(disk) \in Nat
  BY LenProperties DEF TypeOK, Texts
<1> QED BY <1>1, Joined DEF Base, Offset

\* A save, whatever it writes, leaves a text.
LEMMA SaveTyped ==
    ASSUME TypeOK, Save \/ SaveFails \/ RestartInSave
    PROVE  disk' \in Texts
<1> DEFINE N == Len(Text)
<1>1. Text \in Texts /\ Base \in Texts /\ Offset \in Nat /\ << >> \in Texts
  BY TextTyped, BaseTyped
<1>2. N \in Nat /\ DOMAIN Text = 1 .. N
  BY <1>1 DEF Texts
<1>3. CASE Save
  <2>1. PICK begun \in Begun, cells \in Written : disk' = Write(begun.base, begun.offset, cells)
    BY <1>3 DEF Save
  <2>2. begun.base \in Texts /\ begun.offset \in Nat
    <3>1. \/ begun = [base |-> Base, offset |-> Offset]
          \/ \E n \in 1 .. N - 1 : begun = [base |-> << >>, offset |-> Offset + n]
      BY DEF Begun
    <3> HIDE DEF N
    <3> QED BY <1>1, <1>2, <3>1
  <2>3. cells \in Texts
    <3>1. cells = Text \/ \E n \in DOMAIN Text : cells = RemoveAt(Text, n)
      BY DEF Written
    <3> QED BY <1>1, <3>1, PartTyped
  <2> QED BY <2>1, <2>2, <2>3, WriteTyped
<1>4. CASE SaveFails
  BY <1>1, <1>4 DEF SaveFails
<1>5. CASE RestartInSave
  <2>1. PICK n \in 0 .. N - 1, rest \in {<< >>, <<"torn">>} :
            disk' = Write(Base, Offset, SubSeq(Text, 1, n) \o rest)
    BY <1>5 DEF RestartInSave
  <2>2. SubSeq(Text, 1, n) \in Texts
    <3>1. n \in 0 .. Len(Text)
      <4> HIDE DEF N
      <4>1. n \in 0 .. N
        BY <1>2
      <4> QED BY <4>1 DEF N
    <3> QED BY <1>1, <3>1, PartTyped
  <2>3. rest \in Texts
    <3>1. "torn" \in Cells
      BY PrintedCells DEF Printed
    <3>2. <<"torn">> \in Texts
      BY <3>1, Joined, Zenon
    <3> QED BY <1>1, <3>2
  <2>4. SubSeq(Text, 1, n) \o rest \in Texts
    BY <2>2, <2>3, Joined, Zenon
  <2> QED BY <1>1, <2>1, <2>4, WriteTyped
<1> QED BY <1>3, <1>4, <1>5

\* A load, whatever the file holds.
LEMMA LoadStep ==
    ASSUME TypeOK, Load
    PROVE  TypeOK' /\ Kept
<1> DEFINE p == Parse(disk)
<1>1. p \in GoodStates
  BY ParseGood DEF TypeOK, Texts
<1>2. /\ fs' = p.fs /\ exec' = p.exec /\ generic' = p.generic
      /\ result' = IF p.at = "top" THEN "OK" ELSE "ERROR"
      /\ UNCHANGED <<registered, habit, disk, written, whole, damaged, ops>>
  BY DEF Load, fileVars
<1> HIDE DEF p
<1>3. p \in ParseStates /\ Parsed(p)
  BY <1>1 DEF GoodStates
<1>4. p.fs \in Seq(FsEntries) /\ p.exec \in Seq(ExecEntries) /\ p.generic \subseteq Keys
  BY <1>3 DEF ParseStates
<1>5. Kept
  BY <1>2, <1>3 DEF Kept, Parsed
<1>6. TypeOK'
  BY <1>2, <1>3, <1>4 DEF TypeOK, Parsed, OnePerPath
<1> QED BY <1>5, <1>6

\* An addition to the policy.
LEMMA AddStep ==
    ASSUME TypeOK,
           \/ \E path \in Paths, rule \in Rules : AddRule(path, rule)
           \/ \E hash \in Hashes, mode \in {"accept", "reject"} : AddProgram(hash, mode)
           \/ \E key \in Keys : AddKey(key)
    PROVE  TypeOK' /\ Kept
<1>1. ops \in 0 .. MaxOps /\ MaxOps \in Nat
  BY PolicyFileAssumption DEF TypeOK
<1>2. ASSUME NEW path \in Paths, NEW rule \in Rules, AddRule(path, rule) PROVE TypeOK' /\ Kept
  <2> DEFINE new == AddTo(fs, path, rule.self, rule.children)
  <2>1. path \in Texts
    <3>1. path \in Seq(STRING)
      BY PolicyFileAssumption
    <3>2. Len(path) \in Nat /\ DOMAIN path = 1 .. Len(path)
      BY <3>1, LenProperties
    <3>3. ASSUME NEW i \in DOMAIN path PROVE path[i] \in Cells
      <4>1. path[i] \in ToSet(path)
        BY DEF ToSet
      <4>2. path[i] \in PathCells
        BY <4>1 DEF PathCells
      <4> QED BY <4>2 DEF Cells
    <3>4. path \in Seq(Cells)
      BY <3>1, <3>2, <3>3, SeqDef
    <3> QED BY <3>4 DEF Texts
  <2>2. rule.self \in Modesets /\ rule.children \in Modesets
    BY PolicyFileAssumption
  <2>3. new \in Seq(FsEntries) /\ OnePerPath(new) /\ FsKept(fs, new)
    BY <2>1, <2>2, AddToKeeps DEF TypeOK, OnePerPath
  <2>4. fs' = new /\ UNCHANGED <<exec, generic, registered, habit, disk, written, whole, damaged, result>>
        /\ ops' = ops + 1 /\ ops < MaxOps
    BY <1>2 DEF AddRule, Operation, fileVars
  <2> HIDE DEF new
  <2>5. TypeOK'
    BY <1>1, <2>3, <2>4 DEF TypeOK, OnePerPath
  <2>6. ExecKept(exec, exec)
    <3>1. Len(exec) \in Nat
      BY LenProperties DEF TypeOK
    <3> QED BY <3>1 DEF ExecKept
  <2>7. Kept
    BY <2>3, <2>4, <2>6 DEF Kept
  <2> QED BY <2>5, <2>7
<1>3. ASSUME NEW hash \in Hashes, NEW mode \in {"accept", "reject"}, AddProgram(hash, mode)
      PROVE  TypeOK' /\ Kept
  <2> DEFINE e == [hash |-> hash, mode |-> mode]
  <2>1. e \in ExecEntries
    BY DEF ExecEntries, Verbs
  <2>2. exec' = Append(exec, e) /\ UNCHANGED <<fs, generic, registered, habit, disk, written, whole, damaged, result>>
        /\ ops' = ops + 1 /\ ops < MaxOps
    BY <1>3 DEF AddProgram, Operation, fileVars
  <2> HIDE DEF e
  <2>3. ExecKept(exec, exec)
    <3>1. Len(exec) \in Nat
      BY LenProperties DEF TypeOK
    <3> QED BY <3>1 DEF ExecKept
  <2>4. exec' \in Seq(ExecEntries) /\ ExecKept(exec, exec')
    BY <2>1, <2>2, <2>3, ExecAdded DEF TypeOK
  <2>5. TypeOK'
    BY <1>1, <2>2, <2>4 DEF TypeOK
  <2>6. Kept
    BY <2>2, <2>4 DEF Kept, FsKept, Covers
  <2> QED BY <2>5, <2>6
<1>4. ASSUME NEW key \in Keys, AddKey(key) PROVE TypeOK' /\ Kept
  <2>1. generic' = generic \cup {key} /\ UNCHANGED <<fs, exec, registered, habit, disk, written, whole, damaged, result>>
        /\ ops' = ops + 1 /\ ops < MaxOps
    BY <1>4 DEF AddKey, Operation, fileVars
  <2>2. generic' \subseteq Keys /\ IsFiniteSet(generic')
    BY <2>1, FS_AddElement DEF TypeOK
  <2>3. TypeOK'
    BY <1>1, <2>1, <2>2 DEF TypeOK
  <2>4. ExecKept(exec, exec)
    <3>1. Len(exec) \in Nat
      BY LenProperties DEF TypeOK
    <3> QED BY <3>1 DEF ExecKept
  <2>5. Kept
    BY <2>1, <2>4 DEF Kept, FsKept, Covers
  <2> QED BY <2>3, <2>5
<1> QED BY <1>2, <1>3, <1>4

\* A new process has no policy.
LEMMA StartTyped ==
    ASSUME TypeOK, Start, disk' \in Texts, habit' = habit, whole' \in BOOLEAN, damaged' \subseteq Damages,
           ops' \in 0 .. MaxOps
    PROVE  TypeOK' /\ result' = "none"
<1>1. IsFiniteSet({}) /\ << >> \in Seq(FsEntries) /\ << >> \in Seq(ExecEntries)
  BY FS_EmptySet
<1>2. fs' = << >> /\ exec' = << >> /\ generic' = {} /\ registered' = FALSE /\ result' = "none"
  BY DEF Start
<1>3. \A i, j \in DOMAIN fs' : fs'[i].path = fs'[j].path => i = j
  <2>1. DOMAIN fs' = {}
    BY <1>2
  <2> QED BY <2>1
<1> QED BY <1>1, <1>2, <1>3, Zenon DEF TypeOK, Texts

\* Every step keeps the types, and the policy or ends the process.
LEMMA TypedStep ==
    ASSUME TypeOK, [Next]_vars
    PROVE  TypeOK' /\ (Kept \/ result' = "none")
<1>0. ops \in 0 .. MaxOps /\ MaxOps \in Nat /\ << >> \in Texts /\ disk \in Texts
  BY PolicyFileAssumption, Joined DEF TypeOK, Texts
<1>1. CASE UNCHANGED vars
  <2>1. UNCHANGED policyVars
    BY <1>1 DEF vars, policyVars
  <2>2. TypeOK'
    BY <1>1 DEF vars, TypeOK
  <2> QED BY <2>1, <2>2, SameKept
<1>2. CASE RegisterGeneric
  <2>1. UNCHANGED policyVars
    BY <1>2 DEF RegisterGeneric
  <2>2. TypeOK'
    BY <1>2 DEF RegisterGeneric, policyVars, fileVars, TypeOK
  <2> QED BY <2>1, <2>2, SameKept
<1>3. CASE Load
  BY <1>3, LoadStep
<1>4. CASE \/ \E path \in Paths, rule \in Rules : AddRule(path, rule)
           \/ \E hash \in Hashes, mode \in {"accept", "reject"} : AddProgram(hash, mode)
           \/ \E key \in Keys : AddKey(key)
  BY <1>4, AddStep
<1>5. CASE Save \/ SaveFails
  <2>1. disk' \in Texts
    BY <1>5, SaveTyped
  <2>2. UNCHANGED policyVars /\ UNCHANGED <<registered, result, habit>> /\ whole' = TRUE
        /\ ops' = ops + 1 /\ ops < MaxOps /\ damaged' \subseteq Damages
    BY <1>5 DEF Save, SaveFails, KeepMemory, Operation, TypeOK, Damage, Damages
  <2>3. TypeOK'
    BY <1>0, <2>1, <2>2 DEF policyVars, TypeOK, Texts
  <2> QED BY <2>2, <2>3, SameKept
<1>6. CASE RestartInSave
  <2>1. disk' \in Texts
    BY <1>6, SaveTyped
  <2>2. Start /\ habit' = habit /\ whole' = FALSE /\ ops' = ops + 1 /\ ops < MaxOps /\ damaged' \subseteq Damages
    BY <1>6 DEF RestartInSave, Operation, TypeOK, Damages
  <2>3. ops' \in 0 .. MaxOps /\ whole' \in BOOLEAN
    <3>1. ops' \in 0 .. MaxOps
      <4>1. ops' = ops + 1 /\ ops < MaxOps
        BY <2>2
      <4> QED BY <1>0, <4>1
    <3>2. whole' \in BOOLEAN
      BY <2>2, Zenon
    <3> QED BY <3>1, <3>2
  <2> QED BY <2>1, <2>2, <2>3, StartTyped, Zenon
<1>7. CASE Restart \/ Discard
  <2>1. Start /\ habit' = habit /\ disk' \in Texts /\ whole' \in BOOLEAN /\ ops' = ops /\ damaged' \subseteq Damages
    BY <1>0, <1>7 DEF Restart, Discard, fileVars, TypeOK
  <2> QED BY <1>0, <2>1, StartTyped
<1> QED BY <1>1, <1>2, <1>3, <1>4, <1>5, <1>6, <1>7 DEF Next

----------------------------------------
\* The policy stays well typed, with one entry for a path and no key that the generic
\* permission system does not know, and the file is a text: after every sequence of
\* additions, saves, torn saves, restarts and loads.
THEOREM FileTyped == Spec => []TypeOK
<1>1. Init => TypeOK
  <2> SUFFICES ASSUME Init PROVE TypeOK
    OBVIOUS
  <2>1. IsFiniteSet({}) /\ << >> \in Seq(FsEntries) /\ << >> \in Seq(ExecEntries) /\ << >> \in Seq(Cells)
    BY FS_EmptySet
  <2>2. 0 \in 0 .. MaxOps
    BY PolicyFileAssumption
  <2>3. \A i, j \in DOMAIN fs : fs[i].path = fs[j].path => i = j
    <3>1. DOMAIN fs = {}
      BY DEF Init
    <3> QED BY <3>1
  <2> QED BY <2>1, <2>2, <2>3, Zenon DEF Init, TypeOK
<1>2. TypeOK /\ [Next]_vars => TypeOK'
  BY TypedStep
<1> QED BY <1>1, <1>2, PTL DEF Spec

\* Nothing is taken out of the policy of a living process: not by gh_permparser_parse,
\* whatever the file holds and wherever it stops, and not by gh_permfs_add.
THEOREM NothingTakenOut == Spec => PolicyKept
<1>1. TypeOK /\ TypeOK' /\ [Next]_vars => [NothingLost \/ result' = "none"]_vars
  <2> SUFFICES ASSUME TypeOK, TypeOK', [Next]_vars PROVE NothingLost \/ result' = "none"
    OBVIOUS
  <2>1. Kept \/ result' = "none"
    BY TypedStep
  <2>2. Kept => NothingLost
    BY ListsKept DEF Kept
  <2> QED BY <2>1, <2>2
<1> QED BY <1>1, FileTyped, PTL DEF Spec, PolicyKept

----------------------------------------
(* A machine that reads a sequence: step[<<state, item>>] is its next state. *)

\* Every machine has a run over every sequence, which leads from state to state.
LEMMA FoldRuns ==
    ASSUME NEW S, NEW C, NEW step, Machine(S, C, step), NEW s \in S, NEW seq \in Seq(C)
    PROVE  \E f : Run(S, f, step, s, seq)
<1> DEFINE N == Len(seq)
           Is(f) == f = [n \in 0 .. N |-> IF n = 0 THEN s ELSE step[<<f[n - 1], seq[n]>>]]
           run == CHOOSE f : Is(f)
<1>1. Fold(step, s, seq) = run[N]
  BY DEF Fold
<1>2. N \in Nat /\ \A n \in 0 + 1 .. N : seq[n] \in C
  OBVIOUS
<1> HIDE DEF N
<1>3. \A x \in S, c \in C : step[<<x, c>>] \in S
  BY DEF Machine
<1> DEFINE Round == [x \in S \X (0 + 1 .. N) |-> step[<<x[1], seq[x[2]]>>]]
<1>4. \A x \in S, n \in 0 + 1 .. N : Round[<<x, n>>] = step[<<x, seq[n]>>]
  OBVIOUS
<1> HIDE DEF Round
<1>5. \A x \in S, n \in 0 + 1 .. N : Round[<<x, n>>] \in S
  BY <1>2, <1>3, <1>4
<1>6. PICK g : Computes(g, s, Round, 0, N, S)
  <2>1. 0 \in Nat /\ N \in Nat /\ 0 <= N
    BY <1>2
  <2> QED BY <1>5, <2>1, Rounds
<1>7. g \in [0 .. N -> S] /\ \A n \in 0 .. N : g[n] = IF n = 0 THEN s ELSE step[<<g[n - 1], seq[n]>>]
  <2>1. ASSUME NEW n \in 0 .. N, n # 0 PROVE g[n] = step[<<g[n - 1], seq[n]>>]
    <3>1. n \in 0 + 1 .. N /\ n - 1 \in 0 .. N
      BY <1>2, <2>1
    <3>2. g[n - 1] \in S /\ g[n] = Round[<<g[n - 1], n>>]
      BY <1>6, <2>1, <3>1 DEF Computes
    <3> QED BY <1>4, <3>1, <3>2
  <2> QED BY <1>6, <2>1 DEF Computes
<1>8. Is(g)
  BY <1>7
<1>9. Is(run)
  BY <1>8
<1> HIDE DEF run
<1>10. \A n \in 0 .. N : run[n] = IF n = 0 THEN s ELSE step[<<run[n - 1], seq[n]>>]
  BY <1>9
<1>11. run[0] = s
  <2>1. 0 \in 0 .. N
    BY <1>2
  <2> QED BY <1>10, <2>1
<1>12. ASSUME NEW n \in 1 .. N PROVE run[n] = step[<<run[n - 1], seq[n]>>]
  BY <1>2, <1>10
<1>13. \A n \in 0 .. N : run[n] \in S
  <2>1. ASSUME NEW n \in 0 + 1 .. N, run[n - 1] \in S PROVE run[n] \in S
    <3>1. n \in 1 .. N /\ seq[n] \in C
      BY <1>2
    <3> QED BY <1>3, <1>12, <2>1, <3>1
  <2>2. 0 \in Nat /\ N \in Nat /\ run[0] \in S
    BY <1>2, <1>11
  <2> QED BY <2>1, <2>2, StaysGood
<1>14. DOMAIN run = 0 .. N /\ run = [n \in 0 .. N |-> run[n]]
  BY <1>9
<1>15. run \in [0 .. N -> S]
  BY <1>13, <1>14
<1>16. Path(run, step, s, seq)
  BY <1>11, <1>12 DEF Path, N
<1> QED BY <1>1, <1>15, <1>16 DEF N, Run

\* It has only one.
LEMMA FoldIs ==
    ASSUME NEW S, NEW C, NEW step, Machine(S, C, step), NEW s \in S, NEW seq \in Seq(C),
           NEW g, Path(g, step, s, seq)
    PROVE  Fold(step, s, seq) = g[Len(seq)]
<1>1. PICK f : Run(S, f, step, s, seq)
  BY FoldRuns
<1> DEFINE N == Len(seq)
           Differ == {n \in 0 .. N : f[n] # g[n]}
<1>2. N \in Nat
  OBVIOUS
<1>3. /\ f[0] = g[0]
      /\ \A n \in 1 .. N : f[n] = step[<<f[n - 1], seq[n]>>] /\ g[n] = step[<<g[n - 1], seq[n]>>]
  BY <1>1 DEF Path, Run
<1> HIDE DEF N
<1>4. Differ = {}
  <2>1. SUFFICES ASSUME Differ # {} PROVE FALSE
    OBVIOUS
  <2>2. Differ \subseteq Nat
    BY <1>2
  <2>3. PICK n \in Differ : \A m \in Differ : n <= m
    BY <2>1, <2>2, LeastNumber
  <2>4. n \in 0 .. N /\ f[n] # g[n] /\ n # 0
    BY <1>3, <2>3
  <2>5. n \in 1 .. N /\ n - 1 \in 0 .. N /\ ~(n <= n - 1)
    BY <1>2, <2>4
  <2>6. f[n - 1] = g[n - 1]
    BY <2>3, <2>5
  <2> QED BY <1>3, <2>4, <2>5, <2>6
<1> QED BY <1>1, <1>2, <1>4 DEF N, Run

\* Nothing to read, one item, one sequence behind another.
LEMMA FoldParts ==
    ASSUME NEW S, NEW C, NEW step, Machine(S, C, step), NEW s \in S
    PROVE  /\ Fold(step, s, << >>) = s
           /\ \A c \in C : Fold(step, s, <<c>>) = step[<<s, c>>]
           /\ \A a \in Seq(C) : Fold(step, s, a) \in S
           /\ \A a, b \in Seq(C) : Fold(step, s, a \o b) = Fold(step, Fold(step, s, a), b)
<1>1. Fold(step, s, << >>) = s
  <2>1. << >> \in Seq(C) /\ Len(<< >>) = 0
    OBVIOUS
  <2> DEFINE g == [n \in {0} |-> s]
  <2>2. g[0] = s
    OBVIOUS
  <2>3. Path(g, step, s, << >>)
    BY <2>1, <2>2 DEF Path
  <2> HIDE DEF g
  <2> DEFINE e == << >>
  <2>4. e \in Seq(C) /\ Path(g, step, s, e)
    BY <2>1, <2>3
  <2> HIDE DEF e
  <2>5. Fold(step, s, e) = g[Len(e)]
    BY <2>4, FoldIs
  <2> QED BY <2>1, <2>2, <2>5 DEF e
<1>2. ASSUME NEW c \in C PROVE Fold(step, s, <<c>>) = step[<<s, c>>]
  <2>1. <<c>> \in Seq(C) /\ Len(<<c>>) = 1 /\ <<c>>[1] = c
    OBVIOUS
  <2> DEFINE g == [n \in 0 .. 1 |-> IF n = 0 THEN s ELSE step[<<s, c>>]]
  <2>2. g[0] = s /\ g[1] = step[<<s, c>>] /\ 1 - 1 = 0
    OBVIOUS
  <2> HIDE DEF g
  <2>3. Path(g, step, s, <<c>>)
    BY <2>1, <2>2 DEF Path
  <2>4. Fold(step, s, <<c>>) = g[Len(<<c>>)]
    <3> DEFINE one == <<c>>
    <3>1. one \in Seq(C) /\ Path(g, step, s, one)
      BY <2>1, <2>3
    <3> HIDE DEF one
    <3>2. Fold(step, s, one) = g[Len(one)]
      BY <3>1, FoldIs
    <3> QED BY <3>2 DEF one
  <2> QED BY <2>1, <2>2, <2>4
<1>3. ASSUME NEW a \in Seq(C) PROVE Fold(step, s, a) \in S
  <2>1. PICK f : Run(S, f, step, s, a)
    BY FoldRuns
  <2>2. Len(a) \in 0 .. Len(a)
    OBVIOUS
  <2> QED BY <2>1, <2>2 DEF Run
<1>4. ASSUME NEW a \in Seq(C), NEW b \in Seq(C)
      PROVE  Fold(step, s, a \o b) = Fold(step, Fold(step, s, a), b)
  <2> DEFINE m == Len(a)
             k == Len(b)
             t == Fold(step, s, a)
             ab == a \o b
  <2>1. PICK f : Run(S, f, step, s, a)
    BY FoldRuns
  <2>2. t \in S
    BY <1>3
  <2> HIDE DEF t
  <2>3. PICK g : Run(S, g, step, t, b)
    BY <2>2, FoldRuns
  <2>4. m \in Nat /\ k \in Nat /\ ab \in Seq(C) /\ Len(ab) = m + k
        /\ \A i \in 1 .. m + k : ab[i] = IF i <= m THEN a[i] ELSE b[i - m]
    BY ConcatProperties
  <2>5. /\ f[0] = s /\ f[m] = t /\ g[0] = t
        /\ \A n \in 1 .. m : f[n] = step[<<f[n - 1], a[n]>>]
        /\ \A n \in 1 .. k : g[n] = step[<<g[n - 1], b[n]>>]
    BY <2>1, <2>3 DEF Path, Run, t
  <2>6. Fold(step, t, b) = g[k]
    BY <2>3 DEF Run
  <2> HIDE DEF m, k, ab
  <2> DEFINE h == [n \in 0 .. m + k |-> IF n <= m THEN f[n] ELSE g[n - m]]
  <2>7. \A n \in 0 .. m + k : h[n] = IF n <= m THEN f[n] ELSE g[n - m]
    OBVIOUS
  <2> HIDE DEF h
  <2>8. h[0] = s
    BY <2>4, <2>5, <2>7
  <2>9. ASSUME NEW n \in 1 .. m + k PROVE h[n] = step[<<h[n - 1], ab[n]>>]
    <3>1. CASE n <= m
      <4>1. n \in 1 .. m /\ n \in 0 .. m + k /\ n - 1 \in 0 .. m + k /\ n - 1 <= m
        BY <2>4, <3>1
      <4>2. h[n] = f[n] /\ h[n - 1] = f[n - 1] /\ ab[n] = a[n]
        BY <2>4, <2>7, <3>1, <4>1
      <4> QED BY <2>5, <4>1, <4>2
    <3>2. CASE n = m + 1
      <4>1. n \in 0 .. m + k /\ n - 1 \in 0 .. m + k /\ n - 1 = m /\ n - m = 1 /\ ~(n <= m) /\ 1 \in 1 .. k
        BY <2>4, <3>2
      <4>2. h[n] = g[1] /\ h[n - 1] = f[m] /\ ab[n] = b[1]
        BY <2>4, <2>7, <4>1
      <4>3. g[1] = step[<<g[1 - 1], b[1]>>] /\ 1 - 1 = 0
        BY <2>5, <4>1
      <4> QED BY <2>5, <4>2, <4>3
    <3>3. CASE n > m + 1
      <4>1. /\ n \in 0 .. m + k /\ n - 1 \in 0 .. m + k /\ ~(n <= m) /\ ~(n - 1 <= m)
            /\ n - m \in 1 .. k /\ (n - 1) - m = (n - m) - 1
        BY <2>4, <3>3
      <4>2. h[n] = g[n - m] /\ h[n - 1] = g[(n - m) - 1] /\ ab[n] = b[n - m]
        BY <2>4, <2>7, <4>1
      <4> QED BY <2>5, <4>1, <4>2
    <3> QED BY <2>4, <3>1, <3>2, <3>3
  <2>10. Path(h, step, s, ab)
    BY <2>4, <2>8, <2>9 DEF Path
  <2>11. Fold(step, s, ab) = h[Len(ab)]
    <3>1. ab \in Seq(C)
      BY <2>4
    <3> QED BY <2>10, <3>1, FoldIs
  <2>12. h[m + k] = g[k]
    <3>1. m + k \in 0 .. m + k
      BY <2>4
    <3>2. CASE k = 0
      BY <2>4, <2>5, <2>7, <3>1, <3>2
    <3>3. CASE k # 0
      <4>1. ~(m + k <= m) /\ (m + k) - m = k
        BY <2>4, <3>3
      <4> QED BY <2>7, <3>1, <4>1
    <3> QED BY <3>2, <3>3
  <2> QED BY <2>4, <2>6, <2>11, <2>12 DEF ab, t
<1> QED BY <1>1, <1>2, <1>3, <1>4

\* Two machines that read the same sequence, and a relation that each item preserves.
LEMMA FoldsRelated ==
    ASSUME NEW S, NEW T, NEW C, NEW step, Machine(S, C, step), NEW pace, Machine(T, C, pace),
           NEW s \in S, NEW t \in T, NEW seq \in Seq(C), NEW R, <<s, t>> \in R,
           \A x \in S, y \in T, c \in C : <<x, y>> \in R => <<step[<<x, c>>], pace[<<y, c>>]>> \in R
    PROVE  <<Fold(step, s, seq), Fold(pace, t, seq)>> \in R
<1>1. PICK f : Run(S, f, step, s, seq)
  BY FoldRuns
<1>2. PICK g : Run(T, g, pace, t, seq)
  BY FoldRuns
<1> DEFINE N == Len(seq)
           both == [n \in 0 .. N |-> <<f[n], g[n]>>]
<1>3. N \in Nat /\ \A n \in 1 .. N : seq[n] \in C
  OBVIOUS
<1>4. /\ f[0] = s /\ g[0] = t
      /\ \A n \in 1 .. N : f[n] = step[<<f[n - 1], seq[n]>>] /\ g[n] = pace[<<g[n - 1], seq[n]>>]
  BY <1>1, <1>2 DEF Path, Run
<1>5. \A n \in 0 .. N : both[n] = <<f[n], g[n]>> /\ f[n] \in S /\ g[n] \in T
  BY <1>1, <1>2 DEF Run
<1> HIDE DEF N, both
<1>6. both[0] \in R
  <2>1. 0 \in 0 .. N
    BY <1>3
  <2>2. both[0] = <<s, t>>
    BY <1>4, <1>5, <2>1, Zenon
  <2> QED BY <2>2
<1>7. ASSUME NEW n \in 0 + 1 .. N, both[n - 1] \in R PROVE both[n] \in R
  <2>1. n \in 1 .. N /\ n \in 0 .. N /\ n - 1 \in 0 .. N
    BY <1>3
  <2>2. <<f[n - 1], g[n - 1]>> \in R /\ f[n - 1] \in S /\ g[n - 1] \in T /\ seq[n] \in C
    BY <1>3, <1>5, <1>7, <2>1
  <2>3. <<step[<<f[n - 1], seq[n]>>], pace[<<g[n - 1], seq[n]>>]>> \in R
    BY <2>2
  <2> QED BY <1>4, <1>5, <2>1, <2>3
<1>8. \A n \in 0 .. N : both[n] \in R
  <2>1. 0 \in Nat /\ N \in Nat
    BY <1>3
  <2> QED BY <1>6, <1>7, <2>1, StaysGood
<1>9. N \in 0 .. N
  BY <1>3
<1>10. both[N] \in R /\ both[N] = <<f[N], g[N]>>
  BY <1>5, <1>8, <1>9
<1> QED BY <1>1, <1>2, <1>10 DEF N, Run

----------------------------------------
(* What reading comes to: the parser's place in the grammar, which does not *)
(* depend on the policy, and the paths, permissions, programs and keys that *)
(* it brings in.                                                            *)

\* The three resources differ.
LEMMA ResourcesDiffer ==
    /\ FsResource # ExecResource /\ FsResource # GenericResource /\ ExecResource # GenericResource
    /\ FsResource \in Texts /\ ExecResource \in Texts /\ GenericResource \in Texts
<1>1. {"filesystem", "node", "exec", "cmdline", "generic", "key"} \subseteq Cells
  BY PrintedCells DEF Printed
<1>2. FsResource \in Texts /\ ExecResource \in Texts /\ GenericResource \in Texts
  BY <1>1, Joined DEF FsResource, ExecResource, GenericResource
<1>3. FsResource[1] = "filesystem" /\ ExecResource[1] = "exec" /\ GenericResource[1] = "generic"
  BY DEF FsResource, ExecResource, GenericResource
<1> QED BY <1>2, <1>3

\* Places are records.
LEMMA PlaceTyped ==
    ASSUME NEW at \in Places, NEW resource \in Texts, NEW path \in Texts,
           NEW field \in {"self", "children", "mode"}, NEW verb \in Verbs
    PROVE  /\ Ctl(at, resource, path, field, verb) \in Places5
           /\ Heading(at, resource) \in Places5 /\ Inside(at, resource, path) \in Places5
           /\ AtVerb(resource, path, field) \in Places5
           /\ Top \in Places5 /\ Err \in Places5
<1>1. \A a \in Places, q, w \in Texts, f \in {"self", "children", "mode"}, v \in Verbs : Ctl(a, q, w, f, v) \in Places5
  BY DEF Ctl, Places5
<1>2. << >> \in Texts /\ "accept" \in Verbs /\ "mode" \in {"self", "children", "mode"}
      /\ "verb" \in Places /\ "top" \in Places /\ "error" \in Places
  BY Joined DEF Verbs, Places
<1> QED BY <1>1, <1>2, Zenon DEF Heading, Inside, AtVerb, Top, Err

\* The next place is one.
LEMMA ControlTyped ==
    ASSUME NEW r, NEW c \in Places5, NEW token \in TokenSet
    PROVE  Control(r, c, token) \in Places5
<1>1. /\ c.at \in Places /\ c.resource \in Texts /\ c.path \in Texts
      /\ c.field \in {"self", "children", "mode"} /\ c.verb \in Verbs /\ token.value \in Texts
      /\ << >> \in Texts /\ c.resource \o token.value \in Texts
  <2>1. /\ c.at \in Places /\ c.resource \in Texts /\ c.path \in Texts
        /\ c.field \in {"self", "children", "mode"} /\ c.verb \in Verbs /\ token.value \in Texts
    BY DEF Places5, TokenSet
  <2> QED BY <2>1, Joined, Zenon
<1>2. Places = {"top", "group", "resource", "entries", "key", "fields", "flags", "verb", "error"}
      /\ "accept" \in Verbs
  BY DEF Places, Verbs
<1>3. \A w : FieldFits(c.resource, w) => w \in {"self", "children", "mode"}
  BY DEF FieldFits
<1>4. /\ Top \in Places5 /\ Err \in Places5
      /\ \A at \in Places, q \in Texts : Heading(at, q) \in Places5
      /\ \A at \in Places, q, w \in Texts : Inside(at, q, w) \in Places5
      /\ \A q, w \in Texts, f \in {"self", "children", "mode"} : AtVerb(q, w, f) \in Places5
      /\ \A q, w \in Texts, f \in {"self", "children", "mode"}, v \in Verbs : Ctl("flags", q, w, f, v) \in Places5
  <2>1. "flags" \in Places /\ "top" \in Places /\ "accept" \in Verbs /\ "mode" \in {"self", "children", "mode"}
    BY <1>2
  <2> QED BY <1>1, <2>1, PlaceTyped, Zenon
<1> HIDE DEF Places5
<1> QED BY <1>1, <1>2, <1>3, <1>4 DEF Control

\* The last program with another mode.
LEMMA LastSet ==
    ASSUME NEW list \in Seq(ExecEntries), NEW mode \in Verbs
    PROVE  /\ SetLast(list, mode) \in Seq(ExecEntries) /\ Len(SetLast(list, mode)) = Len(list)
           /\ \A i \in 1 .. Len(list) :
                SetLast(list, mode)[i] = IF i = Len(list) THEN [hash |-> list[i].hash, mode |-> mode] ELSE list[i]
<1> DEFINE n == Len(list)
           e == [list[n] EXCEPT !.mode = mode]
<1>1. SetLast(list, mode) = [list EXCEPT ![n] = e]
  BY DEF SetLast
<1>2. n \in Nat /\ \A i \in 1 .. n : list[i] \in ExecEntries
  OBVIOUS
<1>3. n > 0 => e \in ExecEntries /\ e = [hash |-> list[n].hash, mode |-> mode]
  BY <1>2 DEF ExecEntries
<1> HIDE DEF e
<1>4. CASE n = 0
  <2>1. SetLast(list, mode) = list
    BY <1>1, <1>4
  <2> QED BY <1>2, <1>4, <2>1
<1>5. CASE n > 0
  BY <1>1, <1>2, <1>3, <1>5
<1> QED BY <1>2, <1>4, <1>5

\* So is what is read.
LEMMA EffectTyped ==
    ASSUME NEW c \in Places5, NEW token \in TokenSet, NEW pol \in Pols
    PROVE  Effect(c, token, pol) \in Pols
<1> DEFINE G == Texts \X Scopes \X Verbs \X FlagSet
<1>1. /\ pol.paths \in SUBSET Texts /\ pol.grants \in SUBSET G /\ pol.exec \in Seq(ExecEntries)
      /\ pol.generic \in SUBSET Keys /\ token.value \in Texts /\ c.path \in Texts /\ c.verb \in Verbs
  BY DEF Pols, Places5, TokenSet
<1>2. \A a \in SUBSET Texts, b \in SUBSET G, e \in Seq(ExecEntries), k \in SUBSET Keys : Pol(a, b, e, k) \in Pols
  BY DEF Pol, Pols
<1>3. pol.paths \cup {token.value} \in SUBSET Texts
  BY <1>1
<1>4. ASSUME token.value[1] \in Hashes
      PROVE  Append(pol.exec, [hash |-> token.value[1], mode |-> DefaultMode]) \in Seq(ExecEntries)
  <2>1. [hash |-> token.value[1], mode |-> DefaultMode] \in ExecEntries
    BY <1>4, PolicyFileAssumption DEF ExecEntries
  <2> QED BY <1>1, <2>1, AppendProperties
<1>5. ASSUME token.value[1] \in Verbs PROVE SetLast(pol.exec, token.value[1]) \in Seq(ExecEntries)
  BY <1>1, <1>5, LastSet
<1>6. ASSUME FlagOf(token) \in FlagSet, c.field \in Scopes
      PROVE  pol.grants \cup {<<c.path, c.field, c.verb, FlagOf(token)>>} \in SUBSET G
  BY <1>1, <1>6
<1> HIDE DEF G, Pols
<1> QED BY <1>1, <1>2, <1>3, <1>4, <1>5, <1>6 DEF Effect

----------------------------------------
(* The parser's state as such a place and what was read. *)

\* What the places say.
LEMMA PlaceFields ==
    ASSUME NEW at, NEW resource, NEW path, NEW field, NEW verb
    PROVE  LET c == Ctl(at, resource, path, field, verb)
           IN  c.at = at /\ c.resource = resource /\ c.path = path /\ c.field = field /\ c.verb = verb
BY DEF Ctl

\* What is read.
LEMMA PolFields ==
    ASSUME NEW a, NEW b, NEW e, NEW k
    PROVE  LET pol == Pol(a, b, e, k)
           IN  pol.paths = a /\ pol.grants = b /\ pol.exec = e /\ pol.generic = k
BY DEF Pol

\* Permissions in a list.
LEMMA InGrants ==
    ASSUME NEW list, NEW path \in Texts, NEW scope \in Scopes, NEW verb \in Verbs, NEW flag \in FlagSet
    PROVE  <<path, scope, verb, flag>> \in GrantsOf(list) <=>
              \E i \in DOMAIN list : list[i].path = path /\ flag \in list[i][scope][verb]
BY DEF GrantsOf

\* Lists with the same permissions.
LEMMA SameGrants ==
    ASSUME NEW a, NEW b,
           \A path \in Texts, scope \in Scopes, verb \in Verbs, flag \in FlagSet :
              (\E i \in DOMAIN a : a[i].path = path /\ flag \in a[i][scope][verb]) <=>
              (\E i \in DOMAIN b : b[i].path = path /\ flag \in b[i][scope][verb])
    PROVE  GrantsOf(a) = GrantsOf(b)
<1>1. ASSUME NEW g \in Texts \X Scopes \X Verbs \X FlagSet
      PROVE  g \in GrantsOf(a) <=> g \in GrantsOf(b)
  <2>1. g[1] \in Texts /\ g[2] \in Scopes /\ g[3] \in Verbs /\ g[4] \in FlagSet
    OBVIOUS
  <2>2. /\ g \in GrantsOf(a) <=> \E i \in DOMAIN a : a[i].path = g[1] /\ g[4] \in a[i][g[2]][g[3]]
        /\ g \in GrantsOf(b) <=> \E i \in DOMAIN b : b[i].path = g[1] /\ g[4] \in b[i][g[2]][g[3]]
    BY DEF GrantsOf
  <2>3. (\E i \in DOMAIN a : a[i].path = g[1] /\ g[4] \in a[i][g[2]][g[3]]) <=>
        (\E i \in DOMAIN b : b[i].path = g[1] /\ g[4] \in b[i][g[2]][g[3]])
    BY <2>1
  <2> QED BY <2>2, <2>3
<1> QED BY <1>1 DEF GrantsOf

\* A new entry without permissions, or an existing one that takes none into its own.
LEMMA AddedPath ==
    ASSUME NEW list \in Seq(FsEntries), OnePerPath(list), NEW path \in Texts
    PROVE  LET new == AddTo(list, path, Empty, Empty)
           IN  PathsOf(new) = PathsOf(list) \cup {path} /\ GrantsOf(new) = GrantsOf(list)
<1> DEFINE new == AddTo(list, path, Empty, Empty)
<1>0. \A i \in DOMAIN list : list[i].self \in Modesets /\ list[i].children \in Modesets /\ list[i] \in FsEntries
  <2>1. \A i \in DOMAIN list : list[i] \in FsEntries
    OBVIOUS
  <2>2. \A e \in FsEntries : e.self \in Modesets /\ e.children \in Modesets
    BY DEF FsEntries
  <2> QED BY <2>1, <2>2
<1>1. CASE HasEntry(list, path)
  <2> DEFINE k == IndexOf(list, path)
  <2>1. k \in DOMAIN list /\ list[k].path = path
    BY <1>1 DEF HasEntry, IndexOf
  <2>2. new = [list EXCEPT ![k].self = Merge(Merge(list[k].self, Empty), Empty)]
    BY <1>1 DEF AddTo
  <2> HIDE DEF k
  <2>3. Merge(Merge(list[k].self, Empty), Empty) = list[k].self
    BY <1>0, <2>1 DEF Merge, Empty, Modesets
  <2>4. [list[k] EXCEPT !.self = list[k].self] = list[k]
    BY <1>0, <2>1 DEF FsEntries
  <2>5. new = list
    BY <2>1, <2>2, <2>3, <2>4
  <2> QED BY <2>1, <2>5 DEF PathsOf
<1>2. CASE ~HasEntry(list, path)
  <2> DEFINE e == [path |-> path, self |-> Empty, children |-> Empty]
             n == Len(list)
  <2>1. new = Append(list, e)
    BY <1>2 DEF AddTo
  <2>2. n \in Nat /\ DOMAIN list = 1 .. n /\ DOMAIN new = 1 .. n + 1 /\ new[n + 1] = e
        /\ \A i \in 1 .. n : new[i] = list[i]
    BY <2>1
  <2>3. e.path = path /\ \A scope \in Scopes, verb \in Verbs : e[scope][verb] = {}
    BY DEF Scopes, Empty
  <2> HIDE DEF n, e, new
  <2>4. PathsOf(new) = PathsOf(list) \cup {path}
    BY <2>2, <2>3 DEF PathsOf
  <2>5. ASSUME NEW w \in Texts, NEW scope \in Scopes, NEW verb \in Verbs, NEW flag \in FlagSet
        PROVE  (\E i \in DOMAIN new : new[i].path = w /\ flag \in new[i][scope][verb]) <=>
               (\E i \in DOMAIN list : list[i].path = w /\ flag \in list[i][scope][verb])
    <3>1. ASSUME NEW i \in DOMAIN new, new[i].path = w, flag \in new[i][scope][verb]
          PROVE  \E j \in DOMAIN list : list[j].path = w /\ flag \in list[j][scope][verb]
      <4>1. i # n + 1
        BY <2>2, <2>3, <3>1
      <4>2. i \in 1 .. n
        BY <2>2, <4>1
      <4> QED BY <2>2, <3>1, <4>2
    <3>2. ASSUME NEW i \in DOMAIN list, list[i].path = w, flag \in list[i][scope][verb]
          PROVE  \E j \in DOMAIN new : new[j].path = w /\ flag \in new[j][scope][verb]
      <4>1. i \in 1 .. n /\ i \in 1 .. n + 1
        BY <2>2
      <4> QED BY <2>2, <3>2, <4>1
    <3> QED BY <3>1, <3>2
  <2>6. GrantsOf(new) = GrantsOf(list)
    BY <2>5, SameGrants
  <2> QED BY <2>4, <2>6 DEF new
<1> QED BY <1>1, <1>2

\* It is one more permission.
LEMMA AddedFlag ==
    ASSUME NEW list \in Seq(FsEntries), OnePerPath(list), NEW path \in PathsOf(list), path \in Texts,
           NEW field \in Scopes, NEW verb \in Verbs, NEW flag \in FlagSet
    PROVE  LET new == WithFlag(list, path, field, verb, flag)
           IN  /\ PathsOf(new) = PathsOf(list)
               /\ GrantsOf(new) = GrantsOf(list) \cup {<<path, field, verb, flag>>}
<1> DEFINE k == IndexOf(list, path)
           new == [list EXCEPT ![k][field][verb] = @ \cup {flag}]
           d == list[k]
           mode == [d[field] EXCEPT ![verb] = @ \cup {flag}]
           e == [d EXCEPT ![field] = mode]
<1>1. k \in DOMAIN list /\ list[k].path = path
  BY DEF PathsOf, IndexOf
<1>2. new = [list EXCEPT ![k] = e]
  BY <1>1
<1>3. d \in FsEntries
  BY <1>1
<1> HIDE DEF k
<1>4. DOMAIN new = DOMAIN list /\ \A i \in DOMAIN list : new[i] = IF i = k THEN e ELSE list[i]
  BY <1>1, <1>2
<1> HIDE DEF new, d
<1>5. d.self \in Modesets /\ d.children \in Modesets /\ d[field] \in Modesets /\ d.path = path
  BY <1>1, <1>3 DEF FsEntries, Scopes, d
<1>6. mode[verb] = d[field][verb] \cup {flag} /\ \A v \in Verbs : v # verb => mode[v] = d[field][v]
  BY <1>5 DEF Modesets
<1> HIDE DEF mode
<1>7. e.path = path /\ e[field] = mode /\ \A s \in Scopes : s # field => e[s] = d[s]
  BY <1>3, <1>5 DEF FsEntries, Scopes
<1> HIDE DEF e
<1>8. PathsOf(new) = PathsOf(list)
  <2>1. \A i \in DOMAIN list : new[i].path = list[i].path
    BY <1>1, <1>4, <1>7
  <2> QED BY <1>4, <2>1 DEF PathsOf
<1>9. ASSUME NEW s \in Scopes, NEW v \in Verbs, NEW f
      PROVE  f \in e[s][v] <=> f \in d[s][v] \/ (s = field /\ v = verb /\ f = flag)
  BY <1>6, <1>7
<1>10. ASSUME NEW w \in Texts, NEW s \in Scopes, NEW v \in Verbs, NEW f \in FlagSet
       PROVE  <<w, s, v, f>> \in GrantsOf(new) <=>
                 <<w, s, v, f>> \in GrantsOf(list) \/ (w = path /\ s = field /\ v = verb /\ f = flag)
  <2>1. ASSUME NEW i \in DOMAIN list
        PROVE  new[i].path = w /\ f \in new[i][s][v] <=>
                  list[i].path = w /\ (f \in list[i][s][v] \/ (i = k /\ s = field /\ v = verb /\ f = flag))
    <3>1. CASE i = k
      BY <1>1, <1>4, <1>7, <1>9, <3>1 DEF d
    <3>2. CASE i # k
      BY <1>4, <3>2
    <3> QED BY <3>1, <3>2
  <2>2. (\E i \in DOMAIN new : new[i].path = w /\ f \in new[i][s][v]) <=>
        \/ \E i \in DOMAIN list : list[i].path = w /\ f \in list[i][s][v]
        \/ w = path /\ s = field /\ v = verb /\ f = flag
    BY <1>1, <1>4, <2>1
  <2> QED BY <2>2, InGrants
<1>11. GrantsOf(new) = GrantsOf(list) \cup {<<path, field, verb, flag>>}
  <2> DEFINE G == Texts \X Scopes \X Verbs \X FlagSet
             one == <<path, field, verb, flag>>
  <2>1. one \in G /\ GrantsOf(new) \subseteq G /\ GrantsOf(list) \subseteq G
    BY DEF GrantsOf
  <2>2. ASSUME NEW g \in G PROVE g \in GrantsOf(new) <=> g \in GrantsOf(list) \/ g = one
    <3>1. PICK w \in Texts, s \in Scopes, v \in Verbs, f \in FlagSet : g = <<w, s, v, f>>
      OBVIOUS
    <3>2. g = one <=> w = path /\ s = field /\ v = verb /\ f = flag
      BY <3>1
    <3> QED BY <1>10, <3>1, <3>2
  <2> HIDE DEF G, one
  <2>3. GrantsOf(new) = GrantsOf(list) \cup {one}
    BY <2>1, <2>2
  <2> QED BY <2>3 DEF one
<1> QED BY <1>8, <1>11 DEF new, k, WithFlag

\* What the place of a parser's state says.
LEMMA ControlFields ==
    ASSUME NEW p \in ParseStates
    PROVE  LET c == ControlOf(p)
           IN  /\ c.at = p.at
               /\ p.at \notin {"top", "error"} => c.resource = p.resource
               /\ p.at \in {"key", "fields", "verb", "flags"} => c.path = KeyOf(p)
               /\ p.at \in {"verb", "flags"} => c.field = p.field
               /\ p.at = "flags" => c.verb = p.verb
<1>1. p.at \in {"top", "group", "resource", "entries", "key", "fields", "flags", "verb", "error"}
  BY DEF ParseStates, Places
<1> QED BY <1>1, PlaceFields DEF ControlOf, Top, Err, Heading, Inside, AtVerb

\* A token that changes the place only.
LEMMA OnlyMoved ==
    ASSUME NEW p \in ParseStates, NEW at \in Places, NEW token \in TokenSet
    PROVE  LET q == [p EXCEPT !.at = at]
           IN  /\ q.at = at /\ q.resource = p.resource /\ q.path = p.path /\ q.field = p.field /\ q.verb = p.verb
               /\ q.fs = p.fs /\ q.exec = p.exec /\ q.generic = p.generic
               /\ PolOf(q) = PolOf(p) /\ KeyOf(q) = KeyOf(p)
<1> DEFINE q == [p EXCEPT !.at = at]
<1>1. /\ q.at = at /\ q.resource = p.resource /\ q.path = p.path /\ q.field = p.field /\ q.verb = p.verb
      /\ q.fs = p.fs /\ q.exec = p.exec /\ q.generic = p.generic
  BY DEF ParseStates
<1> HIDE DEF q
<1>2. PolOf(q) = PolOf(p) /\ KeyOf(q) = KeyOf(p)
  BY <1>1 DEF PolOf, KeyOf
<1> QED BY <1>1, <1>2 DEF q

\* A parser that has failed, or fails.
LEMMA FailCorresponds ==
    ASSUME NEW p \in ParseStates, NEW token \in TokenSet,
           Control(registered, ControlOf(p), token) = Err, Effect(ControlOf(p), token, PolOf(p)) = PolOf(p)
    PROVE  Corresponds(p, Fail(p), token)
<1> DEFINE q == Fail(p)
<1>1. q.at = "error" /\ PolOf(q) = PolOf(p)
  BY OnlyMoved DEF Fail, Places
<1> HIDE DEF q
<1>2. ControlOf(q) = Err /\ EntryThere(q)
  BY <1>1 DEF ControlOf, EntryThere
<1> QED BY <1>1, <1>2 DEF Corresponds, q

\* permparser_findresourceparser.
LEMMA KnownParsers ==
    ASSUME registered \in BOOLEAN, NEW p
    PROVE  Known(p) <=> p.resource \in Parsers(registered)
<1>1. CASE registered
  BY <1>1 DEF Known, Parsers, FsResource, ExecResource, GenericResource
<1>2. CASE ~registered
  BY <1>2 DEF Known, Parsers, FsResource, ExecResource, GenericResource
<1> QED BY <1>1, <1>2

\* The headings.
LEMMA HeadingsCorrespond ==
    ASSUME registered \in BOOLEAN, NEW p \in ParseStates, NEW token \in TokenSet,
           \/ p.at = "top" /\ token.type = "identifier"
           \/ p.at = "group" /\ token.type = "identifier"
           \/ p.at = "resource" /\ token.type = "{"
           \/ p.at = "entries" /\ token.type = "}"
           \/ p.at \in {"fields", "flags"} /\ token.type = "}"
    PROVE  Corresponds(p, ParseStep(p, token), token)
<1> DEFINE c == ControlOf(p)
           pol == PolOf(p)
<1>0. c.at = p.at /\ (p.at \notin {"top", "error"} => c.resource = p.resource)
  BY ControlFields
<1>a. "group" \in Places /\ "resource" \in Places /\ "entries" \in Places /\ "top" \in Places
  BY DEF Places
<1> HIDE DEF c, pol
<1>1. CASE p.at = "top" /\ token.type = "identifier"
  <2> DEFINE q == [p EXCEPT !.at = "group", !.resource = token.value]
  <2>1. ParseStep(p, token) = q
    BY <1>1 DEF ParseStep
  <2>2. q.at = "group" /\ q.resource = token.value /\ q.fs = p.fs /\ q.exec = p.exec /\ q.generic = p.generic
    BY DEF ParseStates
  <2> HIDE DEF q
  <2>3. ControlOf(q) = Heading("group", token.value) /\ EntryThere(q) /\ PolOf(q) = PolOf(p)
    BY <2>2 DEF ControlOf, EntryThere, PolOf
  <2>4. Control(registered, c, token) = Heading("group", token.value) /\ Effect(c, token, pol) = pol
    BY <1>0, <1>1 DEF Control, Effect
  <2> QED BY <2>1, <2>3, <2>4 DEF Corresponds, c, pol
<1>2. CASE p.at = "group" /\ token.type = "identifier"
  <2> DEFINE q == [p EXCEPT !.at = "resource", !.resource = @ \o token.value]
  <2>1. ParseStep(p, token) = q
    BY <1>2 DEF ParseStep
  <2>2. q.at = "resource" /\ q.resource = p.resource \o token.value /\ q.fs = p.fs /\ q.exec = p.exec /\ q.generic = p.generic
    BY DEF ParseStates
  <2> HIDE DEF q
  <2>3. ControlOf(q) = Heading("resource", p.resource \o token.value) /\ EntryThere(q) /\ PolOf(q) = PolOf(p)
    BY <2>2 DEF ControlOf, EntryThere, PolOf
  <2>4. Control(registered, c, token) = Heading("resource", p.resource \o token.value) /\ Effect(c, token, pol) = pol
    BY <1>0, <1>2 DEF Control, Effect
  <2> QED BY <2>1, <2>3, <2>4 DEF Corresponds, c, pol
<1>3. CASE p.at = "resource" /\ token.type = "{"
  <2>1. ParseStep(p, token) = IF Known(p) THEN [p EXCEPT !.at = "entries"] ELSE Fail(p)
    BY <1>3 DEF ParseStep
  <2>2. Effect(c, token, pol) = pol
    BY <1>0, <1>3 DEF Effect
  <2>3. CASE Known(p)
    <3> DEFINE q == [p EXCEPT !.at = "entries"]
    <3>1. q.at = "entries" /\ q.resource = p.resource /\ PolOf(q) = PolOf(p)
      BY <1>a, OnlyMoved
    <3> HIDE DEF q
    <3>2. ControlOf(q) = Heading("entries", p.resource) /\ EntryThere(q)
      BY <3>1 DEF ControlOf, EntryThere
    <3>3. c.resource \in Parsers(registered)
      BY <1>0, <1>3, <2>3, KnownParsers
    <3>4. Control(registered, c, token) = Heading("entries", p.resource)
      BY <1>0, <1>3, <3>3 DEF Control
    <3> QED BY <2>1, <2>2, <2>3, <3>1, <3>2, <3>4 DEF Corresponds, c, pol, q
  <2>4. CASE ~Known(p)
    <3>3. c.resource \notin Parsers(registered)
      BY <1>0, <1>3, <2>4, KnownParsers
    <3>4. Control(registered, c, token) = Err
      BY <1>0, <1>3, <3>3 DEF Control
    <3> QED BY <2>1, <2>2, <2>4, <3>4, FailCorresponds DEF c, pol
  <2> QED BY <2>3, <2>4
<1>4. CASE p.at = "entries" /\ token.type = "}"
  <2> DEFINE q == [p EXCEPT !.at = "top"]
  <2>1. ParseStep(p, token) = q
    BY <1>4 DEF ParseStep
  <2>2. q.at = "top" /\ PolOf(q) = PolOf(p)
    BY <1>a, OnlyMoved
  <2> HIDE DEF q
  <2>3. ControlOf(q) = Top /\ EntryThere(q)
    BY <2>2 DEF ControlOf, EntryThere
  <2>4. Control(registered, c, token) = Top /\ Effect(c, token, pol) = pol
    BY <1>0, <1>4 DEF Control, Effect
  <2> QED BY <2>1, <2>2, <2>3, <2>4 DEF Corresponds, c, pol
<1>5. CASE p.at \in {"fields", "flags"} /\ token.type = "}"
  <2> DEFINE q == [p EXCEPT !.at = "entries"]
  <2>1. ParseStep(p, token) = q
    BY <1>5 DEF ParseStep
  <2>2. q.at = "entries" /\ q.resource = p.resource /\ PolOf(q) = PolOf(p)
    BY <1>a, OnlyMoved
  <2> HIDE DEF q
  <2>3. ControlOf(q) = Heading("entries", p.resource) /\ EntryThere(q)
    BY <2>2 DEF ControlOf, EntryThere
  <2>4. Control(registered, c, token) = Heading("entries", p.resource) /\ Effect(c, token, pol) = pol
    BY <1>0, <1>5 DEF Control, Effect
  <2> QED BY <2>1, <2>2, <2>3, <2>4 DEF Corresponds, c, pol
<1> QED BY <1>1, <1>2, <1>3, <1>4, <1>5

\* The newentry callbacks.
LEMMA EntriesCorrespond ==
    ASSUME NEW p \in ParseStates, OnePerPath(p.fs), NEW token \in TokenSet,
           p.at = "entries", token.type = "string"
    PROVE  Corresponds(p, NewEntry(p, token.value), token)
<1> DEFINE c == ControlOf(p)
           pol == PolOf(p)
           key == token.value
<1>0. c.at = "entries" /\ c.resource = p.resource
  BY ControlFields
<1>t. token.type = "string"
  OBVIOUS
<1>1. /\ p.fs \in Seq(FsEntries) /\ p.exec \in Seq(ExecEntries) /\ key \in Texts
      /\ pol.paths = PathsOf(p.fs) /\ pol.grants = GrantsOf(p.fs) /\ pol.exec = p.exec /\ pol.generic = p.generic
  <2>1. p.fs \in Seq(FsEntries) /\ p.exec \in Seq(ExecEntries) /\ key \in Texts
    BY DEF ParseStates, TokenSet
  <2>2. pol.paths = PathsOf(p.fs) /\ pol.grants = GrantsOf(p.fs) /\ pol.exec = p.exec /\ pol.generic = p.generic
    BY PolFields DEF PolOf
  <2> QED BY <2>1, <2>2
<1> HIDE DEF c, pol
<1>2. CASE p.resource = FsResource
  <2> DEFINE new == AddTo(p.fs, key, Empty, Empty)
             q == [p EXCEPT !.at = "key", !.path = key, !.fs = new]
  <2>1. NewEntry(p, key) = q
    BY <1>2 DEF NewEntry, FsResource
  <2>2. PathsOf(new) = PathsOf(p.fs) \cup {key} /\ GrantsOf(new) = GrantsOf(p.fs)
    BY <1>1, AddedPath
  <2> HIDE DEF new
  <2>3. /\ q.at = "key" /\ q.path = key /\ q.fs = new /\ q.resource = p.resource
        /\ q.exec = p.exec /\ q.generic = p.generic
    BY DEF ParseStates
  <2> HIDE DEF q
  <2>4. EntryThere(q) /\ ControlOf(q) = Inside("key", FsResource, key)
    BY <1>2, <2>2, <2>3 DEF EntryThere, ControlOf, KeyOf
  <2>5. PolOf(q) = Pol(pol.paths \cup {key}, pol.grants, pol.exec, pol.generic)
    BY <1>1, <2>2, <2>3 DEF PolOf
  <2>6. Control(registered, c, token) = Inside("key", FsResource, key)
    BY <1>0, <1>2 DEF Control, KeyFits
  <2>7. Effect(c, token, pol) = Pol(pol.paths \cup {key}, pol.grants, pol.exec, pol.generic)
    BY <1>0, <1>2, <1>t, ResourcesDiffer DEF Effect
  <2> QED BY <2>1, <2>4, <2>5, <2>6, <2>7 DEF Corresponds, c, pol
<1>3. CASE p.resource = GenericResource /\ ToSet(key) \subseteq Keys
  <2> DEFINE q == [p EXCEPT !.at = "key", !.generic = @ \cup ToSet(key)]
  <2>0. p.resource # FsResource
    BY <1>3, ResourcesDiffer
  <2>1. NewEntry(p, key) = q
    BY <1>3, <2>0 DEF NewEntry, FsResource, GenericResource
  <2>3. /\ q.at = "key" /\ q.fs = p.fs /\ q.resource = p.resource
        /\ q.exec = p.exec /\ q.generic = p.generic \cup ToSet(key)
    BY DEF ParseStates
  <2> HIDE DEF q
  <2>4. EntryThere(q) /\ ControlOf(q) = Inside("key", p.resource, << >>)
    BY <2>0, <2>3 DEF EntryThere, ControlOf, KeyOf
  <2>5. PolOf(q) = Pol(pol.paths, pol.grants, pol.exec, pol.generic \cup ToSet(key))
    BY <1>1, <2>3 DEF PolOf
  <2>6. Control(registered, c, token) = Inside("key", p.resource, << >>)
    BY <1>0, <1>3, <2>0 DEF Control, KeyFits
  <2>7. Effect(c, token, pol) = Pol(pol.paths, pol.grants, pol.exec, pol.generic \cup ToSet(key))
    BY <1>0, <1>3, <1>t, <2>0, ResourcesDiffer DEF Effect
  <2> QED BY <2>1, <2>4, <2>5, <2>6, <2>7 DEF Corresponds, c, pol
<1>4. CASE p.resource = ExecResource /\ Len(key) = 1 /\ key[1] \in Hashes
  <2> DEFINE list == Append(p.exec, [hash |-> key[1], mode |-> DefaultMode])
             q == [p EXCEPT !.at = "key", !.exec = list]
  <2>0. p.resource # FsResource /\ p.resource # GenericResource
    BY <1>4, ResourcesDiffer
  <2>1. NewEntry(p, key) = q
    BY <1>4, <2>0 DEF NewEntry, FsResource, GenericResource, ExecResource
  <2> HIDE DEF list
  <2>3. /\ q.at = "key" /\ q.fs = p.fs /\ q.resource = p.resource
        /\ q.exec = list /\ q.generic = p.generic
    BY DEF ParseStates
  <2> HIDE DEF q
  <2>4. EntryThere(q) /\ ControlOf(q) = Inside("key", p.resource, << >>)
    BY <2>0, <2>3 DEF EntryThere, ControlOf, KeyOf
  <2>5. PolOf(q) = Pol(pol.paths, pol.grants, list, pol.generic)
    BY <1>1, <2>3 DEF PolOf
  <2>6. Control(registered, c, token) = Inside("key", p.resource, << >>)
    BY <1>0, <1>4, <2>0 DEF Control, KeyFits
  <2>7. Effect(c, token, pol) = Pol(pol.paths, pol.grants, list, pol.generic)
    BY <1>0, <1>1, <1>4, <2>0 DEF Effect, list
  <2> QED BY <2>1, <2>4, <2>5, <2>6, <2>7 DEF Corresponds, c, pol
<1>5. CASE ~KeyFits(p.resource, key)
  <2>1. NewEntry(p, key) = Fail(p)
    BY <1>5 DEF NewEntry, KeyFits, FsResource, GenericResource, ExecResource
  <2>2. Control(registered, c, token) = Err
    BY <1>0, <1>5 DEF Control
  <2>3. Effect(c, token, pol) = pol
    BY <1>0, <1>5 DEF Effect, KeyFits
  <2> QED BY <2>1, <2>2, <2>3, FailCorresponds DEF c, pol
<1> QED BY <1>2, <1>3, <1>4, <1>5 DEF KeyFits

\* The name of a field.
LEMMA FieldCorresponds ==
    ASSUME NEW p \in ParseStates, EntryThere(p), NEW token \in TokenSet,
           p.at \in {"fields", "flags"}, token.type = "identifier"
    PROVE  Corresponds(p, Field(p, token.value[1]), token)
<1> DEFINE c == ControlOf(p)
           pol == PolOf(p)
           word == token.value[1]
<1>0. c.at = p.at /\ c.resource = p.resource /\ c.path = KeyOf(p)
  BY ControlFields
<1>t. token.type = "identifier"
  OBVIOUS
<1> HIDE DEF c, pol
<1>1. Effect(c, token, pol) = pol
  BY <1>0, <1>t DEF Effect
<1>2. CASE FieldFits(p.resource, word)
  <2> DEFINE q == [p EXCEPT !.at = "verb", !.field = word]
  <2>1. Field(p, word) = q
    BY <1>2 DEF Field, FieldFits, FsResource, ExecResource
  <2>2. /\ q.at = "verb" /\ q.field = word /\ q.fs = p.fs /\ q.resource = p.resource /\ q.path = p.path
        /\ q.exec = p.exec /\ q.generic = p.generic
    BY DEF ParseStates
  <2> HIDE DEF q
  <2>3. word # "mode" => p.resource = FsResource
    BY <1>2 DEF FieldFits
  <2>4. EntryThere(q)
    BY <2>2, <2>3 DEF EntryThere
  <2>5. KeyOf(q) = KeyOf(p) /\ PolOf(q) = PolOf(p)
    BY <2>2 DEF KeyOf, PolOf
  <2>6. ControlOf(q) = AtVerb(p.resource, KeyOf(p), word)
    BY <2>2, <2>5 DEF ControlOf
  <2>7. Control(registered, c, token) = AtVerb(p.resource, KeyOf(p), word)
    BY <1>0, <1>2, <1>t DEF Control
  <2> QED BY <1>1, <2>1, <2>4, <2>5, <2>6, <2>7 DEF Corresponds, c, pol
<1>3. CASE ~FieldFits(p.resource, word)
  <2>1. Field(p, word) = Fail(p)
    BY <1>3 DEF Field, FieldFits, FsResource, ExecResource
  <2>2. Control(registered, c, token) = Err
    BY <1>0, <1>3, <1>t DEF Control
  <2> QED BY <1>1, <2>1, <2>2, FailCorresponds DEF c, pol
<1> QED BY <1>2, <1>3

\* Its verb, or the mode of a program.
LEMMA VerbCorresponds ==
    ASSUME NEW p \in ParseStates, EntryThere(p), NEW token \in TokenSet,
           p.at = "verb", token.type = "identifier"
    PROVE  Corresponds(p, Verb(p, token.value[1]), token)
<1> DEFINE c == ControlOf(p)
           pol == PolOf(p)
           word == token.value[1]
<1>0. c.at = "verb" /\ c.resource = p.resource /\ c.path = KeyOf(p) /\ c.field = p.field
  BY ControlFields
<1>p. pol.paths = PathsOf(p.fs) /\ pol.grants = GrantsOf(p.fs) /\ pol.exec = p.exec /\ pol.generic = p.generic
  BY PolFields DEF PolOf
<1>t. token.type = "identifier" /\ p.at = "verb"
  OBVIOUS
<1> HIDE DEF c, pol
<1>1. CASE word \notin Verbs
  <2>1. Verb(p, word) = Fail(p)
    BY <1>1 DEF Verb
  <2>2. Control(registered, c, token) = Err
    BY <1>0, <1>1, <1>t DEF Control
  <2>3. Effect(c, token, pol) = pol
    BY <1>0, <1>1, <1>t DEF Effect
  <2> QED BY <2>1, <2>2, <2>3, FailCorresponds DEF c, pol
<1>2. CASE word \in Verbs /\ p.field = "mode"
  <2> DEFINE list == SetLast(p.exec, word)
             q == [p EXCEPT !.at = "fields", !.exec = list]
  <2>1. Verb(p, word) = q
    BY <1>2 DEF Verb, SetLast
  <2> HIDE DEF list
  <2>2. /\ q.at = "fields" /\ q.fs = p.fs /\ q.resource = p.resource /\ q.path = p.path
        /\ q.exec = list /\ q.generic = p.generic
    BY DEF ParseStates
  <2> HIDE DEF q
  <2>4. EntryThere(q)
    BY <1>t, <2>2 DEF EntryThere
  <2>5. KeyOf(q) = KeyOf(p) /\ PolOf(q) = Pol(pol.paths, pol.grants, list, pol.generic)
    BY <1>p, <2>2 DEF KeyOf, PolOf
  <2>6. ControlOf(q) = Inside("fields", p.resource, KeyOf(p))
    BY <2>2, <2>5 DEF ControlOf
  <2>7. Control(registered, c, token) = Inside("fields", p.resource, KeyOf(p))
    BY <1>0, <1>2, <1>t DEF Control
  <2>8. Effect(c, token, pol) = Pol(pol.paths, pol.grants, list, pol.generic)
    BY <1>0, <1>p, <1>2, <1>t DEF Effect, list
  <2> QED BY <2>1, <2>4, <2>5, <2>6, <2>7, <2>8 DEF Corresponds, c, pol
<1>3. CASE word \in Verbs /\ p.field # "mode"
  <2> DEFINE q == [p EXCEPT !.at = "flags", !.verb = word]
  <2>1. Verb(p, word) = q
    BY <1>3 DEF Verb
  <2>2. /\ q.at = "flags" /\ q.fs = p.fs /\ q.resource = p.resource /\ q.path = p.path
        /\ q.exec = p.exec /\ q.generic = p.generic /\ q.verb = word /\ q.field = p.field
    BY DEF ParseStates
  <2> HIDE DEF q
  <2>4. EntryThere(q)
    BY <1>t, <1>3, <2>2 DEF EntryThere
  <2>5. KeyOf(q) = KeyOf(p) /\ PolOf(q) = PolOf(p)
    BY <2>2 DEF KeyOf, PolOf
  <2>6. ControlOf(q) = Ctl("flags", p.resource, KeyOf(p), p.field, word)
    BY <2>2, <2>5 DEF ControlOf
  <2>7. Control(registered, c, token) = Ctl("flags", p.resource, KeyOf(p), p.field, word)
    BY <1>0, <1>3, <1>t DEF Control
  <2>8. Effect(c, token, pol) = pol
    BY <1>0, <1>3, <1>t DEF Effect
  <2> QED BY <2>1, <2>4, <2>5, <2>6, <2>7, <2>8 DEF Corresponds, c, pol
<1> QED BY <1>1, <1>2, <1>3

\* A flag.
LEMMA FlagCorresponds ==
    ASSUME NEW p \in ParseStates, OnePerPath(p.fs), EntryThere(p), p.field \in Scopes, NEW token \in TokenSet,
           p.at = "flags", token.type = "string"
    PROVE  Corresponds(p, Flag(p, FlagOf(token)), token)
<1> DEFINE c == ControlOf(p)
           pol == PolOf(p)
           flag == FlagOf(token)
<1>0. c.at = "flags" /\ c.resource = p.resource /\ c.path = KeyOf(p) /\ c.field = p.field /\ c.verb = p.verb
  BY ControlFields
<1>p. pol.paths = PathsOf(p.fs) /\ pol.grants = GrantsOf(p.fs) /\ pol.exec = p.exec /\ pol.generic = p.generic
  BY PolFields DEF PolOf
<1>t. token.type = "string" /\ p.at = "flags" /\ p.field \in Scopes
  OBVIOUS
<1>k. p.resource = FsResource /\ p.path \in PathsOf(p.fs) /\ KeyOf(p) = p.path
  BY DEF EntryThere, KeyOf
<1> HIDE DEF c, pol, flag
<1>1. CASE flag \notin FlagSet
  <2>1. Flag(p, flag) = Fail(p)
    BY <1>1 DEF Flag
  <2>2. Control(registered, c, token) = Err
    BY <1>0, <1>1, <1>t DEF Control, flag
  <2>3. Effect(c, token, pol) = pol
    BY <1>0, <1>1, <1>t DEF Effect, flag
  <2> QED BY <2>1, <2>2, <2>3, FailCorresponds DEF c, pol, flag
<1>2. CASE flag \in FlagSet
  <2> DEFINE list == [p.fs EXCEPT ![IndexOf(p.fs, p.path)][p.field][p.verb] = @ \cup {flag}]
             q == [p EXCEPT !.fs = list]
  <2>1. Flag(p, flag) = q
    BY <1>2 DEF Flag
  <2>2. PathsOf(list) = PathsOf(p.fs) /\ GrantsOf(list) = GrantsOf(p.fs) \cup {<<p.path, p.field, p.verb, flag>>}
    <3>1. p.fs \in Seq(FsEntries) /\ p.path \in Texts /\ p.verb \in Verbs
      BY DEF ParseStates
    <3> DEFINE old == p.fs
               w == p.path
               f == p.field
               v == p.verb
    <3>2. old \in Seq(FsEntries) /\ OnePerPath(old) /\ w \in PathsOf(old) /\ w \in Texts /\ f \in Scopes /\ v \in Verbs
      BY <1>k, <1>t, <3>1
    <3>3. list = WithFlag(old, w, f, v, flag)
      BY DEF WithFlag
    <3> HIDE DEF old, w, f, v, list
    <3>4. PathsOf(list) = PathsOf(old) /\ GrantsOf(list) = GrantsOf(old) \cup {<<w, f, v, flag>>}
      BY <1>2, <3>2, <3>3, AddedFlag
    <3> QED BY <3>4 DEF old, w, f, v
  <2> HIDE DEF list
  <2>3. /\ q.at = "flags" /\ q.fs = list /\ q.resource = p.resource /\ q.path = p.path
        /\ q.exec = p.exec /\ q.generic = p.generic /\ q.verb = p.verb /\ q.field = p.field
    BY DEF ParseStates
  <2> HIDE DEF q
  <2>4. EntryThere(q)
    BY <1>t, <1>k, <2>2, <2>3 DEF EntryThere
  <2>5. KeyOf(q) = KeyOf(p)
    BY <2>3 DEF KeyOf
  <2>6. PolOf(q) = Pol(pol.paths, pol.grants \cup {<<p.path, p.field, p.verb, flag>>}, pol.exec, pol.generic)
    BY <1>p, <2>2, <2>3 DEF PolOf
  <2>7. ControlOf(q) = c
    BY <1>t, <2>3, <2>5 DEF ControlOf, c
  <2>8. Control(registered, c, token) = c
    BY <1>0, <1>2, <1>t DEF Control, flag
  <2>9. Effect(c, token, pol) = Pol(pol.paths, pol.grants \cup {<<p.path, p.field, p.verb, flag>>}, pol.exec, pol.generic)
    BY <1>0, <1>k, <1>2, <1>t DEF Effect, flag
  <2> QED BY <2>1, <2>4, <2>6, <2>7, <2>8, <2>9 DEF Corresponds, c, pol, flag
<1> QED BY <1>1, <1>2

\* The brace behind a key, a token that does not belong where it is, and the tokens behind it.
LEMMA RestCorresponds ==
    ASSUME NEW p \in ParseStates, EntryThere(p), NEW token \in TokenSet
    PROVE  /\ p.at = "key" /\ token.type = "{" => Corresponds(p, ParseStep(p, token), token)
           /\ p.at = "error" => Corresponds(p, p, token)
           /\ \/ p.at = "top" /\ token.type = "identifier"
              \/ p.at = "group" /\ token.type = "identifier"
              \/ p.at = "resource" /\ token.type = "{"
              \/ p.at = "entries" /\ token.type = "}"
              \/ p.at = "entries" /\ token.type = "string"
              \/ p.at = "key" /\ token.type = "{"
              \/ p.at = "flags" /\ token.type = "string"
              \/ p.at \in {"fields", "flags"} /\ token.type = "}"
              \/ p.at \in {"fields", "flags"} /\ token.type = "identifier"
              \/ p.at = "verb" /\ token.type = "identifier"
              \/ Corresponds(p, ParseStep(p, token), token)
<1> DEFINE c == ControlOf(p)
           pol == PolOf(p)
<1>0. c.at = p.at
  BY ControlFields
<1>1. ASSUME p.at = "key", token.type = "{" PROVE Corresponds(p, ParseStep(p, token), token)
  <2> DEFINE q == [p EXCEPT !.at = "fields"]
  <2>1. ParseStep(p, token) = q
    BY <1>1 DEF ParseStep
  <2>2. q.at = "fields" /\ q.resource = p.resource /\ q.path = p.path /\ q.fs = p.fs /\ PolOf(q) = PolOf(p) /\ KeyOf(q) = KeyOf(p)
    BY OnlyMoved DEF Places
  <2>3. c.resource = p.resource /\ c.path = KeyOf(p)
    BY <1>1, ControlFields
  <2> HIDE DEF q, c, pol
  <2>4. ControlOf(q) = Inside("fields", p.resource, KeyOf(p))
    BY <2>2 DEF ControlOf
  <2>5. EntryThere(q)
    BY <1>1, <2>2 DEF EntryThere
  <2>6. Control(registered, c, token) = Inside("fields", p.resource, KeyOf(p)) /\ Effect(c, token, pol) = pol
    BY <1>0, <1>1, <2>3 DEF Control, Effect
  <2> QED BY <2>1, <2>2, <2>4, <2>5, <2>6 DEF Corresponds, c, pol
<1> HIDE DEF c, pol
<1>2. ASSUME p.at = "error" PROVE Corresponds(p, p, token)
  <2>1. Control(registered, c, token) = Err /\ Effect(c, token, pol) = pol
    BY <1>0, <1>2 DEF Control, Effect
  <2>2. ControlOf(p) = Err
    BY <1>2 DEF ControlOf
  <2> QED BY <2>1, <2>2 DEF Corresponds, c, pol
<1>3. ASSUME /\ ~(p.at = "top" /\ token.type = "identifier")
             /\ ~(p.at = "group" /\ token.type = "identifier")
             /\ ~(p.at = "resource" /\ token.type = "{")
             /\ ~(p.at = "entries" /\ token.type = "}")
             /\ ~(p.at = "entries" /\ token.type = "string")
             /\ ~(p.at = "key" /\ token.type = "{")
             /\ ~(p.at = "flags" /\ token.type = "string")
             /\ ~(p.at \in {"fields", "flags"} /\ token.type = "}")
             /\ ~(p.at \in {"fields", "flags"} /\ token.type = "identifier")
             /\ ~(p.at = "verb" /\ token.type = "identifier")
      PROVE  Corresponds(p, ParseStep(p, token), token)
  <2>1. ParseStep(p, token) = Fail(p)
    BY <1>3 DEF ParseStep
  <2>2. Control(registered, c, token) = Err
    BY <1>0, <1>3 DEF Control
  <2>3. Effect(c, token, pol) = pol
    BY <1>0, <1>3 DEF Effect
  <2> QED BY <2>1, <2>2, <2>3, FailCorresponds DEF c, pol
<1> QED BY <1>1, <1>2, <1>3

\* Every token moves the place and adds to what was read, whatever the policy was.
LEMMA StepCorresponds ==
    ASSUME TypeOK, NEW p \in GoodStates, EntryThere(p), NEW token \in TokenSet
    PROVE  Corresponds(p, Advance(p, token), token)
<1>1. p \in ParseStates /\ OnePerPath(p.fs) /\ (p.at = "flags" => p.field \in Scopes) /\ registered \in BOOLEAN
  BY DEF GoodStates, Parsed, Scopes, TypeOK
<1>2. CASE p.at = "error"
  BY <1>1, <1>2, RestCorresponds DEF Advance
<1>3. CASE p.at # "error"
  <2>0. Advance(p, token) = ParseStep(p, token)
    BY <1>3 DEF Advance
  <2>1. CASE \/ p.at = "top" /\ token.type = "identifier"
             \/ p.at = "group" /\ token.type = "identifier"
             \/ p.at = "resource" /\ token.type = "{"
             \/ p.at = "entries" /\ token.type = "}"
             \/ p.at \in {"fields", "flags"} /\ token.type = "}"
    BY <1>1, <2>0, <2>1, HeadingsCorrespond
  <2>2. CASE p.at = "entries" /\ token.type = "string"
    <3>1. ParseStep(p, token) = NewEntry(p, token.value)
      BY <2>2 DEF ParseStep
    <3> QED BY <1>1, <2>0, <2>2, <3>1, EntriesCorrespond
  <2>3. CASE p.at = "flags" /\ token.type = "string"
    <3>1. ParseStep(p, token) = Flag(p, FlagOf(token))
      BY <2>3 DEF ParseStep, FlagOf
    <3> QED BY <1>1, <2>0, <2>3, <3>1, FlagCorresponds
  <2>4. CASE p.at \in {"fields", "flags"} /\ token.type = "identifier"
    <3>1. ParseStep(p, token) = Field(p, token.value[1])
      BY <2>4 DEF ParseStep
    <3> QED BY <1>1, <2>0, <2>4, <3>1, FieldCorresponds
  <2>5. CASE p.at = "verb" /\ token.type = "identifier"
    <3>1. ParseStep(p, token) = Verb(p, token.value[1])
      BY <2>5 DEF ParseStep
    <3> QED BY <1>1, <2>0, <2>5, <3>1, VerbCorresponds
  <2> QED BY <1>1, <2>0, <2>1, <2>2, <2>3, <2>4, <2>5, RestCorresponds
<1> QED BY <1>2, <1>3

----------------------------------------
(* Lexer and parser as machines. *)

\* A loop that does what a machine does.
LEMMA LoopIsFold ==
    ASSUME NEW S, NEW C, NEW step, Machine(S, C, step), NEW s \in S, NEW seq \in Seq(C), NEW f, f[0] = s,
           \A n \in 1 .. Len(seq) : f[n - 1] \in S => f[n] = step[<<f[n - 1], seq[n]>>]
    PROVE  f[Len(seq)] = Fold(step, s, seq)
<1> DEFINE N == Len(seq)
<1>1. N \in Nat /\ \A n \in 1 .. N : seq[n] \in C
  OBVIOUS
<1>2. \A x \in S, c \in C : step[<<x, c>>] \in S
  BY DEF Machine
<1>3. \A n \in 0 .. N : f[n] \in S
  <2>1. ASSUME NEW n \in 0 + 1 .. N, f[n - 1] \in S PROVE f[n] \in S
    <3>1. n \in 1 .. N
      BY <1>1
    <3>2. seq[n] \in C /\ f[n] = step[<<f[n - 1], seq[n]>>]
      BY <1>1, <2>1, <3>1
    <3> QED BY <1>2, <2>1, <3>2
  <2>2. 0 \in Nat /\ N \in Nat
    BY <1>1
  <2> HIDE DEF N
  <2> QED BY <2>1, <2>2, StaysGood
<1>4. ASSUME NEW n \in 1 .. N PROVE f[n] = step[<<f[n - 1], seq[n]>>]
  <2>1. n - 1 \in 0 .. N
    BY <1>1
  <2> QED BY <1>3, <2>1
<1>5. Path(f, step, s, seq)
  BY <1>4 DEF Path
<1> QED BY <1>5, FoldIs

\* It is a machine.
LEMMA LexerSteps ==
    /\ Machine(LexStates, Plain, Lexer) /\ LexStart \in LexStates
    /\ \A lex \in LexStates, cell \in Plain : Lexer[<<lex, cell>>] = LexStep(lex, cell)
<1>1. ASSUME NEW lex \in LexStates, NEW cell \in Plain
      PROVE  Lexer[<<lex, cell>>] = LexStep(lex, cell) /\ LexStep(lex, cell) \in LexStates
  <2>1. cell \in Cells
    BY DEF Plain
  <2>2. LexStep(lex, cell) \in LexStates
    BY <2>1, LexStepTyped
  <2>3. Lexer[<<lex, cell>>] = LexStep(lex, cell)
    BY DEF Lexer
  <2> QED BY <2>2, <2>3
<1>2. Lexer \in [LexStates \X Plain -> LexStates]
  <2>1. ASSUME NEW y \in LexStates \X Plain PROVE LexStep(y[1], y[2]) \in LexStates
    BY <1>1
  <2> QED BY <2>1 DEF Lexer
<1>3. LexStart \in LexStates
  BY Joined DEF LexStart, LexStates
<1> QED BY <1>1, <1>2, <1>3 DEF Machine

\* gh_permparser_nexttoken.
LEMMA TokensAre ==
    ASSUME NEW cells \in Seq(Plain)
    PROVE  LET end == Fold(Lexer, LexStart, cells)
           IN  Tokens(cells) = IF end.in THEN Append(end.tokens, Bad) ELSE end.tokens
<1> DEFINE N == Len(cells)
           Reads(f) == f = [n \in 0 .. N |-> IF n = 0 THEN LexStart ELSE LexStep(f[n - 1], cells[n])]
           lex == CHOOSE f : Reads(f)
<1>1. N \in Nat /\ \A n \in 1 .. N : cells[n] \in Plain
  OBVIOUS
<1>2. {i \in DOMAIN cells : cells[i] = "NUL"} = {}
  BY <1>1 DEF Plain
<1>3. Tokens(cells) = IF lex[N].in THEN Append(lex[N].tokens, Bad) ELSE lex[N].tokens
  BY <1>2 DEF Tokens, LexStart
<1> HIDE DEF N
<1>4. PICK g : Run(LexStates, g, Lexer, LexStart, cells)
  BY LexerSteps, FoldRuns
<1>5. Reads(g)
  <2>1. g \in [0 .. N -> LexStates]
    BY <1>4 DEF Run, N
  <2>2. g[0] = LexStart /\ \A n \in 1 .. N : g[n] = Lexer[<<g[n - 1], cells[n]>>]
    BY <1>4 DEF Run, Path, N
  <2>3. ASSUME NEW n \in 0 .. N PROVE g[n] = IF n = 0 THEN LexStart ELSE LexStep(g[n - 1], cells[n])
    <3>1. CASE n = 0
      BY <2>2, <3>1
    <3>2. CASE n # 0
      <4>1. n \in 1 .. N /\ n - 1 \in 0 .. N
        BY <1>1, <3>2
      <4> QED BY <1>1, <2>1, <2>2, <3>2, <4>1, LexerSteps
    <3> QED BY <3>1, <3>2
  <2> QED BY <2>1, <2>3
<1>6. Reads(lex)
  BY <1>5
<1> HIDE DEF lex
<1>7. \A n \in 0 .. N : lex[n] = IF n = 0 THEN LexStart ELSE LexStep(lex[n - 1], cells[n])
  BY <1>6
<1>8. lex[0] = LexStart
  <2>1. 0 \in 0 .. N
    BY <1>1
  <2> QED BY <1>7, <2>1
<1>9. ASSUME NEW n \in 1 .. N, lex[n - 1] \in LexStates PROVE lex[n] = Lexer[<<lex[n - 1], cells[n]>>]
  <2>1. n \in 0 .. N /\ n # 0
    BY <1>1
  <2> QED BY <1>1, <1>7, <1>9, <2>1, LexerSteps
<1>10. lex[N] = Fold(Lexer, LexStart, cells)
  BY <1>8, <1>9, LexerSteps, LoopIsFold DEF N
<1> QED BY <1>3, <1>10

\* So is the parser.
LEMMA ParserSteps ==
    ASSUME TypeOK
    PROVE  /\ Machine(ParserStates, TokenSet, Parser) /\ ParseStart \in ParserStates
           /\ \A p \in ParserStates, token \in TokenSet :
                 Parser[<<p, token>>] = Advance(p, token) /\ Corresponds(p, Advance(p, token), token)
<1>1. ASSUME NEW p \in ParserStates, NEW token \in TokenSet
      PROVE  /\ Parser[<<p, token>>] = Advance(p, token) /\ Corresponds(p, Advance(p, token), token)
             /\ Advance(p, token) \in ParserStates
  <2>1. p \in GoodStates /\ EntryThere(p)
    BY DEF ParserStates
  <2>2. Advance(p, token) \in GoodStates
    BY <2>1, ParseStepGood DEF Advance
  <2>3. Corresponds(p, Advance(p, token), token)
    BY <2>1, StepCorresponds
  <2>4. Advance(p, token) \in ParserStates
    BY <2>2, <2>3 DEF Corresponds, ParserStates
  <2>5. Parser[<<p, token>>] = Advance(p, token)
    BY DEF Parser
  <2> QED BY <2>3, <2>4, <2>5
<1>2. Parser \in [ParserStates \X TokenSet -> ParserStates]
  <2>1. ASSUME NEW y \in ParserStates \X TokenSet PROVE Advance(y[1], y[2]) \in ParserStates
    BY <1>1
  <2> QED BY <2>1 DEF Parser
<1>3. ParseStart \in ParserStates
  <2> DEFINE start == ParseStart
  <2>1. << >> \in Texts /\ "accept" \in Verbs
    BY Joined DEF Verbs
  <2>2. start \in ParseStates
    BY <2>1 DEF ParseStates, Places, TypeOK, ParseStart
  <2>3. OnePerPath(fs) /\ IsFiniteSet(generic)
    BY DEF TypeOK, OnePerPath
  <2>4. FsKept(fs, fs)
    BY DEF FsKept, Covers
  <2>5. ExecKept(exec, exec)
    <3>1. Len(exec) \in Nat
      BY LenProperties DEF TypeOK
    <3> QED BY <3>1 DEF ExecKept
  <2>6. start.at = "top" /\ start.fs = fs /\ start.exec = exec /\ start.generic = generic
    BY DEF ParseStart
  <2> HIDE DEF start
  <2>7. Parsed(start) /\ EntryThere(start)
    BY <2>3, <2>4, <2>5, <2>6 DEF Parsed, InProgram, EntryThere
  <2> QED BY <2>2, <2>7 DEF GoodStates, ParserStates, start
<1> QED BY <1>1, <1>2, <1>3 DEF Machine

\* gh_permparser_parse.
LEMMA ParseIs ==
    ASSUME TypeOK, NEW cells \in Texts
    PROVE  Parse(cells) = Fold(Parser, ParseStart, Tokens(cells)) /\ Parse(cells) \in ParserStates
<1> DEFINE tokens == Tokens(cells)
           N == Len(tokens)
           Reads(f) == f = [n \in 0 .. N |-> IF n = 0 THEN ParseStart ELSE Advance(f[n - 1], tokens[n])]
           parse == CHOOSE f : Reads(f)
<1>1. Parse(cells) = parse[N]
  BY DEF Parse, Advance, ParseStart
<1>2. tokens \in Seq(TokenSet)
  BY TokensTyped
<1> HIDE DEF tokens
<1>3. N \in Nat /\ \A n \in 1 .. N : tokens[n] \in TokenSet
  BY <1>2
<1> HIDE DEF N
<1>4. PICK g : Run(ParserStates, g, Parser, ParseStart, tokens)
  BY <1>2, ParserSteps, FoldRuns
<1>5. Reads(g)
  <2>1. g \in [0 .. N -> ParserStates]
    BY <1>4 DEF Run, N
  <2>2. g[0] = ParseStart /\ \A n \in 1 .. N : g[n] = Parser[<<g[n - 1], tokens[n]>>]
    BY <1>4 DEF Run, Path, N
  <2>3. ASSUME NEW n \in 0 .. N PROVE g[n] = IF n = 0 THEN ParseStart ELSE Advance(g[n - 1], tokens[n])
    <3>1. CASE n = 0
      BY <2>2, <3>1
    <3>2. CASE n # 0
      <4>1. n \in 1 .. N /\ n - 1 \in 0 .. N
        BY <1>3, <3>2
      <4> QED BY <1>3, <2>1, <2>2, <3>2, <4>1, ParserSteps
    <3> QED BY <3>1, <3>2
  <2> QED BY <2>1, <2>3
<1>6. Reads(parse)
  BY <1>5
<1> HIDE DEF parse
<1>7. \A n \in 0 .. N : parse[n] = IF n = 0 THEN ParseStart ELSE Advance(parse[n - 1], tokens[n])
  BY <1>6
<1>8. parse[0] = ParseStart
  <2>1. 0 \in 0 .. N
    BY <1>3
  <2> QED BY <1>7, <2>1
<1>9. ASSUME NEW n \in 1 .. N, parse[n - 1] \in ParserStates PROVE parse[n] = Parser[<<parse[n - 1], tokens[n]>>]
  <2>1. n \in 0 .. N /\ n # 0
    BY <1>3
  <2> QED BY <1>3, <1>7, <1>9, <2>1, ParserSteps
<1>10. parse[N] = Fold(Parser, ParseStart, tokens)
  BY <1>2, <1>8, <1>9, ParserSteps, LoopIsFold DEF N
<1>11. Fold(Parser, ParseStart, tokens) \in ParserStates
  BY <1>2, ParserSteps, FoldParts
<1> QED BY <1>1, <1>10, <1>11 DEF tokens

----------------------------------------
(* Lexer and parser together: the place, what was read, and the string that *)
(* is being read.                                                           *)

\* Tokens are tokens.
LEMMA TokenTyped ==
    /\ Bad \in TokenSet
    /\ \A cell \in Cells : TokenFor(cell) \in TokenSet
    /\ \A w \in Texts : Token("string", w) \in TokenSet
<1>1. Bad \in TokenSet /\ \A w \in Texts : Token("string", w) \in TokenSet
  BY Joined DEF Bad, Token, TokenSet
<1>2. ASSUME NEW cell \in Cells PROVE TokenFor(cell) \in TokenSet
  <2>1. << >> \in Texts /\ <<cell>> \in Texts
    BY Joined, Zenon
  <2> QED BY <1>1, <2>1 DEF TokenFor, Token, TokenSet
<1> QED BY <1>1, <1>2

\* They are states.
LEMMA StTyped ==
    ASSUME NEW in \in BOOLEAN, NEW string \in Texts, NEW c \in Places5, NEW pol \in Pols
    PROVE  St(in, string, c, pol) \in ReadStates
BY DEF St, ReadStates

\* Every state is one.
LEMMA StParts ==
    ASSUME NEW x \in ReadStates
    PROVE  x.in \in BOOLEAN /\ x.string \in Texts /\ x.c \in Places5 /\ x.pol \in Pols
           /\ x = St(x.in, x.string, x.c, x.pol)
BY DEF St, ReadStates

\* The two together are a machine.
LEMMA ReaderSteps ==
    ASSUME NEW r
    PROVE  /\ Machine(ReadStates, Plain, Reader(r))
           /\ \A x \in ReadStates, cell \in Plain : Reader(r)[<<x, cell>>] = ReadCell(r, x, cell)
<1>1. ASSUME NEW x \in ReadStates, NEW cell \in Plain
      PROVE  ReadCell(r, x, cell) \in ReadStates
  <2>1. x.in \in BOOLEAN /\ x.string \in Texts /\ x.c \in Places5 /\ x.pol \in Pols /\ cell \in Cells
    BY StParts DEF Plain
  <2>2. Append(x.string, cell) \in Texts
    BY <2>1, AppendProperties DEF Texts
  <2>3. ASSUME NEW token \in TokenSet PROVE Take(r, x, token) \in ReadStates
    <3>1. Control(r, x.c, token) \in Places5
      BY <2>1, ControlTyped
    <3>2. Effect(x.c, token, x.pol) \in Pols
      BY <2>1, EffectTyped
    <3>3. << >> \in Texts
      BY Joined
    <3> QED BY <3>1, <3>2, <3>3, StTyped DEF Take
  <2>4. Take(r, x, Token("string", x.string)) \in ReadStates /\ Take(r, x, TokenFor(cell)) \in ReadStates
    BY <2>1, <2>3, TokenTyped
  <2>5. St(TRUE, Append(x.string, cell), x.c, x.pol) \in ReadStates /\ St(TRUE, x.string, x.c, x.pol) \in ReadStates
    BY <2>1, <2>2, StTyped
  <2> QED BY <2>4, <2>5 DEF ReadCell
<1>2. Reader(r) \in [ReadStates \X Plain -> ReadStates]
  <2>1. ASSUME NEW y \in ReadStates \X Plain PROVE ReadCell(r, y[1], y[2]) \in ReadStates
    BY <1>1
  <2> QED BY <2>1 DEF Reader
<1>3. ASSUME NEW x \in ReadStates, NEW cell \in Plain
      PROVE  Reader(r)[<<x, cell>>] = ReadCell(r, x, cell)
  BY DEF Reader
<1> QED BY <1>2, <1>3 DEF Machine

\* One token more.
LEMMA OneTokenMore ==
    ASSUME TypeOK, NEW tokens \in Seq(TokenSet), NEW token \in TokenSet
    PROVE  LET p == Fold(Parser, ParseStart, tokens)
               q == Fold(Parser, ParseStart, Append(tokens, token))
           IN  /\ p \in ParserStates /\ q \in ParserStates
               /\ ControlOf(q) = Control(registered, ControlOf(p), token)
               /\ PolOf(q) = Effect(ControlOf(p), token, PolOf(p))
<1> DEFINE p == Fold(Parser, ParseStart, tokens)
           q == Fold(Parser, ParseStart, Append(tokens, token))
           one == <<token>>
<1>1. Append(tokens, token) = tokens \o one /\ one \in Seq(TokenSet)
  OBVIOUS
<1>2. Machine(ParserStates, TokenSet, Parser) /\ ParseStart \in ParserStates
  BY ParserSteps
<1>3. p \in ParserStates /\ Fold(Parser, p, one) = Parser[<<p, token>>]
  BY <1>2, FoldParts
<1> HIDE DEF one
<1>4. Fold(Parser, ParseStart, tokens \o one) = Fold(Parser, p, one)
  BY <1>1, <1>2, FoldParts
<1>5. q = Parser[<<p, token>>]
  BY <1>1, <1>3, <1>4
<1> HIDE DEF p, q
<1>6. q = Advance(p, token) /\ Corresponds(p, Advance(p, token), token)
  BY <1>3, <1>5, ParserSteps
<1>7. q \in ParserStates
  BY <1>2, <1>3, <1>5 DEF Machine
<1> QED BY <1>3, <1>6, <1>7 DEF Corresponds, p, q

\* Every cell keeps them in step.
LEMMA StaysInStep ==
    ASSUME TypeOK, NEW lex \in LexStates, NEW x \in ReadStates, InStep(lex, x), NEW cell \in Plain
    PROVE  InStep(LexStep(lex, cell), ReadCell(registered, x, cell))
<1> DEFINE p == Fold(Parser, ParseStart, lex.tokens)
           after == LexStep(lex, cell)
           y == ReadCell(registered, x, cell)
<1>1. /\ ~lex.escape /\ lex.in = x.in /\ lex.string = x.string /\ (~x.in => x.string = << >>)
      /\ ControlOf(p) = x.c /\ PolOf(p) = x.pol
  BY DEF InStep
<1>2. lex.tokens \in Seq(TokenSet) /\ x.string \in Texts /\ cell \in Cells /\ cell # "BACKSLASH" /\ lex.in \in BOOLEAN
  BY StParts DEF LexStates, Plain
<1>a. after.in \in BOOLEAN
  BY <1>2, LexStepTyped DEF LexStates
<1> SUFFICES InStep(after, y)
  OBVIOUS
<1> HIDE DEF p, after, y
<1>3. ASSUME NEW token \in TokenSet, after.tokens = Append(lex.tokens, token), ~after.in, ~after.escape,
             after.string = << >>, y = Take(registered, x, token)
      PROVE  InStep(after, y)
  <2> DEFINE q == Fold(Parser, ParseStart, after.tokens)
  <2>1. ControlOf(q) = Control(registered, ControlOf(p), token) /\ PolOf(q) = Effect(ControlOf(p), token, PolOf(p))
    BY <1>2, <1>3, OneTokenMore DEF p
  <2>2. y.in = FALSE /\ y.string = << >> /\ y.c = Control(registered, x.c, token) /\ y.pol = Effect(x.c, token, x.pol)
    BY <1>3 DEF Take, St
  <2> HIDE DEF q
  <2>4. ControlOf(q) = y.c /\ PolOf(q) = y.pol
    BY <1>1, <2>1, <2>2
  <2> QED BY <1>a, <1>3, <2>2, <2>4 DEF InStep, q
<1>4. ASSUME after.tokens = lex.tokens, after.in, ~after.escape, y.in, y.string = after.string, y.c = x.c, y.pol = x.pol,
             after.in = y.in
      PROVE  InStep(after, y)
  <2> QED BY <1>1, <1>4 DEF InStep, p
<1>5. CASE lex.in /\ cell = "Q"
  <2> DEFINE token == Token("string", x.string)
  <2>1. after = [lex EXCEPT !.in = FALSE, !.string = << >>, !.tokens = Append(lex.tokens, token)]
    BY <1>1, <1>5 DEF LexStep, after
  <2>2. y = Take(registered, x, token)
    BY <1>1, <1>5 DEF ReadCell, y
  <2>3. token \in TokenSet
    BY <1>2, TokenTyped
  <2> HIDE DEF token
  <2>4. after.tokens = Append(lex.tokens, token) /\ ~after.in /\ ~after.escape /\ after.string = << >>
    BY <1>1, <2>1 DEF LexStates
  <2> QED BY <1>3, <2>2, <2>3, <2>4
<1>6. CASE lex.in /\ cell # "Q"
  <2> DEFINE string == Append(lex.string, cell)
  <2>1. after = [lex EXCEPT !.escape = lex.escape \/ cell = "BACKSLASH", !.string = string]
    BY <1>1, <1>6 DEF LexStep, after
  <2>2. y = St(TRUE, string, x.c, x.pol)
    BY <1>1, <1>6 DEF ReadCell, y
  <2> HIDE DEF string
  <2>3. y.in = TRUE /\ y.string = string /\ y.c = x.c /\ y.pol = x.pol
    BY <2>2 DEF St
  <2>4. after.tokens = lex.tokens /\ after.in = lex.in /\ after.escape = (lex.escape \/ cell = "BACKSLASH") /\ after.string = string
    BY <2>1 DEF LexStates
  <2>5. after.in = TRUE
    BY <1>2, <1>6, <2>4
  <2> QED BY <1>1, <1>2, <1>4, <2>3, <2>4, <2>5
<1>7. CASE ~lex.in /\ cell = "Q"
  <2>1. after = [lex EXCEPT !.in = TRUE]
    BY <1>1, <1>7 DEF LexStep, after
  <2>2. y = St(TRUE, x.string, x.c, x.pol)
    BY <1>1, <1>7 DEF ReadCell, y
  <2>3. y.in = TRUE /\ y.string = x.string /\ y.c = x.c /\ y.pol = x.pol
    BY <2>2 DEF St
  <2>4. after.tokens = lex.tokens /\ after.in = TRUE /\ after.escape = lex.escape /\ after.string = lex.string
    BY <2>1 DEF LexStates
  <2> QED BY <1>1, <1>2, <1>4, <2>3, <2>4
<1>8. CASE ~lex.in /\ cell # "Q"
  <2> DEFINE token == TokenFor(cell)
  <2>1. after = [lex EXCEPT !.tokens = Append(lex.tokens, token)]
    BY <1>1, <1>8 DEF LexStep, TokenFor, after
  <2>2. y = Take(registered, x, token)
    BY <1>1, <1>8 DEF ReadCell, y
  <2>3. token \in TokenSet
    BY <1>2, TokenTyped
  <2> HIDE DEF token
  <2>4. after.tokens = Append(lex.tokens, token) /\ ~after.in /\ ~after.escape /\ after.string = << >>
    BY <1>1, <1>8, <2>1 DEF LexStates
  <2> QED BY <1>3, <2>2, <2>3, <2>4
<1> QED BY <1>5, <1>6, <1>7, <1>8

\* What gh_permparser_parse comes to.
LEMMA ParseReads ==
    ASSUME TypeOK, NEW cells \in Seq(Plain)
    PROVE  LET p == Parse(cells)
               pol == Pol(PathsOf(fs), GrantsOf(fs), exec, generic)
               end == Fold(Reader(registered), Begin(pol), cells)
           IN  /\ p \in GoodStates /\ pol \in Pols /\ end \in ReadStates
               /\ PolOf(p) = end.pol
               /\ p.at = "top" <=> ~end.in /\ end.c = Top
<1> DEFINE pol == Pol(PathsOf(fs), GrantsOf(fs), exec, generic)
           begin == Begin(pol)
           end == Fold(Reader(registered), begin, cells)
           lex == Fold(Lexer, LexStart, cells)
           Both == {z \in LexStates \X ReadStates : InStep(z[1], z[2])}
<1>1. pol \in Pols
  <2>1. fs \in Seq(FsEntries) /\ exec \in Seq(ExecEntries) /\ generic \subseteq Keys
    BY DEF TypeOK
  <2>2. PathsOf(fs) \subseteq Texts
    <3>1. \A i \in DOMAIN fs : fs[i] \in FsEntries
      BY <2>1
    <3>2. \A e \in FsEntries : e.path \in Texts
      BY DEF FsEntries, Texts
    <3> QED BY <3>1, <3>2 DEF PathsOf
  <2>3. GrantsOf(fs) \subseteq Texts \X Scopes \X Verbs \X FlagSet
    BY DEF GrantsOf
  <2> QED BY <2>1, <2>2, <2>3 DEF Pol, Pols
<1>2. begin \in ReadStates /\ begin.in = FALSE /\ begin.string = << >> /\ begin.c = Top /\ begin.pol = pol
  <2>1. << >> \in Texts /\ Top \in Places5 /\ FALSE \in BOOLEAN
    <3>1. << >> \in Texts /\ "top" \in Places /\ "mode" \in {"self", "children", "mode"} /\ "accept" \in Verbs
      BY Joined DEF Places, Verbs
    <3> QED BY <3>1, PlaceTyped, Zenon
  <2> HIDE DEF pol
  <2>2. begin.in = FALSE /\ begin.string = << >> /\ begin.c = Top /\ begin.pol = pol
    BY DEF Begin, St
  <2>3. begin \in ReadStates
    BY <1>1, <2>1 DEF Begin, St, ReadStates
  <2> QED BY <2>2, <2>3
<1>3. Machine(LexStates, Plain, Lexer) /\ LexStart \in LexStates /\ Machine(ReadStates, Plain, Reader(registered))
  BY LexerSteps, ReaderSteps
<1>4. InStep(LexStart, begin)
  <2>1. LexStart.tokens = << >> /\ ~LexStart.in /\ LexStart.in = FALSE /\ ~LexStart.escape /\ LexStart.string = << >>
    BY DEF LexStart
  <2>2. Machine(ParserStates, TokenSet, Parser) /\ ParseStart \in ParserStates
    BY ParserSteps
  <2>3. Fold(Parser, ParseStart, << >>) = ParseStart
    BY <2>2, FoldParts
  <2>4. ParseStart.at = "top" /\ ParseStart.fs = fs /\ ParseStart.exec = exec /\ ParseStart.generic = generic
    BY DEF ParseStart
  <2>5. ControlOf(ParseStart) = Top /\ PolOf(ParseStart) = pol
    BY <2>4 DEF ControlOf, PolOf
  <2> HIDE DEF pol, begin
  <2> QED BY <1>2, <2>1, <2>3, <2>5 DEF InStep
<1> HIDE DEF pol, begin, Both
<1>5. <<LexStart, begin>> \in Both
  BY <1>2, <1>3, <1>4 DEF Both
<1>6. ASSUME NEW l \in LexStates, NEW x \in ReadStates, NEW cell \in Plain, <<l, x>> \in Both
      PROVE  <<Lexer[<<l, cell>>], Reader(registered)[<<x, cell>>]>> \in Both
  <2>1. InStep(l, x)
    BY <1>6 DEF Both
  <2>2. Lexer[<<l, cell>>] = LexStep(l, cell) /\ Reader(registered)[<<x, cell>>] = ReadCell(registered, x, cell)
    BY LexerSteps, ReaderSteps
  <2>3. InStep(LexStep(l, cell), ReadCell(registered, x, cell))
    BY <2>1, StaysInStep
  <2>4. Lexer[<<l, cell>>] \in LexStates /\ Reader(registered)[<<x, cell>>] \in ReadStates
    BY <1>3 DEF Machine
  <2> QED BY <2>2, <2>3, <2>4 DEF Both
<1>7. <<lex, end>> \in Both
  BY <1>2, <1>3, <1>5, <1>6, FoldsRelated
<1>8. lex \in LexStates /\ end \in ReadStates /\ InStep(lex, end)
  BY <1>7 DEF Both
<1>9. Tokens(cells) = IF lex.in THEN Append(lex.tokens, Bad) ELSE lex.tokens
  BY TokensAre
<1>10. cells \in Texts
  BY DEF Plain, Texts
<1>11. Parse(cells) = Fold(Parser, ParseStart, Tokens(cells)) /\ Parse(cells) \in ParserStates
  BY <1>10, ParseIs
<1> DEFINE p == Parse(cells)
<1>12. p \in GoodStates /\ p \in ParseStates /\ ControlOf(p).at = p.at /\ (p.at = "top" => ControlOf(p) = Top)
  <2>1. p \in GoodStates /\ p \in ParseStates
    BY <1>11 DEF ParserStates, GoodStates
  <2> HIDE DEF p
  <2> QED BY <2>1, ControlFields DEF ControlOf
<1>13. Top.at = "top" /\ Err.at = "error"
  BY PlaceFields DEF Top, Err
<1>a. lex.tokens \in Seq(TokenSet) /\ lex.in \in BOOLEAN
  BY <1>8 DEF LexStates
<1> DEFINE q == Fold(Parser, ParseStart, lex.tokens)
<1>b. lex.in = end.in /\ ControlOf(q) = end.c /\ PolOf(q) = end.pol
  BY <1>8 DEF InStep
<1> HIDE DEF end, lex, p, q
<1>14. CASE lex.in
  <2>1. ControlOf(p) = Control(registered, ControlOf(q), Bad) /\ PolOf(p) = Effect(ControlOf(q), Bad, PolOf(q))
    BY <1>a, <1>9, <1>11, <1>14, OneTokenMore, TokenTyped DEF p, q
  <2>2. Bad.type = "bad"
    BY DEF Bad, Token
  <2>3. Control(registered, ControlOf(q), Bad) = Err /\ Effect(ControlOf(q), Bad, PolOf(q)) = PolOf(q)
    BY <2>2 DEF Control, Effect
  <2>4. PolOf(p) = end.pol /\ p.at # "top" /\ end.in
    BY <1>b, <1>12, <1>13, <1>14, <2>1, <2>3
  <2> QED BY <1>1, <1>8, <1>12, <2>4 DEF p, pol, begin, end
<1>15. CASE ~lex.in
  <2>1. p = q
    BY <1>9, <1>11, <1>15 DEF p, q
  <2>2. PolOf(p) = end.pol /\ ControlOf(p) = end.c /\ ~end.in
    BY <1>b, <1>15, <2>1
  <2>3. p.at = "top" <=> end.c = Top
    BY <1>12, <1>13, <2>2
  <2> QED BY <1>1, <1>8, <1>12, <2>2, <2>3 DEF p, pol, begin, end
<1> QED BY <1>14, <1>15

----------------------------------------
(* Two readers of one text. *)

\* What every token preserves is preserved by every cell.
LEMMA ReadersRelated ==
    ASSUME NEW r, NEW s, NEW Rel,
           \A c, d \in Places5, p, q \in Pols, token \in TokenSet :
              <<c, p, d, q>> \in Rel =>
              <<Control(r, c, token), Effect(c, token, p), Control(s, d, token), Effect(d, token, q)>> \in Rel,
           NEW x \in ReadStates, NEW y \in ReadStates, x.in = y.in, x.string = y.string,
           <<x.c, x.pol, y.c, y.pol>> \in Rel, NEW cells \in Seq(Plain)
    PROVE  LET a == Fold(Reader(r), x, cells)
               b == Fold(Reader(s), y, cells)
           IN  /\ a \in ReadStates /\ b \in ReadStates /\ a.in = b.in /\ a.string = b.string
               /\ <<a.c, a.pol, b.c, b.pol>> \in Rel
<1> DEFINE Both == {z \in ReadStates \X ReadStates :
                      /\ z[1].in = z[2].in /\ z[1].string = z[2].string
                      /\ <<z[1].c, z[1].pol, z[2].c, z[2].pol>> \in Rel}
           a == Fold(Reader(r), x, cells)
           b == Fold(Reader(s), y, cells)
<1>1. ASSUME NEW u \in ReadStates, NEW v \in ReadStates
      PROVE  <<u, v>> \in Both <=> u.in = v.in /\ u.string = v.string /\ <<u.c, u.pol, v.c, v.pol>> \in Rel
  OBVIOUS
<1> HIDE DEF Both
<1>2. ASSUME NEW u \in ReadStates, NEW v \in ReadStates, NEW cell \in Plain, <<u, v>> \in Both
      PROVE  <<Reader(r)[<<u, cell>>], Reader(s)[<<v, cell>>]>> \in Both
  <2> DEFINE u2 == ReadCell(r, u, cell)
             v2 == ReadCell(s, v, cell)
  <2>1. u.in = v.in /\ u.string = v.string /\ <<u.c, u.pol, v.c, v.pol>> \in Rel
    BY <1>1, <1>2
  <2>2. Reader(r)[<<u, cell>>] = u2 /\ Reader(s)[<<v, cell>>] = v2 /\ u2 \in ReadStates /\ v2 \in ReadStates
    BY ReaderSteps DEF Machine
  <2>3. /\ u.in \in BOOLEAN /\ u.string \in Texts /\ u.c \in Places5 /\ u.pol \in Pols
        /\ v.c \in Places5 /\ v.pol \in Pols /\ cell \in Cells
    BY StParts DEF Plain
  <2>4. ASSUME NEW token \in TokenSet, u2 = Take(r, u, token), v2 = Take(s, v, token) PROVE <<u2, v2>> \in Both
    <3>1. /\ u2.in = FALSE /\ u2.string = << >> /\ u2.c = Control(r, u.c, token) /\ u2.pol = Effect(u.c, token, u.pol)
          /\ v2.in = FALSE /\ v2.string = << >> /\ v2.c = Control(s, v.c, token) /\ v2.pol = Effect(v.c, token, v.pol)
      BY <2>4 DEF Take, St
    <3> HIDE DEF u2, v2
    <3>2. <<u2.c, u2.pol, v2.c, v2.pol>> \in Rel
      BY <2>1, <2>3, <3>1
    <3> QED BY <1>1, <2>2, <3>1, <3>2
  <2>5. ASSUME NEW string, u2 = St(TRUE, string, u.c, u.pol), v2 = St(TRUE, string, v.c, v.pol) PROVE <<u2, v2>> \in Both
    <3>1. /\ u2.in = TRUE /\ u2.string = string /\ u2.c = u.c /\ u2.pol = u.pol
          /\ v2.in = TRUE /\ v2.string = string /\ v2.c = v.c /\ v2.pol = v.pol
      BY <2>5 DEF St
    <3> HIDE DEF u2, v2
    <3> QED BY <1>1, <2>1, <2>2, <3>1
  <2>6. <<u2, v2>> \in Both
    <3>1. CASE u.in /\ cell = "Q"
      <4>1. u2 = Take(r, u, Token("string", u.string)) /\ v2 = Take(s, v, Token("string", u.string))
        BY <2>1, <3>1 DEF ReadCell
      <4>2. Token("string", u.string) \in TokenSet
        BY <2>3, TokenTyped
      <4> QED BY <2>4, <4>1, <4>2
    <3>2. CASE u.in /\ cell # "Q"
      <4>1. u2 = St(TRUE, Append(u.string, cell), u.c, u.pol) /\ v2 = St(TRUE, Append(u.string, cell), v.c, v.pol)
        BY <2>1, <3>2 DEF ReadCell
      <4> QED BY <2>5, <4>1
    <3>3. CASE ~u.in /\ cell = "Q"
      <4>1. u2 = St(TRUE, u.string, u.c, u.pol) /\ v2 = St(TRUE, u.string, v.c, v.pol)
        BY <2>1, <3>3 DEF ReadCell
      <4> QED BY <2>5, <4>1
    <3>4. CASE ~u.in /\ cell # "Q"
      <4>1. u2 = Take(r, u, TokenFor(cell)) /\ v2 = Take(s, v, TokenFor(cell))
        BY <2>1, <3>4 DEF ReadCell
      <4>2. TokenFor(cell) \in TokenSet
        BY <2>3, TokenTyped
      <4> QED BY <2>4, <4>1, <4>2
    <3> QED BY <3>1, <3>2, <3>3, <3>4
  <2> QED BY <2>2, <2>6
<1>3. <<x, y>> \in Both
  BY <1>1
<1>4. Machine(ReadStates, Plain, Reader(r)) /\ Machine(ReadStates, Plain, Reader(s))
  BY ReaderSteps
<1>5. <<a, b>> \in Both
  BY <1>2, <1>3, <1>4, FoldsRelated
<1>6. a \in ReadStates /\ b \in ReadStates
  BY <1>4, FoldParts
<1> HIDE DEF a, b
<1>7. a.in = b.in /\ a.string = b.string /\ <<a.c, a.pol, b.c, b.pol>> \in Rel
  BY <1>1, <1>5, <1>6
<1> QED BY <1>6, <1>7 DEF a, b

\* Behind an error nothing more is read.
LEMMA ErrorStays ==
    ASSUME NEW r, NEW x \in ReadStates, x.c = Err, NEW cells \in Seq(Plain)
    PROVE  LET a == Fold(Reader(r), x, cells)
           IN  a \in ReadStates /\ a.c = Err /\ a.pol = x.pol
<1> DEFINE Rel == {<<Err, x.pol, Err, x.pol>>}
           a == Fold(Reader(r), x, cells)
<1>1. Err.at = "error"
  BY PlaceFields DEF Err
<1>2. ASSUME NEW pol, NEW token PROVE Control(r, Err, token) = Err /\ Effect(Err, token, pol) = pol
  BY <1>1 DEF Control, Effect
<1>3. ASSUME NEW c \in Places5, NEW d \in Places5, NEW p \in Pols, NEW q \in Pols, NEW token \in TokenSet, <<c, p, d, q>> \in Rel
      PROVE  <<Control(r, c, token), Effect(c, token, p), Control(r, d, token), Effect(d, token, q)>> \in Rel
  <2>1. c = Err /\ p = x.pol /\ d = Err /\ q = x.pol
    BY <1>3
  <2>2. Control(r, c, token) = c /\ Effect(c, token, p) = p
    BY <1>2, <2>1
  <2> QED BY <1>3, <2>1, <2>2
<1>4. <<x.c, x.pol, x.c, x.pol>> \in Rel
  OBVIOUS
<1> HIDE DEF Rel
<1>5. a \in ReadStates /\ <<a.c, a.pol, a.c, a.pol>> \in Rel
  BY <1>3, <1>4, ReadersRelated
<1> HIDE DEF a
<1> QED BY <1>5 DEF Rel, a

----------------------------------------
(* What a token can add. *)

\* What was read consists of its parts.
LEMMA PolParts ==
    ASSUME NEW pol \in Pols
    PROVE  /\ pol.paths \in SUBSET Texts /\ pol.grants \in SUBSET Perms /\ pol.exec \in Seq(ExecEntries)
           /\ pol.generic \in SUBSET Keys
           /\ pol = Pol(pol.paths, pol.grants, pol.exec, pol.generic)
BY DEF Pol, Pols, Perms

\* The parts make one.
LEMMA PolTyped ==
    ASSUME NEW a \in SUBSET Texts, NEW b \in SUBSET Perms, NEW e \in Seq(ExecEntries), NEW k \in SUBSET Keys
    PROVE  Pol(a, b, e, k) \in Pols
BY DEF Pol, Pols, Perms

\* A token that adds nothing.
LEMMA AddsNothing ==
    ASSUME NEW pol \in Pols
    PROVE  Adds(pol, {}, {}, {}) = pol
<1>1. pol.paths \cup {} = pol.paths /\ pol.grants \cup {} = pol.grants /\ pol.generic \cup {} = pol.generic
  OBVIOUS
<1> QED BY <1>1, PolParts DEF Adds

\* The places behind a token.
LEMMA NextPlace ==
    ASSUME NEW r, NEW c, NEW token
    PROVE  /\ GoodPlace(Control(r, c, token))
           /\ InExec(Control(r, c, token)) =>
                 \/ InExec(c)
                 \/ c.at = "entries" /\ token.type = "string" /\ c.resource = ExecResource
                    /\ KeyFits(ExecResource, token.value)
<1> DEFINE next == Control(r, c, token)
           Old == \/ InExec(c)
                  \/ c.at = "entries" /\ token.type = "string" /\ c.resource = ExecResource
                     /\ KeyFits(ExecResource, token.value)
<1>1. CASE next.at \notin {"key", "fields", "verb", "flags"}
  <2> HIDE DEF next
  <2> QED BY <1>1 DEF InExec, GoodPlace, next
<1>2. CASE next.at \in {"key", "fields", "verb", "flags"}
  <2>0. next # Top /\ next # Err /\ \A at, q : at \notin {"key", "fields", "verb", "flags"} => next # Heading(at, q)
    <3> HIDE DEF next
    <3> QED BY <1>2, PlaceFields DEF Top, Err, Heading
  <2>1. \/ /\ c.at = "entries" /\ token.type = "string" /\ KeyFits(c.resource, token.value)
           /\ next = Inside("key", c.resource, IF c.resource = FsResource THEN token.value ELSE << >>)
        \/ c.at = "key" /\ next = Inside("fields", c.resource, c.path)
        \/ c.at = "flags" /\ next = c
        \/ /\ c.at \in {"fields", "flags"} /\ FieldFits(c.resource, token.value[1])
           /\ next = AtVerb(c.resource, c.path, token.value[1])
        \/ c.at = "verb" /\ next = Inside("fields", c.resource, c.path)
        \/ /\ c.at = "verb"
           /\ next = Ctl("flags", c.resource, c.path, c.field, token.value[1])
    BY <2>0 DEF Control
  <2> HIDE DEF next
  <2>2. CASE /\ c.at = "entries" /\ token.type = "string" /\ KeyFits(c.resource, token.value)
             /\ next = Inside("key", c.resource, IF c.resource = FsResource THEN token.value ELSE << >>)
    <3>1. next.at = "key" /\ next.resource = c.resource
      BY <2>2, PlaceFields DEF Inside
    <3> QED BY <2>2, <3>1 DEF InExec, GoodPlace, next
  <2>3. CASE (c.at = "key" \/ c.at = "verb") /\ next = Inside("fields", c.resource, c.path)
    <3>1. next.at = "fields" /\ next.resource = c.resource
      BY <2>3, PlaceFields DEF Inside
    <3> QED BY <2>3, <3>1 DEF InExec, GoodPlace, next
  <2>4. CASE c.at = "flags" /\ next = c
    BY <2>4 DEF InExec, GoodPlace, next
  <2>5. CASE /\ c.at \in {"fields", "flags"} /\ FieldFits(c.resource, token.value[1])
             /\ next = AtVerb(c.resource, c.path, token.value[1])
    <3>1. next.at = "verb" /\ next.resource = c.resource /\ next.field = token.value[1]
      BY <2>5, PlaceFields DEF AtVerb
    <3>2. token.value[1] = "mode" => c.resource = ExecResource
      BY <2>5 DEF FieldFits
    <3> QED BY <2>5, <3>1, <3>2 DEF InExec, GoodPlace, next
  <2>6. CASE c.at = "verb" /\ next = Ctl("flags", c.resource, c.path, c.field, token.value[1])
    <3>1. next.at = "flags" /\ next.resource = c.resource
      BY <2>6, PlaceFields
    <3> QED BY <2>6, <3>1 DEF InExec, GoodPlace, next
  <2> QED BY <2>1, <2>2, <2>3, <2>4, <2>5, <2>6
<1> QED BY <1>1, <1>2

\* A token adds paths, permissions and keys, or a program, or sets the mode of the last.
LEMMA EffectKinds ==
    ASSUME NEW r, NEW c \in Places5, NEW token \in TokenSet
    PROVE  \/ /\ InExec(Control(r, c, token)) => InExec(c)
              /\ \E a \in SUBSET Texts, b \in SUBSET Perms, k \in SUBSET Keys :
                    \A pol \in Pols : Effect(c, token, pol) = Adds(pol, a, b, k)
           \/ \E e \in ExecEntries : \A pol \in Pols : Effect(c, token, pol) = WithExec(pol, Append(pol.exec, e))
           \/ /\ c.at = "verb" /\ c.field = "mode"
              /\ \E m \in Verbs : \A pol \in Pols : Effect(c, token, pol) = WithExec(pol, SetLast(pol.exec, m))
<1>0. c.path \in Texts /\ c.verb \in Verbs /\ token.value \in Texts
  BY DEF Places5, TokenSet
<1>1. CASE c.at = "entries" /\ token.type = "string" /\ c.resource = FsResource
  <2>1. \A pol \in Pols : Effect(c, token, pol) = Adds(pol, {token.value}, {}, {})
    <3>1. \A pol : Effect(c, token, pol) = Pol(pol.paths \cup {token.value}, pol.grants, pol.exec, pol.generic)
      BY <1>1, ResourcesDiffer DEF Effect
    <3>2. ASSUME NEW pol \in Pols PROVE pol.grants \cup {} = pol.grants /\ pol.generic \cup {} = pol.generic
      OBVIOUS
    <3> QED BY <3>1, <3>2 DEF Adds
  <2>2. {token.value} \in SUBSET Texts /\ {} \in SUBSET Perms /\ {} \in SUBSET Keys
    BY <1>0
  <2>3. InExec(Control(r, c, token)) => InExec(c)
    BY <1>1, NextPlace, ResourcesDiffer
  <2> QED BY <2>1, <2>2, <2>3
<1>2. CASE c.at = "entries" /\ token.type = "string" /\ c.resource = GenericResource /\ ToSet(token.value) \subseteq Keys
  <2> DEFINE k == ToSet(token.value)
  <2>1. \A pol \in Pols : Effect(c, token, pol) = Adds(pol, {}, {}, k)
    <3>1. \A pol : Effect(c, token, pol) = Pol(pol.paths, pol.grants, pol.exec, pol.generic \cup k)
      BY <1>2, ResourcesDiffer DEF Effect
    <3>2. ASSUME NEW pol \in Pols PROVE pol.grants \cup {} = pol.grants /\ pol.paths \cup {} = pol.paths
      OBVIOUS
    <3> HIDE DEF k
    <3> QED BY <3>1, <3>2 DEF Adds
  <2>2. k \in SUBSET Keys /\ {} \in SUBSET Perms /\ {} \in SUBSET Texts
    BY <1>2
  <2> HIDE DEF k
  <2>3. InExec(Control(r, c, token)) => InExec(c)
    BY <1>2, NextPlace, ResourcesDiffer
  <2> QED BY <2>1, <2>2, <2>3
<1>3. CASE c.at = "entries" /\ token.type = "string" /\ c.resource = ExecResource
           /\ Len(token.value) = 1 /\ token.value[1] \in Hashes
  <2> DEFINE e == [hash |-> token.value[1], mode |-> DefaultMode]
  <2>1. \A pol : Effect(c, token, pol) = WithExec(pol, Append(pol.exec, e))
    BY <1>3, ResourcesDiffer DEF Effect, WithExec
  <2>2. e \in ExecEntries
    BY <1>3, PolicyFileAssumption DEF ExecEntries
  <2> HIDE DEF e
  <2> QED BY <2>1, <2>2
<1>4. CASE c.at = "verb" /\ token.type = "identifier" /\ c.field = "mode" /\ token.value[1] \in Verbs
  <2>1. \A pol : Effect(c, token, pol) = WithExec(pol, SetLast(pol.exec, token.value[1]))
    BY <1>4 DEF Effect, WithExec
  <2> QED BY <1>4, <2>1
<1>5. CASE c.at = "flags" /\ token.type = "string" /\ FlagOf(token) \in FlagSet /\ c.field \in Scopes
  <2> DEFINE g == <<c.path, c.field, c.verb, FlagOf(token)>>
  <2>1. \A pol \in Pols : Effect(c, token, pol) = Adds(pol, {}, {g}, {})
    <3>1. \A pol : Effect(c, token, pol) = Pol(pol.paths, pol.grants \cup {g}, pol.exec, pol.generic)
      BY <1>5 DEF Effect
    <3>2. ASSUME NEW pol \in Pols PROVE pol.generic \cup {} = pol.generic /\ pol.paths \cup {} = pol.paths
      OBVIOUS
    <3> HIDE DEF g
    <3> QED BY <3>1, <3>2 DEF Adds
  <2>2. {g} \in SUBSET Perms /\ {} \in SUBSET Keys /\ {} \in SUBSET Texts
    BY <1>0, <1>5 DEF Perms
  <2> HIDE DEF g
  <2>3. InExec(Control(r, c, token)) => InExec(c)
    BY <1>5, NextPlace
  <2> QED BY <2>1, <2>2, <2>3
<1>6. CASE /\ ~(c.at = "entries" /\ token.type = "string" /\ c.resource = FsResource)
           /\ ~(c.at = "entries" /\ token.type = "string" /\ c.resource = GenericResource /\ ToSet(token.value) \subseteq Keys)
           /\ ~(c.at = "entries" /\ token.type = "string" /\ c.resource = ExecResource
                /\ Len(token.value) = 1 /\ token.value[1] \in Hashes)
           /\ ~(c.at = "verb" /\ token.type = "identifier" /\ c.field = "mode" /\ token.value[1] \in Verbs)
           /\ ~(c.at = "flags" /\ token.type = "string" /\ FlagOf(token) \in FlagSet /\ c.field \in Scopes)
  <2>1. \A pol : Effect(c, token, pol) = pol
    BY <1>6 DEF Effect
  <2>2. \A pol \in Pols : Effect(c, token, pol) = Adds(pol, {}, {}, {})
    BY <2>1, AddsNothing
  <2>3. {} \in SUBSET Texts /\ {} \in SUBSET Perms /\ {} \in SUBSET Keys
    OBVIOUS
  <2>4. InExec(Control(r, c, token)) => InExec(c)
    BY <1>6, NextPlace, ResourcesDiffer DEF KeyFits
  <2> QED BY <2>2, <2>3, <2>4
<1> QED BY <1>1, <1>2, <1>3, <1>4, <1>5, <1>6

----------------------------------------
(* What is read does not depend on what was there. *)

\* Programs are added behind others.
LEMMA BehindBase ==
    ASSUME NEW base \in Seq(ExecEntries), NEW list \in Seq(ExecEntries), NEW e \in ExecEntries, NEW mode \in Verbs
    PROVE  /\ Append(base \o list, e) = base \o Append(list, e)
           /\ list # << >> => SetLast(base \o list, mode) = base \o SetLast(list, mode)
<1>1. Append(base \o list, e) = base \o Append(list, e)
  <2>1. <<e>> \in Seq(ExecEntries) /\ base \o list \in Seq(ExecEntries)
    BY ConcatProperties
  <2>2. Append(base \o list, e) = (base \o list) \o <<e>> /\ Append(list, e) = list \o <<e>>
    BY <2>1, AppendIsConcat
  <2>3. (base \o list) \o <<e>> = base \o (list \o <<e>>)
    BY <2>1, ConcatAssociative
  <2> QED BY <2>2, <2>3
<1>2. ASSUME list # << >> PROVE SetLast(base \o list, mode) = base \o SetLast(list, mode)
  <2> DEFINE n == Len(base)
             m == Len(list)
             both == base \o list
             a == SetLast(both, mode)
             b == SetLast(list, mode)
             d == base \o b
  <2>1. /\ n \in Nat /\ m \in Nat /\ both \in Seq(ExecEntries) /\ Len(both) = n + m
        /\ \A i \in 1 .. n + m : both[i] = IF i <= n THEN base[i] ELSE list[i - n]
    BY ConcatProperties
  <2>2. m # 0
    BY <1>2, EmptySeq
  <2> HIDE DEF both
  <2>3. /\ a \in Seq(ExecEntries) /\ Len(a) = Len(both)
        /\ \A i \in 1 .. Len(both) : a[i] = IF i = Len(both) THEN [hash |-> both[i].hash, mode |-> mode] ELSE both[i]
    BY <2>1, LastSet
  <2>4. /\ b \in Seq(ExecEntries) /\ Len(b) = m
        /\ \A i \in 1 .. m : b[i] = IF i = m THEN [hash |-> list[i].hash, mode |-> mode] ELSE list[i]
    BY LastSet
  <2> HIDE DEF a, b, n, m
  <2>5. d \in Seq(ExecEntries) /\ Len(d) = n + m /\ \A i \in 1 .. n + m : d[i] = IF i <= n THEN base[i] ELSE b[i - n]
    BY <2>4, ConcatProperties DEF n
  <2> HIDE DEF d
  <2>6. ASSUME NEW i \in 1 .. n + m PROVE a[i] = d[i]
    <3>1. CASE i <= n
      <4>1. i # n + m
        BY <2>1, <2>2, <3>1
      <4> QED BY <2>1, <2>3, <2>5, <3>1, <4>1
    <3>2. CASE ~(i <= n)
      <4>1. i - n \in 1 .. m /\ (i = n + m <=> i - n = m)
        BY <2>1, <3>2
      <4>2. both[i] = list[i - n] /\ d[i] = b[i - n]
        BY <2>1, <2>5, <3>2
      <4> QED BY <2>1, <2>3, <2>4, <4>1, <4>2
    <3> QED BY <3>1, <3>2
  <2>7. a = d
    BY <2>1, <2>3, <2>5, <2>6, SeqEqual
  <2> QED BY <2>7 DEF a, d, b, both
<1> QED BY <1>1, <1>2

\* The sum is one.
LEMMA PlusTyped ==
    ASSUME NEW base \in Pols, NEW pol \in Pols
    PROVE  /\ Plus(base, pol) \in Pols
           /\ Plus(base, pol).paths = base.paths \cup pol.paths /\ Plus(base, pol).grants = base.grants \cup pol.grants
           /\ Plus(base, pol).exec = base.exec \o pol.exec /\ Plus(base, pol).generic = base.generic \cup pol.generic
<1>1. /\ base.paths \in SUBSET Texts /\ base.grants \in SUBSET Perms /\ base.exec \in Seq(ExecEntries)
      /\ base.generic \in SUBSET Keys
      /\ pol.paths \in SUBSET Texts /\ pol.grants \in SUBSET Perms /\ pol.exec \in Seq(ExecEntries)
      /\ pol.generic \in SUBSET Keys
  BY PolParts
<1>2. base.exec \o pol.exec \in Seq(ExecEntries)
  BY <1>1, ConcatProperties
<1>3. /\ base.paths \cup pol.paths \in SUBSET Texts /\ base.grants \cup pol.grants \in SUBSET Perms
      /\ base.generic \cup pol.generic \in SUBSET Keys
  BY <1>1
<1>4. Plus(base, pol) \in Pols
  BY <1>2, <1>3, PolTyped DEF Plus
<1>5. /\ Plus(base, pol).paths = base.paths \cup pol.paths /\ Plus(base, pol).grants = base.grants \cup pol.grants
      /\ Plus(base, pol).exec = base.exec \o pol.exec /\ Plus(base, pol).generic = base.generic \cup pol.generic
  BY DEF Plus, Pol
<1> QED BY <1>4, <1>5

\* A token adds the same to every policy.
LEMMA EffectPlus ==
    ASSUME NEW r, NEW c \in Places5, GoodPlace(c), NEW token \in TokenSet, NEW base \in Pols, NEW pol \in Pols,
           InExec(c) => pol.exec # << >>
    PROVE  /\ Effect(c, token, Plus(base, pol)) = Plus(base, Effect(c, token, pol))
           /\ InExec(Control(r, c, token)) => Effect(c, token, pol).exec # << >>
<1> DEFINE sum == Plus(base, pol)
<1>1. /\ sum \in Pols /\ sum.paths = base.paths \cup pol.paths /\ sum.grants = base.grants \cup pol.grants
      /\ sum.exec = base.exec \o pol.exec /\ sum.generic = base.generic \cup pol.generic
  BY PlusTyped
<1>2. pol.exec \in Seq(ExecEntries) /\ base.exec \in Seq(ExecEntries)
  BY PolParts
<1> HIDE DEF sum
<1>3. CASE /\ InExec(Control(r, c, token)) => InExec(c)
           /\ \E a \in SUBSET Texts, b \in SUBSET Perms, k \in SUBSET Keys :
                 \A q \in Pols : Effect(c, token, q) = Adds(q, a, b, k)
  <2>1. PICK a \in SUBSET Texts, b \in SUBSET Perms, k \in SUBSET Keys : \A q \in Pols : Effect(c, token, q) = Adds(q, a, b, k)
    BY <1>3
  <2> DEFINE next == Effect(c, token, pol)
  <2>2. next = Adds(pol, a, b, k) /\ Effect(c, token, sum) = Adds(sum, a, b, k)
    BY <1>1, <2>1
  <2> HIDE DEF next
  <2>3. next.paths = pol.paths \cup a /\ next.grants = pol.grants \cup b /\ next.exec = pol.exec /\ next.generic = pol.generic \cup k
    BY <2>2, PolFields DEF Adds
  <2>4. /\ sum.paths \cup a = base.paths \cup next.paths /\ sum.grants \cup b = base.grants \cup next.grants
        /\ sum.exec = base.exec \o next.exec /\ sum.generic \cup k = base.generic \cup next.generic
    BY <1>1, <2>3
  <2>5. Effect(c, token, sum) = Plus(base, next)
    BY <2>2, <2>4 DEF Adds, Plus
  <2> QED BY <1>3, <2>3, <2>5 DEF next, sum
<1>4. ASSUME NEW list \in Seq(ExecEntries), NEW all,
             Effect(c, token, pol) = WithExec(pol, list), Effect(c, token, sum) = WithExec(sum, all),
             all = base.exec \o list, list # << >>
      PROVE  /\ Effect(c, token, Plus(base, pol)) = Plus(base, Effect(c, token, pol))
             /\ Effect(c, token, pol).exec # << >>
  <2> DEFINE next == Effect(c, token, pol)
  <2>1. next.paths = pol.paths /\ next.grants = pol.grants /\ next.exec = list /\ next.generic = pol.generic
    BY <1>4, PolFields DEF WithExec
  <2> HIDE DEF next
  <2>2. Effect(c, token, sum) = Plus(base, next)
    BY <1>1, <1>4, <2>1 DEF WithExec, Plus
  <2> QED BY <1>4, <2>1, <2>2 DEF next, sum
<1>5. CASE \E e \in ExecEntries : \A q \in Pols : Effect(c, token, q) = WithExec(q, Append(q.exec, e))
  <2>1. PICK e \in ExecEntries : \A q \in Pols : Effect(c, token, q) = WithExec(q, Append(q.exec, e))
    BY <1>5
  <2> DEFINE list == Append(pol.exec, e)
             all == Append(sum.exec, e)
  <2>2. Effect(c, token, pol) = WithExec(pol, list) /\ Effect(c, token, sum) = WithExec(sum, all)
    BY <1>1, <2>1
  <2>3. list \in Seq(ExecEntries) /\ Len(list) = Len(pol.exec) + 1 /\ Len(pol.exec) \in Nat
    BY <1>2, AppendProperties
  <2>4. all = base.exec \o list
    <3>1. "accept" \in Verbs
      BY DEF Verbs
    <3> QED
      <4>1. \A x, y \in Seq(ExecEntries) : Append(x \o y, e) = x \o Append(y, e)
        BY <3>1, BehindBase
      <4> QED BY <1>1, <1>2, <4>1
  <2> HIDE DEF list, all
  <2>5. list # << >>
    BY <2>3
  <2> QED BY <1>4, <2>2, <2>3, <2>4, <2>5
<1>6. CASE /\ c.at = "verb" /\ c.field = "mode"
           /\ \E m \in Verbs : \A q \in Pols : Effect(c, token, q) = WithExec(q, SetLast(q.exec, m))
  <2>1. PICK m \in Verbs : \A q \in Pols : Effect(c, token, q) = WithExec(q, SetLast(q.exec, m))
    BY <1>6
  <2> DEFINE list == SetLast(pol.exec, m)
             all == SetLast(sum.exec, m)
  <2>2. Effect(c, token, pol) = WithExec(pol, list) /\ Effect(c, token, sum) = WithExec(sum, all)
    BY <1>1, <2>1
  <2>3. pol.exec # << >>
    BY <1>6 DEF GoodPlace, InExec
  <2>4. list \in Seq(ExecEntries) /\ Len(list) = Len(pol.exec)
    BY <1>2, LastSet
  <2>5. all = base.exec \o list
    <3>1. PICK e \in ExecEntries : TRUE
      <4>1. Len(pol.exec) \in Nat /\ Len(pol.exec) # 0
        BY <1>2, <2>3, EmptySeq
      <4>2. pol.exec[1] \in ExecEntries
        BY <1>2, <4>1
      <4> QED BY <4>2
    <3> QED
      <4>1. \A x, y \in Seq(ExecEntries) : y # << >> => SetLast(x \o y, m) = x \o SetLast(y, m)
        BY <3>1, BehindBase
      <4> QED BY <1>1, <1>2, <2>3, <4>1
  <2>6. Len(pol.exec) # 0
    BY <1>2, <2>3, EmptySeq
  <2> HIDE DEF list, all
  <2>7. list # << >>
    BY <2>4, <2>6
  <2> QED BY <1>4, <2>2, <2>4, <2>5, <2>7
<1> QED BY <1>3, <1>5, <1>6, EffectKinds

\* What reading begins with.
LEMMA BeginTyped ==
    /\ NoPol \in Pols
    /\ \A pol \in Pols : Begin(pol) \in ReadStates
    /\ \A pol : Begin(pol).in = FALSE /\ Begin(pol).string = << >> /\ Begin(pol).c = Top /\ Begin(pol).pol = pol
    /\ NoPol.paths = {} /\ NoPol.grants = {} /\ NoPol.exec = << >> /\ NoPol.generic = {}
    /\ Top \in Places5 /\ Err \in Places5 /\ Top.at = "top" /\ Err.at = "error" /\ Top # Err
<1>1. << >> \in Texts /\ Top \in Places5 /\ Err \in Places5
  <2>1. << >> \in Texts /\ "top" \in Places /\ "mode" \in {"self", "children", "mode"} /\ "accept" \in Verbs
    BY Joined DEF Places, Verbs
  <2> QED BY <2>1, PlaceTyped, Zenon
<1>2. NoPol \in Pols
  <2>1. {} \in SUBSET Texts /\ {} \in SUBSET Perms /\ << >> \in Seq(ExecEntries) /\ {} \in SUBSET Keys
    OBVIOUS
  <2> QED BY <2>1, PolTyped DEF NoPol
<1>3. NoPol.paths = {} /\ NoPol.grants = {} /\ NoPol.exec = << >> /\ NoPol.generic = {}
  BY DEF NoPol, Pol
<1>4. \A pol : Begin(pol).in = FALSE /\ Begin(pol).string = << >> /\ Begin(pol).c = Top /\ Begin(pol).pol = pol
  BY DEF Begin, St
<1>5. ASSUME NEW pol \in Pols PROVE Begin(pol) \in ReadStates
  BY <1>1 DEF Begin, St, ReadStates
<1>6. Top.at = "top" /\ Err.at = "error"
  BY PlaceFields DEF Top, Err
<1> QED BY <1>1, <1>2, <1>3, <1>4, <1>5, <1>6

\* It is added to what was there.
LEMMA OutAdded ==
    ASSUME NEW r, NEW cells \in Seq(Plain), NEW base \in Pols
    PROVE  LET a == Fold(Reader(r), Begin(base), cells)
               b == Out(r, cells)
           IN  a \in ReadStates /\ b \in ReadStates /\ a.in = b.in /\ a.c = b.c /\ a.pol = Plus(base, b.pol)
<1> DEFINE Rel == {z \in Places5 \X Pols \X Places5 \X Pols :
                     /\ z[1] = z[3] /\ z[2] = Plus(base, z[4])
                     /\ GoodPlace(z[3]) /\ (InExec(z[3]) => z[4].exec # << >>)}
           a == Fold(Reader(r), Begin(base), cells)
           b == Out(r, cells)
<1>1. ASSUME NEW c \in Places5, NEW d \in Places5, NEW p \in Pols, NEW q \in Pols
      PROVE  <<c, p, d, q>> \in Rel <=> c = d /\ p = Plus(base, q) /\ GoodPlace(d) /\ (InExec(d) => q.exec # << >>)
  OBVIOUS
<1> HIDE DEF Rel
<1>2. ASSUME NEW c \in Places5, NEW d \in Places5, NEW p \in Pols, NEW q \in Pols, NEW token \in TokenSet, <<c, p, d, q>> \in Rel
      PROVE  <<Control(r, c, token), Effect(c, token, p), Control(r, d, token), Effect(d, token, q)>> \in Rel
  <2>1. c = d /\ p = Plus(base, q) /\ GoodPlace(d) /\ (InExec(d) => q.exec # << >>)
    BY <1>1, <1>2
  <2>2. /\ Effect(d, token, p) = Plus(base, Effect(d, token, q))
        /\ InExec(Control(r, d, token)) => Effect(d, token, q).exec # << >>
    BY <2>1, EffectPlus
  <2>3. GoodPlace(Control(r, d, token))
    BY NextPlace
  <2>4. Control(r, d, token) \in Places5 /\ Effect(d, token, p) \in Pols /\ Effect(d, token, q) \in Pols
    BY ControlTyped, EffectTyped
  <2> QED BY <1>1, <2>1, <2>2, <2>3, <2>4
<1>3. <<Begin(base).c, Begin(base).pol, Begin(NoPol).c, Begin(NoPol).pol>> \in Rel
  <2>1. base = Plus(base, NoPol)
    <3>1. base.exec \in Seq(ExecEntries) /\ base = Pol(base.paths, base.grants, base.exec, base.generic)
      BY PolParts
    <3>2. base.exec \o << >> = base.exec
      BY <3>1, ConcatEmptySeq
    <3>3. base.paths \cup {} = base.paths /\ base.grants \cup {} = base.grants /\ base.generic \cup {} = base.generic
      OBVIOUS
    <3> QED BY <3>1, <3>2, <3>3, BeginTyped DEF Plus
  <2>2. GoodPlace(Top) /\ ~InExec(Top)
    BY BeginTyped DEF GoodPlace, InExec
  <2> QED BY <1>1, <2>1, <2>2, BeginTyped
<1>4. Begin(base) \in ReadStates /\ Begin(NoPol) \in ReadStates /\ Begin(base).in = Begin(NoPol).in /\ Begin(base).string = Begin(NoPol).string
  BY BeginTyped
<1>5. a \in ReadStates /\ b \in ReadStates /\ a.in = b.in /\ <<a.c, a.pol, b.c, b.pol>> \in Rel
  <2>1. b = Fold(Reader(r), Begin(NoPol), cells)
    BY DEF Out
  <2> HIDE DEF b
  <2> QED BY <1>2, <1>3, <1>4, <2>1, ReadersRelated
<1> HIDE DEF a, b
<1>6. a.c \in Places5 /\ a.pol \in Pols /\ b.c \in Places5 /\ b.pol \in Pols
  BY <1>5, StParts
<1>7. a.c = b.c /\ a.pol = Plus(base, b.pol)
  BY <1>1, <1>5, <1>6
<1> QED BY <1>5, <1>7 DEF a, b

\* A token adds to what was read.
LEMMA EffectMore ==
    ASSUME NEW r, NEW c \in Places5, GoodPlace(c), NEW token \in TokenSet, NEW p \in Pols, NEW q \in Pols,
           LessRead(p, q), InExec(c) => Len(p.exec) < Len(q.exec)
    PROVE  /\ LessRead(p, Effect(c, token, q))
           /\ InExec(Control(r, c, token)) => Len(p.exec) < Len(Effect(c, token, q).exec)
<1> DEFINE next == Effect(c, token, q)
<1>1. p.exec \in Seq(ExecEntries) /\ q.exec \in Seq(ExecEntries)
  BY PolParts
<1>2. p.paths \subseteq q.paths /\ p.grants \subseteq q.grants /\ p.generic \subseteq q.generic /\ ExecKept(p.exec, q.exec)
  BY DEF LessRead
<1>3. CASE /\ InExec(Control(r, c, token)) => InExec(c)
           /\ \E a \in SUBSET Texts, b \in SUBSET Perms, k \in SUBSET Keys :
                 \A pol \in Pols : Effect(c, token, pol) = Adds(pol, a, b, k)
  <2>1. PICK a \in SUBSET Texts, b \in SUBSET Perms, k \in SUBSET Keys : \A pol \in Pols : Effect(c, token, pol) = Adds(pol, a, b, k)
    BY <1>3
  <2>2. next = Adds(q, a, b, k)
    BY <2>1
  <2> HIDE DEF next
  <2>3. next.paths = q.paths \cup a /\ next.grants = q.grants \cup b /\ next.exec = q.exec /\ next.generic = q.generic \cup k
    BY <2>2, PolFields DEF Adds
  <2>4. LessRead(p, next)
    BY <1>2, <2>3 DEF LessRead
  <2> QED BY <1>3, <2>3, <2>4 DEF next
<1>4. ASSUME NEW list, next = WithExec(q, list), ExecKept(p.exec, list), Len(p.exec) < Len(list)
      PROVE  LessRead(p, next) /\ Len(p.exec) < Len(next.exec)
  <2> HIDE DEF next
  <2>1. next.paths = q.paths /\ next.grants = q.grants /\ next.exec = list /\ next.generic = q.generic
    BY <1>4, PolFields DEF WithExec
  <2> QED BY <1>2, <1>4, <2>1 DEF LessRead
<1>5. CASE \E e \in ExecEntries : \A pol \in Pols : Effect(c, token, pol) = WithExec(pol, Append(pol.exec, e))
  <2>1. PICK e \in ExecEntries : next = WithExec(q, Append(q.exec, e))
    BY <1>5
  <2>2. ExecKept(p.exec, Append(q.exec, e)) /\ Len(p.exec) < Len(Append(q.exec, e))
    BY <1>1, <1>2, ExecAdded
  <2> HIDE DEF next
  <2>3. LessRead(p, next) /\ Len(p.exec) < Len(next.exec)
    BY <1>4, <2>1, <2>2
  <2> QED BY <2>3 DEF next
<1>6. CASE /\ c.at = "verb" /\ c.field = "mode"
           /\ \E m \in Verbs : \A pol \in Pols : Effect(c, token, pol) = WithExec(pol, SetLast(pol.exec, m))
  <2>1. PICK m \in Verbs : next = WithExec(q, SetLast(q.exec, m))
    BY <1>6
  <2>2. Len(p.exec) < Len(q.exec)
    BY <1>6 DEF GoodPlace, InExec
  <2>3. ExecKept(p.exec, SetLast(q.exec, m)) /\ Len(p.exec) < Len(SetLast(q.exec, m))
    BY <1>1, <1>2, <2>2, ExecSet DEF SetLast
  <2> HIDE DEF next
  <2>4. LessRead(p, next) /\ Len(p.exec) < Len(next.exec)
    BY <1>4, <2>1, <2>3
  <2> QED BY <2>4 DEF next
<1> QED BY <1>3, <1>5, <1>6, EffectKinds

\* A process that has not registered the generic permission system reads the same, or stops
\* with an error where its block begins.
LEMMA OutUnregistered ==
    ASSUME NEW cells \in Seq(Plain)
    PROVE  LET a == Out(TRUE, cells)
               b == Out(FALSE, cells)
           IN  /\ a \in ReadStates /\ b \in ReadStates /\ a.in = b.in
               /\ \/ a.c = b.c /\ a.pol = b.pol
                  \/ b.c = Err /\ LessRead(b.pol, a.pol)
<1> DEFINE Rel == {z \in Places5 \X Pols \X Places5 \X Pols :
                     /\ GoodPlace(z[1])
                     /\ \/ z[1] = z[3] /\ z[2] = z[4]
                        \/ /\ z[3] = Err /\ LessRead(z[4], z[2])
                           /\ InExec(z[1]) => Len(z[4].exec) < Len(z[2].exec)}
           a == Out(TRUE, cells)
           b == Out(FALSE, cells)
<1>1. ASSUME NEW c \in Places5, NEW d \in Places5, NEW p \in Pols, NEW q \in Pols
      PROVE  <<c, p, d, q>> \in Rel <=>
                /\ GoodPlace(c)
                /\ \/ c = d /\ p = q
                   \/ d = Err /\ LessRead(q, p) /\ (InExec(c) => Len(q.exec) < Len(p.exec))
  OBVIOUS
<1> HIDE DEF Rel
<1>2. ASSUME NEW c \in Places5, NEW d \in Places5, NEW p \in Pols, NEW q \in Pols, NEW token \in TokenSet, <<c, p, d, q>> \in Rel
      PROVE  <<Control(TRUE, c, token), Effect(c, token, p), Control(FALSE, d, token), Effect(d, token, q)>> \in Rel
  <2> DEFINE c2 == Control(TRUE, c, token)
             d2 == Control(FALSE, d, token)
             p2 == Effect(c, token, p)
             q2 == Effect(d, token, q)
  <2>1. c2 \in Places5 /\ d2 \in Places5 /\ p2 \in Pols /\ q2 \in Pols
    BY ControlTyped, EffectTyped
  <2>2. GoodPlace(c) /\ GoodPlace(c2)
    BY <1>1, <1>2, NextPlace
  <2> SUFFICES <<c2, p2, d2, q2>> \in Rel
    OBVIOUS
  <2> HIDE DEF c2, d2, p2, q2
  <2>3. CASE c = d /\ p = q
    <3>1. CASE c.at = "resource" /\ token.type = "{" /\ c.resource = GenericResource
      <4>1. GenericResource \in Parsers(TRUE) /\ GenericResource \notin Parsers(FALSE)
        BY ResourcesDiffer DEF Parsers
      <4>2. c2 = Heading("entries", GenericResource) /\ d2 = Err /\ p2 = p /\ q2 = q
        BY <2>3, <3>1, <4>1 DEF Control, Effect, c2, d2, p2, q2
      <4>3. c2.at = "entries"
        BY <4>2 DEF Heading, Ctl
      <4>4. ExecKept(p.exec, p.exec)
        <5>1. Len(p.exec) \in Nat
          BY PolParts, LenProperties
        <5> QED BY <5>1 DEF ExecKept
      <4>5. LessRead(q2, p2)
        BY <2>3, <4>2, <4>4 DEF LessRead
      <4> QED
        <5>1. ~InExec(c2)
          BY <4>3 DEF InExec
        <5> QED BY <1>1, <2>1, <2>2, <4>2, <4>5, <5>1
    <3>2. CASE ~(c.at = "resource" /\ token.type = "{" /\ c.resource = GenericResource)
      <4>1. c.resource # GenericResource => (c.resource \in Parsers(TRUE) <=> c.resource \in Parsers(FALSE))
        BY DEF Parsers
      <4>2. c2 = d2
        BY <2>3, <3>2, <4>1 DEF Control, c2, d2
      <4>3. p2 = q2
        BY <2>3 DEF p2, q2
      <4> QED BY <1>1, <2>1, <2>2, <4>2, <4>3
    <3> QED BY <3>1, <3>2
  <2>4. CASE d = Err /\ LessRead(q, p) /\ (InExec(c) => Len(q.exec) < Len(p.exec))
    <3>1. d2 = Err /\ q2 = q
      BY <2>4, BeginTyped DEF Control, Effect, d2, q2
    <3>2. LessRead(q, p2) /\ (InExec(c2) => Len(q.exec) < Len(p2.exec))
      BY <2>2, <2>4, EffectMore DEF c2, p2
    <3> QED BY <1>1, <2>1, <2>2, <3>1, <3>2
  <2> QED BY <1>1, <1>2, <2>3, <2>4
<1> DEFINE begin == Begin(NoPol)
<1>3. begin \in ReadStates /\ <<begin.c, begin.pol, begin.c, begin.pol>> \in Rel
  <2>1. GoodPlace(Top)
    BY BeginTyped DEF GoodPlace
  <2> QED BY <1>1, <2>1, BeginTyped
<1>4. a \in ReadStates /\ b \in ReadStates /\ a.in = b.in /\ <<a.c, a.pol, b.c, b.pol>> \in Rel
  <2>1. PICK t, f : t = TRUE /\ f = FALSE
    OBVIOUS
  <2>2. a = Fold(Reader(t), begin, cells) /\ b = Fold(Reader(f), begin, cells)
    BY <2>1 DEF Out
  <2>3. ASSUME NEW c \in Places5, NEW d \in Places5, NEW p \in Pols, NEW q \in Pols, NEW token \in TokenSet, <<c, p, d, q>> \in Rel
        PROVE  <<Control(t, c, token), Effect(c, token, p), Control(f, d, token), Effect(d, token, q)>> \in Rel
    BY <1>2, <2>1, <2>3
  <2> HIDE DEF a, b, begin
  <2> QED BY <1>3, <2>2, <2>3, ReadersRelated
<1> HIDE DEF a, b
<1>5. a.c \in Places5 /\ a.pol \in Pols /\ b.c \in Places5 /\ b.pol \in Pols
  BY <1>4, StParts
<1>6. (a.c = b.c /\ a.pol = b.pol) \/ (b.c = Err /\ LessRead(b.pol, a.pol))
  BY <1>1, <1>4, <1>5
<1> QED BY <1>4, <1>6 DEF a, b

----------------------------------------
(* Pieces of text. *)

\* Of two ways to cut a text in two, the longer first part continues the shorter.
LEMMA CutBefore ==
    ASSUME NEW C, NEW a \in Seq(C), NEW b \in Seq(C), NEW d \in Seq(C), NEW e \in Seq(C), a \o b = d \o e, Len(d) <= Len(a)
    PROVE  CutBehind(C, a, b, d, e)
<1> DEFINE na == Len(a)
           nb == Len(b)
           nd == Len(d)
           ne == Len(e)
           ab == a \o b
           m == SubSeq(a, nd + 1, na)
           dm == d \o m
           mb == m \o b
<1>1. /\ na \in Nat /\ nb \in Nat /\ nd \in Nat /\ ne \in Nat /\ nd <= na
      /\ Len(ab) = na + nb /\ Len(ab) = nd + ne
      /\ \A i \in 1 .. na + nb : ab[i] = IF i <= na THEN a[i] ELSE b[i - na]
      /\ \A i \in 1 .. nd + ne : ab[i] = IF i <= nd THEN d[i] ELSE e[i - nd]
  BY ConcatProperties
<1>2. na + nb = nd + ne
  BY <1>1
<1>3. m \in Seq(C) /\ Len(m) = na - nd /\ \A i \in 1 .. na - nd : m[i] = a[nd + i]
  <2>1. nd + 1 \in Int /\ na \in Int /\ \A i \in nd + 1 .. na : a[i] \in C
    BY <1>1
  <2>2. /\ m \in Seq(C) /\ Len(m) = (IF nd + 1 <= na THEN na - (nd + 1) + 1 ELSE 0)
        /\ \A i \in 1 .. na - (nd + 1) + 1 : m[i] = a[(nd + 1) + i - 1]
    BY <2>1, SubSeqProperties
  <2> HIDE DEF m, na, nd
  <2>3. na - (nd + 1) + 1 = na - nd /\ \A i \in Int : (nd + 1) + i - 1 = nd + i
    BY <1>1
  <2> QED BY <1>1, <2>2, <2>3
<1> HIDE DEF m, ab
<1>4. /\ dm \in Seq(C) /\ Len(dm) = nd + (na - nd)
      /\ \A i \in 1 .. nd + (na - nd) : dm[i] = IF i <= nd THEN d[i] ELSE m[i - nd]
      /\ mb \in Seq(C) /\ Len(mb) = (na - nd) + nb
      /\ \A i \in 1 .. (na - nd) + nb : mb[i] = IF i <= na - nd THEN m[i] ELSE b[i - (na - nd)]
  <2>1. m \in Seq(C)
    BY <1>3
  <2>2. /\ dm \in Seq(C) /\ Len(dm) = nd + Len(m)
        /\ \A i \in 1 .. nd + Len(m) : dm[i] = IF i <= nd THEN d[i] ELSE m[i - nd]
    BY <2>1, ConcatProperties
  <2>3. /\ mb \in Seq(C) /\ Len(mb) = Len(m) + nb
        /\ \A i \in 1 .. Len(m) + nb : mb[i] = IF i <= Len(m) THEN m[i] ELSE b[i - Len(m)]
    BY <2>1, ConcatProperties
  <2> HIDE DEF dm, mb, na, nb, nd
  <2>4. Len(m) = na - nd
    BY <1>3
  <2> QED BY <2>2, <2>3, <2>4
<1> HIDE DEF dm, mb
<1>5. a = dm
  <2>1. Len(dm) = na
    BY <1>1, <1>4
  <2>2. ASSUME NEW i \in 1 .. na PROVE a[i] = dm[i]
    <3>1. i \in 1 .. na + nb /\ i \in 1 .. nd + ne /\ i \in 1 .. nd + (na - nd)
      BY <1>1, <1>2
    <3>2. CASE i <= nd
      <4>1. ab[i] = a[i] /\ ab[i] = d[i] /\ dm[i] = d[i]
        BY <1>1, <1>4, <3>1, <3>2
      <4> QED BY <4>1
    <3>3. CASE ~(i <= nd)
      <4>1. i - nd \in 1 .. na - nd /\ nd + (i - nd) = i
        BY <1>1, <3>3
      <4>2. dm[i] = m[i - nd]
        BY <1>4, <3>1, <3>3
      <4>3. m[i - nd] = a[nd + (i - nd)]
        BY <1>3, <4>1
      <4> QED BY <4>1, <4>2, <4>3
    <3> QED BY <3>2, <3>3
  <2> QED BY <1>4, <2>1, <2>2, SeqEqual
<1>6. e = mb
  <2>1. Len(mb) = ne
    BY <1>1, <1>2, <1>4
  <2>2. ASSUME NEW i \in 1 .. ne PROVE e[i] = mb[i]
    <3>1. i + nd \in 1 .. na + nb /\ i + nd \in 1 .. nd + ne /\ i \in 1 .. (na - nd) + nb /\ (i + nd) - nd = i /\ ~(i + nd <= nd)
      BY <1>1, <1>2
    <3>2. ab[i + nd] = e[i]
      BY <1>1, <3>1
    <3>3. CASE i <= na - nd
      <4>1. i + nd <= na /\ i \in 1 .. na - nd /\ nd + i = i + nd
        BY <1>1, <3>3
      <4>2. ab[i + nd] = a[i + nd] /\ mb[i] = m[i]
        BY <1>1, <1>4, <3>1, <3>3, <4>1
      <4>3. m[i] = a[nd + i]
        BY <1>3, <4>1
      <4> QED BY <3>2, <4>1, <4>2, <4>3
    <3>4. CASE ~(i <= na - nd)
      <4>1. ~(i + nd <= na) /\ (i + nd) - na = i - (na - nd)
        BY <1>1, <3>4
      <4>2. ab[i + nd] = b[(i + nd) - na] /\ mb[i] = b[i - (na - nd)]
        BY <1>1, <1>4, <3>1, <3>4, <4>1
      <4> QED BY <3>2, <4>1, <4>2
    <3> QED BY <3>3, <3>4
  <2> QED BY <1>4, <2>1, <2>2, SeqEqual
<1> QED BY <1>3, <1>5, <1>6 DEF dm, mb, CutBehind

\* One of them is the longer one.
LEMMA Cut ==
    ASSUME NEW C, NEW a \in Seq(C), NEW b \in Seq(C), NEW d \in Seq(C), NEW e \in Seq(C), a \o b = d \o e
    PROVE  CutBehind(C, a, b, d, e) \/ CutBehind(C, d, e, a, b)
<1>1. Len(a) \in Nat /\ Len(d) \in Nat
  OBVIOUS
<1>2. Len(d) <= Len(a) => CutBehind(C, a, b, d, e)
  BY CutBefore
<1>3. Len(a) <= Len(d) => CutBehind(C, d, e, a, b)
  <2>1. d \o e = a \o b
    OBVIOUS
  <2> QED BY <2>1, CutBefore
<1> QED BY <1>1, <1>2, <1>3

\* What FlattenSeq computes.
LEMMA FlattenSteps ==
    ASSUME NEW S, NEW seqs \in Seq(Seq(S))
    PROVE  \E f : /\ Pieces(f, seqs) /\ FlattenSeq(seqs) = f[Len(seqs)]
                  /\ \A i \in 0 .. Len(seqs) : f[i] \in Seq(S)
<1> DEFINE N == Len(seqs)
           Flat(f) == f = [i \in 1 .. N |-> IF i = 1 THEN seqs[i] ELSE f[i - 1] \o seqs[i]]
           flatten == CHOOSE f : Flat(f)
<1>0. N \in Nat /\ \A i \in 1 .. N : seqs[i] \in Seq(S)
  OBVIOUS
<1>1. FlattenSeq(seqs) = IF N = 0 THEN seqs ELSE flatten[N]
  BY DEF FlattenSeq
<1>2. CASE N = 0
  <2>1. seqs = << >>
    BY <1>2, EmptySeq
  <2> DEFINE f == [i \in {0} |-> seqs]
  <2>2. f[0] = << >> /\ << >> \in Seq(S)
    BY <2>1
  <2>3. Pieces(f, seqs)
    BY <1>2, <2>2 DEF Pieces
  <2>4. \A i \in 0 .. N : f[i] \in Seq(S)
    BY <1>2, <2>2
  <2>5. FlattenSeq(seqs) = f[N]
    BY <1>1, <1>2
  <2> HIDE DEF f
  <2> QED BY <2>3, <2>4, <2>5
<1>3. CASE N # 0
  <2> HIDE DEF N
  <2> DEFINE Round == [x \in Seq(S) \X (1 + 1 .. N) |-> x[1] \o seqs[x[2]]]
  <2>1. \A x \in Seq(S), n \in 1 + 1 .. N : Round[<<x, n>>] \in Seq(S) /\ Round[<<x, n>>] = x \o seqs[n]
    <3>1. ASSUME NEW x \in Seq(S), NEW n \in 1 + 1 .. N PROVE x \o seqs[n] \in Seq(S)
      BY <1>0, ConcatProperties
    <3>2. ASSUME NEW x \in Seq(S), NEW n \in 1 + 1 .. N PROVE Round[<<x, n>>] = x \o seqs[n]
      OBVIOUS
    <3> QED BY <3>1, <3>2
  <2> HIDE DEF Round
  <2>2. PICK g : Computes(g, seqs[1], Round, 1, N, Seq(S))
    <3>1. 1 \in Nat /\ N \in Nat /\ 1 <= N /\ seqs[1] \in Seq(S)
      BY <1>0, <1>3
    <3> QED BY <2>1, <3>1, Rounds
  <2>3. Flat(g)
    <3>1. ASSUME NEW i \in 1 .. N PROVE g[i] = IF i = 1 THEN seqs[i] ELSE g[i - 1] \o seqs[i]
      <4>1. CASE i = 1
        BY <2>2, <4>1 DEF Computes
      <4>2. CASE i # 1
        <5>1. i \in 1 + 1 .. N /\ i - 1 \in 1 .. N
          BY <1>0, <4>2
        <5>2. g[i - 1] \in Seq(S) /\ g[i] = Round[<<g[i - 1], i>>]
          BY <2>2, <4>2, <5>1 DEF Computes
        <5> QED BY <2>1, <4>2, <5>1, <5>2
      <4> QED BY <4>1, <4>2
    <3>2. g \in [1 .. N -> Seq(S)]
      BY <2>2 DEF Computes
    <3> QED BY <3>1, <3>2
  <2>4. Flat(flatten)
    BY <2>3
  <2> HIDE DEF flatten
  <2>5. \A i \in 1 .. N : flatten[i] = IF i = 1 THEN seqs[i] ELSE flatten[i - 1] \o seqs[i]
    BY <2>4
  <2>6. flatten[1] \in Seq(S)
    BY <1>0, <1>3, <2>5
  <2>7. ASSUME NEW n \in 1 + 1 .. N, flatten[n - 1] \in Seq(S) PROVE flatten[n] \in Seq(S)
    <3>1. n \in 1 .. N /\ n # 1 /\ seqs[n] \in Seq(S)
      BY <1>0
    <3> QED BY <2>5, <2>7, <3>1, ConcatProperties
  <2>8. \A n \in 1 .. N : flatten[n] \in Seq(S)
    BY <1>0, <2>6, <2>7, StaysGood
  <2> DEFINE f == [i \in 0 .. N |-> IF i = 0 THEN << >> ELSE flatten[i]]
  <2>9. f[0] = << >> /\ \A i \in 1 .. N : f[i] = flatten[i]
    BY <1>0
  <2> HIDE DEF f
  <2>10. ASSUME NEW i \in 1 .. N PROVE f[i] = f[i - 1] \o seqs[i]
    <3>1. CASE i = 1
      <4>1. i - 1 = 0 /\ << >> \o seqs[i] = seqs[i]
        BY <1>0, <3>1, ConcatEmptySeq
      <4> QED BY <2>5, <2>9, <3>1, <4>1
    <3>2. CASE i # 1
      <4>1. i - 1 \in 1 .. N
        BY <1>0, <3>2
      <4> QED BY <2>5, <2>9, <3>2, <4>1
    <3> QED BY <3>1, <3>2
  <2>11. Pieces(f, seqs)
    BY <2>9, <2>10 DEF Pieces, N
  <2>12. ASSUME NEW i \in 0 .. N PROVE f[i] \in Seq(S)
    <3>1. i = 0 \/ i \in 1 .. N
      BY <1>0
    <3>2. << >> \in Seq(S)
      OBVIOUS
    <3> QED BY <2>8, <2>9, <3>1, <3>2
  <2>13. FlattenSeq(seqs) = f[N]
    BY <1>0, <1>1, <1>3, <2>9
  <2> QED BY <2>11, <2>12, <2>13 DEF N
<1> QED BY <1>2, <1>3

----------------------------------------
(* Reading a piece of text. *)

\* Reading is a machine's run.
LEMMA ReaderParts ==
    ASSUME NEW r, NEW x \in ReadStates
    PROVE  /\ Fold(Reader(r), x, << >>) = x
           /\ \A c \in Plain : Fold(Reader(r), x, <<c>>) = ReadCell(r, x, c)
           /\ \A a \in Seq(Plain) : Fold(Reader(r), x, a) \in ReadStates
           /\ \A a, b \in Seq(Plain) : Fold(Reader(r), x, a \o b) = Fold(Reader(r), Fold(Reader(r), x, a), b)
<1> DEFINE R == Reader(r)
<1>1. Machine(ReadStates, Plain, R) /\ \A c \in Plain : R[<<x, c>>] = ReadCell(r, x, c)
  BY ReaderSteps
<1> HIDE DEF R
<1>2. /\ Fold(R, x, << >>) = x
      /\ \A c \in Plain : Fold(R, x, <<c>>) = R[<<x, c>>]
      /\ \A a \in Seq(Plain) : Fold(R, x, a) \in ReadStates
      /\ \A a, b \in Seq(Plain) : Fold(R, x, a \o b) = Fold(R, Fold(R, x, a), b)
  BY <1>1, FoldParts
<1> QED BY <1>1, <1>2 DEF R

\* Ways to cut nothing, and one cell.
LEMMA ShortCuts ==
    ASSUME NEW C, NEW a \in Seq(C), NEW b \in Seq(C)
    PROVE  /\ << >> = a \o b => a = << >>
           /\ \A c : <<c>> = a \o b => a = << >> \/ a = <<c>>
<1> DEFINE ab == a \o b
<1>1. /\ Len(a) \in Nat /\ Len(b) \in Nat /\ Len(ab) = Len(a) + Len(b)
      /\ \A i \in 1 .. Len(a) + Len(b) : ab[i] = IF i <= Len(a) THEN a[i] ELSE b[i - Len(a)]
  BY ConcatProperties
<1> HIDE DEF ab
<1>2. << >> = ab => a = << >>
  <2> SUFFICES ASSUME << >> = ab PROVE a = << >>
    OBVIOUS
  <2>1. Len(ab) = 0
    OBVIOUS
  <2>2. Len(a) = 0
    BY <1>1, <2>1
  <2> QED BY <2>2, EmptySeq
<1>3. ASSUME NEW c, <<c>> = ab PROVE a = << >> \/ a = <<c>>
  <2>1. Len(ab) = 1 /\ ab[1] = c
    BY <1>3
  <2>2. Len(a) = 0 \/ Len(a) = 1
    <3> DEFINE n == Len(a)
               m == Len(b)
    <3>1. n \in Nat /\ m \in Nat /\ 1 = n + m
      BY <1>1, <2>1
    <3> HIDE DEF n, m
    <3>2. n = 0 \/ n = 1
      BY <3>1
    <3> QED BY <3>2 DEF n
  <2>3. CASE Len(a) = 0
    BY <2>3, EmptySeq
  <2>4. CASE Len(a) = 1
    <3>1. ab[1] = a[1]
      BY <1>1, <2>4
    <3>2. a[1] = c
      BY <2>1, <3>1
    <3> QED BY <2>4, <3>2
  <2> QED BY <2>2, <2>3, <2>4
<1> QED BY <1>2, <1>3 DEF ab

\* No text.
LEMMA TrEmpty ==
    ASSUME NEW r, NEW K, NEW X, X \subseteq ReadStates, \A x \in X : <<x.c, x.pol>> \in K, NEW Y, X \subseteq Y
    PROVE  Tr(r, K, X, << >>, Y)
<1>1. << >> \in Seq(Plain)
  OBVIOUS
<1>2. \A x \in X : Fold(Reader(r), x, << >>) = x
  BY ReaderParts
<1>3. ASSUME NEW x \in X, NEW a \in Seq(Plain), NEW b \in Seq(Plain), << >> = a \o b
      PROVE  LET y == Fold(Reader(r), x, a) IN <<y.c, y.pol>> \in K
  <2>1. a = << >>
    BY <1>3, ShortCuts
  <2> QED BY <1>2, <2>1
<1> QED BY <1>1, <1>2, <1>3 DEF Tr

\* One cell.
LEMMA TrCell ==
    ASSUME NEW r, NEW K, NEW X, X \subseteq ReadStates, NEW cell \in Plain, NEW Y,
           \A x \in X : <<x.c, x.pol>> \in K,
           \A x \in X : LET y == ReadCell(r, x, cell) IN y \in Y /\ <<y.c, y.pol>> \in K
    PROVE  Tr(r, K, X, <<cell>>, Y)
<1>1. <<cell>> \in Seq(Plain)
  OBVIOUS
<1>2. \A x \in X : Fold(Reader(r), x, << >>) = x /\ Fold(Reader(r), x, <<cell>>) = ReadCell(r, x, cell)
  BY ReaderParts
<1>3. ASSUME NEW x \in X, NEW a \in Seq(Plain), NEW b \in Seq(Plain), <<cell>> = a \o b
      PROVE  LET y == Fold(Reader(r), x, a) IN <<y.c, y.pol>> \in K
  <2>1. a = << >> \/ a = <<cell>>
    BY <1>3, ShortCuts
  <2>2. CASE a = << >>
    BY <1>2, <2>2
  <2>3. CASE a = <<cell>>
    BY <1>2, <2>3
  <2> QED BY <2>1, <2>2, <2>3
<1>4. \A x \in X : Fold(Reader(r), x, <<cell>>) \in Y
  BY <1>2
<1> QED BY <1>1, <1>3, <1>4 DEF Tr

\* One piece behind another.
LEMMA TrConcat ==
    ASSUME NEW r, NEW K, NEW X, NEW d, NEW Y, NEW e, NEW Z, Tr(r, K, X, d, Y), Tr(r, K, Y, e, Z)
    PROVE  Tr(r, K, X, d \o e, Z)
<1> DEFINE de == d \o e
           In(x, a) == LET y == Fold(Reader(r), x, a) IN <<y.c, y.pol>> \in K
<1>1. /\ d \in Seq(Plain) /\ e \in Seq(Plain) /\ X \subseteq ReadStates /\ Y \subseteq ReadStates
      /\ \A x \in X : Fold(Reader(r), x, d) \in Y
      /\ \A y \in Y : Fold(Reader(r), y, e) \in Z
      /\ \A x \in X, a, b \in Seq(Plain) : d = a \o b => In(x, a)
      /\ \A x \in Y, a, b \in Seq(Plain) : e = a \o b => In(x, a)
  BY DEF Tr
<1>2. de \in Seq(Plain)
  BY <1>1, ConcatProperties
<1>3. \A x \in X, a \in Seq(Plain) : Fold(Reader(r), x, d \o a) = Fold(Reader(r), Fold(Reader(r), x, d), a)
  BY <1>1, ReaderParts
<1>4. ASSUME NEW x \in X, NEW a \in Seq(Plain), NEW b \in Seq(Plain), de = a \o b PROVE In(x, a)
  <2>1. a \o b = d \o e
    BY <1>4
  <2>2. CutBehind(Plain, a, b, d, e) \/ CutBehind(Plain, d, e, a, b)
    BY <1>1, <2>1, Cut
  <2>3. CASE CutBehind(Plain, a, b, d, e)
    <3>1. PICK m \in Seq(Plain) : a = d \o m /\ e = m \o b
      BY <2>3 DEF CutBehind
    <3> DEFINE y == Fold(Reader(r), x, d)
    <3>2. y \in Y /\ Fold(Reader(r), x, a) = Fold(Reader(r), y, m)
      BY <1>1, <1>3, <3>1
    <3> HIDE DEF y
    <3>3. In(y, m)
      BY <1>1, <3>1, <3>2
    <3> QED BY <3>2, <3>3
  <2>4. CASE CutBehind(Plain, d, e, a, b)
    <3>1. PICK m \in Seq(Plain) : d = a \o m
      BY <2>4 DEF CutBehind
    <3> QED BY <1>1, <3>1
  <2> QED BY <2>2, <2>3, <2>4
<1>5. \A x \in X : Fold(Reader(r), x, de) \in Z
  BY <1>1, <1>3
<1> HIDE DEF de
<1>6. Tr(r, K, X, de, Z)
  BY <1>1, <1>2, <1>4, <1>5 DEF Tr
<1> QED BY <1>6 DEF de

\* Many pieces.
LEMMA TrFlatten ==
    ASSUME NEW r, NEW K, NEW seqs \in Seq(Seq(Plain)), NEW X,
           X[0] \subseteq ReadStates, \A x \in X[0] : <<x.c, x.pol>> \in K,
           \A i \in 1 .. Len(seqs) : Tr(r, K, X[i - 1], seqs[i], X[i])
    PROVE  Tr(r, K, X[0], FlattenSeq(seqs), X[Len(seqs)])
<1>1. PICK f : /\ Pieces(f, seqs) /\ FlattenSeq(seqs) = f[Len(seqs)]
               /\ \A i \in 0 .. Len(seqs) : f[i] \in Seq(Plain)
  BY FlattenSteps
<1> DEFINE N == Len(seqs)
           Good(i) == Tr(r, K, X[0], f[i], X[i])
           Not == {i \in 0 .. N : ~Good(i)}
<1>2. N \in Nat
  OBVIOUS
<1>3. f[0] = << >> /\ \A i \in 1 .. N : f[i] = f[i - 1] \o seqs[i]
  BY <1>1 DEF Pieces
<1>4. Good(0)
  BY <1>3, TrEmpty
<1>5. ASSUME NEW i \in 1 .. N, Good(i - 1) PROVE Good(i)
  <2>1. Tr(r, K, X[i - 1], seqs[i], X[i])
    OBVIOUS
  <2>2. Tr(r, K, X[0], f[i - 1] \o seqs[i], X[i])
    BY <1>5, <2>1, TrConcat
  <2> QED BY <1>3, <2>2
<1> HIDE DEF Good, N
<1>6. Not = {}
  <2>1. SUFFICES ASSUME Not # {} PROVE FALSE
    OBVIOUS
  <2>2. Not \subseteq Nat
    BY <1>2
  <2>3. PICK n \in Not : \A m \in Not : n <= m
    BY <2>1, <2>2, LeastNumber
  <2>4. n \in 0 .. N /\ ~Good(n) /\ n # 0
    BY <1>4, <2>3
  <2>5. n \in 1 .. N /\ n - 1 \in 0 .. N /\ ~(n <= n - 1)
    BY <1>2, <2>4
  <2>6. Good(n - 1)
    BY <2>3, <2>5
  <2> QED BY <1>5, <2>4, <2>5, <2>6
<1>7. Good(N)
  <2>1. N \in 0 .. N
    BY <1>2
  <2> QED BY <1>6, <2>1
<1> QED BY <1>1, <1>7 DEF Good, N

\* A word or a brace.
LEMMA TrWord ==
    ASSUME NEW r, NEW K, NEW c \in Places5, NEW pol \in Pols, NEW cell \in Plain, cell # "Q", NEW d, NEW q,
           d = Control(r, c, TokenFor(cell)), q = Effect(c, TokenFor(cell), pol),
           <<c, pol>> \in K, <<d, q>> \in K
    PROVE  Tr(r, K, At(c, pol), <<cell>>, At(d, q)) /\ d \in Places5 /\ q \in Pols
<1> DEFINE x == St(FALSE, << >>, c, pol)
           y == St(FALSE, << >>, d, q)
<1>1. x \in ReadStates
  BY DEF St, ReadStates, Texts
<1>2. x.in = FALSE /\ x.c = c /\ x.pol = pol /\ y.c = d /\ y.pol = q
  BY DEF St
<1>3. d \in Places5 /\ q \in Pols
  <2>1. TokenFor(cell) \in TokenSet
    BY TokenTyped DEF Plain
  <2> QED BY <2>1, ControlTyped, EffectTyped
<1> HIDE DEF x
<1>4. ReadCell(r, x, cell) = y
  BY <1>2 DEF ReadCell, Take
<1> HIDE DEF y
<1>5. At(c, pol) = {x} /\ At(d, q) = {y}
  BY DEF At, x, y
<1> DEFINE X == {x}
           Y == {y}
<1>6. /\ X \subseteq ReadStates /\ \A z \in X : <<z.c, z.pol>> \in K
      /\ \A z \in X : LET w == ReadCell(r, z, cell) IN w \in Y /\ <<w.c, w.pol>> \in K
  BY <1>1, <1>2, <1>4
<1> HIDE DEF X, Y
<1>7. Tr(r, K, X, <<cell>>, Y)
  BY <1>6, TrCell
<1> QED BY <1>3, <1>5, <1>7 DEF X, Y

\* Inside a string.
LEMMA InString ==
    ASSUME NEW r, NEW c \in Places5, NEW pol \in Pols, NEW a \in Seq(Plain \ {"Q"})
    PROVE  Fold(Reader(r), St(TRUE, << >>, c, pol), a) = St(TRUE, a, c, pol)
<1> DEFINE N == Len(a)
           part == [n \in 0 .. N |-> SubSeq(a, 1, n)]
           g == [n \in 0 .. N |-> St(TRUE, part[n], c, pol)]
           R == Reader(r)
<1>1. N \in Nat /\ a \in Texts /\ a \in Seq(Plain) /\ \A n \in 1 .. N : a[n] \in Plain /\ a[n] # "Q"
  BY DEF Plain, Texts
<1>2. \A n \in 0 .. N : part[n] = SubSeq(a, 1, n)
  OBVIOUS
<1>3. part[0] = << >> /\ part[N] = a
  <2>1. 0 \in 0 .. N /\ N \in 0 .. N
    BY <1>1
  <2> QED BY <1>1, <1>2, <2>1
<1>4. ASSUME NEW n \in 1 .. N PROVE part[n] = Append(part[n - 1], a[n])
  <2>1. n \in 0 .. N /\ n - 1 \in 0 .. N
    BY <1>1
  <2>2. SubSeq(a, 1, n) = Append(SubSeq(a, 1, n - 1), a[n])
    BY <1>1
  <2> QED BY <1>2, <2>1, <2>2
<1>5. \A n \in 0 .. N : part[n] \in Texts
  BY <1>1, <1>2 DEF Texts
<1> HIDE DEF part
<1>6. \A n \in 0 .. N : g[n] = St(TRUE, part[n], c, pol)
  OBVIOUS
<1> HIDE DEF g
<1>7. Machine(ReadStates, Plain, R) /\ \A x \in ReadStates, cell \in Plain : R[<<x, cell>>] = ReadCell(r, x, cell)
  BY ReaderSteps
<1> HIDE DEF R
<1>8. ASSUME NEW n \in 1 .. N PROVE g[n] = R[<<g[n - 1], a[n]>>]
  <2>1. n \in 0 .. N /\ n - 1 \in 0 .. N
    BY <1>1
  <2> DEFINE w == part[n - 1]
             x == St(TRUE, w, c, pol)
  <2>2. w \in Texts
    BY <1>5, <2>1
  <2>3. x \in ReadStates
    BY <2>2 DEF St, ReadStates
  <2>4. x.in = TRUE /\ x.string = w /\ x.c = c /\ x.pol = pol
    BY DEF St
  <2>5. g[n - 1] = x
    BY <1>6, <2>1
  <2> HIDE DEF x
  <2>6. R[<<x, a[n]>>] = ReadCell(r, x, a[n])
    BY <1>1, <1>7, <2>3
  <2>7. ReadCell(r, x, a[n]) = St(TRUE, Append(w, a[n]), c, pol)
    BY <1>1, <2>4 DEF ReadCell
  <2> QED BY <1>4, <1>6, <2>1, <2>5, <2>6, <2>7
<1> DEFINE s == St(TRUE, << >>, c, pol)
<1>9. s \in ReadStates /\ g[0] = s
  <2>1. 0 \in 0 .. N /\ << >> \in Texts
    BY <1>1 DEF Texts
  <2>2. g[0] = s
    BY <1>3, <1>6, <2>1
  <2> QED BY <2>1, <2>2 DEF St, ReadStates
<1> HIDE DEF s
<1>10. Path(g, R, s, a)
  BY <1>8, <1>9 DEF Path, N
<1>11. Fold(R, s, a) = g[Len(a)]
  BY <1>1, <1>7, <1>9, <1>10, FoldIs
<1>12. g[Len(a)] = St(TRUE, a, c, pol)
  <2>1. N \in 0 .. N
    BY <1>1
  <2>2. g[N] = St(TRUE, a, c, pol)
    BY <1>3, <1>6, <2>1
  <2> QED BY <2>2 DEF N
<1> QED BY <1>11, <1>12 DEF R, s

\* A function on the places of a sequence is one.
LEMMA ListOf ==
    ASSUME NEW n \in Nat, NEW T, NEW t, t = [i \in 1 .. n |-> t[i]], \A i \in 1 .. n : t[i] \in T
    PROVE  t \in Seq(T) /\ Len(t) = n
<1>1. t \in [1 .. n -> T]
  OBVIOUS
<1> QED BY <1>1

\* A string.
LEMMA TrQuoted ==
    ASSUME NEW r, NEW K, NEW c \in Places5, NEW pol \in Pols, NEW w \in Seq(Plain \ {"Q"}), NEW d, NEW q,
           d = Control(r, c, Token("string", w)), q = Effect(c, Token("string", w), pol),
           <<c, pol>> \in K, <<d, q>> \in K
    PROVE  Tr(r, K, At(c, pol), Quoted(w), At(d, q)) /\ d \in Places5 /\ q \in Pols
<1> DEFINE x == St(FALSE, << >>, c, pol)
           s == St(TRUE, << >>, c, pol)
           t == St(TRUE, w, c, pol)
           y == St(FALSE, << >>, d, q)
           X == {x}
           S == {s}
           T == {t}
           Y == {y}
<1>0. w \in Texts /\ w \in Seq(Plain) /\ << >> \in Texts /\ "Q" \in Plain
  <2>1. w \in Texts /\ w \in Seq(Plain) /\ << >> \in Texts
    BY DEF Plain, Texts
  <2>2. "Q" \in Cells
    BY DEF Cells
  <2> QED BY <2>1, <2>2 DEF Plain
<1>1. x \in ReadStates /\ s \in ReadStates /\ t \in ReadStates
  BY <1>0 DEF St, ReadStates
<1>2. /\ x.in = FALSE /\ x.string = << >> /\ x.c = c /\ x.pol = pol
      /\ s.c = c /\ s.pol = pol
      /\ t.in = TRUE /\ t.string = w /\ t.c = c /\ t.pol = pol
      /\ y.c = d /\ y.pol = q
  BY DEF St
<1>3. d \in Places5 /\ q \in Pols
  <2>1. Token("string", w) \in TokenSet
    BY <1>0, TokenTyped
  <2> QED BY <2>1, ControlTyped, EffectTyped
<1>4. ASSUME NEW a \in Seq(Plain), NEW b \in Seq(Plain), w = a \o b
      PROVE  a \in Seq(Plain \ {"Q"})
  <2> DEFINE ab == a \o b
  <2>1. /\ Len(a) \in Nat /\ Len(b) \in Nat /\ Len(ab) = Len(a) + Len(b)
        /\ \A i \in 1 .. Len(a) + Len(b) : ab[i] = IF i <= Len(a) THEN a[i] ELSE b[i - Len(a)]
    BY ConcatProperties
  <2> HIDE DEF ab
  <2>2. w = ab
    BY <1>4 DEF ab
  <2>3. ASSUME NEW i \in 1 .. Len(a) PROVE a[i] \in Plain \ {"Q"}
    <3>1. i \in 1 .. Len(a) + Len(b) /\ i <= Len(a)
      BY <2>1
    <3>2. w[i] = a[i] /\ i \in 1 .. Len(w)
      BY <2>1, <2>2, <3>1
    <3> QED BY <3>2
  <2> DEFINE n == Len(a)
             U == Plain \ {"Q"}
  <2>4. n \in Nat /\ a = [i \in 1 .. n |-> a[i]]
    OBVIOUS
  <2>5. \A i \in 1 .. n : a[i] \in U
    BY <2>3
  <2> HIDE DEF n, U
  <2>6. a \in Seq(U)
    BY <2>4, <2>5, ListOf
  <2> QED BY <2>6 DEF U
<1>5. \A a \in Seq(Plain \ {"Q"}) : Fold(Reader(r), s, a) = St(TRUE, a, c, pol)
  BY InString
<1>6. \A a : St(TRUE, a, c, pol).c = c /\ St(TRUE, a, c, pol).pol = pol
  BY DEF St
<1>7. ReadCell(r, x, "Q") = s /\ ReadCell(r, t, "Q") = y
  <2>1. ReadCell(r, x, "Q") = St(TRUE, x.string, x.c, x.pol)
    <3> HIDE DEF x
    <3> QED BY <1>2 DEF ReadCell
  <2>2. ReadCell(r, t, "Q") = Take(r, t, Token("string", t.string))
    <3> HIDE DEF t
    <3> QED BY <1>2 DEF ReadCell
  <2>3. x.string = << >> /\ t.string = w /\ t.c = c /\ t.pol = pol /\ x.c = c /\ x.pol = pol
    BY <1>2
  <2> HIDE DEF x, t
  <2>4. Take(r, t, Token("string", t.string)) = y
    BY <2>3 DEF Take
  <2> QED BY <2>1, <2>2, <2>3, <2>4
<1>8. Fold(Reader(r), s, w) = t
  BY <1>5
<1> HIDE DEF x, s, t, y
<1>9. Tr(r, K, X, <<"Q">>, S)
  <2>1. /\ X \subseteq ReadStates /\ \A z \in X : <<z.c, z.pol>> \in K
        /\ \A z \in X : LET v == ReadCell(r, z, "Q") IN v \in S /\ <<v.c, v.pol>> \in K
    BY <1>1, <1>2, <1>7
  <2> HIDE DEF X, S
  <2> QED BY <1>0, <2>1, TrCell
<1>10. Tr(r, K, S, w, T)
  <2>1. /\ S \subseteq ReadStates /\ \A z \in S : Fold(Reader(r), z, w) \in T
    BY <1>1, <1>8
  <2>2. ASSUME NEW z \in S, NEW a \in Seq(Plain), NEW b \in Seq(Plain), w = a \o b
        PROVE  LET v == Fold(Reader(r), z, a) IN <<v.c, v.pol>> \in K
    <3>1. Fold(Reader(r), z, a) = St(TRUE, a, c, pol)
      BY <1>4, <1>5, <2>2
    <3> QED BY <1>6, <3>1
  <2> HIDE DEF S, T
  <2> QED BY <1>0, <2>1, <2>2 DEF Tr
<1>11. Tr(r, K, T, <<"Q">>, Y)
  <2>1. /\ T \subseteq ReadStates /\ \A z \in T : <<z.c, z.pol>> \in K
        /\ \A z \in T : LET v == ReadCell(r, z, "Q") IN v \in Y /\ <<v.c, v.pol>> \in K
    BY <1>1, <1>2, <1>7
  <2> HIDE DEF T, Y
  <2> QED BY <1>0, <2>1, TrCell
<1>12. At(c, pol) = X /\ At(d, q) = Y
  BY DEF At, x, y
<1> HIDE DEF X, S, T, Y
<1>13. Tr(r, K, X, <<"Q">> \o w, T)
  BY <1>9, <1>10, TrConcat
<1>14. Tr(r, K, X, (<<"Q">> \o w) \o <<"Q">>, Y)
  BY <1>11, <1>13, TrConcat
<1> QED BY <1>3, <1>12, <1>14 DEF Quoted

\* Behind an error.
LEMMA TrErrors ==
    ASSUME NEW r, NEW K, NEW cells \in Seq(Plain)
    PROVE  Tr(r, K, Errors(K), cells, Errors(K))
<1>1. ASSUME NEW x \in Errors(K), NEW a \in Seq(Plain)
      PROVE  LET y == Fold(Reader(r), x, a) IN y \in Errors(K) /\ <<y.c, y.pol>> \in K
  <2> DEFINE y == Fold(Reader(r), x, a)
  <2>1. x \in ReadStates /\ x.c = Err /\ <<x.c, x.pol>> \in K
    BY DEF Errors
  <2>2. y \in ReadStates /\ y.c = Err /\ y.pol = x.pol
    BY <2>1, ErrorStays
  <2> HIDE DEF y
  <2>3. y \in Errors(K) /\ <<y.c, y.pol>> \in K
    BY <2>1, <2>2 DEF Errors
  <2> QED BY <2>3 DEF y
<1>2. Errors(K) \subseteq ReadStates
  BY DEF Errors
<1> QED BY <1>1, <1>2 DEF Tr

\* A state behind an error is one.
LEMMA AtErrors ==
    ASSUME NEW r, NEW K, NEW X, NEW cells, NEW pol \in Pols, <<Err, pol>> \in K, Tr(r, K, X, cells, At(Err, pol))
    PROVE  Tr(r, K, X, cells, Errors(K))
<1> DEFINE x == St(FALSE, << >>, Err, pol)
<1>1. x \in ReadStates
  BY BeginTyped DEF St, ReadStates, Texts
<1>2. x.c = Err /\ x.pol = pol
  BY DEF St
<1> HIDE DEF x
<1>3. At(Err, pol) = {x}
  BY DEF At, x
<1>4. At(Err, pol) \subseteq Errors(K)
  BY <1>1, <1>2, <1>3 DEF Errors
<1> QED BY <1>4 DEF Tr

----------------------------------------
(* What the writer prints, read token by token. *)

\* What a heading says, and what stands in an entry.
LEMMA PlaceParts ==
    /\ \A at, q : Heading(at, q).at = at /\ Heading(at, q).resource = q
    /\ \A at, q, p : Inside(at, q, p).at = at /\ Inside(at, q, p).resource = q /\ Inside(at, q, p).path = p
    /\ \A q, p, f : AtVerb(q, p, f).at = "verb" /\ AtVerb(q, p, f).resource = q /\ AtVerb(q, p, f).path = p
                    /\ AtVerb(q, p, f).field = f
    /\ Top.at = "top"
BY PlaceFields DEF Heading, Inside, AtVerb, Top

\* Two cells behind each other.
LEMMA PairJoined ==
    ASSUME NEW w, NEW v
    PROVE  <<w>> \o <<v>> = <<w, v>>
<1> DEFINE C == {w, v}
           a == <<w>>
           b == <<v>>
           ab == a \o b
           two == <<w, v>>
<1>1. a \in Seq(C) /\ b \in Seq(C) /\ Len(a) = 1 /\ Len(b) = 1 /\ a[1] = w /\ b[1] = v
      /\ two \in Seq(C) /\ Len(two) = 2 /\ two[1] = w /\ two[2] = v
  OBVIOUS
<1> HIDE DEF a, b, two
<1>2. ab \in Seq(C) /\ Len(ab) = Len(a) + Len(b)
      /\ \A i \in 1 .. Len(a) + Len(b) : ab[i] = IF i <= Len(a) THEN a[i] ELSE b[i - Len(a)]
  BY <1>1, ConcatProperties
<1> HIDE DEF ab, C
<1>3. Len(ab) = 2 /\ ab[1] = w /\ ab[2] = v
  BY <1>1, <1>2
<1>4. \A i \in 1 .. 2 : ab[i] = two[i]
  BY <1>1, <1>3
<1>5. ab = two
  BY <1>1, <1>2, <1>3, <1>4, SeqEqual
<1> QED BY <1>5 DEF ab, a, b, two

\* The name of a resource.
LEMMA HeadingMoves ==
    ASSUME NEW r, NEW pol, NEW w, NEW v
    PROVE  /\ Mv(r, Top, Word(w), Heading("group", <<w>>), pol, pol)
           /\ Mv(r, Heading("group", <<w>>), Word(v), Heading("resource", <<w, v>>), pol, pol)
<1>1. Mv(r, Top, Word(w), Heading("group", <<w>>), pol, pol)
  <2> DEFINE token == Word(w)
             c == Top
  <2>1. token.type = "identifier" /\ token.value = <<w>> /\ c.at = "top"
    BY DEF Word, String, Open, Close, Token, Heading, Inside, AtVerb, Top, Ctl
  <2> HIDE DEF token, c
  <2>2. Control(r, c, token) = Heading("group", <<w>>)
    BY <2>1 DEF Control
  <2>3. Effect(c, token, pol) = pol
    BY <2>1 DEF Effect
  <2> QED BY <2>2, <2>3 DEF Mv, token, c
<1>2. Mv(r, Heading("group", <<w>>), Word(v), Heading("resource", <<w, v>>), pol, pol)
  <2> DEFINE token == Word(v)
             c == Heading("group", <<w>>)
  <2>1. token.type = "identifier" /\ token.value = <<v>> /\ c.at = "group" /\ c.resource = <<w>>
    BY DEF Word, String, Open, Close, Token, Heading, Inside, AtVerb, Top, Ctl
  <2>2. <<w>> \o <<v>> = <<w, v>>
    BY PairJoined
  <2> HIDE DEF token, c
  <2>3. Control(r, c, token) = Heading("resource", <<w, v>>)
    BY <2>1, <2>2 DEF Control
  <2>4. Effect(c, token, pol) = pol
    BY <2>1 DEF Effect
  <2> QED BY <2>3, <2>4 DEF Mv, token, c
<1> QED BY <1>1, <1>2

\* The braces around its entries.
LEMMA EntriesMoves ==
    ASSUME NEW r, NEW pol, NEW resource
    PROVE  /\ resource \in Parsers(r) =>
                 Mv(r, Heading("resource", resource), Open, Heading("entries", resource), pol, pol)
           /\ resource \notin Parsers(r) => Mv(r, Heading("resource", resource), Open, Err, pol, pol)
           /\ Mv(r, Heading("entries", resource), Close, Top, pol, pol)
<1>1. /\ resource \in Parsers(r) =>
            Mv(r, Heading("resource", resource), Open, Heading("entries", resource), pol, pol)
      /\ resource \notin Parsers(r) => Mv(r, Heading("resource", resource), Open, Err, pol, pol)
  <2> DEFINE token == Open
             c == Heading("resource", resource)
  <2>1. token.type = "{" /\ c.at = "resource" /\ c.resource = resource
    BY DEF Word, String, Open, Close, Token, Heading, Inside, AtVerb, Top, Ctl
  <2> HIDE DEF token, c
  <2>2. Control(r, c, token) = IF resource \in Parsers(r) THEN Heading("entries", resource) ELSE Err
    BY <2>1 DEF Control
  <2>3. Effect(c, token, pol) = pol
    BY <2>1 DEF Effect
  <2> QED BY <2>2, <2>3 DEF Mv, token, c
<1>2. Mv(r, Heading("entries", resource), Close, Top, pol, pol)
  <2> DEFINE token == Close
             c == Heading("entries", resource)
  <2>1. token.type = "}" /\ c.at = "entries" /\ c.resource = resource
    BY DEF Word, String, Open, Close, Token, Heading, Inside, AtVerb, Top, Ctl
  <2> HIDE DEF token, c
  <2>2. Control(r, c, token) = Top
    BY <2>1 DEF Control
  <2>3. Effect(c, token, pol) = pol
    BY <2>1 DEF Effect
  <2> QED BY <2>2, <2>3 DEF Mv, token, c
<1> QED BY <1>1, <1>2

\* The keys of entries.
LEMMA KeyMoves ==
    ASSUME NEW r, NEW pol
    PROVE  /\ \A w : Mv(r, Heading("entries", FsResource), String(w), Inside("key", FsResource, w),
                        pol, Pol(pol.paths \cup {w}, pol.grants, pol.exec, pol.generic))
           /\ \A h \in Hashes :
                 Mv(r, Heading("entries", ExecResource), String(<<h>>), Inside("key", ExecResource, << >>),
                    pol, WithExec(pol, Append(pol.exec, [hash |-> h, mode |-> DefaultMode])))
           /\ \A k \in Keys :
                 Mv(r, Heading("entries", GenericResource), String(<<k>>), Inside("key", GenericResource, << >>),
                    pol, Pol(pol.paths, pol.grants, pol.exec, pol.generic \cup {k}))
<1>1. ASSUME NEW w
      PROVE  Mv(r, Heading("entries", FsResource), String(w), Inside("key", FsResource, w),
                pol, Pol(pol.paths \cup {w}, pol.grants, pol.exec, pol.generic))
  <2> DEFINE token == String(w)
             c == Heading("entries", FsResource)
  <2>1. token.type = "string" /\ token.value = w /\ c.at = "entries" /\ c.resource = FsResource
    BY DEF Word, String, Open, Close, Token, Heading, Inside, AtVerb, Top, Ctl
  <2> HIDE DEF token, c
  <2>2. Control(r, c, token) = Inside("key", FsResource, w)
    BY <2>1 DEF Control, KeyFits
  <2>3. Effect(c, token, pol) = Pol(pol.paths \cup {w}, pol.grants, pol.exec, pol.generic)
    BY <2>1, ResourcesDiffer DEF Effect
  <2> QED BY <2>2, <2>3 DEF Mv, token, c
<1>2. ASSUME NEW h \in Hashes
      PROVE  Mv(r, Heading("entries", ExecResource), String(<<h>>), Inside("key", ExecResource, << >>),
                pol, WithExec(pol, Append(pol.exec, [hash |-> h, mode |-> DefaultMode])))
  <2> DEFINE token == String(<<h>>)
             c == Heading("entries", ExecResource)
  <2>1. token.type = "string" /\ token.value = <<h>> /\ c.at = "entries" /\ c.resource = ExecResource
    BY DEF Word, String, Open, Close, Token, Heading, Inside, AtVerb, Top, Ctl
  <2>2. Len(<<h>>) = 1 /\ <<h>>[1] = h
    OBVIOUS
  <2> HIDE DEF token, c
  <2>3. Control(r, c, token) = Inside("key", ExecResource, << >>)
    BY <2>1, <2>2, ResourcesDiffer DEF Control, KeyFits
  <2>4. Effect(c, token, pol) = Pol(pol.paths, pol.grants, Append(pol.exec, [hash |-> h, mode |-> DefaultMode]), pol.generic)
    BY <2>1, <2>2, ResourcesDiffer DEF Effect
  <2> QED BY <2>3, <2>4 DEF Mv, token, c, WithExec
<1>3. ASSUME NEW k \in Keys
      PROVE  Mv(r, Heading("entries", GenericResource), String(<<k>>), Inside("key", GenericResource, << >>),
                pol, Pol(pol.paths, pol.grants, pol.exec, pol.generic \cup {k}))
  <2> DEFINE token == String(<<k>>)
             c == Heading("entries", GenericResource)
  <2>1. token.type = "string" /\ token.value = <<k>> /\ c.at = "entries" /\ c.resource = GenericResource
    BY DEF Word, String, Open, Close, Token, Heading, Inside, AtVerb, Top, Ctl
  <2>2. ToSet(<<k>>) = {k} /\ {k} \subseteq Keys
    BY DEF ToSet
  <2> HIDE DEF token, c
  <2>3. Control(r, c, token) = Inside("key", GenericResource, << >>)
    BY <2>1, <2>2, ResourcesDiffer DEF Control, KeyFits
  <2>4. Effect(c, token, pol) = Pol(pol.paths, pol.grants, pol.exec, pol.generic \cup {k})
    BY <2>1, <2>2, ResourcesDiffer DEF Effect
  <2> QED BY <2>3, <2>4 DEF Mv, token, c
<1> QED BY <1>1, <1>2, <1>3

\* The braces of an entry.
LEMMA EntryMoves ==
    ASSUME NEW r, NEW pol, NEW resource, NEW path
    PROVE  /\ Mv(r, Inside("key", resource, path), Open, Inside("fields", resource, path), pol, pol)
           /\ Mv(r, Inside("fields", resource, path), Close, Heading("entries", resource), pol, pol)
           /\ \A c \in FsPlaces(path) : Mv(r, c, Close, Heading("entries", FsResource), pol, pol)
<1>1. Mv(r, Inside("key", resource, path), Open, Inside("fields", resource, path), pol, pol)
  <2> DEFINE token == Open
             c == Inside("key", resource, path)
  <2>1. token.type = "{" /\ c.at = "key" /\ c.resource = resource /\ c.path = path
    BY DEF Word, String, Open, Close, Token, Heading, Inside, AtVerb, Top, Ctl
  <2> HIDE DEF token, c
  <2>2. Control(r, c, token) = Inside("fields", resource, path)
    BY <2>1 DEF Control
  <2>3. Effect(c, token, pol) = pol
    BY <2>1 DEF Effect
  <2> QED BY <2>2, <2>3 DEF Mv, token, c
<1>2. ASSUME NEW c, NEW q, c.at \in {"fields", "flags"}, c.resource = q
      PROVE  Mv(r, c, Close, Heading("entries", q), pol, pol)
  <2> DEFINE token == Close
  <2>1. token.type = "}"
    BY DEF Word, String, Open, Close, Token, Heading, Inside, AtVerb, Top, Ctl
  <2> HIDE DEF token
  <2>2. Control(r, c, token) = Heading("entries", q)
    BY <1>2, <2>1 DEF Control
  <2>3. Effect(c, token, pol) = pol
    BY <1>2, <2>1 DEF Effect
  <2> QED BY <2>2, <2>3 DEF Mv, token
<1>3. Mv(r, Inside("fields", resource, path), Close, Heading("entries", resource), pol, pol)
  BY <1>2, PlaceParts
<1>4. \A c \in FsPlaces(path) : c.at \in {"fields", "flags"} /\ c.resource = FsResource
  BY DEF FsPlaces, Inside, Ctl
<1> QED BY <1>1, <1>2, <1>3, <1>4

\* The fields of a path.
LEMMA FsMoves ==
    ASSUME NEW r, NEW pol, NEW path, NEW field \in Scopes, NEW verb \in Verbs
    PROVE  /\ \A c \in FsPlaces(path) : Mv(r, c, Word(field), AtVerb(FsResource, path, field), pol, pol)
           /\ Mv(r, AtVerb(FsResource, path, field), Word(verb), Ctl("flags", FsResource, path, field, verb), pol, pol)
           /\ \A flag \in FlagSet :
                 Mv(r, Ctl("flags", FsResource, path, field, verb), String(<<flag>>),
                    Ctl("flags", FsResource, path, field, verb),
                    pol, Pol(pol.paths, pol.grants \cup {<<path, field, verb, flag>>}, pol.exec, pol.generic))
<1>0. field \in {"self", "children"} /\ field # "mode"
  BY DEF Scopes
<1>1. ASSUME NEW c \in FsPlaces(path) PROVE Mv(r, c, Word(field), AtVerb(FsResource, path, field), pol, pol)
  <2> DEFINE token == Word(field)
  <2>1. token.type = "identifier" /\ token.value[1] = field
    BY DEF Word, String, Open, Close, Token, Heading, Inside, AtVerb, Top, Ctl
  <2>2. c.at \in {"fields", "flags"} /\ c.resource = FsResource /\ c.path = path
    BY DEF FsPlaces, Inside, Ctl
  <2> HIDE DEF token
  <2>3. Control(r, c, token) = AtVerb(FsResource, path, field)
    BY <1>0, <2>1, <2>2 DEF Control, FieldFits
  <2>4. Effect(c, token, pol) = pol
    BY <2>1, <2>2 DEF Effect
  <2> QED BY <2>3, <2>4 DEF Mv, token
<1>2. Mv(r, AtVerb(FsResource, path, field), Word(verb), Ctl("flags", FsResource, path, field, verb), pol, pol)
  <2> DEFINE token == Word(verb)
             c == AtVerb(FsResource, path, field)
  <2>1. token.type = "identifier" /\ token.value[1] = verb
    BY DEF Word, String, Open, Close, Token, Heading, Inside, AtVerb, Top, Ctl
  <2>2. c.at = "verb" /\ c.resource = FsResource /\ c.path = path /\ c.field = field
    BY DEF Word, String, Open, Close, Token, Heading, Inside, AtVerb, Top, Ctl
  <2> HIDE DEF token, c
  <2>3. Control(r, c, token) = Ctl("flags", FsResource, path, field, verb)
    BY <1>0, <2>1, <2>2 DEF Control
  <2>4. Effect(c, token, pol) = pol
    BY <1>0, <2>1, <2>2 DEF Effect
  <2> QED BY <2>3, <2>4 DEF Mv, token, c
<1>3. ASSUME NEW flag \in FlagSet
      PROVE  Mv(r, Ctl("flags", FsResource, path, field, verb), String(<<flag>>),
                Ctl("flags", FsResource, path, field, verb),
                pol, Pol(pol.paths, pol.grants \cup {<<path, field, verb, flag>>}, pol.exec, pol.generic))
  <2> DEFINE token == String(<<flag>>)
             c == Ctl("flags", FsResource, path, field, verb)
  <2>1. token.type = "string" /\ token.value = <<flag>>
    BY DEF Word, String, Open, Close, Token, Heading, Inside, AtVerb, Top, Ctl
  <2>2. c.at = "flags" /\ c.resource = FsResource /\ c.path = path /\ c.field = field /\ c.verb = verb
    BY DEF Word, String, Open, Close, Token, Heading, Inside, AtVerb, Top, Ctl
  <2> HIDE DEF token, c
  <2>3. FlagOf(token) = flag
    <3>1. <<flag>> \o <<"NUL">> = <<flag, "NUL">> /\ Head(<<flag, "NUL">>) = flag
      BY PairJoined
    <3> QED BY <2>1, <3>1 DEF FlagOf
  <2>4. Control(r, c, token) = c
    BY <2>1, <2>2, <2>3 DEF Control
  <2>5. Effect(c, token, pol) = Pol(pol.paths, pol.grants \cup {<<path, field, verb, flag>>}, pol.exec, pol.generic)
    BY <2>1, <2>2, <2>3 DEF Effect
  <2> QED BY <2>4, <2>5 DEF Mv, token, c
<1> QED BY <1>1, <1>2, <1>3

\* The mode of a program: accept is taken, a string is not.
LEMMA ModeMoves ==
    ASSUME NEW r, NEW pol
    PROVE  /\ Mv(r, Inside("fields", ExecResource, << >>), Word("mode"), AtVerb(ExecResource, << >>, "mode"), pol, pol)
           /\ Mv(r, AtVerb(ExecResource, << >>, "mode"), Word("accept"), Inside("fields", ExecResource, << >>),
                 pol, WithExec(pol, SetLast(pol.exec, "accept")))
           /\ \A w : Mv(r, AtVerb(ExecResource, << >>, "mode"), String(w), Err, pol, pol)
<1>1. Mv(r, Inside("fields", ExecResource, << >>), Word("mode"), AtVerb(ExecResource, << >>, "mode"), pol, pol)
  <2> DEFINE token == Word("mode")
             c == Inside("fields", ExecResource, << >>)
  <2>1. token.type = "identifier" /\ token.value[1] = "mode" /\ c.at = "fields" /\ c.resource = ExecResource /\ c.path = << >>
    BY DEF Word, String, Open, Close, Token, Heading, Inside, AtVerb, Top, Ctl
  <2> HIDE DEF token, c
  <2>2. Control(r, c, token) = AtVerb(ExecResource, << >>, "mode")
    BY <2>1 DEF Control, FieldFits
  <2>3. Effect(c, token, pol) = pol
    BY <2>1 DEF Effect
  <2> QED BY <2>2, <2>3 DEF Mv, token, c
<1> DEFINE c == AtVerb(ExecResource, << >>, "mode")
<1>2. c.at = "verb" /\ c.resource = ExecResource /\ c.path = << >> /\ c.field = "mode"
  BY DEF Word, String, Open, Close, Token, Heading, Inside, AtVerb, Top, Ctl
<1> HIDE DEF c
<1>3. Mv(r, c, Word("accept"), Inside("fields", ExecResource, << >>), pol, WithExec(pol, SetLast(pol.exec, "accept")))
  <2> DEFINE token == Word("accept")
  <2>1. token.type = "identifier" /\ token.value[1] = "accept" /\ "accept" \in Verbs
    BY DEF Word, String, Open, Close, Token, Heading, Inside, AtVerb, Top, Ctl, Verbs
  <2> HIDE DEF token
  <2>2. Control(r, c, token) = Inside("fields", ExecResource, << >>)
    BY <1>2, <2>1 DEF Control
  <2>3. Effect(c, token, pol) = WithExec(pol, SetLast(pol.exec, "accept"))
    BY <1>2, <2>1 DEF Effect, WithExec
  <2> QED BY <2>2, <2>3 DEF Mv, token
<1>4. ASSUME NEW w PROVE Mv(r, c, String(w), Err, pol, pol)
  <2> DEFINE token == String(w)
  <2>1. token.type = "string"
    BY DEF Word, String, Open, Close, Token, Heading, Inside, AtVerb, Top, Ctl
  <2> HIDE DEF token
  <2>2. Control(r, c, token) = Err
    BY <1>2, <2>1 DEF Control
  <2>3. Effect(c, token, pol) = pol
    BY <1>2, <2>1 DEF Effect
  <2> QED BY <2>2, <2>3 DEF Mv, token
<1> QED BY <1>1, <1>3, <1>4 DEF c

----------------------------------------
(* Reading the text of a policy: the filesystem. *)

\* Where the parser is not between two resources.
LEMMA InSeen ==
    ASSUME NEW m, NEW tops, NEW c \in Places5, NEW q \in Pols, PartOf(q, m), c # Top \/ q \in tops
    PROVE  <<c, q>> \in Seen(m, tops)
BY DEF Seen

\* A piece that leads to some of the states.
LEMMA TrWeaken ==
    ASSUME NEW r, NEW K, NEW X, NEW cells, NEW Y, NEW Z, Tr(r, K, X, cells, Y), Y \subseteq Z
    PROVE  Tr(r, K, X, cells, Z)
BY DEF Tr

\* From every place of S.
LEMMA TrEach ==
    ASSUME NEW r, NEW K, NEW S, NEW pol, NEW cells \in Seq(Plain), NEW Y,
           \A c \in S : Tr(r, K, At(c, pol), cells, Y)
    PROVE  Tr(r, K, AtOneOf(S, pol), cells, Y)
<1>1. ASSUME NEW x \in AtOneOf(S, pol)
      PROVE  /\ x \in ReadStates /\ Fold(Reader(r), x, cells) \in Y
             /\ \A a, b \in Seq(Plain) :
                   cells = a \o b => LET y == Fold(Reader(r), x, a) IN <<y.c, y.pol>> \in K
  <2>1. PICK c \in S : x = St(FALSE, << >>, c, pol)
    BY DEF AtOneOf
  <2>2. x \in At(c, pol) /\ Tr(r, K, At(c, pol), cells, Y)
    BY <2>1 DEF At
  <2> QED BY <2>2 DEF Tr
<1> QED BY <1>1 DEF Tr

\* Words and braces as tokens.
LEMMA WordTokens ==
    ASSUME NEW w \in Printed \ {"Q", "NUL"}
    PROVE  /\ w \in Plain /\ w # "Q"
           /\ TokenFor(w) = IF w = "{" THEN Open ELSE IF w = "}" THEN Close ELSE Word(w)
<1>1. w \in Cells
  BY PrintedCells
<1>2. w \in Printed /\ w # "Q" /\ w # "NUL" /\ w # "BACKSLASH"
  BY DEF Printed, Verbs
<1>3. w \in {"{", "}"} \/ w \in Words
  BY DEF Printed, Words
<1>4. w \in Plain
  BY <1>1, <1>2 DEF Plain
<1>5. TokenFor(w) = IF w = "{" THEN Open ELSE IF w = "}" THEN Close ELSE Word(w)
  BY <1>3 DEF TokenFor, Open, Close, Word
<1> QED BY <1>2, <1>4, <1>5

\* A word that moves the parser.
LEMMA TrMove ==
    ASSUME NEW r, NEW K, NEW w \in Printed \ {"Q", "NUL"}, NEW token, token = TokenFor(w),
           NEW c \in Places5, NEW pol \in Pols, NEW d, NEW q,
           Mv(r, c, token, d, pol, q), <<c, pol>> \in K, <<d, q>> \in K
    PROVE  Tr(r, K, At(c, pol), <<w>>, At(d, q)) /\ d \in Places5 /\ q \in Pols
<1>1. w \in Plain /\ w # "Q"
  BY WordTokens
<1>2. d = Control(r, c, TokenFor(w)) /\ q = Effect(c, TokenFor(w), pol)
  BY DEF Mv
<1> QED BY <1>1, <1>2, TrWord

\* A string that moves it.
LEMMA TrString ==
    ASSUME NEW r, NEW K, NEW w \in Seq(Plain \ {"Q"}), NEW c \in Places5, NEW pol \in Pols, NEW d, NEW q,
           Mv(r, c, String(w), d, pol, q), <<c, pol>> \in K, <<d, q>> \in K
    PROVE  Tr(r, K, At(c, pol), Quoted(w), At(d, q)) /\ d \in Places5 /\ q \in Pols
<1>1. d = Control(r, c, Token("string", w)) /\ q = Effect(c, Token("string", w), pol)
  BY DEF Mv, String
<1> QED BY <1>1, TrQuoted

\* The places that are used.
LEMMA PlacesTyped ==
    /\ \A q \in Texts : /\ Heading("group", q) \in Places5 /\ Heading("resource", q) \in Places5
                        /\ Heading("entries", q) \in Places5
    /\ \A q, p \in Texts : Inside("key", q, p) \in Places5 /\ Inside("fields", q, p) \in Places5
    /\ \A q, p \in Texts, f \in Scopes \cup {"mode"} : AtVerb(q, p, f) \in Places5
    /\ \A q, p \in Texts, f \in Scopes, v \in Verbs : Ctl("flags", q, p, f, v) \in Places5
    /\ Top \in Places5 /\ Err \in Places5
<1>1. {"group", "resource", "entries", "key", "fields", "verb", "flags", "top", "error"} \subseteq Places
  BY DEF Places
<1>2. "accept" \in Verbs /\ << >> \in Texts
  BY Joined DEF Verbs
<1>3. \A a \in Places, q, p \in Texts, f \in {"self", "children", "mode"}, v \in Verbs : Ctl(a, q, p, f, v) \in Places5
  BY DEF Ctl, Places5
<1>4. Scopes \subseteq {"self", "children", "mode"} /\ Scopes \cup {"mode"} \subseteq {"self", "children", "mode"}
      /\ "mode" \in {"self", "children", "mode"}
  BY DEF Scopes
<1> QED BY <1>1, <1>2, <1>3, <1>4, Zenon DEF Heading, Inside, AtVerb, Top, Err

\* Part of what is part.
LEMMA GrantsPart ==
    ASSUME NEW m, NEW pol \in Pols, NEW a, NEW b, a \subseteq b, b \subseteq Perms, PartOf(WithGrants(pol, b), m)
    PROVE  /\ WithGrants(pol, a) \in Pols /\ PartOf(WithGrants(pol, a), m) /\ PartOf(pol, m)
           /\ a = {} => WithGrants(pol, a) = pol
<1>1. /\ pol.paths \in SUBSET Texts /\ pol.grants \in SUBSET Perms /\ pol.exec \in Seq(ExecEntries)
      /\ pol.generic \in SUBSET Keys
      /\ pol = Pol(pol.paths, pol.grants, pol.exec, pol.generic)
  BY PolParts
<1>2. pol.grants \cup a \in SUBSET Perms
  BY <1>1
<1>3. WithGrants(pol, a) \in Pols
  BY <1>1, <1>2, PolTyped DEF WithGrants
<1>4. /\ WithGrants(pol, a).paths = pol.paths /\ WithGrants(pol, a).grants = pol.grants \cup a
      /\ WithGrants(pol, a).exec = pol.exec /\ WithGrants(pol, a).generic = pol.generic
      /\ WithGrants(pol, b).paths = pol.paths /\ WithGrants(pol, b).grants = pol.grants \cup b
      /\ WithGrants(pol, b).exec = pol.exec /\ WithGrants(pol, b).generic = pol.generic
  BY DEF WithGrants, Pol
<1>5. pol.grants \cup a \subseteq m.grants /\ pol.grants \subseteq m.grants
  BY <1>4 DEF PartOf
<1>6. a = {} => pol.grants \cup a = pol.grants
  OBVIOUS
<1> QED BY <1>1, <1>3, <1>4, <1>5, <1>6 DEF PartOf, WithGrants

\* permfs_writemode.
LEMMA ModeReads ==
    ASSUME NEW r, NEW m, NEW tops, NEW path \in Texts, NEW field \in Scopes, NEW verb \in Verbs,
           NEW mode \in SUBSET FlagSet, FlagSet \subseteq Plain \ {"Q"}, NEW pol \in Pols, NEW new,
           new = WithGrants(pol, {<<path, field, verb, flag>> : flag \in mode}), PartOf(new, m)
    PROVE  Tr(r, Seen(m, tops), AtOneOf(FsPlaces(path), pol), ModeText(field, verb, mode), AtOneOf(FsPlaces(path), new))
<1> DEFINE K == Seen(m, tops)
           grants == {<<path, field, verb, flag>> : flag \in mode}
           S == FsPlaces(path)
           v == AtVerb(FsResource, path, field)
           f == Ctl("flags", FsResource, path, field, verb)
<1>0. grants \subseteq Perms
  BY DEF Perms
<1>1. pol \in Pols /\ new \in Pols /\ PartOf(pol, m) /\ (grants = {} => new = pol)
  BY <1>0, GrantsPart
<1>2. S \subseteq Places5 /\ v \in Places5 /\ f \in Places5 /\ f \in S /\ Top \notin S /\ v # Top /\ f # Top
  <2>1. S \subseteq Places5 /\ v \in Places5 /\ f \in Places5
    BY PlacesTyped, ResourcesDiffer DEF FsPlaces
  <2>2. v # Top /\ f # Top
    BY DEF AtVerb, Top, Ctl
  <2>3. \A c \in S : c # Top
    <3>1. \A c \in S : c.at \in {"fields", "flags"}
      BY DEF FsPlaces, Inside, Ctl
    <3> QED BY <3>1 DEF Top, Ctl
  <2> QED BY <2>1, <2>2, <2>3 DEF FsPlaces
<1>3. \A c \in S \cup {v, f} : <<c, pol>> \in K
  BY <1>1, <1>2, InSeen
<1>4. CASE mode = {}
  <2>1. grants = {} /\ ModeText(field, verb, mode) = << >>
    BY <1>4 DEF ModeText
  <2>2. new = pol
    BY <1>1, <2>1
  <2> DEFINE X == AtOneOf(S, pol)
  <2>3. X \subseteq ReadStates /\ \A x \in X : <<x.c, x.pol>> \in K
    <3> HIDE DEF S, K
    <3>1. \A c \in S : LET x == St(FALSE, << >>, c, pol) IN x \in ReadStates /\ <<x.c, x.pol>> = <<c, pol>>
      BY <1>1, <1>2 DEF St, ReadStates, Texts
    <3> QED BY <1>3, <3>1 DEF AtOneOf
  <2> HIDE DEF X, K
  <2>4. Tr(r, K, X, << >>, X)
    BY <2>3, TrEmpty
  <2> QED BY <2>1, <2>2, <2>4 DEF X, K
<1>5. CASE mode # {}
  <2> DEFINE N == Len(Flags)
             own == [i \in 1 .. N |-> IF Flags[i] \in mode THEN Quoted(<<Flags[i]>>) ELSE << >>]
             some == [i \in 0 .. N |-> {<<path, field, verb, Flags[j]>> : j \in {k \in 1 .. i : Flags[k] \in mode}}]
             X == [i \in 0 .. N |-> At(f, WithGrants(pol, some[i]))]
  <2>1. ModeText(field, verb, mode) = <<field, verb>> \o FlattenSeq(own)
    BY <1>5 DEF ModeText
  <2>2. N \in Nat /\ \A i \in 1 .. N : Flags[i] \in FlagSet
    BY PolicyFileAssumption DEF FlagSet, ToSet
  <2>3. <<field>> \o <<verb>> = <<field, verb>>
    BY PairJoined
  <2>4. Tr(r, K, AtOneOf(S, pol), <<field>>, At(v, pol))
    <3>1. field \in Printed \ {"Q", "NUL"} /\ field # "{" /\ field # "}"
      BY DEF Scopes, Printed
    <3>2. TokenFor(field) = Word(field) /\ field \in Plain
      BY <3>1, WordTokens
    <3>3. \A c \in S : Mv(r, c, Word(field), v, pol, pol)
      BY FsMoves
    <3> HIDE DEF S, v, K
    <3>4. \A c \in S : Tr(r, K, At(c, pol), <<field>>, At(v, pol))
      BY <1>1, <1>2, <1>3, <3>1, <3>2, <3>3, TrMove
    <3>5. <<field>> \in Seq(Plain)
      BY <3>2
    <3> QED BY <3>4, <3>5, TrEach
  <2>5. Tr(r, K, At(v, pol), <<verb>>, At(f, pol))
    <3>1. verb \in Printed \ {"Q", "NUL"} /\ verb # "{" /\ verb # "}"
      BY DEF Verbs, Printed
    <3>2. TokenFor(verb) = Word(verb)
      BY <3>1, WordTokens
    <3>3. Mv(r, v, Word(verb), f, pol, pol)
      BY FsMoves
    <3> HIDE DEF v, f, K
    <3> QED BY <1>1, <1>2, <1>3, <3>1, <3>2, <3>3, TrMove
  <2>6. Tr(r, K, AtOneOf(S, pol), <<field, verb>>, At(f, pol))
    <3> DEFINE a == <<field>>
               b == <<verb>>
    <3> HIDE DEF a, b, K, v, f, S
    <3>1. Tr(r, K, AtOneOf(S, pol), a \o b, At(f, pol))
      BY <2>4, <2>5, TrConcat DEF a, b
    <3> QED BY <2>3, <3>1 DEF a, b
  <2>7. \A i \in 0 .. N : /\ some[i] = {<<path, field, verb, Flags[j]>> : j \in {k \in 1 .. i : Flags[k] \in mode}}
                          /\ X[i] = At(f, WithGrants(pol, some[i]))
    OBVIOUS
  <2>8. \A i \in 1 .. N : own[i] = IF Flags[i] \in mode THEN Quoted(<<Flags[i]>>) ELSE << >>
    OBVIOUS
  <2>9. own \in Seq(Seq(Plain)) /\ Len(own) = N
    <3>1. ASSUME NEW i \in 1 .. N PROVE own[i] \in Seq(Plain)
      <4>1. Flags[i] \in Plain /\ "Q" \in Plain
        BY <2>2 DEF Plain, Cells
      <4>2. Quoted(<<Flags[i]>>) \in Seq(Plain)
        BY <4>1 DEF Quoted
      <4> QED BY <2>8, <4>2
    <3> QED BY <2>2, <3>1
  <2> HIDE DEF own, some, X
  <2>10. \A i \in 0 .. N : some[i] \subseteq grants
    BY <2>2, <2>7
  <2>11. some[0] = {} /\ some[N] = grants /\ 0 \in 0 .. N /\ N \in 0 .. N
    <3>1. 0 \in 0 .. N /\ N \in 0 .. N
      BY <2>2
    <3>2. some[0] = {}
      BY <2>7, <3>1
    <3>3. \A flag \in mode : \E j \in 1 .. N : Flags[j] = flag
      BY PolicyFileAssumption DEF FlagSet, ToSet
    <3>4. some[N] = grants
      BY <2>7, <2>10, <3>1, <3>3
    <3> QED BY <3>1, <3>2, <3>4
  <2>12. \A i \in 0 .. N : LET q == WithGrants(pol, some[i]) IN q \in Pols /\ PartOf(q, m) /\ <<f, q>> \in K
    <3>1. \A i \in 0 .. N : LET q == WithGrants(pol, some[i]) IN q \in Pols /\ PartOf(q, m)
      BY <1>0, <2>10, GrantsPart
    <3> QED BY <1>2, <3>1, InSeen
  <2>13. ASSUME NEW i \in 1 .. N PROVE Tr(r, K, X[i - 1], own[i], X[i])
    <3> DEFINE before == WithGrants(pol, some[i - 1])
               after == WithGrants(pol, some[i])
    <3>1. i \in 0 .. N /\ i - 1 \in 0 .. N /\ \A k \in Int : k \in 1 .. i <=> (k \in 1 .. i - 1 \/ k = i)
      BY <2>2
    <3>2. X[i - 1] = At(f, before) /\ X[i] = At(f, after) /\ before \in Pols /\ <<f, before>> \in K /\ <<f, after>> \in K
      BY <2>7, <2>12, <3>1
    <3>3. CASE Flags[i] \in mode
      <4> DEFINE flag == Flags[i]
      <4>1. flag \in FlagSet /\ <<flag>> \in Seq(Plain \ {"Q"}) /\ own[i] = Quoted(<<flag>>)
        BY <2>2, <2>8, <3>3
      <4>2. some[i] = some[i - 1] \cup {<<path, field, verb, flag>>}
        BY <2>7, <3>1, <3>3
      <4>3. after = Pol(before.paths, before.grants \cup {<<path, field, verb, flag>>}, before.exec, before.generic)
        <5>1. /\ before.paths = pol.paths /\ before.grants = pol.grants \cup some[i - 1]
              /\ before.exec = pol.exec /\ before.generic = pol.generic
          BY DEF WithGrants, Pol
        <5>2. pol.grants \cup some[i] = before.grants \cup {<<path, field, verb, flag>>}
          BY <4>2, <5>1
        <5> HIDE DEF before
        <5> QED BY <5>1, <5>2 DEF WithGrants
      <4> HIDE DEF before, after, flag
      <4>4. Mv(r, f, String(<<flag>>), f, before, after)
        BY <4>1, <4>3, FsMoves
      <4> DEFINE w == <<flag>>
      <4>5. w \in Seq(Plain \ {"Q"}) /\ Mv(r, f, String(w), f, before, after)
        BY <4>1, <4>4
      <4> HIDE DEF w, f, K
      <4>6. Tr(r, K, At(f, before), Quoted(w), At(f, after))
        BY <1>2, <3>2, <4>5, TrString
      <4> QED BY <3>2, <4>1, <4>6 DEF w
    <3>4. CASE Flags[i] \notin mode
      <4>1. some[i] = some[i - 1] /\ own[i] = << >>
        <5>1. {k \in 1 .. i : Flags[k] \in mode} = {k \in 1 .. i - 1 : Flags[k] \in mode}
          BY <3>1, <3>4
        <5>2. some[i] = some[i - 1]
          BY <2>7, <3>1, <5>1
        <5> QED BY <2>8, <3>4, <5>2
      <4> DEFINE Z == At(f, before)
      <4>2. Z \subseteq ReadStates /\ \A x \in Z : <<x.c, x.pol>> \in K
        <5> HIDE DEF before, f, K
        <5> QED BY <1>2, <3>2 DEF At, St, ReadStates, Texts
      <4>3. X[i - 1] = Z /\ X[i] = Z
        BY <3>2, <4>1
      <4> HIDE DEF Z, K
      <4>4. Tr(r, K, Z, << >>, Z)
        BY <4>2, TrEmpty
      <4> QED BY <4>1, <4>3, <4>4
    <3> QED BY <3>3, <3>4
  <2>14. Tr(r, K, X[0], FlattenSeq(own), X[N])
    <3>1. X[0] \subseteq ReadStates /\ \A x \in X[0] : <<x.c, x.pol>> \in K
      <4>1. X[0] = At(f, WithGrants(pol, some[0])) /\ WithGrants(pol, some[0]) \in Pols /\ <<f, WithGrants(pol, some[0])>> \in K
        BY <2>7, <2>11, <2>12
      <4> DEFINE q == WithGrants(pol, some[0])
      <4> HIDE DEF q, f, K
      <4>2. X[0] = At(f, q) /\ q \in Pols /\ <<f, q>> \in K
        BY <4>1 DEF q
      <4> QED BY <1>2, <4>2 DEF At, St, ReadStates, Texts
    <3> HIDE DEF K, N
    <3>2. \A i \in 1 .. Len(own) : Tr(r, K, X[i - 1], own[i], X[i])
      BY <2>9, <2>13
    <3>3. Tr(r, K, X[0], FlattenSeq(own), X[Len(own)])
      BY <2>9, <3>1, <3>2, TrFlatten
    <3> QED BY <2>9, <3>3
  <2>15. X[0] = At(f, pol) /\ X[N] = At(f, new)
    <3>1. WithGrants(pol, {}) = pol
      BY <1>0, GrantsPart
    <3> QED BY <2>7, <2>11, <3>1
  <2>16. At(f, new) \subseteq AtOneOf(S, new)
    BY <1>2 DEF At, AtOneOf
  <2> HIDE DEF K, S, f, N
  <2>17. Tr(r, K, AtOneOf(S, pol), <<field, verb>> \o FlattenSeq(own), At(f, new))
    BY <2>6, <2>14, <2>15, TrConcat
  <2>18. Tr(r, K, AtOneOf(S, pol), <<field, verb>> \o FlattenSeq(own), AtOneOf(S, new))
    BY <2>16, <2>17, TrWeaken
  <2> QED BY <2>1, <2>18 DEF K, S
<1> QED BY <1>4, <1>5

\* The reader at one of the places.
LEMMA AtTyped ==
    ASSUME NEW K, NEW S, S \subseteq Places5, NEW pol \in Pols, \A c \in S : <<c, pol>> \in K
    PROVE  AtOneOf(S, pol) \subseteq ReadStates /\ \A x \in AtOneOf(S, pol) : <<x.c, x.pol>> \in K
<1>1. ASSUME NEW c \in S PROVE LET x == St(FALSE, << >>, c, pol) IN x \in ReadStates /\ x.c = c /\ x.pol = pol
  BY DEF St, ReadStates, Texts
<1>2. ASSUME NEW x \in AtOneOf(S, pol) PROVE x \in ReadStates /\ <<x.c, x.pol>> \in K
  <2>1. PICK c \in S : x = St(FALSE, << >>, c, pol)
    BY DEF AtOneOf
  <2>2. x \in ReadStates /\ x.c = c /\ x.pol = pol
    BY <1>1, <2>1
  <2> QED BY <2>2
<1> QED BY <1>2

\* A block.
LEMMA TrBlock ==
    ASSUME NEW r, NEW K, NEW X, NEW header, NEW A, Tr(r, K, X, header, A), NEW B, Tr(r, K, A, <<"{">>, B),
           NEW entries, NEW D, Tr(r, K, B, FlattenSeq(entries), D), NEW Z, Tr(r, K, D, <<"}">>, Z)
    PROVE  Tr(r, K, X, Block(header, entries), Z)
<1> DEFINE open == <<"{">>
           close == <<"}">>
           inner == FlattenSeq(entries)
<1>1. Tr(r, K, A, open, B) /\ Tr(r, K, B, inner, D) /\ Tr(r, K, D, close, Z)
  OBVIOUS
<1>2. Block(header, entries) = ((header \o open) \o inner) \o close
  BY DEF Block
<1> HIDE DEF open, close, inner
<1>3. Tr(r, K, X, header \o open, B)
  BY <1>1, TrConcat
<1>4. Tr(r, K, X, (header \o open) \o inner, D)
  BY <1>1, <1>3, TrConcat
<1>5. Tr(r, K, X, ((header \o open) \o inner) \o close, Z)
  BY <1>1, <1>4, TrConcat
<1> QED BY <1>2, <1>5

\* The braces.
LEMMA Braces ==
    /\ "{" \in Printed \ {"Q", "NUL"} /\ "}" \in Printed \ {"Q", "NUL"}
    /\ TokenFor("{") = Open /\ TokenFor("}") = Close
    /\ <<"{">> \in Seq(Plain) /\ <<"}">> \in Seq(Plain)
<1>1. "{" \in Printed \ {"Q", "NUL"} /\ "}" \in Printed \ {"Q", "NUL"}
  BY DEF Printed
<1>2. TokenFor("{") = Open /\ TokenFor("}") = Close
  BY DEF TokenFor, Open, Close
<1>3. "{" \in Plain /\ "}" \in Plain
  BY <1>1, WordTokens
<1>4. <<"{">> \in Seq(Plain) /\ <<"}">> \in Seq(Plain)
  <2>1. \A c \in Plain : <<c>> \in Seq(Plain)
    OBVIOUS
  <2> QED BY <1>3, <2>1, Zenon
<1> QED BY <1>1, <1>2, <1>4

\* Permissions added twice.
LEMMA GrantsTwice ==
    ASSUME NEW pol, NEW a, NEW b
    PROVE  WithGrants(WithGrants(pol, a), b) = WithGrants(pol, a \cup b)
<1> DEFINE q == WithGrants(pol, a)
<1>1. q.paths = pol.paths /\ q.grants = pol.grants \cup a /\ q.exec = pol.exec /\ q.generic = pol.generic
  BY DEF WithGrants, Pol
<1> HIDE DEF q
<1>2. q.grants \cup b = pol.grants \cup (a \cup b)
  BY <1>1
<1>3. WithGrants(q, b) = WithGrants(pol, a \cup b)
  BY <1>1, <1>2 DEF WithGrants
<1> QED BY <1>3 DEF q

\* They are those of its three verbs.
LEMMA ThreeVerbs ==
    ASSUME NEW path \in Texts, NEW field \in Scopes, NEW modeset \in Modesets
    PROVE  LET of(verb) == {<<path, field, verb, flag>> : flag \in modeset[verb]}
           IN  FieldGrants(path, field, modeset) = (of("accept") \cup of("reject")) \cup of("prompt")
<1> DEFINE of(verb) == {<<path, field, verb, flag>> : flag \in modeset[verb]}
           all == FieldGrants(path, field, modeset)
           three == (of("accept") \cup of("reject")) \cup of("prompt")
<1>1. Verbs = {"accept", "reject", "prompt"} /\ \A verb \in Verbs : modeset[verb] \subseteq FlagSet
  BY DEF Verbs, Modesets
<1>2. ASSUME NEW g \in all PROVE g \in three
  <2>1. PICK p \in Texts, s \in Scopes, verb \in Verbs, flag \in FlagSet : g = <<p, s, verb, flag>>
    BY DEF FieldGrants, Perms
  <2>2. p = path /\ s = field /\ flag \in modeset[verb]
    BY <2>1 DEF FieldGrants
  <2> QED BY <1>1, <2>1, <2>2
<1>3. ASSUME NEW g \in three PROVE g \in all
  <2>1. PICK verb \in Verbs : g \in of(verb)
    BY <1>1
  <2>2. PICK flag \in modeset[verb] : g = <<path, field, verb, flag>>
    BY <2>1
  <2>3. flag \in FlagSet
    BY <1>1, <2>2
  <2> QED BY <2>2, <2>3 DEF FieldGrants, Perms
<1> QED BY <1>2, <1>3

\* permfs_writemodeset.
LEMMA ModesetReads ==
    ASSUME NEW r, NEW m, NEW tops, NEW path \in Texts, NEW field \in Scopes, NEW modeset \in Modesets,
           FlagSet \subseteq Plain \ {"Q"}, NEW pol \in Pols, NEW new,
           new = WithGrants(pol, FieldGrants(path, field, modeset)), PartOf(new, m)
    PROVE  Tr(r, Seen(m, tops), AtOneOf(FsPlaces(path), pol), ModesetText(field, modeset), AtOneOf(FsPlaces(path), new))
<1> DEFINE K == Seen(m, tops)
           S == FsPlaces(path)
           of(verb) == {<<path, field, verb, flag>> : flag \in modeset[verb]}
           x == of("accept")
           y == of("reject")
           z == of("prompt")
           p1 == WithGrants(pol, x)
           p2 == WithGrants(p1, y)
           p3 == WithGrants(p2, z)
           text(verb) == ModeText(field, verb, modeset[verb])
<1>1. {"accept", "reject", "prompt"} \subseteq Verbs /\ \A verb \in Verbs : modeset[verb] \in SUBSET FlagSet
  BY DEF Verbs, Modesets
<1>2. x \subseteq Perms /\ y \subseteq Perms /\ z \subseteq Perms
  BY <1>1 DEF Perms
<1>3. new = p3
  <2>1. FieldGrants(path, field, modeset) = (x \cup y) \cup z
    BY ThreeVerbs
  <2> HIDE DEF x, y, z
  <2>2. p2 = WithGrants(pol, x \cup y)
    BY GrantsTwice
  <2> DEFINE xy == x \cup y
  <2> HIDE DEF xy, p2
  <2>3. p3 = WithGrants(WithGrants(pol, xy), z)
    BY <2>2 DEF xy
  <2>4. p3 = WithGrants(pol, xy \cup z)
    BY <2>3, GrantsTwice
  <2> QED BY <2>1, <2>4 DEF xy
<1>4. p1 \in Pols /\ p2 \in Pols /\ PartOf(p1, m) /\ PartOf(p2, m) /\ PartOf(p3, m)
  <2> HIDE DEF x, y, z
  <2>1. \A a, q : a \subseteq Perms /\ q \in Pols => WithGrants(q, a) \in Pols
    <3> SUFFICES ASSUME NEW a, NEW q, a \subseteq Perms, q \in Pols PROVE WithGrants(q, a) \in Pols
      OBVIOUS
    <3>1. /\ q.paths \in SUBSET Texts /\ q.grants \in SUBSET Perms /\ q.exec \in Seq(ExecEntries)
          /\ q.generic \in SUBSET Keys
      BY PolParts
    <3>2. q.grants \cup a \in SUBSET Perms
      BY <3>1
    <3> QED BY <3>1, <3>2, PolTyped DEF WithGrants
  <2>2. p1 \in Pols /\ p2 \in Pols
    BY <1>2, <2>1
  <2>3. PartOf(p3, m)
    BY <1>3
  <2> HIDE DEF p2
  <2>4. PartOf(p2, m)
    BY <1>2, <2>2, <2>3, GrantsPart
  <2>5. PartOf(WithGrants(p1, y), m)
    BY <2>4 DEF p2
  <2> HIDE DEF p1
  <2>6. PartOf(p1, m)
    BY <1>2, <2>2, <2>5, GrantsPart
  <2> QED BY <2>2, <2>3, <2>4, <2>6
<1> HIDE DEF p3, p2, p1
<1>5. Tr(r, K, AtOneOf(S, pol), text("accept"), AtOneOf(S, p1))
  <2>1. \A verb \in Verbs : p1 = WithGrants(pol, of(verb)) => Tr(r, K, AtOneOf(S, pol), text(verb), AtOneOf(S, p1))
    BY <1>1, <1>4, ModeReads
  <2> QED BY <1>1, <2>1 DEF p1
<1>6. Tr(r, K, AtOneOf(S, p1), text("reject"), AtOneOf(S, p2))
  <2>1. \A verb \in Verbs : p2 = WithGrants(p1, of(verb)) => Tr(r, K, AtOneOf(S, p1), text(verb), AtOneOf(S, p2))
    BY <1>1, <1>4, ModeReads
  <2> QED BY <1>1, <2>1 DEF p2
<1>7. Tr(r, K, AtOneOf(S, p2), text("prompt"), AtOneOf(S, p3))
  <2>1. \A verb \in Verbs : p3 = WithGrants(p2, of(verb)) => Tr(r, K, AtOneOf(S, p2), text(verb), AtOneOf(S, p3))
    BY <1>1, <1>4, ModeReads
  <2> QED BY <1>1, <2>1 DEF p3
<1> DEFINE ta == text("accept")
           tb == text("reject")
           tc == text("prompt")
<1>8. ModesetText(field, modeset) = (ta \o tb) \o tc
  BY DEF ModesetText
<1> HIDE DEF K, S, ta, tb, tc
<1>9. Tr(r, K, AtOneOf(S, pol), ta \o tb, AtOneOf(S, p2))
  BY <1>5, <1>6, TrConcat DEF ta, tb
<1>10. Tr(r, K, AtOneOf(S, pol), (ta \o tb) \o tc, AtOneOf(S, p3))
  BY <1>7, <1>9, TrConcat DEF tc
<1> QED BY <1>3, <1>8, <1>10 DEF K, S

\* An entry of a path.
LEMMA FsEntryReads ==
    ASSUME NEW r, NEW m, NEW tops, NEW e \in FsEntries, e.path \in Seq(Plain \ {"Q"}),
           FlagSet \subseteq Plain \ {"Q"}, NEW pol \in Pols, PartOf(WithEntry(pol, e), m)
    PROVE  /\ WithEntry(pol, e) \in Pols
           /\ Tr(r, Seen(m, tops), At(Heading("entries", FsResource), pol), FsEntryText(e),
                 At(Heading("entries", FsResource), WithEntry(pol, e)))
<1> DEFINE K == Seen(m, tops)
           path == e.path
           S == FsPlaces(path)
           h == Heading("entries", FsResource)
           k == Inside("key", FsResource, path)
           f == Inside("fields", FsResource, path)
           p0 == Pol(pol.paths \cup {path}, pol.grants, pol.exec, pol.generic)
           x == FieldGrants(path, "self", e.self)
           y == FieldGrants(path, "children", e.children)
           p1 == WithGrants(p0, x)
           p2 == WithGrants(p1, y)
<1>1. path \in Texts /\ e.self \in Modesets /\ e.children \in Modesets /\ "self" \in Scopes /\ "children" \in Scopes
  BY DEF FsEntries, Texts, Scopes
<1>2. EntryGrants(e) = x \cup y
  <2>1. \A g \in Perms : g[2] = "self" \/ g[2] = "children"
    BY DEF Perms, Scopes
  <2>2. \A g \in Perms : e[g[2]][g[3]] = IF g[2] = "self" THEN e.self[g[3]] ELSE e.children[g[3]]
    BY <2>1
  <2> QED BY <2>1, <2>2 DEF EntryGrants, FieldGrants
<1>3. p0 \in Pols /\ p1 \in Pols /\ p2 \in Pols /\ p2 = WithEntry(pol, e)
  <2>1. /\ pol.paths \in SUBSET Texts /\ pol.grants \in SUBSET Perms /\ pol.exec \in Seq(ExecEntries)
        /\ pol.generic \in SUBSET Keys
    BY PolParts
  <2>2. x \in SUBSET Perms /\ y \in SUBSET Perms
    BY DEF FieldGrants
  <2>3. p0.paths = pol.paths \cup {path} /\ p0.grants = pol.grants /\ p0.exec = pol.exec /\ p0.generic = pol.generic
    BY DEF Pol
  <2> HIDE DEF x, y
  <2>4. pol.paths \cup {path} \in SUBSET Texts /\ pol.grants \cup x \in SUBSET Perms /\ pol.grants \cup (x \cup y) \in SUBSET Perms
    BY <1>1, <2>1, <2>2
  <2>5. p0 \in Pols
    BY <2>1, <2>4, PolTyped
  <2> HIDE DEF p0
  <2>6. p1 = Pol(pol.paths \cup {path}, pol.grants \cup x, pol.exec, pol.generic)
    BY <2>3 DEF WithGrants
  <2>7. p2 = WithGrants(p0, x \cup y)
    BY GrantsTwice
  <2>8. p2 = Pol(pol.paths \cup {path}, pol.grants \cup (x \cup y), pol.exec, pol.generic)
    BY <2>3, <2>7 DEF WithGrants
  <2> HIDE DEF p1, p2
  <2>9. p1 \in Pols /\ p2 \in Pols
    BY <2>1, <2>4, <2>6, <2>8, PolTyped
  <2>10. p2 = WithEntry(pol, e)
    BY <1>2, <2>8 DEF WithEntry
  <2> QED BY <2>5, <2>9, <2>10
<1>4. x \subseteq Perms /\ y \subseteq Perms
  BY DEF FieldGrants
<1>5. PartOf(p2, m)
  BY <1>3
<1>6. PartOf(p1, m)
  <2> HIDE DEF p1, y
  <2> QED BY <1>3, <1>4, <1>5, GrantsPart
<1>7. PartOf(p0, m)
  <2> HIDE DEF p0, x
  <2> QED BY <1>3, <1>4, <1>6, GrantsPart
<1>8. PartOf(pol, m)
  <2>1. p0.paths = pol.paths \cup {path} /\ p0.grants = pol.grants /\ p0.exec = pol.exec /\ p0.generic = pol.generic
    BY DEF Pol
  <2>2. pol.paths \subseteq p0.paths
    BY <2>1
  <2> HIDE DEF p0
  <2> QED BY <1>7, <2>1, <2>2 DEF PartOf
<1>9. h \in Places5 /\ k \in Places5 /\ f \in Places5 /\ h # Top /\ k # Top /\ f # Top
  <2>1. h # Top /\ k # Top /\ f # Top
    BY DEF Heading, Inside, Top, Ctl
  <2> QED BY <1>1, <2>1, PlacesTyped, ResourcesDiffer
<1>10. S \subseteq Places5 /\ f \in S /\ \A c \in S : c # Top
  <2>1. S \subseteq Places5
    BY <1>1, PlacesTyped, ResourcesDiffer DEF FsPlaces
  <2>2. \A c \in S : c.at \in {"fields", "flags"}
    BY DEF FsPlaces, Inside, Ctl
  <2>3. \A c \in S : c # Top
    BY <2>2 DEF Top, Ctl
  <2> QED BY <2>1, <2>3 DEF FsPlaces
<1>11. /\ Mv(r, h, String(path), k, pol, p0)
       /\ Mv(r, k, Open, f, p0, p0)
       /\ \A c \in S : Mv(r, c, Close, h, p2, p2)
  <2>1. Mv(r, h, String(path), k, pol, p0)
    BY KeyMoves
  <2> HIDE DEF p0, p2
  <2>2. Mv(r, k, Open, f, p0, p0) /\ \A c \in S : Mv(r, c, Close, h, p2, p2)
    BY EntryMoves
  <2> QED BY <2>1, <2>2
<1>12. Tr(r, K, AtOneOf(S, p0), ModesetText("self", e.self), AtOneOf(S, p1))
  <2>1. \A field \in Scopes, modeset \in Modesets : p1 = WithGrants(p0, FieldGrants(path, field, modeset)) =>
           Tr(r, K, AtOneOf(S, p0), ModesetText(field, modeset), AtOneOf(S, p1))
    <3> HIDE DEF p0, p1
    <3> QED BY <1>1, <1>3, <1>6, ModesetReads
  <2> QED BY <1>1, <2>1
<1>13. Tr(r, K, AtOneOf(S, p1), ModesetText("children", e.children), AtOneOf(S, p2))
  <2>1. \A field \in Scopes, modeset \in Modesets : p2 = WithGrants(p1, FieldGrants(path, field, modeset)) =>
           Tr(r, K, AtOneOf(S, p1), ModesetText(field, modeset), AtOneOf(S, p2))
    <3> HIDE DEF p1, p2
    <3> QED BY <1>1, <1>3, <1>5, ModesetReads
  <2> QED BY <1>1, <2>1
<1> HIDE DEF p0, p1, p2, K, S, h, k, f
<1>14. /\ <<h, pol>> \in K /\ <<k, p0>> \in K /\ <<f, p0>> \in K /\ <<h, p2>> \in K
       /\ \A c \in S : <<c, p0>> \in K /\ <<c, p2>> \in K
  BY <1>3, <1>5, <1>7, <1>8, <1>9, <1>10, InSeen DEF K
<1>15. Tr(r, K, At(h, pol), Quoted(path), At(k, p0))
  <2> HIDE DEF path
  <2> QED BY <1>9, <1>11, <1>14, TrString DEF path
<1>16. Tr(r, K, At(k, p0), <<"{">>, AtOneOf(S, p0))
  <2>1. \A w \in Printed \ {"Q", "NUL"} : TokenFor(w) = Open => Tr(r, K, At(k, p0), <<w>>, At(f, p0))
    BY <1>3, <1>9, <1>11, <1>14, TrMove
  <2>2. Tr(r, K, At(k, p0), <<"{">>, At(f, p0))
    BY <2>1, Braces
  <2>3. At(f, p0) \subseteq AtOneOf(S, p0)
    BY <1>10 DEF At, AtOneOf
  <2> DEFINE open == <<"{">>
  <2> HIDE DEF open
  <2> QED BY <2>2, <2>3, TrWeaken DEF open
<1>17. Tr(r, K, AtOneOf(S, p2), <<"}">>, At(h, p2))
  <2>1. \A w \in Printed \ {"Q", "NUL"}, c \in S : TokenFor(w) = Close => Tr(r, K, At(c, p2), <<w>>, At(h, p2))
    BY <1>3, <1>9, <1>10, <1>11, <1>14, TrMove
  <2>2. \A c \in S : Tr(r, K, At(c, p2), <<"}">>, At(h, p2))
    BY <2>1, Braces
  <2> DEFINE close == <<"}">>
  <2>3. close \in Seq(Plain)
    BY Braces
  <2> HIDE DEF close
  <2>4. \A c \in S : Tr(r, K, At(c, p2), close, At(h, p2))
    BY <2>2 DEF close
  <2>5. Tr(r, K, AtOneOf(S, p2), close, At(h, p2))
    BY <2>3, <2>4, TrEach
  <2> QED BY <2>5 DEF close
<1> DEFINE s == ModesetText("self", e.self)
           t == ModesetText("children", e.children)
           parts == <<s, t>>
<1>18. Tr(r, K, AtOneOf(S, p0), FlattenSeq(parts), AtOneOf(S, p2))
  <2>1. s \in Seq(Plain) /\ t \in Seq(Plain)
    BY <1>12, <1>13 DEF Tr
  <2> HIDE DEF s, t
  <2>2. parts \in Seq(Seq(Plain)) /\ Len(parts) = 2 /\ parts[1] = s /\ parts[2] = t
    BY <2>1
  <2> HIDE DEF parts
  <2> DEFINE X == [i \in 0 .. 2 |-> IF i = 0 THEN AtOneOf(S, p0) ELSE IF i = 1 THEN AtOneOf(S, p1) ELSE AtOneOf(S, p2)]
  <2>3. X[0] = AtOneOf(S, p0) /\ X[1] = AtOneOf(S, p1) /\ X[2] = AtOneOf(S, p2)
    OBVIOUS
  <2> HIDE DEF X
  <2>4. X[0] \subseteq ReadStates /\ \A z \in X[0] : <<z.c, z.pol>> \in K
    <3> DEFINE Y == AtOneOf(S, p0)
    <3>1. Y \subseteq ReadStates /\ \A z \in Y : <<z.c, z.pol>> \in K
      BY <1>3, <1>10, <1>14, AtTyped
    <3>2. X[0] = Y
      BY <2>3
    <3> HIDE DEF Y
    <3> QED BY <3>1, <3>2
  <2>5. \A i \in 1 .. Len(parts) : Tr(r, K, X[i - 1], parts[i], X[i])
    <3>1. \A i \in 1 .. Len(parts) : (i = 1 /\ i - 1 = 0) \/ (i = 2 /\ i - 1 = 1)
      BY <2>2
    <3> QED BY <1>12, <1>13, <2>2, <2>3, <3>1 DEF s, t
  <2>6. Tr(r, K, X[0], FlattenSeq(parts), X[Len(parts)])
    BY <2>2, <2>4, <2>5, TrFlatten
  <2> QED BY <2>2, <2>3, <2>6
<1>19. FsEntryText(e) = Block(Quoted(path), parts)
  BY DEF FsEntryText
<1> HIDE DEF parts
<1>20. Tr(r, K, At(h, pol), Block(Quoted(path), parts), At(h, p2))
  BY <1>15, <1>16, <1>17, <1>18, TrBlock
<1> QED BY <1>3, <1>19, <1>20 DEF K, h

\* The heading of a block.
LEMMA HeadingReads ==
    ASSUME NEW r, NEW m, NEW tops, NEW w \in Printed \ {"Q", "NUL", "{", "}"}, NEW v \in Printed \ {"Q", "NUL", "{", "}"},
           NEW pol \in Pols, PartOf(pol, m)
    PROVE  LET K == Seen(m, tops)
               resource == <<w, v>>
           IN  /\ Tr(r, K, At(Heading("group", <<w>>), pol), <<v>>, At(Heading("resource", resource), pol))
               /\ pol \in tops => Tr(r, K, At(Top, pol), resource, At(Heading("resource", resource), pol))
               /\ resource \in Parsers(r) =>
                     Tr(r, K, At(Heading("resource", resource), pol), <<"{">>, At(Heading("entries", resource), pol))
               /\ resource \notin Parsers(r) =>
                     Tr(r, K, At(Heading("resource", resource), pol), <<"{">>, Errors(K))
               /\ pol \in tops => Tr(r, K, At(Heading("entries", resource), pol), <<"}">>, At(Top, pol))
<1> DEFINE K == Seen(m, tops)
           resource == <<w, v>>
           g == Heading("group", <<w>>)
           s == Heading("resource", resource)
           h == Heading("entries", resource)
           a == <<w>>
           b == <<v>>
<1>1. w \in Cells /\ v \in Cells
  BY PrintedCells
<1>2. <<w>> \in Texts /\ resource \in Texts
  BY <1>1, Joined
<1>3. /\ g \in Places5 /\ s \in Places5 /\ h \in Places5 /\ Top \in Places5 /\ Err \in Places5
      /\ g # Top /\ s # Top /\ h # Top /\ Err # Top
  <2>1. g # Top /\ s # Top /\ h # Top /\ Err # Top
    BY DEF Heading, Top, Err, Ctl
  <2> QED BY <1>2, <2>1, PlacesTyped
<1>4. /\ Mv(r, Top, Word(w), g, pol, pol) /\ Mv(r, g, Word(v), s, pol, pol)
      /\ resource \in Parsers(r) => Mv(r, s, Open, h, pol, pol)
      /\ resource \notin Parsers(r) => Mv(r, s, Open, Err, pol, pol)
      /\ Mv(r, h, Close, Top, pol, pol)
  <2>1. Mv(r, Top, Word(w), g, pol, pol) /\ Mv(r, g, Word(v), s, pol, pol)
    BY HeadingMoves
  <2> HIDE DEF resource
  <2> QED BY <2>1, EntriesMoves
<1>5. resource = a \o b
  BY PairJoined
<1> HIDE DEF g, s, h, K, resource
<1>6. <<g, pol>> \in K /\ <<s, pol>> \in K /\ <<h, pol>> \in K /\ <<Err, pol>> \in K
  BY <1>3, InSeen DEF K
<1>7. pol \in tops => <<Top, pol>> \in K
  BY <1>3, InSeen DEF K
<1>8. TokenFor(w) = Word(w) /\ TokenFor(v) = Word(v)
  BY WordTokens
<1>9. Tr(r, K, At(g, pol), <<v>>, At(s, pol))
  BY <1>3, <1>4, <1>6, <1>8, TrMove
<1>10. pol \in tops => Tr(r, K, At(Top, pol), resource, At(s, pol))
  <2> SUFFICES ASSUME pol \in tops PROVE Tr(r, K, At(Top, pol), resource, At(s, pol))
    OBVIOUS
  <2>1. Tr(r, K, At(Top, pol), <<w>>, At(g, pol))
    BY <1>3, <1>4, <1>6, <1>7, <1>8, TrMove
  <2> HIDE DEF a, b
  <2>2. Tr(r, K, At(Top, pol), a \o b, At(s, pol))
    BY <1>9, <2>1, TrConcat DEF a, b
  <2> QED BY <1>5, <2>2
<1>11. \A u \in Printed \ {"Q", "NUL"} :
          /\ TokenFor(u) = Open /\ resource \in Parsers(r) => Tr(r, K, At(s, pol), <<u>>, At(h, pol))
          /\ TokenFor(u) = Open /\ resource \notin Parsers(r) => Tr(r, K, At(s, pol), <<u>>, At(Err, pol))
          /\ TokenFor(u) = Close /\ pol \in tops => Tr(r, K, At(h, pol), <<u>>, At(Top, pol))
  BY <1>3, <1>4, <1>6, <1>7, TrMove
<1>12. /\ resource \in Parsers(r) => Tr(r, K, At(s, pol), <<"{">>, At(h, pol))
       /\ resource \notin Parsers(r) => Tr(r, K, At(s, pol), <<"{">>, At(Err, pol))
       /\ pol \in tops => Tr(r, K, At(h, pol), <<"}">>, At(Top, pol))
  BY <1>11, Braces
<1>13. resource \notin Parsers(r) => Tr(r, K, At(s, pol), <<"{">>, Errors(K))
  <2> DEFINE open == <<"{">>
  <2> SUFFICES ASSUME Tr(r, K, At(s, pol), open, At(Err, pol)) PROVE Tr(r, K, At(s, pol), open, Errors(K))
    BY <1>12
  <2> HIDE DEF open
  <2> QED BY <1>6, AtErrors
<1> QED BY <1>9, <1>10, <1>12, <1>13 DEF K, g, s, h, resource

\* A block from its heading to its end.
LEMMA ResourceReads ==
    ASSUME NEW r, NEW m, NEW tops, NEW w \in Printed \ {"Q", "NUL", "{", "}"}, NEW v \in Printed \ {"Q", "NUL", "{", "}"},
           <<w, v>> \in Parsers(r), NEW pol \in Pols, PartOf(pol, m), pol \in tops,
           NEW new \in Pols, PartOf(new, m), new \in tops, NEW entries,
           Tr(r, Seen(m, tops), At(Heading("entries", <<w, v>>), pol), FlattenSeq(entries), At(Heading("entries", <<w, v>>), new))
    PROVE  Tr(r, Seen(m, tops), At(Top, pol), Block(<<w, v>>, entries), At(Top, new))
<1> DEFINE K == Seen(m, tops)
           resource == <<w, v>>
           s == Heading("resource", resource)
           h == Heading("entries", resource)
<1>1. Tr(r, K, At(Top, pol), resource, At(s, pol)) /\ Tr(r, K, At(s, pol), <<"{">>, At(h, pol))
  BY HeadingReads
<1>2. Tr(r, K, At(h, new), <<"}">>, At(Top, new))
  BY HeadingReads
<1>3. Tr(r, K, At(h, pol), FlattenSeq(entries), At(h, new))
  OBVIOUS
<1> HIDE DEF K, resource, s, h
<1>4. Tr(r, K, At(Top, pol), Block(resource, entries), At(Top, new))
  BY <1>1, <1>2, <1>3, TrBlock
<1> QED BY <1>4 DEF K, resource

\* One that ends in an error.
LEMMA ResourceFails ==
    ASSUME NEW r, NEW m, NEW tops, NEW w \in Printed \ {"Q", "NUL", "{", "}"}, NEW v \in Printed \ {"Q", "NUL", "{", "}"},
           <<w, v>> \in Parsers(r), NEW pol \in Pols, PartOf(pol, m), pol \in tops, NEW entries,
           Tr(r, Seen(m, tops), At(Heading("entries", <<w, v>>), pol), FlattenSeq(entries), Errors(Seen(m, tops)))
    PROVE  Tr(r, Seen(m, tops), At(Top, pol), Block(<<w, v>>, entries), Errors(Seen(m, tops)))
<1> DEFINE K == Seen(m, tops)
           resource == <<w, v>>
           s == Heading("resource", resource)
           h == Heading("entries", resource)
<1>1. Tr(r, K, At(Top, pol), resource, At(s, pol)) /\ Tr(r, K, At(s, pol), <<"{">>, At(h, pol))
  BY HeadingReads
<1>2. Tr(r, K, Errors(K), <<"}">>, Errors(K))
  BY Braces, TrErrors
<1>3. Tr(r, K, At(h, pol), FlattenSeq(entries), Errors(K))
  OBVIOUS
<1> HIDE DEF K, resource, s, h
<1>4. Tr(r, K, At(Top, pol), Block(resource, entries), Errors(K))
  BY <1>1, <1>2, <1>3, TrBlock
<1> QED BY <1>4 DEF K, resource

\* The reader at a place.
LEMMA OneAtTyped ==
    ASSUME NEW K, NEW c \in Places5, NEW pol \in Pols, <<c, pol>> \in K
    PROVE  At(c, pol) \subseteq ReadStates /\ \A x \in At(c, pol) : <<x.c, x.pol>> \in K
<1> DEFINE x == St(FALSE, << >>, c, pol)
<1>1. x \in ReadStates /\ x.c = c /\ x.pol = pol
  BY DEF St, ReadStates, Texts
<1>2. At(c, pol) = {x}
  BY DEF At
<1> HIDE DEF x
<1> QED BY <1>1, <1>2

\* It grows by an entry.
LEMMA EntryByEntry ==
    ASSUME NEW list \in Seq(FsEntries)
    PROVE  /\ FirstEntries(list, 0) = NoPol
           /\ FirstEntries(list, Len(list)) = Pol(PathsOf(list), GrantsOf(list), << >>, {})
           /\ \A n \in 0 .. Len(list) : FirstEntries(list, n) \in Pols
           /\ \A n \in 1 .. Len(list) : FirstEntries(list, n) = WithEntry(FirstEntries(list, n - 1), list[n])
<1> DEFINE N == Len(list)
           paths(n) == {list[j].path : j \in 1 .. n}
           P(n) == FirstEntries(list, n)
<1>1. N \in Nat /\ DOMAIN list = 1 .. N /\ \A j \in 1 .. N : list[j].path \in Texts
  <2>1. N \in Nat /\ DOMAIN list = 1 .. N /\ \A j \in 1 .. N : list[j] \in FsEntries
    OBVIOUS
  <2>2. \A e \in FsEntries : e.path \in Texts
    BY DEF FsEntries, Texts
  <2> QED BY <2>1, <2>2
<1> HIDE DEF N
<1>2. \A n : P(n).paths = paths(n) /\ P(n).grants = FirstGrants(list, n) /\ P(n).exec = << >> /\ P(n).generic = {}
  BY DEF FirstEntries, Pol
<1>3. P(0) = NoPol
  <2>1. paths(0) = {} /\ FirstGrants(list, 0) = {}
    BY DEF FirstGrants
  <2> QED BY <2>1 DEF FirstEntries, NoPol
<1>4. P(N) = Pol(PathsOf(list), GrantsOf(list), << >>, {})
  <2>1. paths(N) = PathsOf(list)
    BY <1>1 DEF PathsOf
  <2>2. FirstGrants(list, N) = GrantsOf(list)
    BY <1>1 DEF FirstGrants, GrantsOf, Perms
  <2> QED BY <2>1, <2>2 DEF FirstEntries
<1>5. ASSUME NEW n \in 0 .. N PROVE P(n) \in Pols
  <2>1. paths(n) \in SUBSET Texts /\ FirstGrants(list, n) \in SUBSET Perms
    BY <1>1 DEF FirstGrants
  <2>2. << >> \in Seq(ExecEntries) /\ {} \in SUBSET Keys
    OBVIOUS
  <2> QED BY <2>1, <2>2 DEF FirstEntries, Pol, Pols, Perms
<1>6. ASSUME NEW n \in 1 .. N PROVE P(n) = WithEntry(P(n - 1), list[n])
  <2>1. \A j \in Int : j \in 1 .. n <=> (j \in 1 .. n - 1 \/ j = n)
    BY <1>1
  <2>2. paths(n) = paths(n - 1) \cup {list[n].path}
    BY <2>1
  <2>3. FirstGrants(list, n) = FirstGrants(list, n - 1) \cup EntryGrants(list[n])
    <3>1. ASSUME NEW g \in Perms PROVE g \in FirstGrants(list, n) <=> (g \in FirstGrants(list, n - 1) \/ g \in EntryGrants(list[n]))
      BY <2>1 DEF FirstGrants, EntryGrants
    <3>2. FirstGrants(list, n) \subseteq Perms /\ FirstGrants(list, n - 1) \subseteq Perms /\ EntryGrants(list[n]) \subseteq Perms
      BY DEF FirstGrants, EntryGrants
    <3> QED BY <3>1, <3>2
  <2>4. P(n) = Pol(paths(n), FirstGrants(list, n), << >>, {})
    BY DEF FirstEntries
  <2>5. WithEntry(P(n - 1), list[n]) = Pol(paths(n - 1) \cup {list[n].path}, FirstGrants(list, n - 1) \cup EntryGrants(list[n]), << >>, {})
    BY <1>2 DEF WithEntry
  <2> QED BY <2>2, <2>3, <2>4, <2>5
<1> QED BY <1>3, <1>4, <1>5, <1>6 DEF N

\* The block of the filesystem policy.
LEMMA FsBlockReads ==
    ASSUME NEW r, NEW m, NEW tops, NEW list \in Seq(FsEntries), \A i \in DOMAIN list : list[i].path \in Seq(Plain \ {"Q"}),
           FlagSet \subseteq Plain \ {"Q"}, NEW new, new = Pol(PathsOf(list), GrantsOf(list), << >>, {}), PartOf(new, m),
           new \in tops, NoPol \in tops
    PROVE  /\ new \in Pols
           /\ Tr(r, Seen(m, tops), At(Top, NoPol),
                 Block(FsResource, [i \in DOMAIN list |-> FsEntryText(list[i])]), At(Top, new))
<1> DEFINE K == Seen(m, tops)
           N == Len(list)
           h == Heading("entries", FsResource)
           P == [n \in 0 .. N |-> FirstEntries(list, n)]
           X == [n \in 0 .. N |-> At(h, P[n])]
           text == [i \in DOMAIN list |-> FsEntryText(list[i])]
<1>1. N \in Nat /\ DOMAIN list = 1 .. N /\ 0 \in 0 .. N /\ N \in 0 .. N
  OBVIOUS
<1>2. \A n \in 0 .. N : P[n] = FirstEntries(list, n) /\ X[n] = At(h, P[n])
  OBVIOUS
<1>3. P[0] = NoPol /\ P[N] = new
  BY <1>1, <1>2, EntryByEntry
<1>4. \A n \in 0 .. N : P[n] \in Pols /\ PartOf(P[n], m)
  <2>1. \A n \in 0 .. N : FirstEntries(list, n) \in Pols
    BY EntryByEntry
  <2>2. PartOf(FirstEntries(list, N), m)
    BY <1>1, <1>2, <1>3
  <2>3. \A n \in 0 .. N : PartOf(FirstEntries(list, n), m)
    <3>1. ASSUME NEW n \in 0 .. N PROVE PartOf(FirstEntries(list, n), m)
      <4> DEFINE a == FirstEntries(list, N)
                 b == FirstEntries(list, n)
      <4>1. /\ a.paths = {list[j].path : j \in 1 .. N} /\ a.grants = FirstGrants(list, N) /\ a.exec = << >> /\ a.generic = {}
            /\ b.paths = {list[j].path : j \in 1 .. n} /\ b.grants = FirstGrants(list, n) /\ b.exec = << >> /\ b.generic = {}
        BY DEF FirstEntries, Pol
      <4>2. \A j \in 1 .. n : j \in 1 .. N
        BY <1>1
      <4>3. b.paths \subseteq a.paths /\ b.grants \subseteq a.grants
        BY <4>1, <4>2 DEF FirstGrants
      <4>4. PartOf(a, m)
        BY <2>2
      <4> HIDE DEF a, b
      <4>5. PartOf(b, m)
        BY <4>1, <4>3, <4>4 DEF PartOf
      <4> QED BY <4>5 DEF b
    <3> QED BY <3>1
  <2> QED BY <1>2, <2>1, <2>3
<1>5. \A n \in 1 .. N : n - 1 \in 0 .. N /\ n \in 0 .. N /\ P[n] = WithEntry(P[n - 1], list[n])
  <2>1. \A n \in 1 .. N : n - 1 \in 0 .. N /\ n \in 0 .. N
    BY <1>1
  <2>2. \A n \in 1 .. N : FirstEntries(list, n) = WithEntry(FirstEntries(list, n - 1), list[n])
    BY EntryByEntry
  <2> QED BY <1>2, <2>1, <2>2
<1>6. h \in Places5 /\ h # Top
  <2>1. h # Top
    BY DEF Heading, Top, Ctl
  <2> QED BY <2>1, PlacesTyped, ResourcesDiffer
<1>7. \A i \in 1 .. N : text[i] = FsEntryText(list[i])
  BY <1>1
<1>8. text = [i \in 1 .. N |-> text[i]]
  BY <1>1
<1> HIDE DEF P, X, text
<1>9. ASSUME NEW n \in 1 .. N PROVE Tr(r, K, X[n - 1], text[n], X[n])
  <2> DEFINE e == list[n]
             p == P[n - 1]
  <2>1. e \in FsEntries /\ e.path \in Seq(Plain \ {"Q"}) /\ p \in Pols /\ PartOf(WithEntry(p, e), m)
    BY <1>1, <1>4, <1>5
  <2>2. X[n - 1] = At(h, p) /\ X[n] = At(h, WithEntry(p, e)) /\ text[n] = FsEntryText(e)
    BY <1>2, <1>5, <1>7
  <2> HIDE DEF e, p
  <2>3. Tr(r, K, At(h, p), FsEntryText(e), At(h, WithEntry(p, e)))
    BY <2>1, FsEntryReads
  <2> QED BY <2>2, <2>3
<1>10. text \in Seq(Seq(Plain)) /\ Len(text) = N
  <2>1. \A n \in 1 .. N : text[n] \in Seq(Plain)
    BY <1>9 DEF Tr
  <2> HIDE DEF N
  <2> QED BY <1>1, <1>8, <2>1, ListOf
<1>11. X[0] \subseteq ReadStates /\ \A x \in X[0] : <<x.c, x.pol>> \in K
  <2> DEFINE p == P[0]
  <2>1. p \in Pols /\ PartOf(p, m) /\ X[0] = At(h, p)
    BY <1>1, <1>2, <1>4
  <2> HIDE DEF p, h
  <2>2. <<h, p>> \in K
    BY <1>6, <2>1, InSeen
  <2> HIDE DEF K
  <2>3. At(h, p) \subseteq ReadStates /\ \A x \in At(h, p) : <<x.c, x.pol>> \in K
    BY <1>6, <2>1, <2>2, OneAtTyped
  <2> QED BY <2>1, <2>3
<1>12. Tr(r, K, X[0], FlattenSeq(text), X[N])
  <2> HIDE DEF N, K
  <2>1. \A i \in 1 .. Len(text) : Tr(r, K, X[i - 1], text[i], X[i])
    BY <1>9, <1>10
  <2>2. Tr(r, K, X[0], FlattenSeq(text), X[Len(text)])
    BY <1>10, <1>11, <2>1, TrFlatten
  <2> QED BY <1>10, <2>2
<1>13. Tr(r, K, At(h, NoPol), FlattenSeq(text), At(h, new))
  BY <1>1, <1>2, <1>3, <1>12
<1>14. new \in Pols /\ NoPol \in Pols /\ PartOf(NoPol, m)
  BY <1>1, <1>3, <1>4
<1>15. Tr(r, K, At(Top, NoPol), Block(FsResource, text), At(Top, new))
  <2>1. \A w, v \in Printed \ {"Q", "NUL", "{", "}"} : FsResource = <<w, v>> =>
           Tr(r, K, At(Top, NoPol), Block(FsResource, text), At(Top, new))
    <3>1. FsResource \in Parsers(r)
      BY DEF Parsers
    <3> SUFFICES ASSUME NEW w \in Printed \ {"Q", "NUL", "{", "}"}, NEW v \in Printed \ {"Q", "NUL", "{", "}"},
                        FsResource = <<w, v>>
                 PROVE  Tr(r, K, At(Top, NoPol), Block(<<w, v>>, text), At(Top, new))
      OBVIOUS
    <3>2. Tr(r, K, At(Heading("entries", <<w, v>>), NoPol), FlattenSeq(text), At(Heading("entries", <<w, v>>), new))
      BY <1>13
    <3> QED BY <1>14, <3>1, <3>2, ResourceReads
  <2>2. "filesystem" \in Printed \ {"Q", "NUL", "{", "}"} /\ "node" \in Printed \ {"Q", "NUL", "{", "}"}
    BY DEF Printed
  <2> QED BY <2>1, <2>2 DEF FsResource
<1> QED BY <1>14, <1>15 DEF text

----------------------------------------
(* The programs. *)

\* One program more, with the mode it was written with or with the default mode.
LEMMA ProgramPart ==
    ASSUME NEW m \in Pols, NEW pol \in Pols, NEW e \in ExecEntries, PartOf(WithExec(pol, Append(pol.exec, e)), m)
    PROVE  LET d == [hash |-> e.hash, mode |-> DefaultMode]
           IN  /\ d \in ExecEntries
               /\ WithExec(pol, Append(pol.exec, e)) \in Pols /\ WithExec(pol, Append(pol.exec, d)) \in Pols
               /\ PartOf(pol, m) /\ PartOf(WithExec(pol, Append(pol.exec, d)), m)
               /\ e.mode = "accept" => SetLast(Append(pol.exec, d), "accept") = Append(pol.exec, e)
<1> DEFINE d == [hash |-> e.hash, mode |-> DefaultMode]
           list == pol.exec
           N == Len(list)
           le == Append(list, e)
           ld == Append(list, d)
<1>1. e.hash \in Hashes /\ e.mode \in Verbs /\ d \in ExecEntries /\ d.hash = e.hash /\ d.mode = DefaultMode
      /\ "accept" \in Verbs
  BY PolicyFileAssumption DEF ExecEntries, Verbs
<1> HIDE DEF d
<1>2. /\ pol.paths \in SUBSET Texts /\ pol.grants \in SUBSET Perms /\ pol.exec \in Seq(ExecEntries)
      /\ pol.generic \in SUBSET Keys
      /\ pol = Pol(pol.paths, pol.grants, pol.exec, pol.generic)
  BY PolParts
<1> HIDE DEF list
<1>3. list \in Seq(ExecEntries) /\ N \in Nat
  BY <1>2 DEF list
<1>4. /\ le \in Seq(ExecEntries) /\ Len(le) = N + 1 /\ le[N + 1] = e /\ \A i \in 1 .. N : le[i] = list[i]
      /\ ld \in Seq(ExecEntries) /\ Len(ld) = N + 1 /\ ld[N + 1] = d /\ \A i \in 1 .. N : ld[i] = list[i]
  BY <1>1, <1>3
<1> HIDE DEF le, ld, N
<1>5. WithExec(pol, le) \in Pols /\ WithExec(pol, ld) \in Pols
  BY <1>2, <1>4, PolTyped DEF WithExec
<1>6. \A x : /\ WithExec(pol, x).paths = pol.paths /\ WithExec(pol, x).grants = pol.grants
             /\ WithExec(pol, x).exec = x /\ WithExec(pol, x).generic = pol.generic
  BY DEF WithExec, Pol
<1>7. PartOf(WithExec(pol, le), m)
  BY DEF le, list
<1>8. ExecUpTo(le, m.exec)
  BY <1>6, <1>7 DEF PartOf
<1>9. N + 1 <= Len(m.exec) /\ \A i \in 1 .. N + 1 : le[i].hash = m.exec[i].hash /\ le[i].mode \in {m.exec[i].mode, DefaultMode}
  BY <1>4, <1>8 DEF ExecUpTo
<1>10. \A i \in Int : i \in 1 .. N + 1 <=> (i \in 1 .. N \/ i = N + 1)
  BY <1>3
<1>11. ExecUpTo(ld, m.exec)
  <2>1. ASSUME NEW i \in 1 .. N + 1 PROVE ld[i].hash = m.exec[i].hash /\ ld[i].mode \in {m.exec[i].mode, DefaultMode}
    <3>1. CASE i = N + 1
      BY <1>1, <1>4, <1>9, <3>1
    <3>2. CASE i \in 1 .. N
      BY <1>4, <1>9, <1>10, <3>2
    <3> QED BY <1>10, <3>1, <3>2
  <2> QED BY <1>4, <1>9, <2>1 DEF ExecUpTo
<1>12. PartOf(WithExec(pol, ld), m)
  BY <1>6, <1>7, <1>11 DEF PartOf
<1>13. ExecUpTo(list, m.exec)
  <2>1. \A i \in 1 .. N : list[i].hash = m.exec[i].hash /\ list[i].mode \in {m.exec[i].mode, DefaultMode}
    BY <1>4, <1>9, <1>10
  <2>2. ASSUME NEW k \in Nat, N + 1 <= k PROVE N <= k
    BY <1>3, <2>2
  <2>3. m.exec \in Seq(ExecEntries)
    BY PolParts
  <2>4. Len(m.exec) \in Nat
    BY <2>3
  <2>5. N <= Len(m.exec)
    BY <1>9, <2>2, <2>4
  <2> QED BY <2>1, <2>5 DEF ExecUpTo, N
<1>14. PartOf(pol, m)
  BY <1>6, <1>7, <1>13 DEF PartOf, list
<1>15. e.mode = "accept" => SetLast(ld, "accept") = le
  <2> SUFFICES ASSUME e.mode = "accept" PROVE SetLast(ld, "accept") = le
    OBVIOUS
  <2> DEFINE s == SetLast(ld, "accept")
  <2>1. /\ s \in Seq(ExecEntries) /\ Len(s) = Len(ld)
        /\ \A i \in 1 .. Len(ld) : s[i] = IF i = Len(ld) THEN [hash |-> ld[i].hash, mode |-> "accept"] ELSE ld[i]
    BY <1>1, <1>4, LastSet
  <2> HIDE DEF s
  <2>2. e = [hash |-> e.hash, mode |-> "accept"]
    BY DEF ExecEntries
  <2>3. ASSUME NEW i \in 1 .. N + 1 PROVE s[i] = le[i]
    <3>1. CASE i = N + 1
      BY <1>1, <1>4, <2>1, <2>2, <3>1
    <3>2. CASE i \in 1 .. N
      <4>1. i # N + 1
        BY <1>3, <3>2
      <4> QED BY <1>4, <2>1, <3>2, <4>1
    <3> QED BY <1>10, <3>1, <3>2
  <2>4. s = le
    BY <1>4, <2>1, <2>3, SeqEqual
  <2> QED BY <2>4 DEF s
<1> QED BY <1>1, <1>5, <1>12, <1>14, <1>15 DEF d, le, ld, list

\* An entry of a program.  One that is not accepted is written as a string, and not read.
LEMMA ExecEntryReads ==
    ASSUME NEW r, NEW m \in Pols, NEW tops, NEW e \in ExecEntries, Hashes \subseteq Plain \ {"Q"},
           NEW pol \in Pols, NEW new, new = WithExec(pol, Append(pol.exec, e)), PartOf(new, m)
    PROVE  LET K == Seen(m, tops)
               h == Heading("entries", ExecResource)
           IN  IF e.mode = "accept" THEN Tr(r, K, At(h, pol), ExecEntryText(e), At(h, new))
               ELSE Tr(r, K, At(h, pol), ExecEntryText(e), Errors(K))
<1> DEFINE K == Seen(m, tops)
           h == Heading("entries", ExecResource)
           k == Inside("key", ExecResource, << >>)
           f == Inside("fields", ExecResource, << >>)
           v == AtVerb(ExecResource, << >>, "mode")
           d == [hash |-> e.hash, mode |-> DefaultMode]
           p0 == WithExec(pol, Append(pol.exec, d))
<1>1. e.hash \in Hashes /\ e.mode \in Verbs
  BY DEF ExecEntries
<1>2. /\ d \in ExecEntries /\ new \in Pols /\ p0 \in Pols /\ PartOf(pol, m) /\ PartOf(p0, m) /\ PartOf(new, m)
      /\ e.mode = "accept" => SetLast(Append(pol.exec, d), "accept") = Append(pol.exec, e)
  BY ProgramPart
<1>3. p0.paths = pol.paths /\ p0.grants = pol.grants /\ p0.exec = Append(pol.exec, d) /\ p0.generic = pol.generic
  BY DEF WithExec, Pol
<1>4. /\ h \in Places5 /\ k \in Places5 /\ f \in Places5 /\ v \in Places5 /\ Err \in Places5
      /\ h # Top /\ k # Top /\ f # Top /\ v # Top /\ Err # Top
  <2>1. h # Top /\ k # Top /\ f # Top /\ v # Top /\ Err # Top
    BY DEF Heading, Inside, AtVerb, Top, Err, Ctl
  <2>2. << >> \in Texts
    BY Joined
  <2> QED BY <2>1, <2>2, PlacesTyped, ResourcesDiffer
<1>5. e.mode = "accept" => WithExec(p0, SetLast(p0.exec, "accept")) = new
  BY <1>2, <1>3 DEF WithExec
<1>6. /\ Mv(r, h, String(<<e.hash>>), k, pol, p0)
      /\ Mv(r, k, Open, f, p0, p0)
      /\ Mv(r, f, Word("mode"), v, p0, p0)
      /\ e.mode = "accept" => Mv(r, v, Word("accept"), f, p0, new)
      /\ \A w : Mv(r, v, String(w), Err, p0, p0)
      /\ Mv(r, f, Close, h, new, new)
  <2>1. Mv(r, h, String(<<e.hash>>), k, pol, p0)
    <3>1. \A x \in Hashes : Mv(r, h, String(<<x>>), k, pol, WithExec(pol, Append(pol.exec, [hash |-> x, mode |-> DefaultMode])))
      BY KeyMoves
    <3> QED BY <1>1, <3>1
  <2> HIDE DEF p0
  <2>2. Mv(r, k, Open, f, p0, p0) /\ Mv(r, f, Close, h, new, new)
    <3> DEFINE e0 == << >>
    <3> HIDE DEF e0
    <3>1. /\ Mv(r, Inside("key", ExecResource, e0), Open, Inside("fields", ExecResource, e0), p0, p0)
          /\ Mv(r, Inside("fields", ExecResource, e0), Close, Heading("entries", ExecResource), new, new)
      BY EntryMoves
    <3> QED BY <3>1 DEF e0
  <2>3. Mv(r, f, Word("mode"), v, p0, p0)
    BY ModeMoves
  <2>4. Mv(r, v, Word("accept"), f, p0, WithExec(p0, SetLast(p0.exec, "accept")))
    BY ModeMoves
  <2>5. \A w : Mv(r, v, String(w), Err, p0, p0)
    BY ModeMoves
  <2> QED BY <1>5, <2>1, <2>2, <2>3, <2>4, <2>5
<1> HIDE DEF K, h, k, f, v, p0
<1>7. /\ <<h, pol>> \in K /\ <<k, p0>> \in K /\ <<f, p0>> \in K /\ <<v, p0>> \in K /\ <<Err, p0>> \in K
      /\ <<f, new>> \in K /\ <<h, new>> \in K
  BY <1>2, <1>4, InSeen DEF K
<1>8. Tr(r, K, At(h, pol), Quoted(<<e.hash>>), At(k, p0))
  <2> DEFINE w == <<e.hash>>
  <2>1. w \in Seq(Plain \ {"Q"})
    BY <1>1
  <2>2. Mv(r, h, String(w), k, pol, p0)
    BY <1>6
  <2> HIDE DEF w
  <2>3. Tr(r, K, At(h, pol), Quoted(w), At(k, p0))
    BY <1>4, <1>7, <2>1, <2>2, TrString
  <2> QED BY <2>3 DEF w
<1>9. \A w \in Printed \ {"Q", "NUL"} :
         /\ TokenFor(w) = Open => Tr(r, K, At(k, p0), <<w>>, At(f, p0))
         /\ TokenFor(w) = Word("mode") => Tr(r, K, At(f, p0), <<w>>, At(v, p0))
         /\ TokenFor(w) = Word("accept") /\ e.mode = "accept" => Tr(r, K, At(v, p0), <<w>>, At(f, new))
         /\ TokenFor(w) = Close => Tr(r, K, At(f, new), <<w>>, At(h, new))
  BY <1>2, <1>4, <1>6, <1>7, TrMove
<1>10. /\ Tr(r, K, At(k, p0), <<"{">>, At(f, p0)) /\ Tr(r, K, At(f, p0), <<"mode">>, At(v, p0))
       /\ e.mode = "accept" => Tr(r, K, At(v, p0), <<"accept">>, At(f, new))
       /\ Tr(r, K, At(f, new), <<"}">>, At(h, new))
  <2>1. "mode" \in Printed \ {"Q", "NUL"} /\ "accept" \in Printed \ {"Q", "NUL"}
    BY DEF Printed, Verbs
  <2>2. TokenFor("mode") = Word("mode") /\ TokenFor("accept") = Word("accept")
    BY <2>1, WordTokens
  <2> QED BY <1>9, <2>1, <2>2, Braces
<1> DEFINE t == <<"mode">>
           u == IF e.mode = "accept" THEN <<"accept">> ELSE Quoted(<<e.mode>>)
           parts == <<t, u>>
           Y == IF e.mode = "accept" THEN At(f, new) ELSE Errors(K)
           Z == IF e.mode = "accept" THEN At(h, new) ELSE Errors(K)
<1>11. Tr(r, K, At(v, p0), u, Y)
  <2>1. CASE e.mode = "accept"
    BY <1>10, <2>1
  <2>2. CASE e.mode # "accept"
    <3> DEFINE w == <<e.mode>>
               q == Quoted(w)
    <3>1. e.mode \in Plain /\ e.mode # "Q"
      <4>1. e.mode \in Printed \ {"Q", "NUL"}
        BY <1>1 DEF Printed, Verbs
      <4> QED BY <4>1, WordTokens
    <3>2. w \in Seq(Plain \ {"Q"})
      BY <3>1
    <3> HIDE DEF w
    <3>3. Tr(r, K, At(v, p0), Quoted(w), At(Err, p0))
      BY <1>2, <1>4, <1>6, <1>7, <3>2, TrString
    <3> HIDE DEF q
    <3>4. Tr(r, K, At(v, p0), q, Errors(K))
      BY <1>2, <1>7, <3>3, AtErrors DEF q
    <3> QED BY <2>2, <3>4 DEF q, w
  <2> QED BY <2>1, <2>2
<1>12. Tr(r, K, Y, <<"}">>, Z)
  <2>1. CASE e.mode = "accept"
    BY <1>10, <2>1
  <2>2. CASE e.mode # "accept"
    <3>1. Tr(r, K, Errors(K), <<"}">>, Errors(K))
      BY Braces, TrErrors
    <3> QED BY <2>2, <3>1
  <2> QED BY <2>1, <2>2
<1>13. Tr(r, K, At(f, p0), FlattenSeq(parts), Y)
  <2>1. t \in Seq(Plain) /\ u \in Seq(Plain) /\ Tr(r, K, At(f, p0), t, At(v, p0))
    BY <1>10, <1>11 DEF Tr
  <2> HIDE DEF t, u, Y
  <2>2. parts \in Seq(Seq(Plain)) /\ Len(parts) = 2 /\ parts[1] = t /\ parts[2] = u
    BY <2>1
  <2> HIDE DEF parts
  <2> DEFINE X == [i \in 0 .. 2 |-> IF i = 0 THEN At(f, p0) ELSE IF i = 1 THEN At(v, p0) ELSE Y]
  <2>3. X[0] = At(f, p0) /\ X[1] = At(v, p0) /\ X[2] = Y
    OBVIOUS
  <2> HIDE DEF X
  <2>4. X[0] \subseteq ReadStates /\ \A z \in X[0] : <<z.c, z.pol>> \in K
    BY <1>2, <1>4, <1>7, <2>3, OneAtTyped
  <2>5. \A i \in 1 .. Len(parts) : Tr(r, K, X[i - 1], parts[i], X[i])
    <3>1. \A i \in 1 .. Len(parts) : (i = 1 /\ i - 1 = 0) \/ (i = 2 /\ i - 1 = 1)
      BY <2>2
    <3> QED BY <1>11, <2>1, <2>2, <2>3, <3>1
  <2>6. Tr(r, K, X[0], FlattenSeq(parts), X[Len(parts)])
    BY <2>2, <2>4, <2>5, TrFlatten
  <2> QED BY <2>2, <2>3, <2>6
<1>14. ExecEntryText(e) = Block(Quoted(<<e.hash>>), parts)
  BY DEF ExecEntryText
<1> DEFINE header == Quoted(<<e.hash>>)
<1> HIDE DEF parts, Y, header
<1>15. Tr(r, K, At(h, pol), Block(header, parts), Z)
  <2> HIDE DEF Z
  <2> QED BY <1>8, <1>10, <1>12, <1>13, TrBlock DEF header
<1> QED BY <1>14, <1>15 DEF K, h, header

\* The block of the programs.
LEMMA ExecBlockReads ==
    ASSUME NEW r, NEW m \in Pols, NEW tops, NEW list \in Seq(ExecEntries), Hashes \subseteq Plain \ {"Q"},
           NEW pol \in Pols, pol.exec = << >>, NEW new, new = WithExec(pol, list), PartOf(new, m),
           pol \in tops, Accepted(list) => new \in tops
    PROVE  LET K == Seen(m, tops)
               text == Block(ExecResource, [i \in DOMAIN list |-> ExecEntryText(list[i])])
           IN  /\ new \in Pols
               /\ Accepted(list) => Tr(r, K, At(Top, pol), text, At(Top, new))
               /\ ~Accepted(list) => Tr(r, K, At(Top, pol), text, Errors(K))
<1> DEFINE K == Seen(m, tops)
           N == Len(list)
           h == Heading("entries", ExecResource)
           part == [n \in 0 .. N |-> SubSeq(list, 1, n)]
           P == [n \in 0 .. N |-> WithExec(pol, part[n])]
           good(n) == \A i \in 1 .. n : list[i].mode = "accept"
           X == [n \in 0 .. N |-> IF good(n) THEN At(h, P[n]) ELSE Errors(K)]
           text == [i \in DOMAIN list |-> ExecEntryText(list[i])]
<1>1. N \in Nat /\ DOMAIN list = 1 .. N /\ 0 \in 0 .. N /\ N \in 0 .. N /\ (good(N) <=> Accepted(list))
  BY DEF Accepted
<1>2. \A n \in 0 .. N : P[n] = WithExec(pol, part[n]) /\ part[n] = SubSeq(list, 1, n)
  OBVIOUS
<1>3. \A n \in 0 .. N : X[n] = IF good(n) THEN At(h, P[n]) ELSE Errors(K)
  OBVIOUS
<1>4. /\ pol.paths \in SUBSET Texts /\ pol.grants \in SUBSET Perms /\ pol.exec \in Seq(ExecEntries)
      /\ pol.generic \in SUBSET Keys
      /\ pol = Pol(pol.paths, pol.grants, pol.exec, pol.generic)
  BY PolParts
<1>5. part[0] = << >> /\ part[N] = list
  BY <1>1, <1>2
<1>6. \A n \in 0 .. N : part[n] \in Seq(ExecEntries) /\ Len(part[n]) = n /\ \A i \in 1 .. n : part[n][i] = list[i]
  BY <1>1, <1>2
<1>7. ASSUME NEW n \in 1 .. N PROVE n \in 0 .. N /\ n - 1 \in 0 .. N /\ part[n] = Append(part[n - 1], list[n])
  <2>1. n \in 0 .. N /\ n - 1 \in 0 .. N
    BY <1>1
  <2>2. SubSeq(list, 1, n) = Append(SubSeq(list, 1, n - 1), list[n])
    BY <1>1
  <2> QED BY <1>2, <2>1, <2>2
<1>8. \A i \in 1 .. N : text[i] = ExecEntryText(list[i])
  BY <1>1
<1>9. text = [i \in 1 .. N |-> text[i]]
  BY <1>1
<1> HIDE DEF part, P, X, text
<1>10. P[0] = pol /\ P[N] = new
  BY <1>1, <1>2, <1>4, <1>5 DEF WithExec
<1>11. \A x : /\ WithExec(pol, x).paths = pol.paths /\ WithExec(pol, x).grants = pol.grants
              /\ WithExec(pol, x).exec = x /\ WithExec(pol, x).generic = pol.generic
  BY DEF WithExec, Pol
<1>12. \A n \in 0 .. N : P[n] \in Pols
  BY <1>2, <1>4, <1>6, PolTyped DEF WithExec
<1>13. ASSUME NEW n \in 0 .. N PROVE PartOf(P[n], m)
  <2>1. ExecUpTo(list, m.exec)
    BY <1>11 DEF PartOf
  <2>2. m.exec \in Seq(ExecEntries)
    BY PolParts
  <2>3. Len(m.exec) \in Nat
    BY <2>2
  <2> DEFINE M == Len(m.exec)
  <2>4. N <= M /\ \A i \in 1 .. N : list[i].hash = m.exec[i].hash /\ list[i].mode \in {m.exec[i].mode, DefaultMode}
    BY <2>1 DEF ExecUpTo
  <2>5. M \in Nat
    BY <2>3
  <2> HIDE DEF N, M
  <2>6. n <= M /\ \A i \in 1 .. n : i \in 1 .. N
    BY <1>1, <2>4, <2>5
  <2>7. \A i \in 1 .. n : part[n][i].hash = m.exec[i].hash /\ part[n][i].mode \in {m.exec[i].mode, DefaultMode}
    BY <1>6, <2>4, <2>6
  <2>8. ExecUpTo(part[n], m.exec)
    BY <1>6, <2>6, <2>7 DEF ExecUpTo, M
  <2>9. /\ P[n].paths = pol.paths /\ P[n].grants = pol.grants
        /\ P[n].exec = part[n] /\ P[n].generic = pol.generic
    BY <1>2, <1>11
  <2>10. new.paths = pol.paths /\ new.grants = pol.grants /\ new.generic = pol.generic
    BY <1>11
  <2> QED BY <2>8, <2>9, <2>10 DEF PartOf
<1>14. h \in Places5 /\ h # Top
  <2>1. h # Top
    BY DEF Heading, Top, Ctl
  <2> QED BY <2>1, PlacesTyped, ResourcesDiffer
<1>15. \A n \in 0 .. N : <<h, P[n]>> \in K
  BY <1>12, <1>13, <1>14, InSeen
<1>16. ASSUME NEW n \in 1 .. N PROVE Tr(r, K, X[n - 1], text[n], X[n])
  <2> DEFINE e == list[n]
             p == P[n - 1]
             q == P[n]
  <2>1. e \in ExecEntries /\ p \in Pols /\ PartOf(q, m)
    BY <1>7, <1>12, <1>13
  <2>2. q = WithExec(p, Append(p.exec, e))
    <3>1. p.paths = pol.paths /\ p.grants = pol.grants /\ p.exec = part[n - 1] /\ p.generic = pol.generic
      <4> DEFINE x == part[n - 1]
      <4>1. p = WithExec(pol, x)
        BY <1>2, <1>7
      <4> HIDE DEF x, p
      <4>2. p.paths = pol.paths /\ p.grants = pol.grants /\ p.exec = x /\ p.generic = pol.generic
        BY <1>11, <4>1
      <4> QED BY <4>2 DEF x
    <3>2. q = WithExec(pol, Append(part[n - 1], e))
      BY <1>2, <1>7
    <3> QED BY <3>1, <3>2 DEF WithExec
  <2>3. good(n) <=> (good(n - 1) /\ e.mode = "accept")
    <3>1. \A i \in Int : i \in 1 .. n <=> (i \in 1 .. n - 1 \/ i = n)
      BY <1>1
    <3> QED BY <3>1
  <2>4. text[n] = ExecEntryText(e)
    BY <1>8
  <2> HIDE DEF e, p, q, h, good, K
  <2>5. IF e.mode = "accept" THEN Tr(r, K, At(h, p), ExecEntryText(e), At(h, q))
        ELSE Tr(r, K, At(h, p), ExecEntryText(e), Errors(K))
    BY <2>1, <2>2, ExecEntryReads DEF K, h
  <2>6. ExecEntryText(e) \in Seq(Plain)
    BY <2>5 DEF Tr
  <2>7. Tr(r, K, Errors(K), ExecEntryText(e), Errors(K))
    BY <2>6, TrErrors
  <2>8. /\ X[n - 1] = IF good(n - 1) THEN At(h, p) ELSE Errors(K)
        /\ X[n] = IF good(n) THEN At(h, q) ELSE Errors(K)
    BY <1>3, <1>7 DEF p, q
  <2> QED BY <2>3, <2>4, <2>5, <2>7, <2>8
<1>17. text \in Seq(Seq(Plain)) /\ Len(text) = N
  <2>1. \A n \in 1 .. N : text[n] \in Seq(Plain)
    BY <1>16 DEF Tr
  <2> HIDE DEF N
  <2> QED BY <1>1, <1>9, <2>1, ListOf
<1>18. X[0] = At(h, pol)
  <2>1. good(0)
    OBVIOUS
  <2> HIDE DEF good
  <2> QED BY <1>1, <1>3, <1>10, <2>1
<1>19. X[0] \subseteq ReadStates /\ \A x \in X[0] : <<x.c, x.pol>> \in K
  <2>1. <<h, pol>> \in K
    BY <1>1, <1>10, <1>15
  <2> DEFINE Y == At(h, pol)
  <2>2. Y \subseteq ReadStates /\ \A x \in Y : <<x.c, x.pol>> \in K
    <3> HIDE DEF h, K
    <3> QED BY <1>14, <2>1, OneAtTyped
  <2>3. X[0] = Y
    BY <1>18
  <2> HIDE DEF Y
  <2> QED BY <2>2, <2>3
<1>20. Tr(r, K, X[0], FlattenSeq(text), X[N])
  <2> HIDE DEF N, K
  <2>1. \A i \in 1 .. Len(text) : Tr(r, K, X[i - 1], text[i], X[i])
    BY <1>16, <1>17
  <2>2. Tr(r, K, X[0], FlattenSeq(text), X[Len(text)])
    BY <1>17, <1>19, <2>1, TrFlatten
  <2> QED BY <1>17, <2>2
<1>21. /\ Accepted(list) => Tr(r, K, At(h, pol), FlattenSeq(text), At(h, new))
       /\ ~Accepted(list) => Tr(r, K, At(h, pol), FlattenSeq(text), Errors(K))
  <2>1. X[N] = IF Accepted(list) THEN At(h, new) ELSE Errors(K)
    <3> HIDE DEF good
    <3> QED BY <1>1, <1>3, <1>10
  <2> QED BY <1>18, <1>20, <2>1
<1>22. new \in Pols /\ PartOf(pol, m)
  BY <1>1, <1>10, <1>12, <1>13
<1>23. \A w, v \in Printed \ {"Q", "NUL", "{", "}"} : ExecResource = <<w, v>> =>
          /\ Accepted(list) => Tr(r, K, At(Top, pol), Block(ExecResource, text), At(Top, new))
          /\ ~Accepted(list) => Tr(r, K, At(Top, pol), Block(ExecResource, text), Errors(K))
  <2>1. ExecResource \in Parsers(r)
    BY DEF Parsers
  <2> SUFFICES ASSUME NEW w \in Printed \ {"Q", "NUL", "{", "}"}, NEW v \in Printed \ {"Q", "NUL", "{", "}"},
                      ExecResource = <<w, v>>
               PROVE  /\ Accepted(list) => Tr(r, K, At(Top, pol), Block(<<w, v>>, text), At(Top, new))
                      /\ ~Accepted(list) => Tr(r, K, At(Top, pol), Block(<<w, v>>, text), Errors(K))
    OBVIOUS
  <2>2. /\ Accepted(list) => Tr(r, K, At(Heading("entries", <<w, v>>), pol), FlattenSeq(text), At(Heading("entries", <<w, v>>), new))
        /\ ~Accepted(list) => Tr(r, K, At(Heading("entries", <<w, v>>), pol), FlattenSeq(text), Errors(K))
    BY <1>21
  <2>3. CASE Accepted(list)
    BY <1>22, <2>1, <2>2, <2>3, ResourceReads
  <2>4. CASE ~Accepted(list)
    BY <1>22, <2>1, <2>2, <2>4, ResourceFails
  <2> QED BY <2>3, <2>4
<1>24. "exec" \in Printed \ {"Q", "NUL", "{", "}"} /\ "cmdline" \in Printed \ {"Q", "NUL", "{", "}"}
  BY DEF Printed
<1>25. /\ Accepted(list) => Tr(r, K, At(Top, pol), Block(ExecResource, text), At(Top, new))
       /\ ~Accepted(list) => Tr(r, K, At(Top, pol), Block(ExecResource, text), Errors(K))
  BY <1>23, <1>24 DEF ExecResource
<1> QED BY <1>22, <1>25 DEF text

----------------------------------------
(* The keys. *)

\* Part of what is part.
LEMMA KeysPart ==
    ASSUME NEW m, NEW pol \in Pols, NEW a, NEW b, a \subseteq b, b \subseteq Keys, PartOf(WithKeys(pol, b), m)
    PROVE  /\ WithKeys(pol, a) \in Pols /\ PartOf(WithKeys(pol, a), m) /\ PartOf(pol, m)
           /\ a = {} => WithKeys(pol, a) = pol
<1>1. /\ pol.paths \in SUBSET Texts /\ pol.grants \in SUBSET Perms /\ pol.exec \in Seq(ExecEntries)
      /\ pol.generic \in SUBSET Keys
      /\ pol = Pol(pol.paths, pol.grants, pol.exec, pol.generic)
  BY PolParts
<1>2. pol.generic \cup a \in SUBSET Keys
  BY <1>1
<1>3. WithKeys(pol, a) \in Pols
  BY <1>1, <1>2, PolTyped DEF WithKeys
<1>4. /\ WithKeys(pol, a).paths = pol.paths /\ WithKeys(pol, a).grants = pol.grants
      /\ WithKeys(pol, a).exec = pol.exec /\ WithKeys(pol, a).generic = pol.generic \cup a
      /\ WithKeys(pol, b).paths = pol.paths /\ WithKeys(pol, b).grants = pol.grants
      /\ WithKeys(pol, b).exec = pol.exec /\ WithKeys(pol, b).generic = pol.generic \cup b
  BY DEF WithKeys, Pol
<1>5. pol.generic \cup a \subseteq m.generic /\ pol.generic \subseteq m.generic
  BY <1>4 DEF PartOf
<1>6. a = {} => pol.generic \cup a = pol.generic
  OBVIOUS
<1> QED BY <1>1, <1>3, <1>4, <1>5, <1>6 DEF PartOf, WithKeys

\* An entry of a key.
LEMMA KeyReads ==
    ASSUME NEW r, NEW m, NEW tops, NEW key \in Keys, Keys \subseteq Plain \ {"Q"}, NEW pol \in Pols, NEW new,
           new = WithKeys(pol, {key}), PartOf(new, m)
    PROVE  LET h == Heading("entries", GenericResource)
           IN  Tr(r, Seen(m, tops), At(h, pol), Block(Quoted(<<key>>), << >>), At(h, new))
<1> DEFINE K == Seen(m, tops)
           h == Heading("entries", GenericResource)
           k == Inside("key", GenericResource, << >>)
           f == Inside("fields", GenericResource, << >>)
<1>1. new \in Pols /\ PartOf(pol, m)
  <2> DEFINE b == {key}
  <2>1. b \subseteq Keys /\ new = WithKeys(pol, b)
    OBVIOUS
  <2> HIDE DEF b
  <2> QED BY <2>1, KeysPart
<1>2. h \in Places5 /\ k \in Places5 /\ f \in Places5 /\ h # Top /\ k # Top /\ f # Top
  <2>1. h # Top /\ k # Top /\ f # Top
    BY DEF Heading, Inside, Top, Ctl
  <2>2. << >> \in Texts
    BY Joined
  <2> QED BY <2>1, <2>2, PlacesTyped, ResourcesDiffer
<1>3. /\ Mv(r, h, String(<<key>>), k, pol, new)
      /\ Mv(r, k, Open, f, new, new)
      /\ Mv(r, f, Close, h, new, new)
  <2>1. Mv(r, h, String(<<key>>), k, pol, new)
    BY KeyMoves DEF WithKeys
  <2> DEFINE e0 == << >>
  <2> HIDE DEF e0
  <2>2. /\ Mv(r, Inside("key", GenericResource, e0), Open, Inside("fields", GenericResource, e0), new, new)
        /\ Mv(r, Inside("fields", GenericResource, e0), Close, Heading("entries", GenericResource), new, new)
    BY EntryMoves
  <2> QED BY <2>1, <2>2 DEF e0
<1> HIDE DEF K, h, k, f
<1>4. <<h, pol>> \in K /\ <<k, new>> \in K /\ <<f, new>> \in K /\ <<h, new>> \in K
  BY <1>1, <1>2, InSeen DEF K
<1> DEFINE w == <<key>>
<1>5. w \in Seq(Plain \ {"Q"})
  OBVIOUS
<1> HIDE DEF w
<1>6. Tr(r, K, At(h, pol), Quoted(w), At(k, new))
  BY <1>2, <1>3, <1>4, <1>5, TrString DEF w
<1>7. \A u \in Printed \ {"Q", "NUL"} :
         /\ TokenFor(u) = Open => Tr(r, K, At(k, new), <<u>>, At(f, new))
         /\ TokenFor(u) = Close => Tr(r, K, At(f, new), <<u>>, At(h, new))
  BY <1>1, <1>2, <1>3, <1>4, TrMove
<1>8. Tr(r, K, At(k, new), <<"{">>, At(f, new)) /\ Tr(r, K, At(f, new), <<"}">>, At(h, new))
  BY <1>7, Braces
<1> DEFINE none == << >>
<1>9. Tr(r, K, At(f, new), FlattenSeq(none), At(f, new))
  <2> DEFINE X == [i \in {0} |-> At(f, new)]
  <2>1. X[0] = At(f, new)
    OBVIOUS
  <2> HIDE DEF X
  <2>2. none \in Seq(Seq(Plain)) /\ Len(none) = 0
    OBVIOUS
  <2> HIDE DEF none
  <2>3. X[0] \subseteq ReadStates /\ \A z \in X[0] : <<z.c, z.pol>> \in K
    <3> DEFINE Y == At(f, new)
    <3>1. Y \subseteq ReadStates /\ \A z \in Y : <<z.c, z.pol>> \in K
      BY <1>1, <1>2, <1>4, OneAtTyped
    <3>2. X[0] = Y
      BY <2>1
    <3> HIDE DEF Y
    <3> QED BY <3>1, <3>2
  <2>4. \A i \in 1 .. Len(none) : Tr(r, K, X[i - 1], none[i], X[i])
    BY <2>2
  <2>5. Tr(r, K, X[0], FlattenSeq(none), X[Len(none)])
    BY <2>2, <2>3, <2>4, TrFlatten
  <2> QED BY <2>1, <2>2, <2>5
<1> HIDE DEF none
<1>10. Tr(r, K, At(h, pol), Block(Quoted(w), none), At(h, new))
  BY <1>6, <1>8, <1>9, TrBlock
<1> QED BY <1>10 DEF K, h, w, none

\* The block of the generic permission system.
LEMMA KeysBlockReads ==
    ASSUME NEW r, NEW m, NEW tops, NEW n \in Nat, NEW keys \in [1 .. n -> Keys], Keys \subseteq Plain \ {"Q"},
           GenericResource \in Parsers(r), NEW pol \in Pols, NEW new, new = WithKeys(pol, {keys[i] : i \in 1 .. n}),
           PartOf(new, m), pol \in tops, new \in tops
    PROVE  LET text == Block(GenericResource, [i \in 1 .. n |-> Block(Quoted(<<keys[i]>>), << >>)])
           IN  new \in Pols /\ Tr(r, Seen(m, tops), At(Top, pol), text, At(Top, new))
<1> DEFINE K == Seen(m, tops)
           h == Heading("entries", GenericResource)
           first == [i \in 0 .. n |-> {keys[j] : j \in 1 .. i}]
           P == [i \in 0 .. n |-> WithKeys(pol, first[i])]
           X == [i \in 0 .. n |-> At(h, P[i])]
           text == [i \in 1 .. n |-> Block(Quoted(<<keys[i]>>), << >>)]
<1>1. \A i \in 0 .. n : P[i] = WithKeys(pol, first[i]) /\ X[i] = At(h, P[i]) /\ first[i] = {keys[j] : j \in 1 .. i}
  OBVIOUS
<1>2. 0 \in 0 .. n /\ n \in 0 .. n
  OBVIOUS
<1>3. first[0] = {} /\ new = P[n]
  <2>1. {keys[j] : j \in 1 .. 0} = {}
    OBVIOUS
  <2> QED BY <1>1, <1>2, <2>1
<1>4. \A i \in 1 .. n : text[i] = Block(Quoted(<<keys[i]>>), << >>)
  OBVIOUS
<1>5. text = [i \in 1 .. n |-> text[i]]
  OBVIOUS
<1>6. \A i \in 0 .. n : first[i] \subseteq first[n]
  BY <1>1, <1>2
<1>7. first[n] \subseteq Keys
  BY <1>1, <1>2
<1>8. ASSUME NEW i \in 1 .. n PROVE i \in 0 .. n /\ i - 1 \in 0 .. n /\ first[i] = first[i - 1] \cup {keys[i]}
  <2>1. i \in 0 .. n /\ i - 1 \in 0 .. n /\ \A j \in Int : j \in 1 .. i <=> (j \in 1 .. i - 1 \/ j = i)
    OBVIOUS
  <2> QED BY <1>1, <2>1
<1> HIDE DEF first, P, X, text
<1>9. \A i \in 0 .. n : P[i] \in Pols /\ PartOf(P[i], m)
  <2>1. PartOf(WithKeys(pol, first[n]), m)
    BY <1>1, <1>2, <1>3
  <2> SUFFICES ASSUME NEW i \in 0 .. n PROVE P[i] \in Pols /\ PartOf(P[i], m)
    OBVIOUS
  <2> DEFINE a == first[i]
             b == first[n]
  <2>2. a \subseteq b /\ b \subseteq Keys /\ PartOf(WithKeys(pol, b), m) /\ P[i] = WithKeys(pol, a)
    BY <1>1, <1>6, <1>7, <2>1
  <2> HIDE DEF a, b
  <2>3. WithKeys(pol, a) \in Pols /\ PartOf(WithKeys(pol, a), m)
    BY <2>2, KeysPart
  <2> QED BY <2>2, <2>3
<1>10. P[0] = pol
  <2>1. PartOf(WithKeys(pol, first[n]), m)
    BY <1>1, <1>2, <1>3
  <2>2. WithKeys(pol, first[0]) = pol
    BY <1>2, <1>3, <1>6, <1>7, <2>1, KeysPart
  <2> QED BY <1>1, <1>2, <2>2
<1>11. h \in Places5 /\ h # Top
  <2>1. h # Top
    BY DEF Heading, Top, Ctl
  <2> QED BY <2>1, PlacesTyped, ResourcesDiffer
<1>12. ASSUME NEW i \in 1 .. n PROVE Tr(r, K, X[i - 1], text[i], X[i])
  <2> DEFINE key == keys[i]
             p == P[i - 1]
             q == P[i]
  <2>1. key \in Keys /\ p \in Pols /\ PartOf(q, m)
    BY <1>8, <1>9
  <2>2. q = WithKeys(p, {key})
    <3> DEFINE a == first[i - 1]
    <3>1. p = WithKeys(pol, a) /\ q = WithKeys(pol, a \cup {key})
      BY <1>1, <1>8
    <3> HIDE DEF a, p, q, key
    <3>2. p.paths = pol.paths /\ p.grants = pol.grants /\ p.exec = pol.exec /\ p.generic = pol.generic \cup a
      BY <3>1 DEF WithKeys, Pol
    <3>3. pol.generic \cup (a \cup {key}) = p.generic \cup {key}
      BY <3>2
    <3> QED BY <3>1, <3>2, <3>3 DEF WithKeys
  <2>3. text[i] = Block(Quoted(<<key>>), << >>) /\ X[i - 1] = At(h, p) /\ X[i] = At(h, q)
    BY <1>1, <1>4, <1>8
  <2> HIDE DEF key, p, q
  <2>4. Tr(r, K, At(h, p), Block(Quoted(<<key>>), << >>), At(h, q))
    BY <2>1, <2>2, KeyReads
  <2> QED BY <2>3, <2>4
<1>13. text \in Seq(Seq(Plain)) /\ Len(text) = n
  <2>1. \A i \in 1 .. n : text[i] \in Seq(Plain)
    BY <1>12 DEF Tr
  <2> QED BY <1>5, <2>1, ListOf
<1>14. X[0] \subseteq ReadStates /\ \A x \in X[0] : <<x.c, x.pol>> \in K
  <2>1. pol \in Pols /\ PartOf(pol, m) /\ X[0] = At(h, pol)
    BY <1>1, <1>2, <1>9, <1>10
  <2> HIDE DEF h
  <2>2. <<h, pol>> \in K
    BY <1>11, <2>1, InSeen
  <2> HIDE DEF K
  <2>3. At(h, pol) \subseteq ReadStates /\ \A x \in At(h, pol) : <<x.c, x.pol>> \in K
    BY <1>11, <2>2, OneAtTyped
  <2> QED BY <2>1, <2>3
<1>15. Tr(r, K, At(h, pol), FlattenSeq(text), At(h, new))
  <2>1. \A i \in 1 .. Len(text) : Tr(r, K, X[i - 1], text[i], X[i])
    BY <1>12, <1>13
  <2> HIDE DEF K
  <2>2. Tr(r, K, X[0], FlattenSeq(text), X[Len(text)])
    BY <1>13, <1>14, <2>1, TrFlatten
  <2> QED BY <1>1, <1>2, <1>3, <1>10, <1>13, <2>2
<1>16. new \in Pols /\ PartOf(pol, m)
  BY <1>2, <1>3, <1>9, <1>10
<1>17. \A w, v \in Printed \ {"Q", "NUL", "{", "}"} : GenericResource = <<w, v>> =>
          Tr(r, K, At(Top, pol), Block(GenericResource, text), At(Top, new))
  <2> SUFFICES ASSUME NEW w \in Printed \ {"Q", "NUL", "{", "}"}, NEW v \in Printed \ {"Q", "NUL", "{", "}"},
                      GenericResource = <<w, v>>
               PROVE  Tr(r, K, At(Top, pol), Block(<<w, v>>, text), At(Top, new))
    OBVIOUS
  <2>1. Tr(r, K, At(Heading("entries", <<w, v>>), pol), FlattenSeq(text), At(Heading("entries", <<w, v>>), new))
    BY <1>15
  <2> QED BY <1>16, <2>1, ResourceReads
<1>18. "generic" \in Printed \ {"Q", "NUL", "{", "}"} /\ "key" \in Printed \ {"Q", "NUL", "{", "}"}
  BY DEF Printed
<1>19. Tr(r, K, At(Top, pol), Block(GenericResource, text), At(Top, new))
  BY <1>17, <1>18 DEF GenericResource
<1> QED BY <1>16, <1>19 DEF text

----------------------------------------
(* What the blocks of the filesystem and of the programs are written with. *)

\* One cell and two, and texts one behind the other.
LEMMA CellsOver ==
    ASSUME NEW S
    PROVE  /\ \A x \in S : <<x>> \in Seq(S)
           /\ \A x, y \in S : <<x, y>> \in Seq(S)
           /\ \A s, t \in Seq(S) : s \o t \in Seq(S)
           /\ << >> \in Seq(S)
<1>1. \A s, t \in Seq(S) : s \o t \in Seq(S)
  BY ConcatProperties
<1> QED BY <1>1

\* A text in quotes, and a block of texts, over any cells.
LEMMA BlockOver ==
    ASSUME NEW S, Letters \subseteq S, NEW header \in Seq(S), NEW entries \in Seq(Seq(S))
    PROVE  Quoted(header) \in Seq(S) /\ Block(header, entries) \in Seq(S)
<1>1. "Q" \in S /\ "{" \in S /\ "}" \in S
  BY DEF Letters
<1>2. FlattenSeq(entries) \in Seq(S)
  BY FlattenTyped
<1>3. \A s, t \in Seq(S) : s \o t \in Seq(S)
  BY ConcatProperties
<1>4. <<"Q">> \in Seq(S) /\ <<"{">> \in Seq(S) /\ <<"}">> \in Seq(S)
  BY <1>1, CellsOver, Zenon
<1> QED BY <1>2, <1>3, <1>4, Zenon DEF Quoted, Block

\* permfs_writemodeset.
LEMMA ModesetOver ==
    ASSUME NEW S, Letters \subseteq S, NEW field \in Scopes, NEW modeset \in Modesets
    PROVE  ModesetText(field, modeset) \in Seq(S)
<1>0. \A s, t \in Seq(S) : s \o t \in Seq(S)
  BY ConcatProperties
<1>1. field \in S /\ \A verb \in Verbs : verb \in S
  BY DEF Letters, Scopes
<1>2. ASSUME NEW verb \in Verbs PROVE ModeText(field, verb, modeset[verb]) \in Seq(S)
  <2> DEFINE N == Len(Flags)
             Part(i) == IF Flags[i] \in modeset[verb] THEN Quoted(<<Flags[i]>>) ELSE << >>
             parts == [i \in 1 .. N |-> Part(i)]
  <2>1. N \in Nat /\ DOMAIN Flags = 1 .. N
    BY PolicyFileAssumption
  <2>2. ASSUME NEW i \in 1 .. N PROVE Part(i) \in Seq(S)
    <3>1. Flags[i] \in S
      BY <2>1 DEF FlagSet, ToSet, Letters
    <3>2. <<Flags[i]>> \in Seq(S) /\ << >> \in Seq(S) /\ << >> \in Seq(Seq(S))
      BY <3>1
    <3> QED BY <3>2, BlockOver
  <2> HIDE DEF N, Part
  <2>3. parts \in Seq(Seq(S))
    BY <2>1, <2>2
  <2>4. FlattenSeq(parts) \in Seq(S)
    BY <2>3, FlattenTyped
  <2>5. <<field, verb>> \in Seq(S) /\ << >> \in Seq(S)
    BY <1>1
  <2>6. <<field, verb>> \o FlattenSeq(parts) \in Seq(S)
    BY <1>0, <2>4, <2>5, Zenon
  <2>7. ModeText(field, verb, modeset[verb]) =
            IF modeset[verb] = {} THEN << >> ELSE <<field, verb>> \o FlattenSeq(parts)
    BY DEF ModeText, parts, Part, N
  <2> HIDE DEF parts
  <2> QED BY <2>5, <2>6, <2>7
<1>3. "accept" \in Verbs /\ "reject" \in Verbs /\ "prompt" \in Verbs
  BY DEF Verbs
<1> QED BY <1>0, <1>2, <1>3, Zenon DEF ModesetText

\* gh_permfs_write.
LEMMA FsBlockOver ==
    ASSUME NEW S, Letters \subseteq S, NEW list \in Seq(FsEntries), \A i \in DOMAIN list : list[i].path \in Seq(S)
    PROVE  Block(FsResource, [i \in DOMAIN list |-> FsEntryText(list[i])]) \in Seq(S)
<1> DEFINE N == Len(list)
           parts == [i \in 1 .. N |-> FsEntryText(list[i])]
<1>1. N \in Nat /\ DOMAIN list = 1 .. N /\ \A i \in 1 .. N : list[i] \in FsEntries /\ list[i].path \in Seq(S)
  OBVIOUS
<1> HIDE DEF N
<1>2. ASSUME NEW e \in FsEntries, e.path \in Seq(S) PROVE FsEntryText(e) \in Seq(S)
  <2>1. e.self \in Modesets /\ e.children \in Modesets /\ "self" \in Scopes /\ "children" \in Scopes
    BY DEF FsEntries, Scopes
  <2>2. ModesetText("self", e.self) \in Seq(S) /\ ModesetText("children", e.children) \in Seq(S)
    BY <2>1, ModesetOver
  <2>3. <<ModesetText("self", e.self), ModesetText("children", e.children)>> \in Seq(Seq(S)) /\ << >> \in Seq(Seq(S))
    BY <2>2
  <2>4. Quoted(e.path) \in Seq(S)
    BY <1>2, <2>3, BlockOver
  <2> QED BY <2>3, <2>4, BlockOver DEF FsEntryText
<1>3. parts \in Seq(Seq(S))
  BY <1>1, <1>2
<1>6. "filesystem" \in S /\ "node" \in S
  BY DEF Letters
<1>4. FsResource \in Seq(S)
  BY <1>6, CellsOver, Zenon DEF FsResource
<1>5. Block(FsResource, parts) \in Seq(S)
  BY <1>3, <1>4, BlockOver
<1> QED BY <1>1, <1>5

\* gh_permexec_write.
LEMMA ExecBlockOver ==
    ASSUME NEW S, Letters \subseteq S, NEW list \in Seq(ExecEntries)
    PROVE  Block(ExecResource, [i \in DOMAIN list |-> ExecEntryText(list[i])]) \in Seq(S)
<1> DEFINE N == Len(list)
           parts == [i \in 1 .. N |-> ExecEntryText(list[i])]
<1>1. N \in Nat /\ DOMAIN list = 1 .. N /\ \A i \in 1 .. N : list[i] \in ExecEntries
  OBVIOUS
<1> HIDE DEF N
<1>2. ASSUME NEW e \in ExecEntries PROVE ExecEntryText(e) \in Seq(S)
  <2>1. e.hash \in Hashes /\ e.mode \in Verbs
    BY DEF ExecEntries
  <2>2. <<e.hash>> \in Seq(S) /\ <<e.mode>> \in Seq(S) /\ <<"mode">> \in Seq(S) /\ <<"accept">> \in Seq(S)
        /\ << >> \in Seq(Seq(S))
    <3>1. e.hash \in S /\ e.mode \in S /\ "mode" \in S /\ "accept" \in S
      BY <2>1 DEF Letters, Verbs
    <3> QED BY <3>1, CellsOver, Zenon
  <2>4. Quoted(<<e.hash>>) \in Seq(S) /\ Quoted(<<e.mode>>) \in Seq(S)
    BY <2>2, BlockOver
  <2> DEFINE said == IF e.mode = "accept" THEN <<"accept">> ELSE Quoted(<<e.mode>>)
  <2>5. said \in Seq(S)
    BY <2>2, <2>4
  <2> HIDE DEF said
  <2>6. <<<<"mode">>, said>> \in Seq(Seq(S))
    BY <2>2, <2>5
  <2>7. Block(Quoted(<<e.hash>>), <<<<"mode">>, said>>) \in Seq(S)
    BY <2>4, <2>6, BlockOver
  <2> QED BY <2>7 DEF ExecEntryText, said
<1>3. parts \in Seq(Seq(S))
  BY <1>1, <1>2
<1>6. "exec" \in S /\ "cmdline" \in S
  BY DEF Letters
<1>4. ExecResource \in Seq(S)
  BY <1>6, CellsOver, Zenon DEF ExecResource
<1>5. Block(ExecResource, parts) \in Seq(S)
  BY <1>3, <1>4, BlockOver
<1> QED BY <1>1, <1>5

----------------------------------------
(* The whole text of a policy. *)

\* The names are cells that are read as they are.
LEMMA PlainCells ==
    ASSUME PlainNames
    PROVE  /\ FlagSet \subseteq Plain \ {"Q"} /\ Hashes \subseteq Plain \ {"Q"} /\ Keys \subseteq Plain \ {"Q"}
           /\ PathCells \subseteq Plain \ {"Q"}
           /\ Letters \subseteq Plain \ {"generic"} /\ PathCells \subseteq Plain \ {"generic"}
<1>1. FlagSet \subseteq Cells /\ Hashes \subseteq Cells /\ Keys \subseteq Cells /\ PathCells \subseteq Cells
  BY PrintedCells DEF Cells
<1>2. {"filesystem", "node", "exec", "cmdline", "self", "children", "mode", "Q", "{", "}"} \cup Verbs
         \subseteq Plain \ {"generic"}
  BY PrintedCells DEF Printed, Plain, Verbs
<1> QED BY <1>1, <1>2 DEF PlainNames, Plain, Letters

\* So are the paths.
LEMMA PlainPaths ==
    ASSUME PlainNames, NEW list \in Seq(FsEntries), PathsOf(list) \subseteq Paths
    PROVE  \A i \in DOMAIN list : /\ list[i].path \in Seq(Plain \ {"Q"})
                                  /\ list[i].path \in Seq(Plain \ {"generic"})
<1>1. ASSUME NEW path \in Paths, path \in Seq(Cells) PROVE path \in Seq(PathCells)
  <2>1. \A n \in DOMAIN path : path[n] \in PathCells
    BY DEF PathCells, ToSet
  <2> QED BY <1>1, <2>1
<1>2. ASSUME NEW path \in Seq(PathCells) PROVE path \in Seq(Plain \ {"Q"}) /\ path \in Seq(Plain \ {"generic"})
  <2>1. \A n \in DOMAIN path : path[n] \in Plain \ {"Q"} /\ path[n] \in Plain \ {"generic"}
    BY PlainCells
  <2> DEFINE A == Plain \ {"Q"}
             B == Plain \ {"generic"}
  <2>2. path \in Seq(A)
    BY <2>1
  <2>3. path \in Seq(B)
    BY <2>1
  <2> QED BY <2>2, <2>3
<1>3. ASSUME NEW i \in DOMAIN list PROVE list[i].path \in Paths /\ list[i].path \in Seq(Cells)
  <2>1. list[i] \in FsEntries
    OBVIOUS
  <2>2. list[i].path \in Seq(Cells)
    BY <2>1 DEF FsEntries
  <2>3. list[i].path \in Paths
    BY DEF PathsOf
  <2> QED BY <2>2, <2>3
<1> QED BY <1>1, <1>2, <1>3, Zenon

\* The text of the first two blocks does not have the word.
LEMMA WithoutGeneric ==
    ASSUME PlainNames, NEW list \in Seq(FsEntries), PathsOf(list) \subseteq Paths, NEW programs \in Seq(ExecEntries)
    PROVE  FsText(list) \o ExecText(programs) \in Seq(Plain \ {"generic"})
<1> DEFINE S == Plain \ {"generic"}
<1>1. Letters \subseteq S /\ \A i \in DOMAIN list : list[i].path \in Seq(S)
  BY PlainCells, PlainPaths
<1> HIDE DEF S
<1>2. FsText(list) \in Seq(S) /\ ExecText(programs) \in Seq(S)
  BY <1>1, FsBlockOver, ExecBlockOver DEF FsText, ExecText
<1>3. FsText(list) \o ExecText(programs) \in Seq(S)
  BY <1>2, CellsOver
<1> QED BY <1>3 DEF S

\* The keys in the order in which they are written are all the keys.
LEMMA KeysOnce ==
    ASSUME NEW T, IsFiniteSet(T)
    PROVE  LET n == Cardinality(T) IN
           n \in Nat /\ SetToSeq(T) \in [1 .. n -> T] /\ {SetToSeq(T)[i] : i \in 1 .. n} = T
<1> DEFINE N == Cardinality(T)
<1>1. N \in Nat /\ ExistsBijection(1 .. N, T)
  BY FS_CardinalityType
<1>2. SetToSeq(T) \in [1 .. N -> T] /\ IsInjective(SetToSeq(T))
  <2> HIDE DEF N
  <2>1. PICK f : f \in Bijection(1 .. N, T)
    BY <1>1 DEF ExistsBijection
  <2>2. f \in [1 .. N -> T] /\ IsInjective(f)
    BY <2>1 DEF Bijection, Injection
  <2> QED BY <1>1, <2>2 DEF SetToSeq, N
<1> DEFINE f == SetToSeq(T)
           R == {f[i] : i \in 1 .. N}
<1>3. f \in [1 .. N -> T] /\ IsInjective(f)
  BY <1>2
<1> HIDE DEF f, N
<1>4. f \in Bijection(1 .. N, R)
  <2>1. f \in [1 .. N -> R]
    BY <1>3
  <2>2. f \in Injection(1 .. N, R)
    BY <1>3, <2>1 DEF Injection
  <2>3. f \in Surjection(1 .. N, R)
    BY <2>1 DEF Surjection
  <2> QED BY <2>2, <2>3 DEF Bijection
<1>5. R \subseteq T
  BY <1>3
<1> HIDE DEF R
<1>6. IsFiniteSet(R) /\ Cardinality(R) = N
  <2>1. ExistsBijection(1 .. N, R)
    BY <1>4 DEF ExistsBijection
  <2> QED BY <1>1, <2>1, FS_NatBijection, FS_CountingElements
<1>7. R = T
  BY <1>5, <1>6, FS_Subset DEF N
<1> QED BY <1>1, <1>2, <1>7 DEF R, f, N

\* The text of the keys.
LEMMA KeyTextPlain ==
    ASSUME PlainNames, NEW keys, keys \subseteq Keys, IsFiniteSet(keys)
    PROVE  /\ FlattenSeq([i \in 1 .. Cardinality(keys) |-> Block(Quoted(<<SetToSeq(keys)[i]>>), << >>)]) \in Seq(Plain)
           /\ KeyText(keys) \in Seq(Plain)
<1> DEFINE N == Cardinality(keys)
           Part(i) == Block(Quoted(<<SetToSeq(keys)[i]>>), << >>)
           parts == [i \in 1 .. N |-> Part(i)]
<1>1. N \in Nat /\ \A i \in 1 .. N : SetToSeq(keys)[i] \in keys
  BY KeysOnce
<1> HIDE DEF N
<1>2. Letters \subseteq Plain /\ keys \subseteq Plain
  BY PlainCells
<1>3. ASSUME NEW i \in 1 .. N PROVE Part(i) \in Seq(Plain)
  <2>1. SetToSeq(keys)[i] \in Plain
    BY <1>1, <1>2
  <2>2. <<SetToSeq(keys)[i]>> \in Seq(Plain) /\ << >> \in Seq(Seq(Plain))
    BY <2>1, CellsOver
  <2>3. Quoted(<<SetToSeq(keys)[i]>>) \in Seq(Plain)
    BY <1>2, <2>2, BlockOver
  <2> QED BY <1>2, <2>2, <2>3, BlockOver
<1> HIDE DEF Part
<1>4. parts \in Seq(Seq(Plain))
  BY <1>1, <1>3
<1> HIDE DEF parts
<1>5. FlattenSeq(parts) \in Seq(Plain)
  BY <1>4, FlattenTyped
<1>6. "generic" \in Plain /\ "key" \in Plain
  BY PrintedCells DEF Printed, Plain
<1>7. GenericResource \in Seq(Plain)
  BY <1>6, CellsOver, Zenon DEF GenericResource
<1>8. Block(GenericResource, parts) \in Seq(Plain)
  BY <1>2, <1>4, <1>7, BlockOver
<1> QED BY <1>5, <1>8 DEF KeyText, parts, Part, N

\* The parts of a policy in the order in which they are read.
LEMMA StagesTyped ==
    ASSUME NEW r \in BOOLEAN, NEW list \in Seq(FsEntries), NEW programs \in Seq(ExecEntries), NEW keys, keys \subseteq Keys
    PROVE  LET m == All(r, list, programs, keys)
               p1 == Pol(PathsOf(list), GrantsOf(list), << >>, {})
               p2 == Pol(PathsOf(list), GrantsOf(list), programs, {})
           IN  /\ m \in Pols /\ p1 \in Pols /\ p2 \in Pols
               /\ PartOf(NoPol, m) /\ PartOf(p1, m) /\ PartOf(p2, m) /\ PartOf(m, m)
               /\ p2 = WithExec(p1, programs) /\ p1.exec = << >>
               /\ r => m = WithKeys(p2, keys)
               /\ (~r \/ keys = {}) => m = p2
<1> DEFINE a == PathsOf(list)
           b == GrantsOf(list)
           k == IF r THEN keys ELSE {}
           m == All(r, list, programs, keys)
           p1 == Pol(a, b, << >>, {})
           p2 == Pol(a, b, programs, {})
<1>1. a \in SUBSET Texts /\ b \in SUBSET Perms
  <2>1. \A i \in DOMAIN list : list[i] \in FsEntries
    OBVIOUS
  <2>2. \A i \in DOMAIN list : list[i].path \in Texts
    BY <2>1 DEF FsEntries, Texts
  <2> QED BY <2>2 DEF PathsOf, GrantsOf, Perms
<1>2. k \in SUBSET Keys /\ {} \in SUBSET Keys /\ << >> \in Seq(ExecEntries)
  OBVIOUS
<1>3. m = Pol(a, b, programs, k)
  BY DEF All
<1>4. (~r \/ keys = {} => k = {}) /\ (r => k = {} \cup keys)
  OBVIOUS
<1> HIDE DEF a, b, k
<1>5. Pol(a, b, programs, k) \in Pols /\ p1 \in Pols /\ p2 \in Pols
  BY <1>1, <1>2, PolTyped
<1>6. /\ p1.paths = a /\ p1.grants = b /\ p1.exec = << >> /\ p1.generic = {}
      /\ p2.paths = a /\ p2.grants = b /\ p2.exec = programs /\ p2.generic = {}
      /\ m.paths = a /\ m.grants = b /\ m.exec = programs /\ m.generic = k
      /\ NoPol.paths = {} /\ NoPol.grants = {} /\ NoPol.exec = << >> /\ NoPol.generic = {}
  BY <1>3 DEF Pol, NoPol
<1>7. ExecUpTo(<< >>, programs) /\ ExecUpTo(programs, programs)
  <2>1. Len(programs) \in Nat /\ Len(<< >>) = 0 /\ 1 .. 0 = {}
    OBVIOUS
  <2> QED BY <2>1 DEF ExecUpTo
<1>8. p2 = WithExec(p1, programs)
  BY <1>6 DEF WithExec
<1>9. r => m = WithKeys(p2, keys)
  BY <1>3, <1>4, <1>6 DEF WithKeys
<1> HIDE DEF p1, p2, m
<1>10. PartOf(NoPol, m) /\ PartOf(p1, m) /\ PartOf(p2, m) /\ PartOf(m, m)
  BY <1>6, <1>7 DEF PartOf
<1> QED BY <1>3, <1>4, <1>5, <1>6, <1>8, <1>9, <1>10 DEF p1, p2, m, a, b

\* The block of a permission system that is not registered is refused.
LEMMA KeysRefused ==
    ASSUME PlainNames, NEW m, NEW tops, NEW keys, keys \subseteq Keys, IsFiniteSet(keys), NEW r, ~r,
           NEW pol \in Pols, PartOf(pol, m), pol \in tops
    PROVE  Tr(r, Seen(m, tops), At(Top, pol), KeyText(keys), Errors(Seen(m, tops)))
<1> DEFINE K == Seen(m, tops)
           parts == [i \in 1 .. Cardinality(keys) |-> Block(Quoted(<<SetToSeq(keys)[i]>>), << >>)]
           X == At(Heading("resource", GenericResource), pol)
<1>1. FlattenSeq(parts) \in Seq(Plain) /\ KeyText(keys) = Block(GenericResource, parts)
  BY KeyTextPlain DEF KeyText
<1> HIDE DEF parts
<1>2. "generic" \in Printed \ {"Q", "NUL", "{", "}"} /\ "key" \in Printed \ {"Q", "NUL", "{", "}"}
  BY DEF Printed
<1>3. GenericResource \notin Parsers(r)
  BY ResourcesDiffer DEF Parsers
<1>4. Tr(r, K, At(Top, pol), GenericResource, X) /\ Tr(r, K, X, <<"{">>, Errors(K))
  <2>1. \A w, v \in Printed \ {"Q", "NUL", "{", "}"} :
           <<w, v>> \notin Parsers(r) =>
           /\ Tr(r, K, At(Top, pol), <<w, v>>, At(Heading("resource", <<w, v>>), pol))
           /\ Tr(r, K, At(Heading("resource", <<w, v>>), pol), <<"{">>, Errors(K))
    BY HeadingReads
  <2> HIDE DEF K
  <2> QED BY <1>2, <1>3, <2>1, Zenon DEF GenericResource
<1>5. Tr(r, K, Errors(K), FlattenSeq(parts), Errors(K)) /\ Tr(r, K, Errors(K), <<"}">>, Errors(K))
  BY <1>1, TrErrors, Braces
<1> HIDE DEF K, X
<1>6. Tr(r, K, At(Top, pol), Block(GenericResource, parts), Errors(K))
  BY <1>4, <1>5, TrBlock
<1> QED BY <1>1, <1>6 DEF K

\* The text of a policy is read as that policy, or is refused: for a program whose mode is
\* a string, or for the block of a permission system that is not registered.
LEMMA TextReads ==
    ASSUME PlainNames, NEW r \in BOOLEAN, NEW list, NEW programs, NEW reg \in BOOLEAN, NEW keys,
           Writable(list, programs, reg, keys)
    PROVE  LET text == PolicyText(list, programs, reg, keys)
               m == All(r, list, programs, keys)
               K == Seen(m, Stages(r, list, programs, keys))
               good == Accepted(programs) /\ (r \/ ~reg)
           IN  /\ m \in Pols
               /\ good => Tr(r, K, At(Top, NoPol), text, At(Top, m))
               /\ ~good => Tr(r, K, At(Top, NoPol), text, Errors(K))
<1> DEFINE m == All(r, list, programs, keys)
           tops == Stages(r, list, programs, keys)
           K == Seen(m, tops)
           p1 == Pol(PathsOf(list), GrantsOf(list), << >>, {})
           p2 == Pol(PathsOf(list), GrantsOf(list), programs, {})
           F == FsText(list)
           E == ExecText(programs)
           G == IF reg THEN KeyText(keys) ELSE << >>
<1>1. /\ list \in Seq(FsEntries) /\ PathsOf(list) \subseteq Paths /\ programs \in Seq(ExecEntries)
      /\ keys \subseteq Keys /\ IsFiniteSet(keys) /\ (~reg => keys = {})
  BY DEF Writable
<1>2. /\ m \in Pols /\ p1 \in Pols /\ p2 \in Pols
      /\ PartOf(NoPol, m) /\ PartOf(p1, m) /\ PartOf(p2, m) /\ PartOf(m, m)
      /\ p2 = WithExec(p1, programs) /\ p1.exec = << >>
      /\ r => m = WithKeys(p2, keys)
      /\ (~r \/ keys = {}) => m = p2
  BY <1>1, StagesTyped
<1>3. NoPol \in tops /\ p1 \in tops /\ (Accepted(programs) => p2 \in tops /\ m \in tops)
  BY DEF Stages
<1>4. /\ FlagSet \subseteq Plain \ {"Q"} /\ Hashes \subseteq Plain \ {"Q"} /\ Keys \subseteq Plain \ {"Q"}
      /\ \A i \in DOMAIN list : list[i].path \in Seq(Plain \ {"Q"})
  BY <1>1, PlainCells, PlainPaths
<1> HIDE DEF m, tops
<1>5. Tr(r, K, At(Top, NoPol), F, At(Top, p1))
  <2>1. p1 = Pol(PathsOf(list), GrantsOf(list), << >>, {})
    OBVIOUS
  <2> HIDE DEF p1
  <2> QED BY <1>1, <1>2, <1>3, <1>4, <2>1, FsBlockReads DEF FsText
<1> HIDE DEF p1, p2
<1>6. /\ Accepted(programs) => Tr(r, K, At(Top, p1), E, At(Top, p2))
      /\ ~Accepted(programs) => Tr(r, K, At(Top, p1), E, Errors(K))
  BY <1>1, <1>2, <1>3, <1>4, ExecBlockReads DEF ExecText
<1>7. ASSUME Accepted(programs), r, reg PROVE Tr(r, K, At(Top, p2), G, At(Top, m))
  <2> DEFINE n == Cardinality(keys)
             t == SetToSeq(keys)
  <2>1. n \in Nat /\ t \in [1 .. n -> keys] /\ {t[i] : i \in 1 .. n} = keys
    BY <1>1, KeysOnce
  <2>2. G = Block(GenericResource, [i \in 1 .. n |-> Block(Quoted(<<t[i]>>), << >>)])
    BY <1>7 DEF KeyText
  <2> HIDE DEF n, t
  <2>3. t \in [1 .. n -> Keys] /\ m = WithKeys(p2, {t[i] : i \in 1 .. n}) /\ GenericResource \in Parsers(r)
    BY <1>1, <1>2, <1>7, <2>1 DEF Parsers
  <2>6. \A u \in [1 .. n -> Keys], q, new \in Pols :
           new = WithKeys(q, {u[j] : j \in 1 .. n}) /\ PartOf(new, m) /\ q \in tops /\ new \in tops =>
           Tr(r, Seen(m, tops), At(Top, q), Block(GenericResource, [j \in 1 .. n |-> Block(Quoted(<<u[j]>>), << >>)]), At(Top, new))
    BY <1>4, <2>1, <2>3, KeysBlockReads
  <2>4. Tr(r, Seen(m, tops), At(Top, p2), Block(GenericResource, [i \in 1 .. n |-> Block(Quoted(<<t[i]>>), << >>)]), At(Top, m))
    BY <1>2, <1>3, <1>7, <2>1, <2>3, <2>6
  <2> QED BY <2>2, <2>4
<1>8. ASSUME Accepted(programs), ~r, reg PROVE Tr(r, K, At(Top, p2), G, Errors(K))
  BY <1>1, <1>2, <1>3, <1>8, KeysRefused
<1>9. ASSUME Accepted(programs), ~reg PROVE Tr(r, K, At(Top, p2), G, At(Top, m))
  <2>1. m = p2 /\ G = << >>
    BY <1>1, <1>2, <1>9
  <2>2. <<Top, m>> \in K
    BY <1>2, <1>3, <1>9, InSeen, PlacesTyped
  <2>3. At(Top, m) \subseteq ReadStates /\ \A x \in At(Top, m) : <<x.c, x.pol>> \in K
    BY <1>2, <2>2, OneAtTyped, PlacesTyped
  <2> HIDE DEF K
  <2>4. Tr(r, K, At(Top, m), << >>, At(Top, m))
    BY <2>3, TrEmpty
  <2> QED BY <2>1, <2>4
<1>10. Tr(r, K, Errors(K), G, Errors(K))
  <2>1. KeyText(keys) \in Seq(Plain) /\ << >> \in Seq(Plain)
    BY <1>1, KeyTextPlain, CellsOver, Zenon
  <2>2. G \in Seq(Plain)
    BY <2>1
  <2> HIDE DEF G
  <2> QED BY <2>2, TrErrors
<1> HIDE DEF K, F, E, G
<1>11. ASSUME NEW A, NEW Z, Tr(r, K, At(Top, p1), E, A), Tr(r, K, A, G, Z)
       PROVE  Tr(r, K, At(Top, NoPol), (F \o E) \o G, Z)
  <2>1. Tr(r, K, At(Top, NoPol), F \o E, A)
    BY <1>5, <1>11, TrConcat
  <2> QED BY <1>11, <2>1, TrConcat
<1>12. PolicyText(list, programs, reg, keys) = (F \o E) \o G
  BY DEF PolicyText, F, E, G
<1>13. Accepted(programs) /\ (r \/ ~reg) => Tr(r, K, At(Top, NoPol), (F \o E) \o G, At(Top, m))
  BY <1>6, <1>7, <1>9, <1>11
<1>14. ~(Accepted(programs) /\ (r \/ ~reg)) => Tr(r, K, At(Top, NoPol), (F \o E) \o G, Errors(K))
  BY <1>6, <1>8, <1>10, <1>11
<1> QED BY <1>2, <1>12, <1>13, <1>14 DEF K, m, tops

\* What a reader has read of a beginning of the text, and of all of it.
LEMMA PrefixReads ==
    ASSUME PlainNames, NEW r \in BOOLEAN, NEW list, NEW programs, NEW reg \in BOOLEAN, NEW keys,
           Writable(list, programs, reg, keys)
    PROVE  LET text == PolicyText(list, programs, reg, keys)
               m == All(r, list, programs, keys)
               end == Out(r, text)
               good == Accepted(programs) /\ (r \/ ~reg)
           IN  /\ text \in Seq(Plain) /\ m \in Pols
               /\ end \in ReadStates
               /\ good => ~end.in /\ end.c = Top /\ end.pol = m
               /\ ~good => end.c = Err
               /\ CutsRead(r, text, m, Stages(r, list, programs, keys))
<1> DEFINE text == PolicyText(list, programs, reg, keys)
           m == All(r, list, programs, keys)
           tops == Stages(r, list, programs, keys)
           K == Seen(m, tops)
           good == Accepted(programs) /\ (r \/ ~reg)
           X == At(Top, NoPol)
           begin == Begin(NoPol)
           end == Fold(Reader(r), begin, text)
<1>1. /\ m \in Pols
      /\ good => Tr(r, K, X, text, At(Top, m))
      /\ ~good => Tr(r, K, X, text, Errors(K))
  BY TextReads
<1>2. begin \in X /\ begin \in ReadStates
  BY BeginTyped DEF At, Begin
<1>3. \A x \in At(Top, m) : ~x.in /\ x.c = Top /\ x.pol = m
  BY DEF At, St
<1>4. \A x \in Errors(K) : x.c = Err
  BY DEF Errors
<1> HIDE DEF text, m, tops, good, begin, X
<1>5. ASSUME NEW c, NEW q, <<c, q>> \in K PROVE c \in Places5 /\ q \in Pols /\ PartOf(q, m) /\ (c = Top => q \in tops)
  BY <1>5 DEF Seen
<1> HIDE DEF K
<1>6. PICK Y : Tr(r, K, X, text, Y)
  BY <1>1
<1>7. text \in Seq(Plain)
  BY <1>6 DEF Tr
<1>8. end \in ReadStates
  BY <1>2, <1>7, ReaderParts
<1>9. good => end \in At(Top, m)
  BY <1>1, <1>2 DEF Tr
<1>10. ~good => end \in Errors(K)
  BY <1>1, <1>2 DEF Tr
<1>11. ASSUME NEW a \in Seq(Plain), NEW b \in Seq(Plain), text = a \o b
       PROVE  LET y == Fold(Reader(r), begin, a)
              IN  y \in ReadStates /\ y.pol \in Pols /\ PartOf(y.pol, m) /\ (y.c = Top => y.pol \in tops)
  <2> DEFINE y == Fold(Reader(r), begin, a)
  <2>1. <<y.c, y.pol>> \in K
    BY <1>2, <1>6, <1>11 DEF Tr
  <2>2. y \in ReadStates
    BY <1>2, ReaderParts
  <2> HIDE DEF y
  <2>3. y.pol \in Pols /\ PartOf(y.pol, m) /\ (y.c = Top => y.pol \in tops)
    BY <1>5, <2>1
  <2> QED BY <2>2, <2>3 DEF y
<1>12. /\ good => ~end.in /\ end.c = Top /\ end.pol = m
       /\ ~good => end.c = Err
  BY <1>3, <1>4, <1>9, <1>10
<1>13. \A cells : Out(r, cells) = Fold(Reader(r), begin, cells)
  BY DEF Out, begin
<1> HIDE DEF end
<1>14. Out(r, text) = end
  BY <1>13 DEF end
<1>15. CutsRead(r, text, m, tops)
  BY <1>11, <1>13 DEF CutsRead
<1> QED BY <1>1, <1>7, <1>8, <1>12, <1>14, <1>15 DEF text, m, tops, good

\* Texts one behind the other are a text, however they are put together.
LEMMA ThreeJoined ==
    ASSUME NEW C
    PROVE  Joins(Seq(C))
<1>1. ASSUME NEW a \in Seq(C), NEW b \in Seq(C) PROVE Cat(a, b) \in Seq(C)
  BY ConcatProperties DEF Cat
<1>2. ASSUME NEW a \in Seq(C), NEW b \in Seq(C), NEW c \in Seq(C) PROVE Cat(Cat(a, b), c) = Cat(a, Cat(b, c))
  BY ConcatAssociative DEF Cat
<1> QED BY <1>1, <1>2 DEF Joins

\* Five of them.
LEMMA FiveJoined ==
    ASSUME NEW C, NEW a \in Seq(C), NEW b \in Seq(C), NEW c \in Seq(C), NEW d \in Seq(C), NEW e \in Seq(C)
    PROVE  /\ Cat(Cat(Cat(Cat(a, b), c), d), e) = Cat(a, Cat(Cat(Cat(b, c), d), e))
           /\ Cat(Cat(Cat(b, c), d), e) \in Seq(C)
<1> DEFINE S == Seq(C)
<1>1. Joins(S)
  BY ThreeJoined
<1>2. a \in S /\ b \in S /\ c \in S /\ d \in S /\ e \in S
  OBVIOUS
<1> HIDE DEF S
<1>3. Cat(b, c) \in S /\ Cat(Cat(b, c), d) \in S /\ Cat(Cat(Cat(b, c), d), e) \in S
  BY <1>1, <1>2 DEF Joins
<1>4. /\ Cat(Cat(a, b), c) = Cat(a, Cat(b, c))
      /\ Cat(Cat(a, Cat(b, c)), d) = Cat(a, Cat(Cat(b, c), d))
      /\ Cat(Cat(a, Cat(Cat(b, c), d)), e) = Cat(a, Cat(Cat(Cat(b, c), d), e))
  BY <1>1, <1>2, <1>3 DEF Joins
<1> QED BY <1>3, <1>4, Zenon DEF S

\* Behind the word that begins the block of the generic permission system, a reader without
\* it never is between two resources again.
LEMMA BehindGeneric ==
    ASSUME PlainNames, NEW keys, keys \subseteq Keys, IsFiniteSet(keys), NEW r, ~r, NEW pol \in Pols,
           NEW a \in Seq(Plain), NEW b \in Seq(Plain), a # << >>, KeyText(keys) = a \o b
    PROVE  Fold(Reader(r), Begin(pol), a).c # Top
<1> DEFINE parts == [i \in 1 .. Cardinality(keys) |-> Block(Quoted(<<SetToSeq(keys)[i]>>), << >>)]
           flat == FlattenSeq(parts)
           first == <<"generic">>
           second == <<"key">>
           open == <<"{">>
           close == <<"}">>
           rest == ((second \o open) \o flat) \o close
           g == Heading("group", first)
           s == Heading("resource", GenericResource)
           K == Seen(pol, {})
<1>1. flat \in Seq(Plain) /\ KeyText(keys) \in Seq(Plain)
  BY KeyTextPlain
<1>2. "generic" \in Printed \ {"Q", "NUL", "{", "}"} /\ "key" \in Printed \ {"Q", "NUL", "{", "}"}
      /\ "generic" \in Plain /\ "key" \in Plain
  BY PrintedCells DEF Printed, Plain
<1>3. first \in Seq(Plain) /\ second \in Seq(Plain) /\ open \in Seq(Plain) /\ close \in Seq(Plain)
      /\ Len(first) = 1
  <2>1. first \in Seq(Plain) /\ second \in Seq(Plain)
    BY <1>2, CellsOver, Zenon
  <2> QED BY <2>1, Braces
<1>4. KeyText(keys) = ((GenericResource \o <<"{">>) \o flat) \o <<"}">>
  BY DEF KeyText, Block
<1>5. GenericResource = first \o second
  <2>1. \A w, v : <<w>> \o <<v>> = <<w, v>>
    BY PairJoined
  <2> QED BY <2>1, Zenon DEF GenericResource
<1> HIDE DEF parts, flat, first, second, open, close
<1>6. KeyText(keys) = first \o rest /\ rest \in Seq(Plain)
  <2>1. KeyText(keys) = (((first \o second) \o open) \o flat) \o close
    BY <1>4, <1>5 DEF open, close
  <2> QED
    <3>1. /\ Cat(Cat(Cat(Cat(first, second), open), flat), close) = Cat(first, Cat(Cat(Cat(second, open), flat), close))
          /\ Cat(Cat(Cat(second, open), flat), close) \in Seq(Plain)
      BY <1>1, <1>3, FiveJoined
    <3> QED BY <2>1, <3>1, Zenon DEF Cat
<1>7. GenericResource \notin Parsers(r)
  BY ResourcesDiffer DEF Parsers
<1>8. PartOf(pol, pol)
  <2>1. pol.exec \in Seq(ExecEntries)
    BY PolParts
  <2>2. Len(pol.exec) \in Nat
    BY <2>1
  <2> QED BY <2>2 DEF PartOf, ExecUpTo
<1>9. Tr(r, K, At(g, pol), second, At(s, pol)) /\ Tr(r, K, At(s, pol), open, Errors(K))
  <2>1. \A w, v \in Printed \ {"Q", "NUL", "{", "}"} :
           <<w, v>> \notin Parsers(r) =>
           /\ Tr(r, K, At(Heading("group", <<w>>), pol), <<v>>, At(Heading("resource", <<w, v>>), pol))
           /\ Tr(r, K, At(Heading("resource", <<w, v>>), pol), <<"{">>, Errors(K))
    BY <1>8, HeadingReads
  <2> HIDE DEF K
  <2> QED BY <1>2, <1>7, <2>1, Zenon DEF GenericResource, first, second, open
<1>10. Tr(r, K, At(g, pol), rest, Errors(K))
  <2>1. Tr(r, K, Errors(K), flat, Errors(K)) /\ Tr(r, K, Errors(K), close, Errors(K))
    BY <1>1, <1>3, TrErrors
  <2> HIDE DEF K, g, s
  <2>2. Tr(r, K, At(g, pol), second \o open, Errors(K))
    BY <1>9, TrConcat
  <2>3. Tr(r, K, At(g, pol), (second \o open) \o flat, Errors(K))
    BY <2>1, <2>2, TrConcat
  <2>4. Tr(r, K, At(g, pol), ((second \o open) \o flat) \o close, Errors(K))
    BY <2>1, <2>3, TrConcat
  <2> QED BY <2>4
<1>11. PICK c \in Seq(Plain) : a = first \o c /\ rest = c \o b
  <2> HIDE DEF rest
  <2>1. Len(first) <= Len(a)
    <3>1. Len(a) \in Nat /\ Len(a) # 0
      OBVIOUS
    <3> QED BY <1>3, <3>1
  <2>2. CutBehind(Plain, a, b, first, rest)
    BY <1>3, <1>6, <2>1, CutBefore
  <2> QED BY <2>2 DEF CutBehind
<1>12. Begin(pol) \in ReadStates /\ Fold(Reader(r), Begin(pol), first) \in At(g, pol)
  <2>0. Begin(pol) \in ReadStates
    BY BeginTyped
  <2> DEFINE L == Places5 \X Pols
             w == "generic"
  <2>1. TokenFor(w) = Word(w) /\ w \in Printed \ {"Q", "NUL"}
    BY <1>2, WordTokens
  <2>2. Mv(r, Top, Word(w), Heading("group", <<w>>), pol, pol)
    BY HeadingMoves
  <2>3. g \in Places5 /\ Top \in Places5
    <3>1. first \in Texts
      BY <1>2, PrintedCells, Joined DEF first
    <3> QED BY <3>1, PlacesTyped
  <2>4. first = <<w>> /\ g = Heading("group", <<w>>)
    BY DEF first
  <2>5. <<Top, pol>> \in L /\ <<g, pol>> \in L
    BY <2>3
  <2> HIDE DEF L, w, g
  <2>6. Mv(r, Top, TokenFor(w), g, pol, pol)
    BY <2>1, <2>2, <2>4
  <2>7. Tr(r, L, At(Top, pol), <<w>>, At(g, pol))
    BY <2>1, <2>3, <2>5, <2>6, TrMove
  <2>8. Begin(pol) \in At(Top, pol)
    BY DEF At, Begin
  <2> QED BY <2>0, <2>4, <2>7, <2>8 DEF Tr
<1> DEFINE x == Fold(Reader(r), Begin(pol), first)
           y == Fold(Reader(r), x, c)
<1>13. <<y.c, y.pol>> \in K
  <2> HIDE DEF K, g, rest, x
  <2>1. x \in At(g, pol)
    BY <1>12 DEF x
  <2> QED BY <1>10, <1>11, <2>1 DEF Tr
<1>14. Fold(Reader(r), Begin(pol), a) = y
  <2>1. \A d, e \in Seq(Plain) : Fold(Reader(r), Begin(pol), d \o e) = Fold(Reader(r), Fold(Reader(r), Begin(pol), d), e)
    BY <1>12, ReaderParts
  <2> QED BY <1>3, <1>11, <2>1, Zenon
<1> HIDE DEF y
<1>15. y.c # Top
  BY <1>13 DEF Seen
<1> QED BY <1>14, <1>15

----------------------------------------
(* Texts one behind the other, and texts that end too early. *)

\* Outside of a string nothing of one is kept.
LEMMA Tidy ==
    ASSUME NEW r, NEW cells \in Seq(Plain), Rest(Out(r, cells))
    PROVE  Out(r, cells) = Begin(Out(r, cells).pol) /\ Out(r, cells).pol \in Pols
<1> DEFINE y == Out(r, cells)
           Clean(x) == x.in \/ x.string = << >>
           R == {z \in ReadStates \X ReadStates : Clean(z[1])}
<1>1. Machine(ReadStates, Plain, Reader(r))
      /\ \A x \in ReadStates, cell \in Plain : Reader(r)[<<x, cell>>] = ReadCell(r, x, cell)
  BY ReaderSteps
<1>2. Begin(NoPol) \in ReadStates /\ Clean(Begin(NoPol))
  BY BeginTyped
<1>3. ASSUME NEW x \in ReadStates, NEW cell \in Plain PROVE Clean(ReadCell(r, x, cell))
  <2>1. \A string, c, pol : Clean(St(TRUE, string, c, pol)) /\ Clean(St(FALSE, << >>, c, pol))
    BY DEF St
  <2>2. CASE ~x.in /\ cell = "Q"
    BY <2>1, <2>2 DEF ReadCell
  <2>3. CASE x.in \/ cell # "Q"
    BY <2>1, <2>3 DEF ReadCell, Take
  <2> QED BY <2>2, <2>3
<1>4. ASSUME NEW x \in ReadStates, NEW z \in ReadStates, NEW cell \in Plain, <<x, z>> \in R
      PROVE  <<Reader(r)[<<x, cell>>], Reader(r)[<<z, cell>>]>> \in R
  <2>1. Reader(r)[<<x, cell>>] \in ReadStates /\ Reader(r)[<<z, cell>>] \in ReadStates
    BY <1>1 DEF Machine
  <2>2. Clean(Reader(r)[<<x, cell>>])
    BY <1>1, <1>3
  <2> QED BY <2>1, <2>2
<1>5. <<Begin(NoPol), Begin(NoPol)>> \in R
  BY <1>2
<1>6. \A x, z : <<x, z>> \in R => x \in ReadStates /\ Clean(x)
  OBVIOUS
<1> HIDE DEF R
<1>7. <<y, y>> \in R
  BY <1>1, <1>2, <1>4, <1>5, FoldsRelated DEF Out
<1>8. y \in ReadStates /\ Clean(y)
  BY <1>6, <1>7
<1> HIDE DEF y
<1>9. ~y.in /\ y.c = Top
  BY DEF Rest, y
<1>10. y.in \in BOOLEAN /\ y.pol \in Pols /\ y = St(y.in, y.string, y.c, y.pol)
  BY <1>8, StParts
<1> QED BY <1>8, <1>9, <1>10 DEF Begin, y

\* A text in two parts is read part by part.
LEMMA OutJoined ==
    ASSUME NEW r, NEW a \in Seq(Plain), NEW b \in Seq(Plain)
    PROVE  Out(r, a \o b) = Fold(Reader(r), Out(r, a), b)
<1>1. Begin(NoPol) \in ReadStates
  BY BeginTyped
<1> QED BY <1>1, ReaderParts DEF Out

\* Reading on behind a text that ends between two resources.
LEMMA ReadOn ==
    ASSUME NEW r, NEW a \in Seq(Plain), NEW b \in Seq(Plain)
    PROVE  /\ a \o b \in Seq(Plain)
           /\ Out(r, a) \in ReadStates /\ Out(r, b) \in ReadStates /\ Out(r, a \o b) \in ReadStates
           /\ Rest(Out(r, a)) => /\ Out(r, a \o b).in = Out(r, b).in /\ Out(r, a \o b).c = Out(r, b).c
                                 /\ Out(r, a \o b).pol = Plus(Out(r, a).pol, Out(r, b).pol)
           /\ Out(r, a).c = Err => Out(r, a \o b).c = Err /\ Out(r, a \o b).pol = Out(r, a).pol
<1>1. a \o b \in Seq(Plain)
  BY ConcatProperties
<1>2. Begin(NoPol) \in ReadStates
  BY BeginTyped
<1>3. Out(r, a) \in ReadStates /\ Out(r, b) \in ReadStates /\ Out(r, a \o b) \in ReadStates
  BY <1>1, <1>2, ReaderParts DEF Out
<1> DEFINE x == Out(r, a)
<1>4. Out(r, a \o b) = Fold(Reader(r), x, b)
  BY OutJoined
<1>5. Rest(x) => x = Begin(x.pol) /\ x.pol \in Pols
  BY Tidy
<1>6. x \in ReadStates
  BY <1>3
<1> HIDE DEF x
<1>7. ASSUME x.c = Err PROVE Fold(Reader(r), x, b).c = Err /\ Fold(Reader(r), x, b).pol = x.pol
  BY <1>6, <1>7, ErrorStays
<1>8. ASSUME Rest(x)
      PROVE  /\ Fold(Reader(r), x, b).in = Out(r, b).in /\ Fold(Reader(r), x, b).c = Out(r, b).c
             /\ Fold(Reader(r), x, b).pol = Plus(x.pol, Out(r, b).pol)
  <2> DEFINE p == x.pol
  <2>1. p \in Pols /\ x = Begin(p)
    BY <1>5, <1>8
  <2> HIDE DEF p
  <2>2. LET s == Fold(Reader(r), Begin(p), b)
            t == Out(r, b)
        IN  s \in ReadStates /\ t \in ReadStates /\ s.in = t.in /\ s.c = t.c /\ s.pol = Plus(p, t.pol)
    BY <2>1, OutAdded
  <2> QED BY <2>1, <2>2 DEF p
<1> QED BY <1>1, <1>3, <1>4, <1>7, <1>8 DEF x

\* The word that stands for the part of the next cell that was written is not in the grammar.
LEMMA TornReads ==
    ASSUME NEW r, NEW a \in Seq(Plain)
    PROVE  /\ a \o <<"torn">> \in Seq(Plain)
           /\ Out(r, a \o <<"torn">>) \in ReadStates
           /\ ~Rest(Out(r, a \o <<"torn">>)) /\ Out(r, a \o <<"torn">>).pol = Out(r, a).pol
<1> DEFINE w == "torn"
           x == Out(r, a)
           y == ReadCell(r, x, w)
           token == Word(w)
<1>1. w \in Plain /\ w # "Q" /\ TokenFor(w) = token
  BY WordTokens DEF Printed
<1>2. <<w>> \in Seq(Plain)
  BY <1>1, CellsOver
<1>3. w \notin Verbs
  BY DEF Verbs
<1> HIDE DEF w
<1>4. a \o <<w>> \in Seq(Plain) /\ x \in ReadStates /\ Out(r, a \o <<w>>) \in ReadStates
  BY <1>2, ReadOn
<1>5. Out(r, a \o <<w>>) = y
  <2>2. Out(r, a \o <<w>>) = Fold(Reader(r), x, <<w>>)
    BY <1>2, OutJoined
  <2> HIDE DEF x
  <2> QED BY <1>1, <1>4, <2>2, ReaderParts
<1> HIDE DEF x
<1>6. CASE x.in
  <2>1. y = St(TRUE, Append(x.string, w), x.c, x.pol)
    BY <1>1, <1>6 DEF ReadCell
  <2>2. y.in /\ y.pol = x.pol
    BY <2>1 DEF St
  <2> QED BY <1>4, <1>5, <2>2 DEF Rest, w, x
<1>7. CASE ~x.in
  <2>1. y = Take(r, x, token)
    BY <1>1, <1>7 DEF ReadCell
  <2> DEFINE c == x.c
  <2>2. y.c = Control(r, c, token) /\ y.pol = Effect(c, token, x.pol)
    BY <2>1 DEF Take, St
  <2>3. token.type = "identifier" /\ token.value[1] = w
    BY DEF Word, Token
  <2> HIDE DEF c, token, y
  <2>4. Control(r, c, token) # Top
    <3>1. /\ \A at, q : at # "top" => Heading(at, q) # Top
          /\ \A at, q, p : at # "top" => Inside(at, q, p) # Top
          /\ \A at, q, p, f, v : at # "top" => Ctl(at, q, p, f, v) # Top
          /\ \A q, p, f : AtVerb(q, p, f) # Top
          /\ Err # Top
      BY DEF Heading, Inside, AtVerb, Err, Top, Ctl
    <3> QED BY <1>3, <2>3, <3>1 DEF Control
  <2>5. Effect(c, token, x.pol) = x.pol
    BY <1>3, <2>3 DEF Effect
  <2> QED BY <1>4, <1>5, <2>2, <2>4, <2>5 DEF Rest, w, x
<1> QED BY <1>6, <1>7

\* The end of the text of a policy.
LEMMA TextEnd ==
    ASSUME PlainNames, NEW r \in BOOLEAN, NEW list, NEW programs, NEW reg \in BOOLEAN, NEW keys,
           Writable(list, programs, reg, keys), NEW text, text = PolicyText(list, programs, reg, keys)
    PROVE  /\ text \in Seq(Plain) /\ Out(r, text) \in ReadStates
           /\ Accepted(programs) /\ (r \/ ~reg) => Rest(Out(r, text)) /\ Out(r, text).pol = All(r, list, programs, keys)
           /\ ~(Accepted(programs) /\ (r \/ ~reg)) => Out(r, text).c = Err
BY PrefixReads DEF Rest

\* A text that has the word is one of a registered system, and a reader without it does not
\* come to rest behind the word.
LEMMA GenericCut ==
    ASSUME PlainNames, NEW list, NEW programs, NEW reg \in BOOLEAN, NEW keys, Writable(list, programs, reg, keys),
           NEW a \in Seq(Plain), NEW b \in Seq(Plain), PolicyText(list, programs, reg, keys) = a \o b,
           "generic" \in ToSet(a)
    PROVE  reg /\ ~Rest(Out(FALSE, a))
<1> DEFINE word == "generic"
           F == FsText(list) \o ExecText(programs)
           G == IF reg THEN KeyText(keys) ELSE << >>
           r == FALSE
<1>1. /\ list \in Seq(FsEntries) /\ PathsOf(list) \subseteq Paths /\ programs \in Seq(ExecEntries)
      /\ keys \subseteq Keys /\ IsFiniteSet(keys) /\ (~reg => keys = {})
  BY DEF Writable
<1>2. F \in Seq(Plain \ {word}) /\ F \o G = a \o b
  BY <1>1, WithoutGeneric DEF PolicyText
<1>3. G \in Seq(Plain)
  <2>1. KeyText(keys) \in Seq(Plain) /\ << >> \in Seq(Plain)
    BY <1>1, KeyTextPlain, CellsOver, Zenon
  <2> QED BY <2>1
<1>4. F \in Seq(Plain) /\ \A n \in DOMAIN F : F[n] # word
  <2> HIDE DEF F, G
  <2> QED BY <1>2
<1>5. ~reg => G = << >>
  OBVIOUS
<1>6. PICK k \in DOMAIN a : a[k] = word
  BY DEF ToSet
<1>7. PolicyText(list, programs, FALSE, {}) = F \o << >> /\ Writable(list, programs, FALSE, {})
  BY <1>1, FS_EmptySet DEF PolicyText, Writable
<1>8. reg => G = KeyText(keys)
  OBVIOUS
<1>r. r \in BOOLEAN /\ ~r
  OBVIOUS
<1> HIDE DEF word, F, G, r
<1>9. Len(F) < Len(a)
  <2>1. /\ Len(F) \in Nat /\ Len(a) \in Nat /\ Len(b) \in Nat /\ Len(G) \in Nat
        /\ k \in 1 .. Len(a) /\ DOMAIN F = 1 .. Len(F)
    BY <1>3, <1>4
  <2>2. ASSUME Len(a) <= Len(F) PROVE FALSE
    <3>1. k \in 1 .. Len(F)
      BY <2>1, <2>2
    <3>2. (a \o b)[k] = a[k]
      BY <2>1
    <3>3. (F \o G)[k] = F[k]
      BY <1>3, <1>4, <2>1, <3>1
    <3> QED BY <1>2, <1>4, <1>6, <2>1, <3>1, <3>2, <3>3
  <2> QED BY <2>1, <2>2
<1>10. PICK c \in Seq(Plain) : a = F \o c /\ G = c \o b
  <2>1. Len(F) <= Len(a)
    BY <1>3, <1>4, <1>9
  <2>2. CutBehind(Plain, a, b, F, G)
    BY <1>2, <1>3, <1>4, <2>1, CutBefore
  <2> QED BY <2>2 DEF CutBehind
<1>11. c # << >>
  BY <1>4, <1>9, <1>10
<1>12. reg
  <2>1. Len(c) \in Nat /\ Len(c) # 0 /\ Len(b) \in Nat /\ Len(c \o b) = Len(c) + Len(b)
    BY <1>11
  <2> QED BY <1>5, <1>10, <2>1
<1> DEFINE x == Out(r, F)
<1>13. Rest(x) \/ x.c = Err
  <2> DEFINE no == FALSE
             none == {}
  <2>1. no \in BOOLEAN /\ ~no /\ Writable(list, programs, no, none) /\ PolicyText(list, programs, no, none) = F
    <3>1. F \o << >> = F
      BY <1>4
    <3>2. PolicyText(list, programs, FALSE, {}) = F
      BY <1>7, <3>1
    <3> QED BY <1>7, <3>2
  <2> HIDE DEF no, none
  <2> DEFINE end == Out(r, PolicyText(list, programs, no, none))
  <2>2. Rest(end) \/ end.c = Err
    BY <1>r, <2>1, TextEnd
  <2> QED BY <2>1, <2>2
<1>14. CASE x.c = Err
  <2>1. Out(r, F \o c).c = Err
    BY <1>4, <1>14, ReadOn
  <2> QED BY <1>10, <1>12, <2>1, BeginTyped DEF Rest, r
<1>15. CASE Rest(x)
  <2>1. x = Begin(x.pol) /\ x.pol \in Pols
    BY <1>4, <1>15, Tidy
  <2>2. Out(r, a) = Fold(Reader(r), x, c)
    BY <1>4, <1>10, OutJoined
  <2> DEFINE p == x.pol
  <2>3. Out(r, a) = Fold(Reader(r), Begin(p), c) /\ p \in Pols
    BY <2>1, <2>2
  <2>4. KeyText(keys) = c \o b
    BY <1>8, <1>10, <1>12
  <2> HIDE DEF x, p
  <2>5. Fold(Reader(r), Begin(p), c).c # Top
    BY <1>1, <1>r, <1>11, <2>3, <2>4, BehindGeneric
  <2> QED BY <1>12, <2>3, <2>5 DEF Rest, r
<1> QED BY <1>13, <1>14, <1>15

\* The first cell stays the first.
LEMMA FirstCell ==
    ASSUME NEW C, NEW a \in Seq(C), NEW b \in Seq(C), Len(a) > 0
    PROVE  a \o b \in Seq(C) /\ Len(a \o b) > 0 /\ (a \o b)[1] = a[1]
OBVIOUS

\* The text of a registered system has the word.
LEMMA GenericWritten ==
    ASSUME PlainNames, NEW list, NEW programs, NEW keys, Writable(list, programs, TRUE, keys)
    PROVE  "generic" \in ToSet(PolicyText(list, programs, TRUE, keys))
<1> DEFINE F == FsText(list) \o ExecText(programs)
           G == KeyText(keys)
           word == "generic"
           parts == [i \in 1 .. Cardinality(keys) |-> Block(Quoted(<<SetToSeq(keys)[i]>>), << >>)]
           flat == FlattenSeq(parts)
<1>1. /\ list \in Seq(FsEntries) /\ PathsOf(list) \subseteq Paths /\ programs \in Seq(ExecEntries)
      /\ keys \subseteq Keys /\ IsFiniteSet(keys)
  BY DEF Writable
<1>2. F \in Seq(Plain \ {word})
  BY <1>1, WithoutGeneric
<1>3. G \in Seq(Plain) /\ flat \in Seq(Plain)
  BY <1>1, KeyTextPlain, Zenon
<1>4. PolicyText(list, programs, TRUE, keys) = F \o G
  BY DEF PolicyText
<1>5. G = ((GenericResource \o <<"{">>) \o flat) \o <<"}">>
  BY DEF KeyText, Block
<1>6. GenericResource \in Seq(Plain) /\ <<"{">> \in Seq(Plain) /\ <<"}">> \in Seq(Plain)
      /\ Len(GenericResource) = 2 /\ GenericResource[1] = word
  <2>1. "generic" \in Plain /\ "key" \in Plain
    BY PrintedCells DEF Printed, Plain
  <2>2. GenericResource \in Seq(Plain)
    BY <2>1, CellsOver, Zenon DEF GenericResource
  <2> QED BY <2>2, Braces DEF GenericResource
<1> DEFINE open == <<"{">>
           close == <<"}">>
<1> HIDE DEF open, close, parts, flat, word
<1>7. G[1] = word /\ Len(G) > 0
  <2> DEFINE res == GenericResource
  <2>r. res \in Seq(Plain) /\ Len(res) = 2 /\ res[1] = word
    BY <1>6
  <2> HIDE DEF res
  <2> DEFINE s == res \o open
             t == s \o flat
  <2>0. open \in Seq(Plain) /\ close \in Seq(Plain) /\ G = t \o close /\ Len(res) > 0
    <3>1. open \in Seq(Plain) /\ close \in Seq(Plain)
      BY Braces DEF open, close
    <3>2. G = t \o close
      BY <1>5, Zenon DEF open, close, res
    <3> QED BY <2>r, <3>1, <3>2
  <2>1. s \in Seq(Plain) /\ Len(s) > 0 /\ s[1] = res[1]
    BY <2>r, <2>0, FirstCell
  <2> HIDE DEF s
  <2>2. t \in Seq(Plain) /\ Len(t) > 0 /\ t[1] = s[1]
    BY <1>3, <2>1, FirstCell
  <2> HIDE DEF t
  <2>3. Len(t \o close) > 0 /\ (t \o close)[1] = t[1]
    BY <2>0, <2>2, FirstCell
  <2> QED BY <2>r, <2>0, <2>1, <2>2, <2>3
<1> HIDE DEF F, G
<1>8. F \in Seq(Plain) /\ Len(F) \in Nat /\ Len(G) \in Nat
  BY <1>2, <1>3
<1> DEFINE k == Len(F) + 1
<1>9. k \in DOMAIN (F \o G) /\ (F \o G)[k] = word
  BY <1>3, <1>7, <1>8
<1> QED BY <1>4, <1>9 DEF ToSet, word

----------------------------------------
(* The modes of the programs. *)

\* The mode of a program is that of its first entry.
LEMMA FirstEntry ==
    ASSUME NEW list \in Seq(ExecEntries), NEW hash
    PROVE  /\ ~Named(list, hash) => ExecMode(list, hash) = "none"
           /\ Named(list, hash) => \E i : Decides(list, hash, i)
           /\ \A i : Decides(list, hash, i) =>
                 ExecMode(list, hash) = list[i].mode /\ list[i] \in ExecEntries /\ list[i].mode \in Verbs
           /\ ExecMode(list, hash) = "none" <=> ~Named(list, hash)
           /\ ExecMode(list, hash) \in Verbs \cup {"none"}
<1> DEFINE own == {i \in DOMAIN list : list[i].hash = hash}
<1>1. own \subseteq Nat
  OBVIOUS
<1>2. ExecMode(list, hash) = IF own = {} THEN "none" ELSE list[Min(own)].mode
  BY DEF ExecMode
<1>3. Named(list, hash) <=> own # {}
  BY DEF Named
<1>4. \A i : Decides(list, hash, i) <=> i \in own /\ \A j \in own : i <= j
  BY DEF Decides
<1>5. \A i \in own : list[i] \in ExecEntries
  OBVIOUS
<1>6. \A e \in ExecEntries : e.mode \in Verbs
  BY DEF ExecEntries
<1>7. "none" \notin Verbs
  BY DEF Verbs
<1> HIDE DEF own
<1>8. own # {} => \E i \in own : \A j \in own : i <= j
  BY <1>1, LeastNumber
<1>9. ASSUME NEW i \in own, \A j \in own : i <= j PROVE Min(own) = i
  <2>1. \A z \in own : (\A j \in own : z <= j) => z = i
    BY <1>1, <1>9
  <2> QED BY <1>9, <2>1 DEF Min
<1> QED BY <1>2, <1>3, <1>4, <1>5, <1>6, <1>7, <1>8, <1>9

\* The entries of two lists, one behind the other.
LEMMA ListsJoined ==
    ASSUME NEW a \in Seq(ExecEntries), NEW b \in Seq(ExecEntries)
    PROVE  /\ a \o b \in Seq(ExecEntries)
           /\ \A i \in DOMAIN a : i \in DOMAIN (a \o b) /\ (a \o b)[i] = a[i]
           /\ \A i \in DOMAIN b : Len(a) + i \in DOMAIN (a \o b) /\ (a \o b)[Len(a) + i] = b[i]
           /\ \A k \in DOMAIN (a \o b) : k \notin DOMAIN a =>
                 k - Len(a) \in DOMAIN b /\ (a \o b)[k] = b[k - Len(a)] /\ k > Len(a)
<1>1. Len(a) \in Nat /\ Len(b) \in Nat /\ DOMAIN a = 1 .. Len(a) /\ DOMAIN b = 1 .. Len(b)
  OBVIOUS
<1>2. a \o b \in Seq(ExecEntries) /\ Len(a \o b) = Len(a) + Len(b) /\ DOMAIN (a \o b) = 1 .. Len(a) + Len(b)
  OBVIOUS
<1>3. \A k \in 1 .. Len(a) + Len(b) : (a \o b)[k] = IF k <= Len(a) THEN a[k] ELSE b[k - Len(a)]
  OBVIOUS
<1> DEFINE N == Len(a)
           M == Len(b)
           ab == a \o b
<1> HIDE DEF N, M, ab
<1>4. \A i \in 1 .. N : i \in 1 .. N + M /\ i <= N
  BY <1>1 DEF N, M
<1>5. \A i \in 1 .. M : N + i \in 1 .. N + M /\ ~(N + i <= N) /\ (N + i) - N = i
  BY <1>1 DEF N, M
<1>6. \A k \in 1 .. N + M : k \notin 1 .. N => k - N \in 1 .. M /\ ~(k <= N) /\ k > N
  BY <1>1 DEF N, M
<1>7. \A k \in 1 .. N + M : ab[k] = IF k <= N THEN a[k] ELSE b[k - N]
  BY <1>3 DEF N, M, ab
<1>8. ab \in Seq(ExecEntries) /\ DOMAIN a = 1 .. N /\ DOMAIN b = 1 .. M /\ DOMAIN ab = 1 .. N + M
  BY <1>1, <1>2 DEF N, M, ab
<1>9. \A i \in DOMAIN b : ab[N + i] = b[i]
  BY <1>5, <1>7, <1>8
<1> QED BY <1>4, <1>5, <1>6, <1>7, <1>8, <1>9 DEF N, ab

\* A program of the first list keeps its mode.
LEMMA ModesJoined ==
    ASSUME NEW a \in Seq(ExecEntries), NEW b \in Seq(ExecEntries), NEW hash
    PROVE  ExecMode(a \o b, hash) = IF ExecMode(a, hash) = "none" THEN ExecMode(b, hash) ELSE ExecMode(a, hash)
<1> DEFINE ab == a \o b
           N == Len(a)
<1>0. N \in Nat /\ DOMAIN a = 1 .. N /\ Len(b) \in Nat /\ DOMAIN b = 1 .. Len(b)
  OBVIOUS
<1>1. /\ ab \in Seq(ExecEntries)
      /\ \A i \in DOMAIN a : i \in DOMAIN ab /\ ab[i] = a[i]
      /\ \A i \in DOMAIN b : N + i \in DOMAIN ab /\ ab[N + i] = b[i]
      /\ \A k \in DOMAIN ab : k \notin DOMAIN a => k - N \in DOMAIN b /\ ab[k] = b[k - N] /\ k > N
  BY ListsJoined
<1>2. DOMAIN ab \subseteq Nat
  BY <1>1
<1> HIDE DEF ab, N
<1>3. CASE Named(a, hash)
  <2>1. PICK i : Decides(a, hash, i)
    BY <1>3, FirstEntry
  <2>2. i \in 1 .. N /\ i \in DOMAIN ab /\ ab[i] = a[i]
    BY <1>0, <1>1, <2>1 DEF Decides
  <2>3. ASSUME NEW k \in DOMAIN ab, ab[k].hash = hash PROVE i <= k
    <3>1. CASE k \in DOMAIN a
      BY <1>1, <2>1, <2>3, <3>1 DEF Decides
    <3>2. CASE k \notin DOMAIN a
      BY <1>0, <1>1, <1>2, <2>2, <3>2
    <3> QED BY <3>1, <3>2
  <2>4. Decides(ab, hash, i)
    BY <2>1, <2>2, <2>3 DEF Decides
  <2>5. ExecMode(ab, hash) = ab[i].mode /\ ExecMode(a, hash) = a[i].mode /\ ExecMode(a, hash) # "none"
    BY <1>1, <1>3, <2>1, <2>4, FirstEntry
  <2> QED BY <2>2, <2>5 DEF ab
<1>4. CASE ~Named(a, hash) /\ Named(b, hash)
  <2>1. PICK i : Decides(b, hash, i)
    BY <1>4, FirstEntry
  <2>2. i \in DOMAIN b /\ N + i \in DOMAIN ab /\ ab[N + i] = b[i]
    BY <1>1, <2>1 DEF Decides
  <2>3. ASSUME NEW k \in DOMAIN ab, ab[k].hash = hash PROVE N + i <= k
    <3>1. k \notin DOMAIN a
      BY <1>1, <1>4, <2>3 DEF Named
    <3>2. k - N \in DOMAIN b /\ b[k - N].hash = hash
      BY <1>1, <2>3, <3>1
    <3>3. i <= k - N
      BY <2>1, <3>2 DEF Decides
    <3> QED BY <1>0, <1>2, <2>2, <3>3
  <2>4. Decides(ab, hash, N + i)
    BY <2>1, <2>2, <2>3 DEF Decides
  <2>5. ExecMode(ab, hash) = ab[N + i].mode /\ ExecMode(b, hash) = b[i].mode /\ ExecMode(a, hash) = "none"
    BY <1>1, <1>4, <2>1, <2>4, FirstEntry
  <2> QED BY <2>2, <2>5 DEF ab
<1>5. CASE ~Named(a, hash) /\ ~Named(b, hash)
  <2>1. ~Named(ab, hash)
    BY <1>1, <1>5 DEF Named
  <2> QED BY <1>1, <1>5, <2>1, FirstEntry DEF ab
<1> QED BY <1>3, <1>4, <1>5

\* What was read of a list gives a program its mode, the default mode or none.
LEMMA ModesUpTo ==
    ASSUME NEW q \in Seq(ExecEntries), NEW all \in Seq(ExecEntries), ExecUpTo(q, all), NEW hash
    PROVE  ExecMode(q, hash) \in {"none", DefaultMode, ExecMode(all, hash)}
<1> DEFINE N == Len(q)
           M == Len(all)
<1>1. /\ N \in Nat /\ M \in Nat /\ DOMAIN q = 1 .. N /\ DOMAIN all = 1 .. M /\ N <= M
      /\ \A i \in 1 .. N : q[i].hash = all[i].hash /\ q[i].mode \in {all[i].mode, DefaultMode}
  BY DEF ExecUpTo
<1> HIDE DEF N, M
<1>2. CASE ~Named(q, hash)
  BY <1>2, FirstEntry
<1>3. CASE Named(q, hash)
  <2>1. PICK i : Decides(q, hash, i)
    BY <1>3, FirstEntry
  <2>2. i \in 1 .. N /\ i \in DOMAIN all /\ all[i].hash = hash
    BY <1>1, <2>1 DEF Decides
  <2>3. ASSUME NEW j \in DOMAIN all, all[j].hash = hash PROVE i <= j
    <3>1. CASE j \in 1 .. N
      BY <1>1, <2>1, <2>3, <3>1 DEF Decides
    <3>2. CASE j \notin 1 .. N
      BY <1>1, <2>2, <3>2
    <3> QED BY <3>1, <3>2
  <2>4. Decides(all, hash, i)
    BY <2>2, <2>3 DEF Decides
  <2>5. ExecMode(q, hash) = q[i].mode /\ ExecMode(all, hash) = all[i].mode
    BY <2>1, <2>4, FirstEntry
  <2> QED BY <1>1, <2>2, <2>5
<1> QED BY <1>2, <1>3

\* A list in which every program is accepted.
LEMMA AcceptedModes ==
    ASSUME NEW list \in Seq(ExecEntries), Accepted(list), NEW hash
    PROVE  /\ ExecMode(list, hash) \in {"none", "accept"}
           /\ Named(list, hash) => ExecMode(list, hash) = "accept"
<1>1. CASE ~Named(list, hash)
  BY <1>1, FirstEntry
<1>2. CASE Named(list, hash)
  <2>1. PICK i : Decides(list, hash, i)
    BY <1>2, FirstEntry
  <2>2. ExecMode(list, hash) = list[i].mode /\ i \in DOMAIN list
    BY <2>1, FirstEntry DEF Decides
  <2> QED BY <2>2 DEF Accepted
<1> QED BY <1>1, <1>2

\* Then the text is refused for what the policy says.
LEMMA BlockedText ==
    ASSUME NEW list \in Seq(ExecEntries), Steady(list)
    PROVE  Blocked(Modes(list)) <=> ~Accepted(list)
<1>1. \A i \in DOMAIN list : list[i].hash \in Hashes /\ list[i].mode \in Verbs
  <2>1. \A i \in DOMAIN list : list[i] \in ExecEntries
    OBVIOUS
  <2> QED BY <2>1 DEF ExecEntries
<1>2. ASSUME Accepted(list), Blocked(Modes(list)) PROVE FALSE
  <2>1. PICK h \in Hashes : ExecMode(list, h) \in {"reject", "prompt"}
    BY <1>2 DEF Blocked, Modes
  <2>2. ExecMode(list, h) \in {"none", "accept"}
    BY <1>2, AcceptedModes
  <2> QED BY <2>1, <2>2
<1>3. ASSUME ~Accepted(list) PROVE Blocked(Modes(list))
  <2>1. PICK i \in DOMAIN list : list[i].mode # "accept"
    BY <1>3 DEF Accepted
  <2> DEFINE h == list[i].hash
  <2>2. h \in Hashes /\ Named(list, h) /\ ExecMode(list, h) # "accept"
    BY <1>1, <2>1 DEF Steady, Named
  <2> HIDE DEF h
  <2>3. ExecMode(list, h) \in {"reject", "prompt"}
    BY <2>2, FirstEntry DEF Verbs
  <2> QED BY <2>2, <2>3 DEF Blocked, Modes
<1> QED BY <1>2, <1>3

\* A policy without a mode has no programs.
LEMMA NoPrograms ==
    ASSUME NEW list \in Seq(ExecEntries), \A h \in Hashes : ExecMode(list, h) = "none"
    PROVE  list = << >>
<1> SUFFICES ASSUME list # << >> PROVE FALSE
  OBVIOUS
<1>1. 1 \in DOMAIN list /\ list[1] \in ExecEntries
  OBVIOUS
<1> DEFINE h == list[1].hash
<1>2. h \in Hashes /\ Named(list, h)
  BY <1>1 DEF ExecEntries, Named
<1> HIDE DEF h
<1> QED BY <1>2, FirstEntry

----------------------------------------
(* The filesystem policy as a set. *)

\* The entries of a list as a set.
LEMMA SetOfList ==
    ASSUME NEW list \in Seq(FsEntries)
    PROVE  /\ ToSet(list) \subseteq FsEntries
           /\ PathsIn(ToSet(list)) = PathsOf(list) /\ GrantsIn(ToSet(list)) = GrantsOf(list)
           /\ OnePerPath(list) => FsSet(ToSet(list))
<1>1. \A e : e \in ToSet(list) <=> \E i \in DOMAIN list : e = list[i]
  BY DEF ToSet
<1>2. \A i \in DOMAIN list : list[i] \in FsEntries
  OBVIOUS
<1>3. PathsIn(ToSet(list)) = PathsOf(list)
  BY DEF ToSet, PathsIn, PathsOf
<1>4. GrantsIn(ToSet(list)) = GrantsOf(list)
  <2>1. ASSUME NEW g \in Perms PROVE g \in GrantsIn(ToSet(list)) <=> g \in GrantsOf(list)
    <3>1. g \in GrantsIn(ToSet(list)) <=> \E e \in ToSet(list) : e.path = g[1] /\ g[4] \in e[g[2]][g[3]]
      BY DEF GrantsIn
    <3>2. g \in GrantsOf(list) <=> \E i \in DOMAIN list : list[i].path = g[1] /\ g[4] \in list[i][g[2]][g[3]]
      BY DEF GrantsOf, Perms
    <3> QED BY <1>1, <3>1, <3>2
  <2>2. GrantsIn(ToSet(list)) \subseteq Perms /\ GrantsOf(list) \subseteq Perms
    BY DEF GrantsIn, GrantsOf, Perms
  <2> QED BY <2>1, <2>2
<1>5. OnePerPath(list) => FsSet(ToSet(list))
  BY <1>1, <1>2 DEF OnePerPath, FsSet
<1> QED BY <1>1, <1>2, <1>3, <1>4, <1>5

\* The permissions of a policy.
LEMMA GrantsAreIn ==
    ASSUME NEW w, w.fs \subseteq FsEntries
    PROVE  Grants(w) = GrantsIn(w.fs)
<1>1. ASSUME NEW e \in w.fs, NEW s \in Scopes, NEW v \in Verbs, NEW f \in e[s][v]
      PROVE  <<e.path, s, v, f>> \in GrantsIn(w.fs)
  <2> DEFINE g == <<e.path, s, v, f>>
  <2>1. e \in FsEntries
    OBVIOUS
  <2>2. e.path \in Texts /\ e.self \in Modesets /\ e.children \in Modesets
    BY <2>1 DEF FsEntries, Texts
  <2>3. e[s] \in Modesets
    BY <2>1, <2>2 DEF Scopes, FsEntries
  <2>4. f \in FlagSet
    BY <2>3 DEF Modesets
  <2>5. g \in Perms /\ g[1] = e.path /\ g[2] = s /\ g[3] = v /\ g[4] = f
    BY <2>2, <2>4 DEF Perms
  <2> HIDE DEF g
  <2>6. g \in GrantsIn(w.fs)
    BY <2>5 DEF GrantsIn
  <2> QED BY <2>6 DEF g
<1>2. Grants(w) \subseteq GrantsIn(w.fs)
  BY <1>1 DEF Grants, Scopes
<1>3. ASSUME NEW g \in GrantsIn(w.fs) PROVE g \in Grants(w)
  <2>1. g \in Texts \X Scopes \X Verbs \X FlagSet
    BY DEF GrantsIn, Perms
  <2>2. PICK e \in w.fs : e.path = g[1] /\ g[4] \in e[g[2]][g[3]]
    BY DEF GrantsIn
  <2>3. g = <<e.path, g[2], g[3], g[4]>> /\ g[2] \in {"self", "children"} /\ g[3] \in Verbs
    BY <2>1, <2>2 DEF Scopes
  <2> DEFINE s == g[2]
             v == g[3]
             f == g[4]
  <2>4. s \in {"self", "children"} /\ v \in Verbs /\ f \in e[s][v] /\ g = <<e.path, s, v, f>>
    BY <2>2, <2>3
  <2> HIDE DEF s, v, f
  <2> QED BY <2>4, Granted
<1> QED BY <1>2, <1>3

\* Paths and permissions make the policy.
LEMMA SameEntries ==
    ASSUME NEW A, NEW B, FsSet(A), FsSet(B), PathsIn(A) = PathsIn(B), GrantsIn(A) = GrantsIn(B)
    PROVE  A = B
<1>1. ASSUME NEW C, NEW D, FsSet(C), FsSet(D), PathsIn(C) = PathsIn(D), GrantsIn(C) = GrantsIn(D), NEW e \in C
      PROVE  \E d \in D : d.path = e.path /\ \A s \in Scopes, v \in Verbs, f \in FlagSet : f \in e[s][v] => f \in d[s][v]
  <2>1. PICK d \in D : d.path = e.path
    BY <1>1 DEF PathsIn
  <2>2. ASSUME NEW s \in Scopes, NEW v \in Verbs, NEW f \in FlagSet, f \in e[s][v] PROVE f \in d[s][v]
    <3> DEFINE g == <<e.path, s, v, f>>
    <3>1. e.path \in Texts
      <4>1. e \in FsEntries
        BY <1>1 DEF FsSet
      <4> QED BY <4>1 DEF FsEntries, Texts
    <3>2. g \in Perms /\ g[1] = e.path /\ g[2] = s /\ g[3] = v /\ g[4] = f
      BY <3>1 DEF Perms
    <3> HIDE DEF g
    <3>3. g \in GrantsIn(C)
      BY <1>1, <2>2, <3>2 DEF GrantsIn
    <3>4. g \in GrantsIn(D)
      BY <1>1, <3>3
    <3>5. PICK c \in D : c.path = g[1] /\ g[4] \in c[g[2]][g[3]]
      BY <3>4 DEF GrantsIn
    <3>6. c = d
      BY <1>1, <2>1, <3>2, <3>5 DEF FsSet
    <3> QED BY <3>2, <3>5, <3>6
  <2> QED BY <2>1, <2>2
<1>2. ASSUME NEW C, NEW D, FsSet(C), FsSet(D), PathsIn(C) = PathsIn(D), GrantsIn(C) = GrantsIn(D)
      PROVE  C \subseteq D
  <2> SUFFICES ASSUME NEW e \in C PROVE e \in D
    OBVIOUS
  <2>1. PICK d \in D : d.path = e.path /\ \A s \in Scopes, v \in Verbs, f \in FlagSet : f \in e[s][v] => f \in d[s][v]
    BY <1>1, <1>2
  <2>2. PICK c \in C : c.path = d.path /\ \A s \in Scopes, v \in Verbs, f \in FlagSet : f \in d[s][v] => f \in c[s][v]
    BY <1>1, <1>2
  <2>3. c = e
    BY <1>2, <2>1, <2>2 DEF FsSet
  <2>4. e \in FsEntries /\ d \in FsEntries
    BY <1>2 DEF FsSet
  <2>5. e.self \in Modesets /\ e.children \in Modesets /\ d.self \in Modesets /\ d.children \in Modesets
        /\ "self" \in Scopes /\ "children" \in Scopes /\ e["self"] = e.self /\ e["children"] = e.children
        /\ d["self"] = d.self /\ d["children"] = d.children
    BY <2>4 DEF FsEntries, Scopes
  <2>6. ASSUME NEW s \in Scopes, NEW v \in Verbs, e[s] \in Modesets, d[s] \in Modesets PROVE e[s][v] = d[s][v]
    <3>1. e[s][v] \subseteq FlagSet /\ d[s][v] \subseteq FlagSet
      BY <2>6 DEF Modesets
    <3> QED BY <2>1, <2>2, <2>3, <3>1
  <2>7. ASSUME NEW a \in Modesets, NEW b \in Modesets, \A v \in Verbs : a[v] = b[v] PROVE a = b
    BY <2>7 DEF Modesets
  <2>8. e.self = d.self /\ e.children = d.children
    BY <2>5, <2>6, <2>7
  <2>9. e = d
    BY <2>1, <2>4, <2>8 DEF FsEntries
  <2> QED BY <2>9
<1> QED BY <1>2

----------------------------------------
(* What is in the file and the policies of which it was written. *)

\* The policy that a list of entries, a list of programs and a set of keys mean.
LEMMA MeaningParts ==
    ASSUME NEW list \in Seq(FsEntries), OnePerPath(list), NEW programs \in Seq(ExecEntries), NEW keys, keys \subseteq Keys
    PROVE  LET w == Meaning(list, programs, keys)
           IN  /\ w \in Policies /\ w.fs = ToSet(list) /\ w.exec = Modes(programs) /\ w.generic = keys
               /\ PathsIn(w.fs) = PathsOf(list) /\ GrantsIn(w.fs) = GrantsOf(list)
               /\ \A h \in Hashes : w.exec[h] = ExecMode(programs, h)
<1> DEFINE w == Meaning(list, programs, keys)
<1>1. w.fs = ToSet(list) /\ w.exec = Modes(programs) /\ w.generic = keys
      /\ w = [fs |-> ToSet(list), exec |-> Modes(programs), generic |-> keys]
  BY DEF Meaning, Modes
<1>2. Modes(programs) \in [Hashes -> Verbs \cup {"none"}] /\ \A h \in Hashes : Modes(programs)[h] = ExecMode(programs, h)
  <2>1. \A h \in Hashes : ExecMode(programs, h) \in Verbs \cup {"none"}
    BY FirstEntry
  <2> QED BY <2>1 DEF Modes
<1>3. /\ ToSet(list) \subseteq FsEntries /\ FsSet(ToSet(list))
      /\ PathsIn(ToSet(list)) = PathsOf(list) /\ GrantsIn(ToSet(list)) = GrantsOf(list)
  BY SetOfList
<1> HIDE DEF w
<1>4. w \in Policies
  BY <1>1, <1>2, <1>3 DEF Policies
<1> QED BY <1>1, <1>2, <1>3, <1>4 DEF w

\* The empty policy.
LEMMA NoPolicyParts ==
    /\ NoPolicy \in Policies /\ NoPolicy.fs = {} /\ NoPolicy.exec = Modes(<< >>) /\ NoPolicy.generic = {}
    /\ \A h \in Hashes : NoPolicy.exec[h] = "none" /\ ExecMode(<< >>, h) = "none"
    /\ ~Blocked(NoPolicy.exec) /\ Same(NoPolicy, NoPol)
<1>1. << >> \in Seq(FsEntries) /\ << >> \in Seq(ExecEntries) /\ {} \subseteq Keys /\ OnePerPath(<< >>)
      /\ ToSet(<< >>) = {} /\ PathsOf(<< >>) = {} /\ GrantsOf(<< >>) = {}
  BY DEF OnePerPath, ToSet, PathsOf, GrantsOf
<1>2. /\ NoPolicy \in Policies /\ NoPolicy.fs = ToSet(<< >>) /\ NoPolicy.exec = Modes(<< >>) /\ NoPolicy.generic = {}
      /\ PathsIn(NoPolicy.fs) = PathsOf(<< >>) /\ GrantsIn(NoPolicy.fs) = GrantsOf(<< >>)
      /\ \A h \in Hashes : NoPolicy.exec[h] = ExecMode(<< >>, h)
  <2> DEFINE l == << >>
             k == {}
  <2>1. NoPolicy = Meaning(l, l, k)
    BY DEF NoPolicy
  <2>2. l \in Seq(FsEntries) /\ l \in Seq(ExecEntries) /\ k \subseteq Keys /\ OnePerPath(l)
    BY <1>1
  <2> HIDE DEF l, k
  <2> DEFINE w == Meaning(l, l, k)
  <2>3. /\ w \in Policies /\ w.fs = ToSet(l) /\ w.exec = Modes(l) /\ w.generic = k
        /\ PathsIn(w.fs) = PathsOf(l) /\ GrantsIn(w.fs) = GrantsOf(l)
        /\ \A h \in Hashes : w.exec[h] = ExecMode(l, h)
    BY <2>2, MeaningParts
  <2> HIDE DEF w
  <2>4. NoPolicy = w
    BY <2>1 DEF w
  <2> QED BY <2>3, <2>4 DEF l, k
<1>3. \A h : ExecMode(<< >>, h) = "none"
  <2>1. \A h : ~Named(<< >>, h)
    BY DEF Named
  <2> QED BY <1>1, <2>1, FirstEntry
<1>4. NoPol.paths = {} /\ NoPol.grants = {} /\ NoPol.exec = << >> /\ NoPol.generic = {}
  BY BeginTyped
<1>5. ~Blocked(NoPolicy.exec)
  BY <1>2, <1>3 DEF Blocked
<1>6. Same(NoPolicy, NoPol)
  BY <1>1, <1>2, <1>4 DEF Same, SameFs
<1> QED BY <1>1, <1>2, <1>3, <1>5, <1>6

\* The sum of two texts.
LEMMA PlusTraced ==
    ASSUME NEW r, NEW W, NEW p \in Pols, NEW q \in Pols, Traced(r, p, W), Traced(r, q, W)
    PROVE  Traced(r, Plus(p, q), W)
<1> DEFINE s == Plus(p, q)
<1>1. /\ s.paths = p.paths \cup q.paths /\ s.grants = p.grants \cup q.grants
      /\ s.exec = p.exec \o q.exec /\ s.generic = p.generic \cup q.generic
  BY PlusTyped
<1>2. p.exec \in Seq(ExecEntries) /\ q.exec \in Seq(ExecEntries)
  BY PolParts
<1> HIDE DEF s
<1>3. \A h : ExecMode(s.exec, h) \in {ExecMode(p.exec, h), ExecMode(q.exec, h)}
  BY <1>1, <1>2, ModesJoined
<1>4. s.paths \subseteq Paths /\ (~r => s.generic = {})
  BY <1>1 DEF Traced
<1>5. \A g \in s.grants : \E w \in W : g \in GrantsIn(w.fs)
  BY <1>1 DEF Traced
<1>6. \A h \in Hashes : \/ ExecMode(s.exec, h) \in {"none", DefaultMode}
                        \/ \E w \in W : ExecMode(s.exec, h) = w.exec[h]
  BY <1>3 DEF Traced
<1>7. Traced(r, s, W)
  BY <1>4, <1>5, <1>6 DEF Traced
<1> QED BY <1>7 DEF s

\* The same for what the policy in memory holds.
LEMMA PlusHeld ==
    ASSUME NEW p \in Pols, NEW q \in Pols, NEW list, NEW programs, NEW keys,
           Held(p, list, programs, keys), Held(q, list, programs, keys)
    PROVE  Held(Plus(p, q), list, programs, keys)
<1> DEFINE s == Plus(p, q)
<1>1. /\ s.paths = p.paths \cup q.paths /\ s.grants = p.grants \cup q.grants
      /\ s.exec = p.exec \o q.exec /\ s.generic = p.generic \cup q.generic
  BY PlusTyped
<1>2. p.exec \in Seq(ExecEntries) /\ q.exec \in Seq(ExecEntries)
  BY PolParts
<1> HIDE DEF s
<1>3. \A h : ExecMode(s.exec, h) \in {ExecMode(p.exec, h), ExecMode(q.exec, h)}
  BY <1>1, <1>2, ModesJoined
<1>4. Held(s, list, programs, keys)
  BY <1>1, <1>3 DEF Held
<1> QED BY <1>4 DEF s

\* More policies.
LEMMA TracedMore ==
    ASSUME NEW r, NEW q, NEW V, NEW W, Traced(r, q, V), V \subseteq W
    PROVE  Traced(r, q, W)
BY DEF Traced

\* What the policy in memory holds is of it.
LEMMA HeldTraced ==
    ASSUME NEW r, NEW q, NEW list \in Seq(FsEntries), OnePerPath(list), PathsOf(list) \subseteq Paths,
           NEW programs \in Seq(ExecEntries), NEW keys, keys \subseteq Keys,
           Held(q, list, programs, keys), ~r => q.generic = {}, NEW W, Meaning(list, programs, keys) \in W
    PROVE  Traced(r, q, W)
<1> DEFINE w == Meaning(list, programs, keys)
<1>1. GrantsIn(w.fs) = GrantsOf(list) /\ \A h \in Hashes : w.exec[h] = ExecMode(programs, h)
  BY MeaningParts
<1>2. w \in W
  OBVIOUS
<1> HIDE DEF w
<1> QED BY <1>1, <1>2 DEF Held, Traced

\* What was read of a beginning of the text is held.
LEMMA PartHeld ==
    ASSUME NEW r \in BOOLEAN, NEW list, NEW programs \in Seq(ExecEntries), NEW keys, NEW q \in Pols,
           PartOf(q, All(r, list, programs, keys))
    PROVE  Held(q, list, programs, keys) /\ (~r => q.generic = {})
<1> DEFINE m == All(r, list, programs, keys)
           k == IF r THEN keys ELSE {}
<1>1. m.paths = PathsOf(list) /\ m.grants = GrantsOf(list) /\ m.exec = programs /\ m.generic = k
  BY DEF All, Pol
<1>2. k \subseteq keys /\ (~r => k = {})
  OBVIOUS
<1> HIDE DEF m, k
<1>3. /\ q.paths \subseteq m.paths /\ q.grants \subseteq m.grants /\ q.generic \subseteq m.generic
      /\ ExecUpTo(q.exec, m.exec)
  BY DEF PartOf, m
<1>4. q.exec \in Seq(ExecEntries)
  BY PolParts
<1>5. \A h : ExecMode(q.exec, h) \in {"none", DefaultMode, ExecMode(programs, h)}
  BY <1>1, <1>3, <1>4, ModesUpTo
<1>6. Held(q, list, programs, keys)
  BY <1>1, <1>2, <1>3, <1>5 DEF Held
<1> QED BY <1>1, <1>2, <1>3, <1>6

----------------------------------------
(* The text of the policy in memory behind one of which it holds everything. *)

\* Programs that were accepted before, and are still.
LEMMA ExecSum ==
    ASSUME NEW base \in Pols, Accepted(base.exec), NEW programs \in Seq(ExecEntries), Confirmed(base, programs)
    PROVE  /\ \A h : ExecMode(base.exec \o programs, h) = ExecMode(programs, h)
           /\ Modes(base.exec \o programs) = Modes(programs)
           /\ Accepted(programs) => /\ Accepted(base.exec \o programs)
                                    /\ \A i \in DOMAIN (base.exec \o programs) :
                                          ExecMode(programs, (base.exec \o programs)[i].hash) = "accept"
<1> DEFINE before == base.exec
           both == before \o programs
<1>1. before \in Seq(ExecEntries) /\ \A i \in DOMAIN before : ExecMode(programs, before[i].hash) = "accept"
  BY PolParts DEF Confirmed
<1>2. Accepted(before)
  OBVIOUS
<1> HIDE DEF before
<1>3. ASSUME NEW h PROVE ExecMode(both, h) = ExecMode(programs, h)
  <2>1. ExecMode(both, h) = IF ExecMode(before, h) = "none" THEN ExecMode(programs, h) ELSE ExecMode(before, h)
    BY <1>1, ModesJoined
  <2>2. ExecMode(before, h) \in {"none", "accept"} /\ (ExecMode(before, h) = "none" <=> ~Named(before, h))
    BY <1>1, <1>2, AcceptedModes, FirstEntry
  <2>3. Named(before, h) => ExecMode(programs, h) = "accept"
    BY <1>1 DEF Named
  <2> QED BY <2>1, <2>2, <2>3
<1>4. Modes(both) = Modes(programs)
  BY <1>3 DEF Modes
<1>5. ASSUME Accepted(programs), NEW i \in DOMAIN both
      PROVE  both[i].mode = "accept" /\ ExecMode(programs, both[i].hash) = "accept"
  <2>1. /\ \A k \in DOMAIN before : both[k] = before[k]
        /\ \A k \in DOMAIN both : k \notin DOMAIN before =>
              k - Len(before) \in DOMAIN programs /\ both[k] = programs[k - Len(before)]
    BY <1>1, ListsJoined
  <2>2. CASE i \in DOMAIN before
    BY <1>1, <1>2, <2>1, <2>2 DEF Accepted
  <2>3. CASE i \notin DOMAIN before
    <3> DEFINE k == i - Len(before)
               h == programs[k].hash
    <3>1. k \in DOMAIN programs /\ both[i] = programs[k]
      BY <2>1, <2>3
    <3> HIDE DEF k
    <3>2. Named(programs, h)
      BY <3>1 DEF Named
    <3> HIDE DEF h
    <3>3. ExecMode(programs, h) = "accept"
      BY <1>5, <3>2, AcceptedModes
    <3> QED BY <1>5, <3>1, <3>3 DEF Accepted, h
  <2> QED BY <2>2, <2>3
<1>6. Accepted(programs) => Accepted(both)
  BY <1>5 DEF Accepted
<1> QED BY <1>3, <1>4, <1>5, <1>6 DEF before

\* What is read between two blocks.
LEMMA StageParts ==
    ASSUME NEW r \in BOOLEAN, NEW list, NEW programs, NEW keys, NEW q, q \in Stages(r, list, programs, keys)
    PROVE  /\ (q.paths = {} /\ q.grants = {}) \/ (q.paths = PathsOf(list) /\ q.grants = GrantsOf(list))
           /\ q.exec = << >> \/ (q.exec = programs /\ Accepted(programs))
           /\ q.generic = {} \/ q.generic = keys
<1>1. \/ q = NoPol
      \/ q = Pol(PathsOf(list), GrantsOf(list), << >>, {})
      \/ q = Pol(PathsOf(list), GrantsOf(list), programs, {}) /\ Accepted(programs)
      \/ q = Pol(PathsOf(list), GrantsOf(list), programs, IF r THEN keys ELSE {}) /\ Accepted(programs)
  BY DEF Stages, All
<1>2. \A a, b, c, d : /\ Pol(a, b, c, d).paths = a /\ Pol(a, b, c, d).grants = b
                      /\ Pol(a, b, c, d).exec = c /\ Pol(a, b, c, d).generic = d
  BY DEF Pol
<1> QED BY <1>1, <1>2 DEF NoPol

\* The whole text: the file says what the policy in memory says.
LEMMA AllSame ==
    ASSUME NEW r \in BOOLEAN, NEW list \in Seq(FsEntries), OnePerPath(list), NEW programs \in Seq(ExecEntries),
           NEW keys, keys \subseteq Keys, r \/ keys = {}, Accepted(programs),
           NEW base \in Pols, Held(base, list, programs, keys), Accepted(base.exec), Confirmed(base, programs)
    PROVE  LET q == Plus(base, All(r, list, programs, keys))
           IN  /\ Same(Meaning(list, programs, keys), q) /\ Accepted(q.exec)
               /\ Confirmed(q, programs)
<1> DEFINE m == All(r, list, programs, keys)
           q == Plus(base, m)
           w == Meaning(list, programs, keys)
<1>1. m \in Pols
  BY StagesTyped
<1>2. m.paths = PathsOf(list) /\ m.grants = GrantsOf(list) /\ m.exec = programs /\ m.generic = keys
  BY DEF All, Pol
<1> HIDE DEF m
<1>3. /\ q.paths = base.paths \cup m.paths /\ q.grants = base.grants \cup m.grants
      /\ q.exec = base.exec \o m.exec /\ q.generic = base.generic \cup m.generic
  BY <1>1, PlusTyped
<1> HIDE DEF q
<1>4. q.paths = PathsOf(list) /\ q.grants = GrantsOf(list) /\ q.exec = base.exec \o programs /\ q.generic = keys
  BY <1>2, <1>3 DEF Held
<1>5. /\ Modes(q.exec) = Modes(programs) /\ Accepted(q.exec)
      /\ \A i \in DOMAIN q.exec : ExecMode(programs, q.exec[i].hash) = "accept"
  BY <1>4, ExecSum
<1>6. Confirmed(q, programs)
  BY <1>5 DEF Confirmed
<1>7. /\ w.exec = Modes(programs) /\ w.generic = keys
      /\ PathsIn(w.fs) = PathsOf(list) /\ GrantsIn(w.fs) = GrantsOf(list)
  BY MeaningParts
<1> HIDE DEF w
<1>8. Same(w, q)
  BY <1>4, <1>5, <1>7 DEF Same, SameFs
<1> QED BY <1>5, <1>6, <1>8 DEF q, w, m

\* A part of it that ends between two blocks: each block is the new one or the one before.
LEMMA StageBlocks ==
    ASSUME NEW r \in BOOLEAN, NEW list \in Seq(FsEntries), OnePerPath(list), NEW programs \in Seq(ExecEntries),
           NEW keys, keys \subseteq Keys, NEW base \in Pols, Held(base, list, programs, keys), Confirmed(base, programs),
           NEW q \in Pols, q \in Stages(r, list, programs, keys), NEW W, ByBlocks(base, W),
           NEW U, W \subseteq U, Meaning(list, programs, keys) \in U
    PROVE  ByBlocks(Plus(base, q), U)
<1> DEFINE s == Plus(base, q)
           w == Meaning(list, programs, keys)
<1>1. /\ s.paths = base.paths \cup q.paths /\ s.grants = base.grants \cup q.grants
      /\ s.exec = base.exec \o q.exec /\ s.generic = base.generic \cup q.generic
  BY PlusTyped
<1>2. /\ (q.paths = {} /\ q.grants = {}) \/ (q.paths = PathsOf(list) /\ q.grants = GrantsOf(list))
      /\ q.exec = << >> \/ (q.exec = programs /\ Accepted(programs))
      /\ q.generic = {} \/ q.generic = keys
  BY StageParts
<1>3. /\ w.exec = Modes(programs) /\ w.generic = keys
      /\ PathsIn(w.fs) = PathsOf(list) /\ GrantsIn(w.fs) = GrantsOf(list)
  BY MeaningParts
<1>4. w \in U
  OBVIOUS
<1> HIDE DEF s, w
<1>5. \E v \in U : SameFs(v.fs, s)
  <2>1. CASE q.paths = {} /\ q.grants = {}
    <3>1. s.paths = base.paths /\ s.grants = base.grants
      BY <1>1, <2>1
    <3> QED BY <3>1 DEF ByBlocks, SameFs
  <2>2. CASE q.paths = PathsOf(list) /\ q.grants = GrantsOf(list)
    <3>1. s.paths = PathsOf(list) /\ s.grants = GrantsOf(list)
      BY <1>1, <2>2 DEF Held
    <3>2. SameFs(w.fs, s)
      BY <1>3, <3>1 DEF SameFs
    <3> QED BY <1>4, <3>2
  <2> QED BY <1>2, <2>1, <2>2
<1>6. (\E v \in U : v.exec = Modes(s.exec)) /\ Accepted(s.exec)
  <2>1. CASE q.exec = << >>
    <3>1. base.exec \in Seq(ExecEntries)
      BY PolParts
    <3>2. s.exec = base.exec
      BY <1>1, <2>1, <3>1
    <3> QED BY <3>2 DEF ByBlocks
  <2>2. CASE q.exec = programs /\ Accepted(programs)
    <3>1. Accepted(base.exec)
      BY DEF ByBlocks
    <3>2. Modes(s.exec) = Modes(programs) /\ Accepted(s.exec)
      BY <1>1, <2>2, <3>1, ExecSum
    <3> QED BY <1>3, <1>4, <3>2
  <2> QED BY <1>2, <2>1, <2>2
<1>7. \E v \in U : v.generic = s.generic
  <2>1. CASE q.generic = {}
    <3>1. s.generic = base.generic
      BY <1>1, <2>1
    <3> QED BY <3>1 DEF ByBlocks
  <2>2. CASE q.generic = keys
    <3>1. s.generic = keys
      BY <1>1, <2>2 DEF Held
    <3> QED BY <1>3, <1>4, <3>1
  <2> QED BY <1>2, <2>1, <2>2
<1>8. ByBlocks(s, U)
  BY <1>5, <1>6, <1>7 DEF ByBlocks
<1> QED BY <1>8 DEF s

----------------------------------------
(* Contents of the file. *)

\* The cells of two texts.
LEMMA CellsJoined ==
    ASSUME NEW a \in Seq(Plain), NEW b \in Seq(Plain)
    PROVE  a \o b \in Seq(Plain) /\ ToSet(a \o b) = ToSet(a) \cup ToSet(b)
<1> DEFINE N == Len(a)
           M == Len(b)
           ab == a \o b
<1>1. N \in Nat /\ M \in Nat /\ DOMAIN a = 1 .. N /\ DOMAIN b = 1 .. M
  OBVIOUS
<1>2. ab \in Seq(Plain) /\ DOMAIN ab = 1 .. N + M
  OBVIOUS
<1>3. \A k \in 1 .. N + M : ab[k] = IF k <= N THEN a[k] ELSE b[k - N]
  OBVIOUS
<1> HIDE DEF N, M, ab
<1>4. \A i \in 1 .. N : i \in 1 .. N + M /\ ab[i] = a[i]
  BY <1>1, <1>3
<1>5. ASSUME NEW i \in 1 .. M PROVE N + i \in 1 .. N + M /\ ab[N + i] = b[i]
  <2>1. N + i \in 1 .. N + M /\ ~(N + i <= N) /\ (N + i) - N = i
    BY <1>1
  <2> QED BY <1>3, <2>1
<1>6. ASSUME NEW k \in 1 .. N + M PROVE (k \in 1 .. N /\ ab[k] = a[k]) \/ (k - N \in 1 .. M /\ ab[k] = b[k - N])
  BY <1>1, <1>3
<1>7. \A c : c \in ToSet(ab) <=> c \in ToSet(a) \/ c \in ToSet(b)
  <2>1. \A c : /\ (c \in ToSet(ab)) <=> (\E k \in 1 .. N + M : ab[k] = c)
               /\ (c \in ToSet(a)) <=> (\E k \in 1 .. N : a[k] = c)
               /\ (c \in ToSet(b)) <=> (\E k \in 1 .. M : b[k] = c)
    BY <1>1, <1>2 DEF ToSet
  <2> HIDE DEF ab
  <2>2. ASSUME NEW c \in ToSet(ab) PROVE c \in ToSet(a) \/ c \in ToSet(b)
    <3>1. PICK k \in 1 .. N + M : ab[k] = c
      BY <2>1
    <3> QED BY <1>6, <2>1, <3>1
  <2>3. ASSUME NEW c \in ToSet(a) PROVE c \in ToSet(ab)
    BY <1>4, <2>1
  <2>4. ASSUME NEW c \in ToSet(b) PROVE c \in ToSet(ab)
    <3>1. PICK k \in 1 .. M : b[k] = c
      BY <2>1
    <3> QED BY <1>5, <2>1, <3>1
  <2> QED BY <2>2, <2>3, <2>4
<1> QED BY <1>2, <1>7 DEF ab

\* Where a process that has not registered the system comes to the end, every process does.
LEMMA RestRegistered ==
    ASSUME NEW cells \in Seq(Plain), NEW r \in BOOLEAN, NEW reg \in BOOLEAN, Rest(Out(reg, cells)), reg => r
    PROVE  Rest(Out(r, cells))
<1>1. CASE r = reg
  BY <1>1
<1>2. CASE r = TRUE /\ reg = FALSE
  <2>1. Rest(Out(FALSE, cells))
    BY <1>2
  <2>2. /\ Out(TRUE, cells).in = Out(FALSE, cells).in
        /\ Out(TRUE, cells).c = Out(FALSE, cells).c \/ Out(FALSE, cells).c = Err
    BY OutUnregistered
  <2>3. Rest(Out(TRUE, cells))
    BY <2>1, <2>2, BeginTyped DEF Rest
  <2> QED BY <1>2, <2>3
<1> QED BY <1>1, <1>2

\* An empty file.
LEMMA EmptyFile ==
    /\ << >> \in Seq(Plain)
    /\ \A r : Out(r, << >>) = Begin(NoPol) /\ Rest(Out(r, << >>))
    /\ (\A V : FileTraced(<< >>, V)) /\ FileSays(<< >>, NoPolicy) /\ GenericRefused(<< >>)
    /\ \A list, programs, keys : FileHeld(<< >>, list, programs, keys)
<1> DEFINE e == << >>
<1>1. e \in Seq(Plain) /\ ToSet(e) = {}
  BY DEF ToSet
<1>2. ASSUME NEW r PROVE Out(r, e) = Begin(NoPol) /\ Rest(Out(r, e)) /\ Out(r, e).pol = NoPol
  <2>1. Out(r, e) = Begin(NoPol)
    BY BeginTyped, ReaderParts DEF Out
  <2> QED BY <2>1, BeginTyped DEF Rest
<1>3. /\ NoPol.paths = {} /\ NoPol.grants = {} /\ NoPol.exec = << >> /\ NoPol.generic = {}
  BY BeginTyped
<1>4. \A h \in Hashes : ExecMode(NoPol.exec, h) = "none"
  BY <1>3, NoPolicyParts
<1> HIDE DEF e
<1>5. Accepted(NoPol.exec)
  BY <1>3 DEF Accepted
<1>9. ASSUME NEW V PROVE FileTraced(e, V)
  <2> DEFINE W == V \cup {NoPolicy}
  <2>1. \A r : Traced(r, NoPol, V)
    BY <1>3, <1>4 DEF Traced
  <2>2. NoPolicy \in W
    OBVIOUS
  <2> HIDE DEF W
  <2>3. ByBlocks(NoPol, W)
    BY <1>5, <2>2, NoPolicyParts DEF ByBlocks, Same
  <2> QED BY <1>2, <2>1, <2>3 DEF FileTraced, W
<1>10. FileSays(e, NoPolicy) /\ GenericRefused(e)
  BY <1>1, <1>2, NoPolicyParts DEF FileSays, GenericRefused
<1>11. ASSUME NEW list, NEW programs, NEW keys PROVE FileHeld(e, list, programs, keys)
  <2>1. Held(NoPol, list, programs, keys) /\ Confirmed(NoPol, programs)
    BY <1>3, <1>4 DEF Held, Confirmed
  <2> QED BY <1>2, <2>1 DEF FileHeld
<1> QED BY <1>1, <1>2, <1>9, <1>10, <1>11 DEF e

\* What is read of a beginning of the text of a policy.
LEMMA CutReads ==
    ASSUME PlainNames, NEW r \in BOOLEAN, NEW list, NEW programs, NEW reg \in BOOLEAN, NEW keys,
           Writable(list, programs, reg, keys), NEW a, IsCut(a, PolicyText(list, programs, reg, keys))
    PROVE  LET y == Out(r, a)
           IN  /\ y.pol \in Pols /\ Held(y.pol, list, programs, keys) /\ (~r => y.pol.generic = {})
               /\ Rest(y) => y.pol \in Stages(r, list, programs, keys)
               /\ "generic" \in ToSet(a) => reg /\ (~r => ~Rest(y))
<1> DEFINE y == Out(r, a)
           q == y.pol
           text == PolicyText(list, programs, reg, keys)
<1>0. PICK b \in Seq(Plain) : text = a \o b
  BY DEF IsCut
<1>1. q \in Pols /\ PartOf(q, All(r, list, programs, keys)) /\ (y.c = Top => q \in Stages(r, list, programs, keys))
  <2> DEFINE m == All(r, list, programs, keys)
             tops == Stages(r, list, programs, keys)
  <2>1. CutsRead(r, text, m, tops) /\ IsCut(a, text)
    BY PrefixReads
  <2> HIDE DEF text, m, tops
  <2>2. q \in Pols /\ PartOf(q, m) /\ (y.c = Top => q \in tops)
    BY <2>1 DEF CutsRead, IsCut
  <2> QED BY <2>2 DEF m, tops
<1>2. programs \in Seq(ExecEntries) /\ a \in Seq(Plain)
  BY DEF Writable, IsCut
<1>4. "generic" \in ToSet(a) => reg /\ ~Rest(Out(FALSE, a))
  BY <1>0, <1>2, GenericCut
<1> HIDE DEF y, q
<1>3. Held(q, list, programs, keys) /\ (~r => q.generic = {})
  BY <1>1, <1>2, PartHeld
<1>5. ~r => r = FALSE
  OBVIOUS
<1> QED BY <1>1, <1>3, <1>4, <1>5 DEF Rest, q, y

\* The whole text is one.
LEMMA WholeCut ==
    ASSUME NEW text \in Seq(Plain)
    PROVE  IsCut(text, text)
<1>1. << >> \in Seq(Plain) /\ text \o << >> = text
  OBVIOUS
<1> QED BY <1>1 DEF IsCut

----------------------------------------
(* The file after a save, and after one that was cut short. *)

\* One reader: the text of the policy in memory behind one that it holds.
LEMMA SavedFor ==
    ASSUME PlainNames, NEW r \in BOOLEAN, NEW list, OnePerPath(list), NEW programs, NEW reg \in BOOLEAN, NEW keys,
           Writable(list, programs, reg, keys), NEW base \in Seq(Plain), Ends(r, Out(r, base), list, programs, keys),
           NEW D, D = Cat(base, PolicyText(list, programs, reg, keys))
    PROVE  Saved(r, Out(r, base), Out(r, D), list, programs, reg, keys)
<1> DEFINE text == PolicyText(list, programs, reg, keys)
           x == Out(r, base)
           e == Out(r, text)
           y == Out(r, D)
           m == All(r, list, programs, keys)
           w == Meaning(list, programs, keys)
           good == Accepted(programs) /\ (r \/ ~reg)
<1>1. /\ list \in Seq(FsEntries) /\ programs \in Seq(ExecEntries) /\ keys \subseteq Keys /\ (~reg => keys = {})
  BY DEF Writable
<1>2. text \in Seq(Plain) /\ (good => Rest(e) /\ e.pol = m) /\ (~good => e.c = Err)
  BY TextEnd
<1>3. e.pol \in Pols /\ Held(e.pol, list, programs, keys) /\ (~r => e.pol.generic = {})
  <2>1. IsCut(text, PolicyText(list, programs, reg, keys))
    BY <1>2, WholeCut
  <2> QED BY <2>1, CutReads
<1>d. D = base \o text
  BY DEF Cat
<1>4. /\ x \in ReadStates /\ y \in ReadStates
      /\ Rest(x) => y.in = e.in /\ y.c = e.c /\ y.pol = Plus(x.pol, e.pol)
      /\ x.c = Err => y.c = Err /\ y.pol = x.pol
  <2> HIDE DEF text
  <2> QED BY <1>2, <1>d, ReadOn
<1>5. x.pol \in Pols
  BY <1>4, StParts
<1> SUFFICES /\ Rest(y) \/ y.c = Err
             /\ Held(y.pol, list, programs, keys) /\ (~r => y.pol.generic = {})
             /\ Rest(y) <=> (Rest(x) /\ good)
             /\ Rest(y) => Same(w, y.pol) /\ Accepted(y.pol.exec) /\ Confirmed(y.pol, programs)
  BY DEF Ends, Saved
<1>a. /\ Rest(x) \/ x.c = Err
      /\ Held(x.pol, list, programs, keys) /\ (~r => x.pol.generic = {})
      /\ Rest(x) => Confirmed(x.pol, programs) /\ Accepted(x.pol.exec)
  BY DEF Ends
<1> HIDE DEF text, x, y, e
<1>6. CASE x.c = Err
  BY <1>a, <1>4, <1>6, BeginTyped DEF Rest
<1>7. CASE Rest(x) /\ ~good
  <2>1. y.c = Err /\ y.pol = Plus(x.pol, e.pol) /\ ~Rest(y)
    BY <1>2, <1>4, <1>7, BeginTyped DEF Rest
  <2> DEFINE p == x.pol
             q == e.pol
  <2>2. p \in Pols /\ q \in Pols /\ Held(p, list, programs, keys) /\ Held(q, list, programs, keys)
        /\ (~r => p.generic = {} /\ q.generic = {})
    BY <1>a, <1>3, <1>5
  <2> HIDE DEF p, q
  <2>3. Held(Plus(p, q), list, programs, keys) /\ Plus(p, q).generic = p.generic \cup q.generic
    BY <2>2, PlusHeld, PlusTyped
  <2> QED BY <1>7, <2>1, <2>2, <2>3 DEF p, q
<1>8. CASE Rest(x) /\ good
  <2>1. Rest(y) /\ y.pol = Plus(x.pol, m)
    BY <1>2, <1>4, <1>8 DEF Rest
  <2> DEFINE p == x.pol
             s == Plus(p, m)
  <2>2. /\ p \in Pols /\ m \in Pols /\ Held(p, list, programs, keys) /\ Held(m, list, programs, keys)
        /\ (~r => p.generic = {} /\ m.generic = {}) /\ Confirmed(p, programs) /\ Accepted(p.exec)
    BY <1>a, <1>2, <1>3, <1>5, <1>8
  <2>3. Accepted(programs) /\ (r \/ keys = {})
    BY <1>1, <1>8
  <2> HIDE DEF p
  <2>4. Same(w, s) /\ Accepted(s.exec) /\ Confirmed(s, programs)
    BY <1>1, <2>2, <2>3, AllSame
  <2> HIDE DEF m
  <2>5. Held(s, list, programs, keys) /\ s.generic = p.generic \cup m.generic
    BY <2>2, PlusHeld, PlusTyped
  <2> HIDE DEF s
  <2>6. y.pol = s
    BY <2>1 DEF s, p
  <2> QED BY <1>8, <2>1, <2>2, <2>4, <2>5, <2>6
<1> QED BY <1>a, <1>6, <1>7, <1>8

\* The file after the policy in memory was written behind an earlier one.
LEMMA SavedFile ==
    ASSUME PlainNames, NEW list, OnePerPath(list), NEW programs, NEW reg \in BOOLEAN, NEW keys,
           Writable(list, programs, reg, keys), NEW base \in Seq(Plain), NEW V, FileTraced(base, V),
           GenericRefused(base), FileHeld(base, list, programs, keys), Steady(programs),
           Rest(Out(reg, base)) \/ Blocked(Modes(programs))
    PROVE  LET D == base \o PolicyText(list, programs, reg, keys)
               w == Meaning(list, programs, keys)
           IN  /\ D \in Seq(Plain) /\ FileTraced(D, {w}) /\ FileSays(D, w) /\ GenericRefused(D)
               /\ FileHeld(D, list, programs, keys) /\ (Rest(Out(reg, D)) \/ Blocked(Modes(programs)))
<1> DEFINE text == PolicyText(list, programs, reg, keys)
           D == Cat(base, text)
           w == Meaning(list, programs, keys)
<1>1. list \in Seq(FsEntries) /\ PathsOf(list) \subseteq Paths /\ programs \in Seq(ExecEntries) /\ keys \subseteq Keys
  BY DEF Writable
<1>2. text \in Seq(Plain) /\ IsCut(text, text)
  <2>1. text \in Seq(Plain)
    BY TextEnd
  <2> QED BY <2>1, WholeCut
<1>3. D \in Seq(Plain) /\ ToSet(D) = ToSet(base) \cup ToSet(text)
  BY <1>2, CellsJoined DEF Cat
<1>4. w.exec = Modes(programs)
  BY <1>1, MeaningParts
<1>5. Blocked(w.exec) <=> ~Accepted(programs)
  BY <1>1, <1>4, BlockedText
<1>6. ASSUME NEW r \in BOOLEAN
      PROVE  /\ Rest(Out(r, D)) \/ Out(r, D).c = Err
             /\ Held(Out(r, D).pol, list, programs, keys) /\ (~r => Out(r, D).pol.generic = {})
             /\ Rest(Out(r, D)) <=> (Rest(Out(r, base)) /\ Accepted(programs) /\ (r \/ ~reg))
             /\ Rest(Out(r, D)) => /\ Same(w, Out(r, D).pol) /\ Accepted(Out(r, D).pol.exec)
                                   /\ Confirmed(Out(r, D).pol, programs)
  <2>1. Ends(r, Out(r, base), list, programs, keys)
    BY DEF Ends, FileHeld, FileTraced, Traced, ByBlocks
  <2>2. Saved(r, Out(r, base), Out(r, D), list, programs, reg, keys)
    BY <2>1, SavedFor
  <2> QED BY <2>2 DEF Ends, Saved
<1>7. ASSUME NEW r \in BOOLEAN PROVE Traced(r, Out(r, D).pol, {w})
  <2>1. w \in {w}
    OBVIOUS
  <2> DEFINE q == Out(r, D).pol
             W == {w}
  <2>2. Held(q, list, programs, keys) /\ (~r => q.generic = {}) /\ Meaning(list, programs, keys) \in W
    BY <1>6, <2>1
  <2> HIDE DEF q, W
  <2>3. Traced(r, q, W)
    BY <1>1, <2>2, HeldTraced
  <2> QED BY <2>3 DEF q, W
<1>8. reg => "generic" \in ToSet(text)
  <2>1. CASE reg
    <3>1. reg = TRUE
      BY <2>1
    <3> QED BY <3>1, GenericWritten
  <2> QED BY <2>1
<1>9. "generic" \in ToSet(text) => reg
  BY <1>2, CutReads
<1> HIDE DEF D, w, text
<1>10. ASSUME NEW r \in BOOLEAN, Rest(Out(r, D)) PROVE ByBlocks(Out(r, D).pol, {w} \cup {NoPolicy})
  BY <1>6, <1>10 DEF ByBlocks, Same
<1>11. FileTraced(D, {w})
  BY <1>7, <1>10 DEF FileTraced
<1>12. FileHeld(D, list, programs, keys)
  BY <1>6 DEF FileHeld
<1>13. FileSays(D, w)
  <2>1. ASSUME NEW r \in BOOLEAN, ~Blocked(w.exec), r \/ "generic" \notin ToSet(D)
        PROVE  Rest(Out(r, D))
    <3>1. Rest(Out(reg, base)) /\ (reg => r)
      BY <1>3, <1>4, <1>8, <2>1
    <3>2. Rest(Out(r, base))
      BY <3>1, RestRegistered
    <3> QED BY <1>5, <1>6, <2>1, <3>1, <3>2
  <2> QED BY <1>5, <1>6, <2>1 DEF FileSays
<1>14. GenericRefused(D)
  BY <1>3, <1>6, <1>9 DEF GenericRefused
<1>15. Rest(Out(reg, D)) \/ Blocked(Modes(programs))
  BY <1>4, <1>5, <1>6
<1> QED BY <1>3, <1>11, <1>12, <1>13, <1>14, <1>15 DEF D, w, text, Cat

\* The file after the application ended while it wrote.
LEMMA TornFile ==
    ASSUME PlainNames, NEW list, OnePerPath(list), NEW programs, NEW reg \in BOOLEAN, NEW keys,
           Writable(list, programs, reg, keys), NEW base \in Seq(Plain), NEW V, FileTraced(base, V),
           GenericRefused(base), FileHeld(base, list, programs, keys),
           NEW a, IsCut(a, PolicyText(list, programs, reg, keys)), NEW rest \in {<< >>, <<"torn">>}
    PROVE  LET D == base \o (a \o rest)
           IN  /\ D \in Seq(Plain) /\ GenericRefused(D)
               /\ FileTraced(D, {Meaning(list, programs, keys)} \cup V)
<1> DEFINE e == a \o rest
           D == base \o e
           w == Meaning(list, programs, keys)
           W == {w} \cup V
           U == W \cup {NoPolicy}
<1>1. list \in Seq(FsEntries) /\ PathsOf(list) \subseteq Paths /\ programs \in Seq(ExecEntries) /\ keys \subseteq Keys
  BY DEF Writable
<1>2. a \in Seq(Plain)
  BY DEF IsCut
<1>3. /\ e \in Seq(Plain) /\ ToSet(e) \ {"torn"} = ToSet(a) \ {"torn"}
      /\ \A r : Out(r, e).pol = Out(r, a).pol /\ (Rest(Out(r, e)) => e = a)
  <2>1. CASE rest = << >>
    <3>1. e = a
      BY <1>2, <2>1
    <3> QED BY <1>2, <3>1
  <2>2. CASE rest = <<"torn">>
    <3> DEFINE t == <<"torn">>
    <3>1. t \in Seq(Plain) /\ ToSet(t) = {"torn"}
      <4>1. "torn" \in Plain
        BY PrintedCells DEF Printed, Plain
      <4>2. t \in Seq(Plain)
        BY <4>1, CellsOver
      <4>3. ToSet(t) = {"torn"}
        BY DEF ToSet
      <4> QED BY <4>2, <4>3
    <3>2. e = a \o t
      BY <2>2
    <3>3. \A r : Out(r, a \o t).pol = Out(r, a).pol /\ ~Rest(Out(r, a \o t))
      BY <1>2, TornReads
    <3> HIDE DEF t, e
    <3>4. a \o t \in Seq(Plain) /\ ToSet(a \o t) = ToSet(a) \cup ToSet(t)
      BY <1>2, <3>1, CellsJoined
    <3> QED BY <3>1, <3>2, <3>3, <3>4
  <2> QED BY <2>1, <2>2
<1> HIDE DEF e
<1>4. D \in Seq(Plain) /\ ToSet(D) = ToSet(base) \cup ToSet(e)
  BY <1>3, CellsJoined
<1>5. ASSUME NEW r \in BOOLEAN
      PROVE  /\ Rest(Out(r, base)) => /\ Out(r, D).in = Out(r, e).in /\ Out(r, D).c = Out(r, e).c
                                      /\ Out(r, D).pol = Plus(Out(r, base).pol, Out(r, a).pol)
             /\ ~Rest(Out(r, base)) => ~Rest(Out(r, D)) /\ Out(r, D).pol = Out(r, base).pol
             /\ Out(r, base).pol \in Pols
  <2>1. /\ Out(r, base) \in ReadStates
        /\ Rest(Out(r, base)) => /\ Out(r, D).in = Out(r, e).in /\ Out(r, D).c = Out(r, e).c
                                 /\ Out(r, D).pol = Plus(Out(r, base).pol, Out(r, e).pol)
        /\ Out(r, base).c = Err => Out(r, D).c = Err /\ Out(r, D).pol = Out(r, base).pol
    BY <1>3, ReadOn
  <2>2. Rest(Out(r, base)) \/ Out(r, base).c = Err
    BY DEF FileHeld
  <2>3. Out(r, base).pol \in Pols
    BY <2>1, StParts
  <2> QED BY <1>3, <2>1, <2>2, <2>3, BeginTyped DEF Rest
<1>6. ASSUME NEW r \in BOOLEAN
      PROVE  /\ Out(r, a).pol \in Pols /\ Held(Out(r, a).pol, list, programs, keys) /\ (~r => Out(r, a).pol.generic = {})
             /\ Rest(Out(r, a)) => Out(r, a).pol \in Stages(r, list, programs, keys)
             /\ "generic" \in ToSet(a) /\ ~r => ~Rest(Out(r, a))
  BY CutReads
<1>7. w \in W /\ V \subseteq W /\ V \cup {NoPolicy} \subseteq U /\ w \in U
  OBVIOUS
<1> HIDE DEF D, W, U
<1>8. ASSUME NEW r \in BOOLEAN PROVE Traced(r, Out(r, D).pol, W)
  <2> DEFINE p == Out(r, base).pol
             q == Out(r, a).pol
  <2>1. Traced(r, p, V) /\ p \in Pols
    BY <1>5 DEF FileTraced
  <2>2. q \in Pols /\ Held(q, list, programs, keys) /\ (~r => q.generic = {})
    BY <1>6
  <2>3. Out(r, D).pol \in {p, Plus(p, q)}
    BY <1>5
  <2> HIDE DEF p, q
  <2>4. Traced(r, p, W)
    BY <1>7, <2>1, TracedMore
  <2>5. Traced(r, q, W)
    BY <1>1, <1>7, <2>2, HeldTraced
  <2>6. Traced(r, Plus(p, q), W)
    BY <2>1, <2>2, <2>4, <2>5, PlusTraced
  <2> QED BY <2>3, <2>4, <2>6
<1>9. ASSUME NEW r \in BOOLEAN, Rest(Out(r, D)) PROVE ByBlocks(Out(r, D).pol, U)
  <2> DEFINE p == Out(r, base).pol
             q == Out(r, a).pol
             B == V \cup {NoPolicy}
  <2>1. Rest(Out(r, base)) /\ Rest(Out(r, e)) /\ Out(r, D).pol = Plus(p, q)
    BY <1>5, <1>9 DEF Rest
  <2>2. Rest(Out(r, a))
    BY <1>3, <2>1
  <2>3. /\ p \in Pols /\ Held(p, list, programs, keys) /\ Confirmed(p, programs) /\ ByBlocks(p, B)
        /\ q \in Pols /\ q \in Stages(r, list, programs, keys) /\ B \subseteq U
    BY <1>5, <1>6, <1>7, <2>1, <2>2 DEF FileHeld, FileTraced
  <2> HIDE DEF p, q, B
  <2>4. ByBlocks(Plus(p, q), U)
    BY <1>1, <1>7, <2>3, StageBlocks
  <2> QED BY <2>1, <2>4
<1>10. FileTraced(D, W)
  BY <1>8, <1>9 DEF FileTraced, U
<1>11. ASSUME "generic" \in ToSet(D), NEW r \in BOOLEAN, ~r PROVE ~Rest(Out(r, D))
  <2>1. "generic" \in ToSet(base) \/ "generic" \in ToSet(a)
    BY <1>3, <1>4, <1>11
  <2>2. CASE "generic" \in ToSet(base)
    BY <1>5, <1>11, <2>2 DEF GenericRefused
  <2>3. CASE "generic" \in ToSet(a)
    <3>1. ~Rest(Out(r, a))
      BY <1>6, <1>11, <2>3
    <3>2. ~Rest(Out(r, e))
      BY <1>3, <3>1
    <3> QED BY <1>5, <3>2 DEF Rest
  <2> QED BY <2>1, <2>2, <2>3
<1>12. GenericRefused(D)
  BY <1>11 DEF GenericRefused
<1> QED BY <1>4, <1>10, <1>12 DEF D, e, W

----------------------------------------
(* The file and the policy in memory, in every state. *)

\* A policy that has grown holds what it held.
LEMMA HeldKept ==
    ASSUME NEW l \in Seq(FsEntries), NEW k \in Seq(FsEntries), FsKept(l, k),
           NEW p \in Seq(ExecEntries), NEW q \in Seq(ExecEntries), ExecKept(p, q),
           NEW keys, NEW more, keys \subseteq more, NEW cells, FileHeld(cells, l, p, keys)
    PROVE  FileHeld(cells, k, q, more) /\ (Blocked(Modes(p)) => Blocked(Modes(q)))
           /\ PathsOf(l) \subseteq PathsOf(k) /\ GrantsOf(l) \subseteq GrantsOf(k)
<1>1. \A i \in DOMAIN l : i \in DOMAIN k /\ Covers(k[i], l[i])
  BY DEF FsKept
<1>2. PathsOf(l) \subseteq PathsOf(k)
  BY <1>1 DEF Covers, PathsOf
<1>3. ASSUME NEW g \in GrantsOf(l) PROVE g \in GrantsOf(k)
  <2>1. g \in Texts \X Scopes \X Verbs \X FlagSet
    BY DEF GrantsOf
  <2>2. PICK i \in DOMAIN l : l[i].path = g[1] /\ g[4] \in l[i][g[2]][g[3]]
    BY DEF GrantsOf
  <2>3. g[2] \in {"self", "children"} /\ g[3] \in Verbs
    BY <2>1 DEF Scopes
  <2>4. i \in DOMAIN k /\ k[i].path = g[1] /\ g[4] \in k[i][g[2]][g[3]]
    BY <1>1, <2>2, <2>3 DEF Covers
  <2> QED BY <2>1, <2>4 DEF GrantsOf
<1>4. \A h : ExecMode(p, h) # "none" => ExecMode(q, h) = ExecMode(p, h)
  BY ModeKept
<1>5. Blocked(Modes(p)) => Blocked(Modes(q))
  BY <1>4 DEF Blocked, Modes
<1>6. ASSUME NEW x, Held(x, l, p, keys) PROVE Held(x, k, q, more)
  BY <1>2, <1>3, <1>4, <1>6 DEF Held
<1>7. ASSUME NEW x, Confirmed(x, p) PROVE Confirmed(x, q)
  BY <1>4, <1>7 DEF Confirmed
<1>8. FileHeld(cells, k, q, more)
  BY <1>6, <1>7 DEF FileHeld
<1> QED BY <1>2, <1>3, <1>5, <1>8

\* A list of accepted programs behind one whose entries agree.
LEMMA SteadyJoined ==
    ASSUME NEW a \in Seq(ExecEntries), Steady(a), NEW b \in Seq(ExecEntries), Accepted(b)
    PROVE  Steady(a \o b)
<1> DEFINE ab == a \o b
<1>1. /\ \A k \in DOMAIN a : ab[k] = a[k]
      /\ \A k \in DOMAIN ab : k \notin DOMAIN a => k - Len(a) \in DOMAIN b /\ ab[k] = b[k - Len(a)]
  BY ListsJoined
<1>2. ASSUME NEW k \in DOMAIN ab, ExecMode(ab, ab[k].hash) = "accept" PROVE ab[k].mode = "accept"
  <2>1. CASE k \in DOMAIN a
    <3> DEFINE h == a[k].hash
    <3>1. ab[k] = a[k] /\ Named(a, h)
      BY <1>1, <2>1 DEF Named
    <3> HIDE DEF h
    <3>2. ExecMode(ab, h) = ExecMode(a, h)
      BY <3>1, ModesJoined, FirstEntry
    <3> QED BY <1>2, <2>1, <3>1, <3>2 DEF Steady, h
  <2>2. CASE k \notin DOMAIN a
    BY <1>1, <2>2 DEF Accepted
  <2> QED BY <2>1, <2>2
<1> HIDE DEF ab
<1>3. Steady(ab)
  BY <1>2 DEF Steady
<1> QED BY <1>3 DEF ab

\* An answer about a program that has none, or is to be asked about.
LEMMA SteadyAdded ==
    ASSUME NEW a \in Seq(ExecEntries), Steady(a), NEW e \in ExecEntries, ExecMode(a, e.hash) \in {"none", "prompt"}
    PROVE  Steady(Append(a, e))
<1> DEFINE b == <<e>>
           ab == a \o b
<1>1. b \in Seq(ExecEntries) /\ DOMAIN b = {1} /\ b[1] = e /\ Append(a, e) = ab
  OBVIOUS
<1>2. ExecMode(b, e.hash) = e.mode
  <2>1. Decides(b, e.hash, 1)
    BY <1>1 DEF Decides
  <2> HIDE DEF b
  <2> QED BY <1>1, <2>1, FirstEntry
<1> HIDE DEF b
<1>3. /\ \A k \in DOMAIN a : ab[k] = a[k]
      /\ \A k \in DOMAIN ab : k \notin DOMAIN a => k - Len(a) \in DOMAIN b /\ ab[k] = b[k - Len(a)]
  BY <1>1, ListsJoined
<1>4. ASSUME NEW k \in DOMAIN ab, ExecMode(ab, ab[k].hash) = "accept" PROVE ab[k].mode = "accept"
  <2>1. CASE k \in DOMAIN a
    <3> DEFINE h == a[k].hash
    <3>1. ab[k] = a[k] /\ Named(a, h)
      BY <1>3, <2>1 DEF Named
    <3> HIDE DEF h
    <3>2. ExecMode(ab, h) = ExecMode(a, h)
      BY <1>1, <3>1, ModesJoined, FirstEntry
    <3> QED BY <1>4, <2>1, <3>1, <3>2 DEF Steady, h
  <2>2. CASE k \notin DOMAIN a
    <3>1. ab[k] = e
      BY <1>1, <1>3, <2>2
    <3> DEFINE h == e.hash
    <3>2. ExecMode(ab, h) = IF ExecMode(a, h) = "none" THEN ExecMode(b, h) ELSE ExecMode(a, h)
      BY <1>1, ModesJoined
    <3> QED BY <1>2, <1>4, <3>1, <3>2
  <2> QED BY <2>1, <2>2
<1> HIDE DEF ab
<1>5. Steady(ab)
  BY <1>4 DEF Steady
<1> QED BY <1>1, <1>5

\* Accepted programs agree.
LEMMA SteadyAccepted ==
    ASSUME NEW a \in Seq(ExecEntries), Accepted(a)
    PROVE  Steady(a) /\ \A i \in DOMAIN a : ExecMode(a, a[i].hash) = "accept"
<1>1. ASSUME NEW i \in DOMAIN a PROVE ExecMode(a, a[i].hash) = "accept"
  <2> DEFINE h == a[i].hash
  <2>1. Named(a, h)
    BY DEF Named
  <2> HIDE DEF h
  <2>2. ExecMode(a, h) = "accept"
    BY <2>1, AcceptedModes
  <2> QED BY <2>2 DEF h
<1> QED BY <1>1 DEF Steady, Accepted

\* gh_permfs_add brings in no other path.
LEMMA AddToPaths ==
    ASSUME NEW list \in Seq(FsEntries), NEW path, NEW self, NEW children
    PROVE  PathsOf(AddTo(list, path, self, children)) \subseteq PathsOf(list) \cup {path}
<1> DEFINE e == [path |-> path, self |-> self, children |-> children]
<1>1. CASE HasEntry(list, path)
  <2> DEFINE k == IndexOf(list, path)
             own == Merge(Merge(list[k].self, self), children)
             new == [list EXCEPT ![k].self = own]
  <2>1. AddTo(list, path, self, children) = new
    BY <1>1 DEF AddTo
  <2>2. DOMAIN new = DOMAIN list /\ \A i \in DOMAIN list : new[i].path = list[i].path
    <3> HIDE DEF k, own
    <3>1. \A i \in DOMAIN list : list[i] \in FsEntries
      OBVIOUS
    <3>2. \A i \in DOMAIN list : new[i] = IF i = k THEN [list[i] EXCEPT !.self = own] ELSE list[i]
      OBVIOUS
    <3>3. \A d \in FsEntries : [d EXCEPT !.self = own].path = d.path
      BY DEF FsEntries
    <3> QED BY <3>1, <3>2, <3>3
  <2> HIDE DEF new
  <2> QED BY <2>1, <2>2 DEF PathsOf
<1>2. CASE ~HasEntry(list, path)
  <2> DEFINE new == Append(list, e)
  <2>1. AddTo(list, path, self, children) = new
    BY <1>2 DEF AddTo
  <2>2. e.path = path
    OBVIOUS
  <2> HIDE DEF e
  <2>3. \A i \in DOMAIN new : (i \in DOMAIN list /\ new[i] = list[i]) \/ new[i] = e
    OBVIOUS
  <2> HIDE DEF new
  <2> QED BY <2>1, <2>2, <2>3 DEF PathsOf
<1> QED BY <1>1, <1>2

\* An addition to the policy in memory.
LEMMA AddFile ==
    ASSUME TypeOK, FileInv,
           \/ \E path \in Paths, rule \in Rules : AddRule(path, rule)
           \/ \E hash \in Hashes, mode \in {"accept", "reject"} : AddProgram(hash, mode)
           \/ \E key \in Keys : AddKey(key)
    PROVE  FileInv'
<1>1. TypeOK' /\ FsKept(fs, fs') /\ ExecKept(exec, exec') /\ generic \subseteq generic'
  BY AddStep DEF Kept
<1>2. /\ result = "OK" /\ result' = result
      /\ UNCHANGED <<registered, disk, written, whole>>
  BY DEF AddRule, AddProgram, AddKey, Operation, fileVars
<1>3. fs \in Seq(FsEntries) /\ fs' \in Seq(FsEntries) /\ exec \in Seq(ExecEntries) /\ exec' \in Seq(ExecEntries)
  BY <1>1 DEF TypeOK
<1>4. FileHeld(disk, fs, exec, generic) /\ Steady(exec) /\ (Rest(Out(registered, disk)) \/ Blocked(Modes(exec)))
  BY <1>2 DEF FileInv, InMemory
<1>5. FileHeld(disk, fs', exec', generic') /\ (Blocked(Modes(exec)) => Blocked(Modes(exec')))
  BY <1>1, <1>3, <1>4, HeldKept
<1>6. PathsOf(fs') \subseteq Paths /\ (~registered => generic' = {}) /\ Steady(exec')
  <2>0. PathsOf(fs) \subseteq Paths /\ (~registered => generic = {})
    BY DEF FileInv
  <2>1. ASSUME NEW path \in Paths, NEW rule \in Rules, AddRule(path, rule)
        PROVE  PathsOf(fs') \subseteq Paths /\ generic' = generic /\ exec' = exec
    <3>1. fs' = AddTo(fs, path, rule.self, rule.children) /\ generic' = generic /\ exec' = exec
      BY <2>1 DEF AddRule
    <3> QED BY <1>3, <2>0, <3>1, AddToPaths
  <2>2. ASSUME NEW hash \in Hashes, NEW mode \in {"accept", "reject"}, AddProgram(hash, mode)
        PROVE  fs' = fs /\ generic' = generic /\ Steady(exec')
    <3> DEFINE e == [hash |-> hash, mode |-> mode]
    <3>1. e \in ExecEntries /\ e.hash = hash
      BY DEF ExecEntries, Verbs
    <3>2. fs' = fs /\ generic' = generic /\ exec' = Append(exec, e) /\ ExecMode(exec, hash) \in {"none", "prompt"}
      BY <2>2 DEF AddProgram
    <3> HIDE DEF e
    <3>3. Steady(Append(exec, e))
      BY <1>3, <1>4, <3>1, <3>2, SteadyAdded
    <3> QED BY <3>2, <3>3
  <2>3. ASSUME NEW key \in Keys, AddKey(key) PROVE fs' = fs /\ exec' = exec /\ registered
    BY <2>3 DEF AddKey
  <2> QED BY <1>4, <2>0, <2>1, <2>2, <2>3
<1>7. InMemory'
  BY <1>2, <1>4, <1>5, <1>6 DEF InMemory
<1> QED BY <1>2, <1>6, <1>7 DEF FileInv

\* gh_permparser_parse adds what is read of the file to the policy in memory, whatever that is.
LEMMA LoadReads ==
    ASSUME TypeOK, disk \in Seq(Plain), Load
    PROVE  LET b == Out(registered, disk)
           IN  /\ b \in ReadStates /\ b.pol \in Pols
               /\ PathsOf(fs') = PathsOf(fs) \cup b.pol.paths /\ GrantsOf(fs') = GrantsOf(fs) \cup b.pol.grants
               /\ exec' = exec \o b.pol.exec /\ generic' = generic \cup b.pol.generic
               /\ result' = (IF Rest(b) THEN "OK" ELSE "ERROR")
               /\ UNCHANGED <<registered, disk, written, whole>>
<1> DEFINE p == Parse(disk)
           pol == Pol(PathsOf(fs), GrantsOf(fs), exec, generic)
           end == Fold(Reader(registered), Begin(pol), disk)
           b == Out(registered, disk)
<1>1. /\ fs' = p.fs /\ exec' = p.exec /\ generic' = p.generic
      /\ result' = (IF p.at = "top" THEN "OK" ELSE "ERROR")
      /\ UNCHANGED <<registered, disk, written, whole>>
  BY DEF Load, fileVars
<1>2. pol \in Pols /\ end \in ReadStates /\ PolOf(p) = end.pol /\ (p.at = "top" <=> ~end.in /\ end.c = Top)
  BY ParseReads
<1>3. PolOf(p) = Pol(PathsOf(fs'), GrantsOf(fs'), exec', generic')
  BY <1>1 DEF PolOf
<1>4. /\ pol.paths = PathsOf(fs) /\ pol.grants = GrantsOf(fs) /\ pol.exec = exec /\ pol.generic = generic
      /\ Pol(PathsOf(fs'), GrantsOf(fs'), exec', generic').paths = PathsOf(fs')
      /\ Pol(PathsOf(fs'), GrantsOf(fs'), exec', generic').grants = GrantsOf(fs')
      /\ Pol(PathsOf(fs'), GrantsOf(fs'), exec', generic').exec = exec'
      /\ Pol(PathsOf(fs'), GrantsOf(fs'), exec', generic').generic = generic'
  BY DEF Pol
<1> HIDE DEF p, pol
<1>5. b \in ReadStates /\ end.in = b.in /\ end.c = b.c /\ end.pol = Plus(pol, b.pol)
  BY <1>2, OutAdded
<1>6. b.pol \in Pols
  BY <1>5, StParts
<1> HIDE DEF b, end
<1>7. /\ end.pol.paths = pol.paths \cup b.pol.paths /\ end.pol.grants = pol.grants \cup b.pol.grants
      /\ end.pol.exec = pol.exec \o b.pol.exec /\ end.pol.generic = pol.generic \cup b.pol.generic
  <2> DEFINE q == b.pol
             s == Plus(pol, q)
  <2>1. q \in Pols /\ end.pol = s
    BY <1>5, <1>6
  <2> HIDE DEF q
  <2>2. /\ s.paths = pol.paths \cup q.paths /\ s.grants = pol.grants \cup q.grants
        /\ s.exec = pol.exec \o q.exec /\ s.generic = pol.generic \cup q.generic
    BY <1>2, <2>1, PlusTyped
  <2> HIDE DEF s
  <2> QED BY <2>1, <2>2 DEF q
<1>8. /\ PathsOf(fs') = end.pol.paths /\ GrantsOf(fs') = end.pol.grants
      /\ exec' = end.pol.exec /\ generic' = end.pol.generic
  BY <1>2, <1>3, <1>4
<1>9. p.at = "top" <=> Rest(b)
  BY <1>2, <1>5 DEF Rest
<1> QED BY <1>1, <1>4, <1>5, <1>6, <1>7, <1>8, <1>9 DEF b

\* In a new process the policy is what was read, and it holds what any reader takes from the file.
LEMMA FreshHeld ==
    ASSUME NEW cells \in Seq(Plain), NEW reg \in BOOLEAN, Rest(Out(reg, cells)), NEW q, q = Out(reg, cells).pol,
           Accepted(q.exec), NEW list, PathsOf(list) = q.paths, GrantsOf(list) = q.grants
    PROVE  FileHeld(cells, list, q.exec, q.generic)
<1>1. q \in Pols
  BY Tidy
<1>2. q.exec \in Seq(ExecEntries)
  BY <1>1, PolParts
<1>3. Held(q, list, q.exec, q.generic) /\ Confirmed(q, q.exec)
  <2>1. \A i \in DOMAIN q.exec : ExecMode(q.exec, q.exec[i].hash) = "accept"
    BY <1>2, SteadyAccepted
  <2> QED BY <2>1 DEF Held, Confirmed
<1>4. ASSUME NEW x \in Pols, LessRead(x, q) PROVE Held(x, list, q.exec, q.generic)
  <2>1. x.exec \in Seq(ExecEntries)
    BY PolParts
  <2>2. x.paths \subseteq q.paths /\ x.grants \subseteq q.grants /\ x.generic \subseteq q.generic /\ ExecKept(x.exec, q.exec)
    BY <1>4 DEF LessRead
  <2>3. \A h : ExecMode(x.exec, h) # "none" => ExecMode(q.exec, h) = ExecMode(x.exec, h)
    BY <1>2, <2>1, <2>2, ModeKept
  <2> QED BY <2>2, <2>3 DEF Held
<1>5. ASSUME NEW r \in BOOLEAN
      PROVE  \/ Rest(Out(r, cells)) /\ Out(r, cells).pol = q
             \/ Out(r, cells).c = Err /\ Out(r, cells).pol \in Pols /\ LessRead(Out(r, cells).pol, q)
  <2> DEFINE a == Out(TRUE, cells)
             b == Out(FALSE, cells)
  <2>1. /\ a.in = b.in /\ b \in ReadStates
        /\ (a.c = b.c /\ a.pol = b.pol) \/ (b.c = Err /\ LessRead(b.pol, a.pol))
    BY OutUnregistered
  <2>2. b.pol \in Pols
    BY <2>1, StParts
  <2>3. CASE r = reg
    BY <2>3
  <2>4. CASE r = TRUE /\ reg = FALSE
    <3>1. Rest(b) /\ q = b.pol
      BY <2>4
    <3>2. Rest(a) /\ a.pol = q
      BY <2>1, <3>1, BeginTyped DEF Rest
    <3> QED BY <2>4, <3>2
  <2>5. CASE r = FALSE /\ reg = TRUE
    <3>1. Rest(a) /\ q = a.pol
      BY <2>5
    <3>2. (Rest(b) /\ b.pol = q) \/ (b.c = Err /\ LessRead(b.pol, q))
      BY <2>1, <3>1 DEF Rest
    <3> QED BY <2>2, <2>5, <3>2
  <2> QED BY <2>3, <2>4, <2>5
<1>6. ASSUME NEW r \in BOOLEAN, Out(r, cells).c = Err PROVE ~Rest(Out(r, cells))
  BY <1>6, BeginTyped DEF Rest
<1> QED BY <1>3, <1>4, <1>5, <1>6 DEF FileHeld

\* gh_perms_readfd.
LEMMA LoadFile ==
    ASSUME TypeOK, FileInv, Load
    PROVE  FileInv'
<1> DEFINE b == Out(registered, disk)
           q == b.pol
<1>0. /\ disk \in Seq(Plain) /\ PathsOf(fs) \subseteq Paths /\ (~registered => generic = {})
      /\ registered \in BOOLEAN /\ fs \in Seq(FsEntries) /\ exec \in Seq(ExecEntries)
  BY DEF FileInv, TypeOK
<1>1. /\ q \in Pols
      /\ PathsOf(fs') = PathsOf(fs) \cup q.paths /\ GrantsOf(fs') = GrantsOf(fs) \cup q.grants
      /\ exec' = exec \o q.exec /\ generic' = generic \cup q.generic
      /\ result' = (IF Rest(b) THEN "OK" ELSE "ERROR")
      /\ UNCHANGED <<registered, disk, written, whole>>
  BY <1>0, LoadReads
<1>2. fs' \in Seq(FsEntries) /\ exec' \in Seq(ExecEntries) /\ FsKept(fs, fs') /\ ExecKept(exec, exec') /\ generic \subseteq generic'
  BY LoadStep DEF Kept, TypeOK
<1>3. Traced(registered, q, written) /\ (Rest(b) => ByBlocks(q, written \cup {NoPolicy}))
  BY <1>0 DEF FileInv, FileTraced
<1>4. PathsOf(fs') \subseteq Paths /\ (~registered => generic' = {})
  BY <1>0, <1>1, <1>3 DEF Traced
<1>5. ASSUME Rest(b) PROVE InMemory'
  <2>1. Accepted(q.exec) /\ q.exec \in Seq(ExecEntries)
    BY <1>1, <1>3, <1>5, PolParts DEF ByBlocks
  <2>2. CASE result = "OK"
    <3>1. FileHeld(disk, fs, exec, generic) /\ Steady(exec)
      BY <2>2 DEF FileInv, InMemory
    <3>2. FileHeld(disk, fs', exec', generic')
      BY <1>0, <1>2, <3>1, HeldKept
    <3>3. Steady(exec')
      BY <1>0, <1>1, <2>1, <3>1, SteadyJoined
    <3> QED BY <1>1, <1>5, <3>2, <3>3 DEF InMemory
  <2>3. CASE result = "none"
    <3>1. fs = << >> /\ exec = << >> /\ generic = {}
      BY <2>3 DEF FileInv
    <3>2. PathsOf(fs) = {} /\ GrantsOf(fs) = {} /\ exec \o q.exec = q.exec
      BY <2>1, <3>1 DEF PathsOf, GrantsOf
    <3>3. PathsOf(fs') = q.paths /\ GrantsOf(fs') = q.grants /\ exec' = q.exec /\ generic' = q.generic
      BY <1>1, <3>1, <3>2
    <3>4. FileHeld(disk, fs', q.exec, q.generic)
      <4> DEFINE k == fs'
                 o == q
      <4>1. PathsOf(k) = o.paths /\ GrantsOf(k) = o.grants /\ o = Out(registered, disk).pol /\ Accepted(o.exec)
            /\ Rest(Out(registered, disk))
        BY <1>5, <2>1, <3>3
      <4> HIDE DEF k, o
      <4>2. FileHeld(disk, k, o.exec, o.generic)
        BY <1>0, <4>1, FreshHeld
      <4> QED BY <4>2 DEF k, o
    <3>5. Steady(exec')
      BY <2>1, <3>3, SteadyAccepted
    <3> QED BY <1>1, <1>5, <3>3, <3>4, <3>5 DEF InMemory
  <2>4. result \in {"none", "OK"}
    BY <1>5 DEF FileInv, TypeOK
  <2> QED BY <2>2, <2>3, <2>4
<1> HIDE DEF q
<1>6. /\ result' = "OK" => InMemory'
      /\ result' = "ERROR" => ~Rest(Out(registered', disk'))
      /\ result' # "none"
  BY <1>1, <1>5
<1> QED BY <1>0, <1>1, <1>4, <1>6 DEF FileInv

\* The text that gh_perms_write makes is that of the policy in memory.
LEMMA TextOfPolicy == Text = PolicyText(fs, exec, registered, generic)
BY DEF Text, PolicyText, FsText, ExecText, KeyText, GenericText, FsResource, ExecResource, GenericResource

\* Where writing begins at the end of what is there, the cells come behind it.
LEMMA WriteBehind ==
    ASSUME NEW base \in Seq(Cells), NEW cells \in Seq(Cells)
    PROVE  Write(base, Len(base), cells) = base \o cells
<1> DEFINE N == Len(base)
           M == Len(cells)
           top == IF N > N + M THEN N ELSE N + M
           new == [i \in 1 .. top |-> IF i > N /\ i <= N + M THEN cells[i - N] ELSE IF i <= N THEN base[i] ELSE "NUL"]
<1>1. N \in Nat /\ M \in Nat /\ top = N + M
  OBVIOUS
<1>2. Write(base, N, cells) = new
  BY DEF Write
<1>3. /\ base \o cells \in Seq(Cells) /\ Len(base \o cells) = N + M
      /\ \A i \in 1 .. N + M : (base \o cells)[i] = IF i <= N THEN base[i] ELSE cells[i - N]
  OBVIOUS
<1>4. \A i \in 1 .. N : base[i] \in Cells
  OBVIOUS
<1>5. \A i \in 1 .. M : cells[i] \in Cells
  OBVIOUS
<1> HIDE DEF N, M
<1>6. ASSUME NEW i \in 1 .. N + M
      PROVE  new[i] = (IF i <= N THEN base[i] ELSE cells[i - N]) /\ new[i] \in Cells
  BY <1>1, <1>4, <1>5
<1>7. new \in [1 .. N + M -> Cells]
  BY <1>1, <1>6
<1>8. new \in Seq(Cells) /\ Len(new) = N + M
  <2> HIDE DEF new
  <2> QED BY <1>1, <1>7
<1> HIDE DEF new
<1> QED BY <1>1, <1>2, <1>3, <1>6, <1>8, SeqEqual DEF N

\* A text over one that is not longer replaces it.
LEMMA WriteOver ==
    ASSUME NEW base \in Seq(Cells), NEW cells \in Seq(Cells), Len(base) <= Len(cells)
    PROVE  Write(base, 0, cells) = cells
<1> DEFINE N == Len(base)
           M == Len(cells)
<1>1. N \in Nat /\ M \in Nat /\ N <= M /\ cells = [i \in 1 .. M |-> cells[i]]
  OBVIOUS
<1>2. Write(base, 0, cells) =
        [i \in 1 .. IF N > 0 + M THEN N ELSE 0 + M |->
            IF i > 0 /\ i <= 0 + M THEN cells[i - 0] ELSE IF i <= N THEN base[i] ELSE "NUL"]
  BY DEF Write
<1> HIDE DEF N, M
<1>3. (IF N > 0 + M THEN N ELSE 0 + M) = M
  BY <1>1
<1>4. \A i \in 1 .. M : i > 0 /\ i <= 0 + M /\ i - 0 = i
  BY <1>1
<1>5. Write(base, 0, cells) = [i \in 1 .. M |-> cells[i]]
  BY <1>2, <1>3, <1>4
<1> QED BY <1>1, <1>5

\* However the file is opened: cells that reach the end of what was there are all there is
\* behind the front.
LEMMA NewText ==
    ASSUME TypeOK, NEW cells \in Seq(Cells), ~(Len(Base) > Offset + Len(cells))
    PROVE  Write(Base, Offset, cells) = InFront \o cells
<1>1. disk \in Seq(Cells) /\ << >> \in Seq(Cells) /\ Len(<< >>) = 0 /\ << >> \o cells = cells
  BY DEF TypeOK
<1>2. CASE habit = "same"
  <2>1. Base = disk /\ Offset = Len(disk) /\ InFront = disk
    BY <1>2 DEF Base, Offset, InFront
  <2> QED BY <1>1, <2>1, WriteBehind
<1>3. CASE habit = "trunc"
  <2>1. Base = << >> /\ Offset = 0 /\ InFront = << >> /\ Len(<< >>) <= Len(cells)
    BY <1>3 DEF Base, Offset, InFront
  <2>2. Write(<< >>, 0, cells) = cells
    BY <1>1, <2>1, WriteOver
  <2> QED BY <1>1, <2>1, <2>2
<1>4. CASE habit \notin {"same", "trunc"}
  <2>1. Base = disk /\ Offset = 0 /\ InFront = << >>
    BY <1>4 DEF Base, Offset, InFront
  <2>2. Len(disk) \in Nat /\ Len(cells) \in Nat
    BY <1>1
  <2>3. Len(disk) <= Len(cells)
    BY <2>1, <2>2
  <2> QED BY <1>1, <2>1, <2>3, WriteOver
<1> QED BY <1>2, <1>3, <1>4

\* What is in front of a new text: nothing, or the file that was read.
LEMMA OpenedFile ==
    ASSUME TypeOK, FileInv
    PROVE  /\ InFront \in Seq(Plain) /\ GenericRefused(InFront)
           /\ FileTraced(InFront, IF habit = "trunc" THEN {NoPolicy} ELSE written)
           /\ result = "OK" => FileHeld(InFront, fs, exec, generic) /\ (Rest(Out(registered, InFront)) \/ Blocked(Modes(exec)))
<1>1. CASE habit = "same"
  <2>1. /\ disk \in Seq(Plain) /\ FileTraced(disk, written) /\ GenericRefused(disk)
        /\ result = "OK" => FileHeld(disk, fs, exec, generic) /\ (Rest(Out(registered, disk)) \/ Blocked(Modes(exec)))
    BY DEF FileInv, InMemory
  <2>2. InFront = disk /\ habit # "trunc"
    BY <1>1 DEF InFront
  <2> QED BY <2>1, <2>2
<1>2. CASE habit # "same"
  <2>1. InFront = << >>
    BY <1>2 DEF InFront
  <2>2. Rest(Out(registered, << >>)) /\ FileHeld(<< >>, fs, exec, generic)
    BY EmptyFile
  <2> QED BY <2>1, <2>2, EmptyFile, Zenon
<1> QED BY <1>1, <1>2

\* The policy in memory can be written.
LEMMA MemoryWritable ==
    ASSUME TypeOK, FileInv
    PROVE  /\ Writable(fs, exec, registered, generic) /\ OnePerPath(fs) /\ registered \in BOOLEAN
           /\ Policy \in Policies
<1>1. Writable(fs, exec, registered, generic) /\ OnePerPath(fs) /\ registered \in BOOLEAN
  BY DEF TypeOK, FileInv, Writable, OnePerPath
<1>2. Policy \in Policies
  BY <1>1, MeaningParts DEF Policy, Writable
<1> QED BY <1>1, <1>2

\* gh_perms_write.
LEMMA SaveFile ==
    ASSUME PlainNames, TypeOK, FileInv, damaged' = {}, Save
    PROVE  FileInv'
<1> DEFINE base == InFront
           V == IF habit = "trunc" THEN {NoPolicy} ELSE written
           text == PolicyText(fs, exec, registered, generic)
           D == base \o text
           w == Meaning(fs, exec, generic)
<1>1. /\ result = "OK" /\ written' = {Policy} /\ whole' = TRUE
      /\ UNCHANGED <<fs, exec, generic, registered, result>>
  BY DEF Save, Operation, KeepMemory, policyVars
<1>2. Policy = w /\ Policy \in Policies /\ Writable(fs, exec, registered, generic) /\ OnePerPath(fs) /\ registered \in BOOLEAN
  BY MemoryWritable DEF Policy
<1>3. /\ base \in Seq(Plain) /\ GenericRefused(base) /\ FileTraced(base, V)
      /\ FileHeld(base, fs, exec, generic) /\ (Rest(Out(registered, base)) \/ Blocked(Modes(exec)))
      /\ Steady(exec)
  BY <1>1, OpenedFile DEF FileInv, InMemory
<1>4. disk' = D
  <2>1. PICK begun \in Begun, cells \in Written :
            disk' = Write(begun.base, begun.offset, cells) /\ damaged' = damaged \cup Damage(begun, cells)
    BY DEF Save
  <2>2. \A d : d \notin Damage(begun, cells)
    BY <2>1
  <2>3. cells = Text /\ ~(begun.offset > Len(begun.base)) /\ ~(Len(begun.base) > begun.offset + Len(cells))
    BY <2>2 DEF Damage
  <2>4. Text \in Seq(Cells) /\ Text = text
    BY TextTyped, TextOfPolicy DEF Texts
  <2>5. begun = [base |-> Base, offset |-> Offset]
    <3>1. SUFFICES ASSUME NEW n \in 1 .. Len(Text) - 1, begun = [base |-> << >>, offset |-> Offset + n] PROVE FALSE
      BY DEF Begun
    <3>2. Offset \in Nat /\ Len(<< >>) = 0 /\ n \in Nat /\ n > 0
      BY <2>4 DEF Offset, TypeOK
    <3> QED BY <2>3, <3>1, <3>2
  <2> QED BY <2>1, <2>3, <2>4, <2>5, NewText
<1> HIDE DEF base, V
<1>5. /\ D \in Seq(Plain) /\ FileTraced(D, {w}) /\ FileSays(D, w) /\ GenericRefused(D)
      /\ FileHeld(D, fs, exec, generic) /\ (Rest(Out(registered, D)) \/ Blocked(Modes(exec)))
  BY <1>2, <1>3, SavedFile
<1> HIDE DEF D, w
<1>6. InMemory'
  BY <1>1, <1>3, <1>4, <1>5 DEF InMemory
<1>7. written' = {w} /\ w \in Policies
  BY <1>1, <1>2
<1>8. \E v : written' = {v} /\ FileSays(disk', v)
  BY <1>4, <1>5, <1>7
<1>9. disk' \in Seq(Plain) /\ FileTraced(disk', written') /\ GenericRefused(disk') /\ written' \subseteq Policies
  BY <1>4, <1>5, <1>7
<1>10. PathsOf(fs) \subseteq Paths /\ (~registered => generic = {})
  BY DEF FileInv
<1> QED BY <1>1, <1>6, <1>8, <1>9, <1>10 DEF FileInv

\* A beginning of the text.
LEMMA TextCut ==
    ASSUME NEW text \in Seq(Plain), NEW n \in 0 .. Len(text) - 1
    PROVE  IsCut(SubSeq(text, 1, n), text)
<1> DEFINE N == Len(text)
           a == SubSeq(text, 1, n)
           b == SubSeq(text, n + 1, N)
<1>1. a \in Seq(Plain) /\ b \in Seq(Plain)
  OBVIOUS
<1>2. text = a \o b
  OBVIOUS
<1> QED BY <1>1, <1>2 DEF IsCut

\* The application ends while it saves.
LEMMA CrashFile ==
    ASSUME PlainNames, TypeOK, FileInv, damaged' = {}, RestartInSave
    PROVE  FileInv'
<1> DEFINE base == InFront
           V == IF habit = "trunc" THEN {NoPolicy} ELSE written
           text == PolicyText(fs, exec, registered, generic)
           w == Meaning(fs, exec, generic)
<1>1. result = "OK" /\ written' = {Policy} \cup V /\ whole' = FALSE /\ Start
  BY DEF RestartInSave, Operation
<1>2. Policy = w /\ Policy \in Policies /\ Writable(fs, exec, registered, generic) /\ OnePerPath(fs) /\ registered \in BOOLEAN
  BY MemoryWritable DEF Policy
<1>3. /\ base \in Seq(Plain) /\ GenericRefused(base) /\ FileTraced(base, V)
      /\ FileHeld(base, fs, exec, generic)
  BY <1>1, OpenedFile
<1>4. PICK n \in 0 .. Len(Text) - 1, rest \in {<< >>, <<"torn">>} :
          LET cells == SubSeq(Text, 1, n) \o rest
          IN  disk' = Write(Base, Offset, cells) /\ ~(Len(Base) > Offset + Len(cells))
  BY DEF RestartInSave
<1>5. Text = text /\ text \in Seq(Plain)
  BY <1>2, TextOfPolicy, TextEnd
<1> DEFINE a == SubSeq(text, 1, n)
           e == a \o rest
           D == base \o e
           W == {w} \cup V
<1>6. IsCut(a, text)
  BY <1>4, <1>5, TextCut
<1>7. e \in Seq(Cells)
  <2>1. a \in Seq(Plain)
    BY <1>6 DEF IsCut
  <2>2. "torn" \in Plain /\ Plain \subseteq Cells
    BY PrintedCells DEF Printed, Plain
  <2>3. rest \in Seq(Plain)
    BY <2>2, CellsOver
  <2> HIDE DEF a
  <2>4. e \in Seq(Plain)
    BY <2>1, <2>3, CellsOver
  <2> QED BY <2>2, <2>4
<1>8. disk' = D
  <2>1. disk' = Write(Base, Offset, e) /\ ~(Len(Base) > Offset + Len(e))
    BY <1>4, <1>5
  <2> HIDE DEF e
  <2> QED BY <1>7, <2>1, NewText
<1>9. V \subseteq Policies
  BY NoPolicyParts DEF FileInv
<1> HIDE DEF base, V, a
<1>10. D \in Seq(Plain) /\ GenericRefused(D) /\ FileTraced(D, W)
  BY <1>2, <1>3, <1>6, TornFile
<1> HIDE DEF D, e
<1>11. written' = W /\ W \subseteq Policies
  BY <1>1, <1>2, <1>9
<1>12. fs' = << >> /\ exec' = << >> /\ generic' = {} /\ result' = "none" /\ PathsOf(<< >>) = {}
  BY <1>1 DEF Start, PathsOf
<1>13. PathsOf(fs') \subseteq Paths
  BY <1>12
<1> HIDE DEF W
<1> QED BY <1>1, <1>8, <1>10, <1>11, <1>12, <1>13 DEF FileInv

\* Only these steps can harm the file or throw it away.
LEMMA Unharmed ==
    ASSUME [Next]_vars
    PROVE  damaged' = damaged \/ Save \/ RestartInSave \/ Discard
BY DEF Next, vars, RegisterGeneric, AddRule, AddProgram, AddKey, Load, SaveFails, Restart, fileVars

\* Every step.
LEMMA FileStep ==
    ASSUME PlainNames, TypeOK, Intact, [Next]_vars
    PROVE  Intact'
<1>1. ASSUME disk' = << >>, written' = {NoPolicy}
      PROVE  /\ disk' \in Seq(Plain) /\ FileTraced(disk', written') /\ GenericRefused(disk') /\ written' \subseteq Policies
             /\ \E w : written' = {w} /\ FileSays(disk', w)
             /\ \A l, p, k : FileHeld(disk', l, p, k)
             /\ \A r : Rest(Out(r, disk'))
  <2>1. NoPolicy \in Policies
    BY NoPolicyParts
  <2> QED BY <1>1, <2>1, EmptyFile, Zenon
<1>2. ASSUME Start PROVE PathsOf(fs') \subseteq Paths /\ generic' = {} /\ fs' = << >> /\ exec' = << >> /\ result' = "none"
  BY <1>2 DEF Start, PathsOf
<1>3. CASE Discard
  <2>1. Start /\ disk' = << >> /\ written' = {NoPolicy}
    BY <1>3 DEF Discard
  <2> QED BY <1>1, <1>2, <2>1 DEF FileInv, Intact
<1> SUFFICES ASSUME ~Discard, FileInv, damaged' = {} PROVE FileInv'
  <2>1. damaged \subseteq damaged' \/ Discard
    BY Unharmed DEF Save, RestartInSave
  <2> QED BY <1>3, <2>1 DEF Intact
<1>4. CASE UNCHANGED vars
  BY <1>4 DEF vars, FileInv, InMemory
<1>5. CASE RegisterGeneric
  BY <1>5 DEF RegisterGeneric, policyVars, fileVars, FileInv
<1>6. CASE Load
  BY <1>6, LoadFile
<1>7. CASE \/ \E path \in Paths, rule \in Rules : AddRule(path, rule)
           \/ \E hash \in Hashes, mode \in {"accept", "reject"} : AddProgram(hash, mode)
           \/ \E key \in Keys : AddKey(key)
  BY <1>7, AddFile
<1>8. CASE Save
  BY <1>8, SaveFile
<1>9. CASE RestartInSave
  BY <1>9, CrashFile
<1>10. CASE SaveFails
  <2>1. disk' = << >> /\ written' = {NoPolicy} /\ result = "OK" /\ UNCHANGED <<fs, exec, generic, registered, result>>
    BY <1>10 DEF SaveFails, KeepMemory, policyVars, Operation
  <2>2. PathsOf(fs) \subseteq Paths /\ (~registered => generic = {}) /\ Steady(exec)
    BY <2>1 DEF FileInv, InMemory
  <2>3. InMemory'
    BY <1>1, <2>1, <2>2 DEF InMemory
  <2> QED BY <1>1, <2>1, <2>2, <2>3 DEF FileInv
<1>11. CASE Restart
  <2>1. Start /\ UNCHANGED <<disk, written, whole>>
    BY <1>11 DEF Restart, fileVars
  <2> QED BY <1>2, <2>1 DEF FileInv
<1> QED BY <1>4, <1>5, <1>6, <1>7, <1>8, <1>9, <1>10, <1>11 DEF Next

\* A new process has nothing in memory, and a load gives it what was read.
LEMMA FreshLoad ==
    ASSUME TypeOK, TypeOK', FileInv, Load, Policy = NoPolicy
    PROVE  LET q == Out(registered, disk).pol
           IN  /\ FsSet(Policy'.fs) /\ SameFs(Policy'.fs, q) /\ Policy'.exec = Modes(q.exec) /\ Policy'.generic = q.generic
               /\ Policy' \in Policies
<1> DEFINE q == Out(registered, disk).pol
<1>1. /\ fs \in Seq(FsEntries) /\ exec \in Seq(ExecEntries) /\ generic \subseteq Keys /\ OnePerPath(fs)
      /\ fs' \in Seq(FsEntries) /\ exec' \in Seq(ExecEntries) /\ generic' \subseteq Keys /\ OnePerPath(fs')
      /\ disk \in Seq(Plain)
  BY DEF TypeOK, OnePerPath, FileInv
<1>2. /\ q \in Pols
      /\ PathsOf(fs') = PathsOf(fs) \cup q.paths /\ GrantsOf(fs') = GrantsOf(fs) \cup q.grants
      /\ exec' = exec \o q.exec /\ generic' = generic \cup q.generic
  BY <1>1, LoadReads
<1> DEFINE now == Meaning(fs, exec, generic)
<1>3. /\ PathsIn(now.fs) = PathsOf(fs) /\ GrantsIn(now.fs) = GrantsOf(fs) /\ now.generic = generic
      /\ \A h \in Hashes : now.exec[h] = ExecMode(exec, h)
  BY <1>1, MeaningParts
<1>4. now = NoPolicy
  BY DEF Policy
<1> HIDE DEF now, q
<1>5. /\ NoPolicy.fs = {} /\ NoPolicy.generic = {} /\ \A h \in Hashes : NoPolicy.exec[h] = "none"
  BY NoPolicyParts
<1>6. PathsOf(fs) = {} /\ GrantsOf(fs) = {} /\ generic = {} /\ exec = << >>
  <2>1. \A h \in Hashes : ExecMode(exec, h) = "none"
    BY <1>3, <1>4, <1>5
  <2>2. exec = << >>
    BY <1>1, <2>1, NoPrograms
  <2>3. PathsIn({}) = {} /\ GrantsIn({}) = {}
    BY DEF PathsIn, GrantsIn
  <2> QED BY <1>3, <1>4, <1>5, <2>2, <2>3
<1>7. PathsOf(fs') = q.paths /\ GrantsOf(fs') = q.grants /\ exec' = q.exec /\ generic' = q.generic
  <2>1. q.exec \in Seq(ExecEntries)
    BY <1>2, PolParts
  <2>2. << >> \o q.exec = q.exec
    BY <2>1
  <2> QED BY <1>2, <1>6, <2>2
<1>8. LET w == Meaning(fs', exec', generic')
      IN  /\ w \in Policies /\ w.exec = Modes(exec') /\ w.generic = generic'
          /\ PathsIn(w.fs) = PathsOf(fs') /\ GrantsIn(w.fs) = GrantsOf(fs')
  BY <1>1, MeaningParts
<1>9. Policy' = Meaning(fs', exec', generic')
  BY DEF Policy, Meaning, ExecMode
<1> DEFINE w == Policy'
<1>10. /\ w \in Policies /\ w.exec = Modes(exec') /\ w.generic = generic'
       /\ PathsIn(w.fs) = PathsOf(fs') /\ GrantsIn(w.fs) = GrantsOf(fs')
  BY <1>8, <1>9
<1> HIDE DEF w
<1>11. FsSet(w.fs)
  BY <1>10 DEF Policies
<1>12. SameFs(w.fs, q)
  BY <1>7, <1>10 DEF SameFs
<1> QED BY <1>7, <1>10, <1>11, <1>12 DEF w, q

\* When no name needs escaping, the file and the policy in memory agree until a save harms
\* the file.
LEMMA FileAgrees ==
    ASSUME PlainNames
    PROVE  Spec => [](TypeOK /\ Intact)
<1>1. Init => Intact
  <2> SUFFICES ASSUME Init PROVE FileInv
    BY DEF Intact
  <2>1. /\ disk = << >> /\ written = {NoPolicy} /\ fs = << >> /\ exec = << >> /\ generic = {} /\ result = "none"
    BY DEF Init
  <2>2. NoPolicy \in Policies /\ PathsOf(<< >>) = {}
    BY NoPolicyParts DEF PathsOf
  <2>3. /\ disk \in Seq(Plain) /\ FileTraced(disk, written) /\ GenericRefused(disk) /\ written \subseteq Policies
        /\ \E w : written = {w} /\ FileSays(disk, w)
    BY <2>1, <2>2, EmptyFile, Zenon
  <2>4. PathsOf(fs) \subseteq Paths
    BY <2>1, <2>2
  <2> QED BY <2>1, <2>3, <2>4 DEF FileInv
<1>2. TypeOK /\ Intact /\ [Next]_vars => Intact'
  BY FileStep
<1> QED BY <1>1, <1>2, FileTyped, PTL DEF Spec

----------------------------------------
\* Where the file is emptied first or written on the descriptor it was read from, no older
\* text remains behind a new one.
LEMMA NothingRemains ==
    ASSUME OpenModes \subseteq {"trunc", "same"}
    PROVE  Spec => []Covered
<1>1. Init => Covered
  BY DEF Init, Covered
<1>2. TypeOK /\ Covered /\ [Next]_vars => Covered'
  <2> SUFFICES ASSUME TypeOK, Covered, [Next]_vars PROVE "remains" \notin damaged'
    BY DEF Covered
  <2>1. CASE Save
    <3>1. PICK begun \in Begun, cells \in Written : damaged' = damaged \cup Damage(begun, cells)
      BY <2>1 DEF Save
    <3> DEFINE N == Len(begun.base)
               M == Len(cells)
    <3>2. N \in Nat /\ begun.offset \in Nat /\ begun.offset >= N
      <4>1. disk \in Seq(Cells) /\ Len(disk) \in Nat /\ Len(<< >>) = 0 /\ Text \in Seq(Cells)
        BY TextTyped DEF TypeOK, Texts
      <4>2. (habit = "trunc" /\ Base = << >> /\ Offset = 0) \/ (Base = disk /\ Offset = Len(disk))
        BY DEF TypeOK, Base, Offset
      <4>3. Offset \in Nat /\ Len(Base) \in Nat /\ Offset >= Len(Base)
        BY <4>1, <4>2
      <4>4. \/ begun = [base |-> Base, offset |-> Offset]
            \/ \E n \in Nat : begun = [base |-> << >>, offset |-> Offset + n]
        BY <4>1 DEF Begun
      <4> QED BY <4>1, <4>3, <4>4
    <3>3. M \in Nat
      <4>1. Text \in Texts /\ (cells = Text \/ \E n \in DOMAIN Text : cells = RemoveAt(Text, n))
        BY TextTyped DEF Written
      <4>2. cells \in Texts
        BY <4>1, PartTyped
      <4> QED BY <4>2 DEF Texts
    <3> HIDE DEF N, M
    <3>4. ~(N > begun.offset + M)
      BY <3>2, <3>3
    <3>5. "remains" \notin Damage(begun, cells)
      BY <3>4 DEF Damage, N, M
    <3> QED BY <3>1, <3>5 DEF Covered
  <2>2. CASE RestartInSave
    <3>1. damaged' \subseteq damaged \cup {"torn"}
      BY <2>2 DEF RestartInSave
    <3> QED BY <3>1 DEF Covered
  <2>3. CASE Discard
    BY <2>3 DEF Discard
  <2>4. ASSUME damaged' = damaged PROVE "remains" \notin damaged'
    BY <2>4 DEF Covered
  <2> QED BY <2>1, <2>2, <2>3, <2>4, Unharmed
<1> QED BY <1>1, <1>2, FileTyped, PTL DEF Spec

\* What gh_perms_write has written with success, gh_permparser_parse reads back as the same
\* policy, whatever its rules, programs and keys, behind an older copy of itself on the same
\* descriptor and after attempts that failed; or it refuses it, exactly when a program has a
\* mode that is written as a string or the block of a permission system is not known.
THEOREM WrittenPolicyLoads ==
    ASSUME PlainNames, OpenModes \subseteq {"trunc", "same"}
    PROVE  Spec => RoundTrip
<1>1. ASSUME TypeOK, TypeOK', FileInv, Load, Policy = NoPolicy, whole
      PROVE  IF Unreadable THEN result' = "ERROR" ELSE result' = "OK" /\ Policy' \in written
  <2> DEFINE b == Out(registered, disk)
             q == b.pol
  <2>1. PICK w : written = {w} /\ FileSays(disk, w)
    BY <1>1 DEF FileInv
  <2>2. w \in Policies /\ FsSet(w.fs) /\ GenericRefused(disk) /\ registered \in BOOLEAN /\ disk \in Seq(Plain)
    BY <1>1, <2>1 DEF FileInv, Policies, TypeOK
  <2>3. Unreadable <=> Blocked(w.exec) \/ (~registered /\ "generic" \in ToSet(disk))
    BY <2>1 DEF Unreadable, Blocked
  <2>4. result' = (IF Rest(b) THEN "OK" ELSE "ERROR")
    BY <1>1, <2>2, LoadReads
  <2>5. CASE Unreadable
    <3>1. ~Rest(b)
      BY <2>1, <2>2, <2>3, <2>5 DEF FileSays, GenericRefused
    <3> QED BY <2>4, <2>5, <3>1
  <2>6. CASE ~Unreadable
    <3>1. Rest(b) /\ Same(w, q)
      BY <2>1, <2>2, <2>3, <2>6 DEF FileSays
    <3> DEFINE v == Policy'
    <3>2. FsSet(v.fs) /\ SameFs(v.fs, q) /\ v.exec = Modes(q.exec) /\ v.generic = q.generic /\ v \in Policies
      BY <1>1, FreshLoad
    <3> HIDE DEF v, b
    <3>3. v.fs = w.fs
      <4> DEFINE A == v.fs
                 B == w.fs
      <4>1. FsSet(A) /\ FsSet(B) /\ PathsIn(A) = PathsIn(B) /\ GrantsIn(A) = GrantsIn(B)
        BY <2>2, <3>1, <3>2 DEF Same, SameFs
      <4> HIDE DEF A, B
      <4>2. A = B
        BY <4>1, SameEntries
      <4> QED BY <4>2 DEF A, B
    <3>4. v.exec = w.exec /\ v.generic = w.generic
      BY <3>1, <3>2 DEF Same
    <3>5. v = w
      BY <2>2, <3>2, <3>3, <3>4 DEF Policies
    <3> QED BY <2>1, <2>4, <2>6, <3>1, <3>5 DEF v
  <2> QED BY <2>5, <2>6
<1>2. TypeOK /\ Intact /\ Covered /\ TypeOK' /\ [Next]_vars =>
        [Load /\ Policy = NoPolicy /\ whole /\ damaged \subseteq {"remains"} =>
           IF Unreadable THEN result' = "ERROR" ELSE result' = "OK" /\ Policy' \in written]_vars
  <2>1. Covered /\ damaged \subseteq {"remains"} => damaged = {}
    BY DEF Covered
  <2> QED BY <1>1, <2>1 DEF Intact
<1> QED BY <1>2, FileAgrees, NothingRemains, PTL DEF Spec, RoundTrip

\* However the file is opened for saving, whatever fails and wherever an application ends
\* while it saves: until one of the four damages has happened, and wherever the parser stops,
\* a load brings in nothing that was not in a policy that was saved; and when it reports
\* success in a new process, no block is half of one.
THEOREM NothingLoadedUnwritten ==
    ASSUME PlainNames
    PROVE  Spec => LoadsWhatWasWritten
<1> DEFINE Blocks == \A block \in DOMAIN NoPolicy : Policy'[block] \in {p[block] : p \in written \cup {NoPolicy}}
<1>1. ASSUME TypeOK, TypeOK', FileInv, Load PROVE NothingInvented
  <2> DEFINE q == Out(registered, disk).pol
             now == Policy
             then == Policy'
  <2>1. /\ fs \in Seq(FsEntries) /\ exec \in Seq(ExecEntries) /\ generic \subseteq Keys /\ OnePerPath(fs)
        /\ fs' \in Seq(FsEntries) /\ exec' \in Seq(ExecEntries) /\ generic' \subseteq Keys /\ OnePerPath(fs')
        /\ disk \in Seq(Plain) /\ registered \in BOOLEAN /\ written \subseteq Policies
    BY <1>1 DEF TypeOK, OnePerPath, FileInv
  <2>2. q \in Pols /\ GrantsOf(fs') = GrantsOf(fs) \cup q.grants /\ exec' = exec \o q.exec
    BY <1>1, <2>1, LoadReads
  <2>3. Traced(registered, q, written)
    BY <1>1, <2>1 DEF FileInv, FileTraced
  <2>4. /\ now.fs \subseteq FsEntries /\ GrantsIn(now.fs) = GrantsOf(fs)
        /\ \A h \in Hashes : now.exec[h] = ExecMode(exec, h)
    BY <2>1, MeaningParts DEF Policy, Policies
  <2>5. /\ then.fs \subseteq FsEntries /\ GrantsIn(then.fs) = GrantsOf(fs')
        /\ \A h \in Hashes : then.exec[h] = ExecMode(exec', h)
    <3> DEFINE w == Meaning(fs', exec', generic')
    <3>1. then = w
      BY DEF Policy, Meaning, ExecMode
    <3>2. w \in Policies /\ GrantsIn(w.fs) = GrantsOf(fs') /\ \A h \in Hashes : w.exec[h] = ExecMode(exec', h)
      BY <2>1, MeaningParts
    <3> HIDE DEF w, then
    <3> QED BY <3>1, <3>2 DEF Policies
  <2> HIDE DEF q, now, then
  <2>6. Grants(now) = GrantsOf(fs) /\ Grants(then) = GrantsOf(fs) \cup q.grants
    BY <2>2, <2>4, <2>5, GrantsAreIn
  <2>7. ASSUME NEW g \in q.grants PROVE g \in UNION {Grants(p) : p \in written}
    <3>1. PICK w \in written : g \in GrantsIn(w.fs)
      BY <2>3 DEF Traced
    <3>2. w.fs \subseteq FsEntries
      BY <2>1 DEF Policies
    <3>3. g \in Grants(w)
      BY <3>1, <3>2, GrantsAreIn
    <3> QED BY <3>1, <3>3
  <2>8. ASSUME NEW h \in Hashes, now.exec[h] = "none"
        PROVE  then.exec[h] \in {"none", DefaultMode} \cup {p.exec[h] : p \in written}
    <3>1. q.exec \in Seq(ExecEntries)
      BY <2>2, PolParts
    <3>2. ExecMode(exec', h) = ExecMode(q.exec, h)
      BY <2>1, <2>2, <2>4, <2>8, <3>1, ModesJoined
    <3>3. ExecMode(q.exec, h) \in {"none", DefaultMode} \/ \E w \in written : ExecMode(q.exec, h) = w.exec[h]
      BY <2>3 DEF Traced
    <3> QED BY <2>5, <3>2, <3>3
  <2>9. Grants(then) \subseteq Grants(now) \cup UNION {Grants(p) : p \in written}
    BY <2>6, <2>7
  <2> QED BY <2>8, <2>9 DEF NothingInvented, now, then
<1>2. ASSUME TypeOK, TypeOK', FileInv, Load, Policy = NoPolicy, result' = "OK" PROVE Blocks
  <2> DEFINE b == Out(registered, disk)
             q == b.pol
             v == Policy'
             W == written \cup {NoPolicy}
  <2>1. registered \in BOOLEAN /\ disk \in Seq(Plain) /\ W \subseteq Policies
    BY <1>2, NoPolicyParts DEF FileInv, TypeOK
  <2>2. result' = (IF Rest(b) THEN "OK" ELSE "ERROR")
    BY <1>2, <2>1, LoadReads
  <2>3. ByBlocks(q, W)
    BY <1>2, <2>1, <2>2 DEF FileInv, FileTraced
  <2>4. FsSet(v.fs) /\ SameFs(v.fs, q) /\ v.exec = Modes(q.exec) /\ v.generic = q.generic
    BY <1>2, FreshLoad
  <2>5. DOMAIN NoPolicy = {"fs", "exec", "generic"}
    BY DEF NoPolicy, Meaning
  <2> HIDE DEF q, v, W
  <2>6. \E p \in W : v.fs = p.fs
    <3>1. PICK p \in W : SameFs(p.fs, q)
      BY <2>3 DEF ByBlocks
    <3> DEFINE A == v.fs
               B == p.fs
    <3>2. FsSet(A) /\ FsSet(B) /\ PathsIn(A) = PathsIn(B) /\ GrantsIn(A) = GrantsIn(B)
      BY <2>1, <2>4, <3>1 DEF SameFs, Policies
    <3> HIDE DEF A, B
    <3>3. A = B
      BY <3>2, SameEntries
    <3> QED BY <3>3 DEF A, B
  <2>7. (\E p \in W : v.exec = p.exec) /\ (\E p \in W : v.generic = p.generic)
    BY <2>3, <2>4 DEF ByBlocks
  <2>8. \A block \in {"fs", "exec", "generic"} : v[block] \in {p[block] : p \in W}
    BY <2>6, <2>7
  <2> QED BY <2>5, <2>8 DEF v, W
<1>3. TypeOK /\ Intact /\ TypeOK' /\ [Next]_vars =>
        [Load /\ damaged = {} =>
           /\ NothingInvented
           /\ Policy = NoPolicy /\ result' = "OK" => Blocks]_vars
  BY <1>1, <1>2 DEF Intact
<1> QED BY <1>3, FileAgrees, PTL DEF Spec, LoadsWhatWasWritten
=============================================================================
