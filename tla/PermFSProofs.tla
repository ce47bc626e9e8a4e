---------------------------- MODULE PermFSProofs ----------------------------
(***************************************************************************)
(* Theorems about PermFS, for every set of flags, paths and rules.         *)
(***************************************************************************)
EXTENDS PermFS, WellFoundedInduction, TLAPS

\* The entries of es are still there in ft, in place, with modes that have only
\* been added to.
Grows(es, ft) ==
    /\ Len(es) <= Len(ft)
    /\ \A i \in 1 .. Len(es) :
          /\ ft[i].path = es[i].path
          /\ es[i].self.reject \subseteq ft[i].self.reject
          /\ es[i].self.accept \subseteq ft[i].self.accept
          /\ es[i].self.prompt \subseteq ft[i].self.prompt
          /\ es[i].children.reject \subseteq ft[i].children.reject
          /\ es[i].children.accept \subseteq ft[i].children.accept
          /\ es[i].children.prompt \subseteq ft[i].children.prompt

\* Join is an upper bound of its arguments and stays within the modesets.
LEMMA JoinBounds ==
    ASSUME NEW a \in Modesets, NEW b \in Modesets
    PROVE  /\ Join(a, b) \in Modesets
           /\ a.reject \subseteq Join(a, b).reject /\ b.reject \subseteq Join(a, b).reject
           /\ a.accept \subseteq Join(a, b).accept /\ b.accept \subseteq Join(a, b).accept
           /\ a.prompt \subseteq Join(a, b).prompt /\ b.prompt \subseteq Join(a, b).prompt
BY DEF Join, Modesets

\* The modesets that a remembered answer writes.
LEMMA SimpleModesets ==
    ASSUME NEW mode \in SUBSET Flags
    PROVE  /\ Empty \in Modesets
           /\ Accepting(mode) \in Modesets /\ Accepting(mode).accept = mode
           /\ Rejecting(mode) \in Modesets /\ Rejecting(mode).reject = mode
BY DEF Empty, Accepting, Rejecting, Modesets

\* IndexOf finds an entry of the path when there is one.
LEMMA IndexFound ==
    ASSUME NEW es \in Seq(Entries), NEW path, HasEntry(es, path)
    PROVE  IndexOf(es, path) \in 1 .. Len(es) /\ es[IndexOf(es, path)].path = path
BY DEF HasEntry, IndexOf

\* gh_permfs_add on a path that has an entry, spelled out.
LEMMA AddMerges ==
    ASSUME NEW es \in Seq(Entries), NEW path \in Paths,
           NEW self \in Modesets, NEW kids \in Modesets,
           HasEntry(es, path), NEW ft, ft = AddTo(es, path, self, kids),
           NEW k, k = IndexOf(es, path)
    PROVE  /\ ft \in Seq(Entries) /\ Len(ft) = Len(es) /\ k \in 1 .. Len(es)
           /\ \A i \in 1 .. Len(es) : i # k => ft[i] = es[i]
           /\ ft[k].path = es[k].path /\ es[k].path = path
           /\ ft[k].self = Join(Join(es[k].self, self), kids)
           /\ ft[k].children = es[k].children
<1>1. k \in 1 .. Len(es) /\ es[k].path = path
  BY IndexFound
<1>2. es[k] \in Entries
  BY <1>1
<1>3. Join(Join(es[k].self, self), kids) \in Modesets
  BY <1>2, JoinBounds DEF Entries
<1>4. ft = [es EXCEPT ![k] = [es[k] EXCEPT !.self = Join(Join(es[k].self, self), kids)]]
  BY DEF AddTo
<1> DEFINE new == [es[k] EXCEPT !.self = Join(Join(es[k].self, self), kids)]
<1>5. /\ new \in Entries
      /\ new.path = es[k].path /\ new.self = Join(Join(es[k].self, self), kids)
      /\ new.children = es[k].children
  BY <1>2, <1>3 DEF Entries
<1> HIDE DEF new
<1>6. ft = [es EXCEPT ![k] = new]
  BY <1>4 DEF new
<1>7. ft \in Seq(Entries) /\ Len(ft) = Len(es)
  BY <1>1, <1>5, <1>6
<1> QED BY <1>1, <1>5, <1>6, <1>7

\* gh_permfs_add on a path without an entry, spelled out.
LEMMA AddAppends ==
    ASSUME NEW es \in Seq(Entries), NEW path \in Paths,
           NEW self \in Modesets, NEW kids \in Modesets,
           ~HasEntry(es, path), NEW ft, ft = AddTo(es, path, self, kids)
    PROVE  /\ ft \in Seq(Entries) /\ Len(ft) = Len(es) + 1
           /\ \A i \in 1 .. Len(es) : ft[i] = es[i]
           /\ ft[Len(ft)].path = path /\ ft[Len(ft)].self = self
           /\ ft[Len(ft)].children = kids
<1> DEFINE new == [path |-> path, self |-> self, children |-> kids]
<1>1. new \in Entries /\ new.path = path /\ new.self = self /\ new.children = kids
  BY DEF Entries
<1>2. ft = Append(es, new)
  BY DEF AddTo
<1> HIDE DEF new
<1> QED BY <1>1, <1>2

\* Whatever gh_permfs_add is given, the list only grows, and the path's own
\* entry takes the flags.
LEMMA AddGrows ==
    ASSUME NEW es \in Seq(Entries), NEW path \in Paths,
           NEW self \in Modesets, NEW kids \in Modesets,
           NEW ft, ft = AddTo(es, path, self, kids)
    PROVE  /\ ft \in Seq(Entries) /\ Grows(es, ft)
           /\ \E k \in 1 .. Len(ft) : /\ ft[k].path = path
                                      /\ self.reject \subseteq ft[k].self.reject
                                      /\ self.accept \subseteq ft[k].self.accept
<1>1. CASE HasEntry(es, path)
  <2> DEFINE k == IndexOf(es, path)
             mid == Join(es[k].self, self)
  <2>1. /\ ft \in Seq(Entries) /\ Len(ft) = Len(es) /\ k \in 1 .. Len(es)
        /\ \A i \in 1 .. Len(es) : i # k => ft[i] = es[i]
        /\ ft[k].path = es[k].path /\ es[k].path = path
        /\ ft[k].self = Join(mid, kids)
        /\ ft[k].children = es[k].children
    BY <1>1, AddMerges
  <2>2. es[k].self \in Modesets
    <3>1. es[k] \in Entries
      BY <2>1
    <3> QED BY <3>1 DEF Entries
  <2>3. /\ mid \in Modesets
        /\ es[k].self.reject \subseteq mid.reject /\ self.reject \subseteq mid.reject
        /\ es[k].self.accept \subseteq mid.accept /\ self.accept \subseteq mid.accept
        /\ es[k].self.prompt \subseteq mid.prompt
    BY <2>2, JoinBounds
  <2>4. /\ mid.reject \subseteq ft[k].self.reject
        /\ mid.accept \subseteq ft[k].self.accept
        /\ mid.prompt \subseteq ft[k].self.prompt
    BY <2>1, <2>3, JoinBounds
  <2> HIDE DEF k, mid
  <2>5. Grows(es, ft)
    BY <2>1, <2>3, <2>4 DEF Grows
  <2> QED BY <2>1, <2>3, <2>4, <2>5
<1>2. CASE ~HasEntry(es, path)
  <2>1. /\ ft \in Seq(Entries) /\ Len(ft) = Len(es) + 1
        /\ \A i \in 1 .. Len(es) : ft[i] = es[i]
        /\ ft[Len(ft)].path = path /\ ft[Len(ft)].self = self
    BY <1>2, AddAppends
  <2> QED BY <2>1 DEF Grows
<1> QED BY <1>1, <1>2

\* A policy file's entry only adds to the list as well.
LEMMA LoadGrows ==
    ASSUME NEW es \in Seq(Entries), NEW path \in Paths,
           NEW self \in Modesets, NEW kids \in Modesets,
           NEW ft, ft = LoadInto(es, path, self, kids)
    PROVE  ft \in Seq(Entries) /\ Grows(es, ft)
<1> DEFINE found == AddTo(es, path, Empty, Empty)
           k == IndexOf(found, path)
<1>1. Empty \in Modesets
  BY SimpleModesets
<1>2. found \in Seq(Entries) /\ Grows(es, found) /\ HasEntry(found, path)
  BY <1>1, AddGrows DEF HasEntry
<1>3. ft = [found EXCEPT ![k].self = Join(@, self), ![k].children = Join(@, kids)]
  BY DEF LoadInto
<1> HIDE DEF found
<1>4. k \in 1 .. Len(found) /\ found[k].path = path
  BY <1>2, IndexFound
<1> HIDE DEF k
<1>5. found[k] \in Entries
  BY <1>2, <1>4
<1> DEFINE new == [found[k] EXCEPT !.self = Join(found[k].self, self),
                                   !.children = Join(found[k].children, kids)]
<1>6. /\ found[k].self \in Modesets /\ found[k].children \in Modesets
  BY <1>5 DEF Entries
<1>7. /\ Join(found[k].self, self) \in Modesets
      /\ Join(found[k].children, kids) \in Modesets
      /\ found[k].self.reject \subseteq Join(found[k].self, self).reject
      /\ found[k].self.accept \subseteq Join(found[k].self, self).accept
      /\ found[k].self.prompt \subseteq Join(found[k].self, self).prompt
      /\ found[k].children.reject \subseteq Join(found[k].children, kids).reject
      /\ found[k].children.accept \subseteq Join(found[k].children, kids).accept
      /\ found[k].children.prompt \subseteq Join(found[k].children, kids).prompt
  BY <1>6, JoinBounds
<1>8. /\ new \in Entries /\ new.path = found[k].path
      /\ new.self = Join(found[k].self, self)
      /\ new.children = Join(found[k].children, kids)
  BY <1>5, <1>7 DEF Entries
<1>9. ft = [found EXCEPT ![k] = new]
  BY <1>2, <1>3, <1>4, <1>5 DEF Entries
<1> HIDE DEF new
<1>10. ft \in Seq(Entries) /\ Len(ft) = Len(found)
  BY <1>2, <1>4, <1>8, <1>9
<1>11. Grows(found, ft)
  BY <1>2, <1>4, <1>7, <1>8, <1>9, <1>10 DEF Grows
<1>12. Grows(es, ft)
  BY <1>2, <1>10, <1>11 DEF Grows
<1> QED BY <1>10, <1>12

\* What a path's lookup rejects, accepts and leaves to the prompt grows with the list.
LEMMA LookupGrows ==
    ASSUME NEW es \in Seq(Entries), NEW ft \in Seq(Entries), Grows(es, ft), NEW path
    PROVE  /\ SelfModeset(es, path).reject \subseteq SelfModeset(ft, path).reject
           /\ SelfModeset(es, path).accept \subseteq SelfModeset(ft, path).accept
           /\ SelfModeset(es, path).prompt \subseteq SelfModeset(ft, path).prompt
<1>1. \A i \in 1 .. Len(es) :
        /\ i \in 1 .. Len(ft)
        /\ Contribution(es[i], path).reject \subseteq Contribution(ft[i], path).reject
        /\ Contribution(es[i], path).accept \subseteq Contribution(ft[i], path).accept
        /\ Contribution(es[i], path).prompt \subseteq Contribution(ft[i], path).prompt
  BY DEF Grows, Contribution
<1> QED BY <1>1 DEF SelfModeset, Union

\* What the entry of a path says of the node itself, the lookup of the path sees.
LEMMA LookupSees ==
    ASSUME NEW ft \in Seq(Entries), NEW k \in 1 .. Len(ft)
    PROVE  /\ ft[k].self.reject \subseteq SelfModeset(ft, ft[k].path).reject
           /\ ft[k].self.accept \subseteq SelfModeset(ft, ft[k].path).accept
BY DEF SelfModeset, Union, Contribution

\* So what gh_permfs_add is given for a node, the next lookup of the node sees.
LEMMA AddTakes ==
    ASSUME NEW es \in Seq(Entries), NEW path \in Paths,
           NEW self \in Modesets, NEW kids \in Modesets,
           NEW ft, ft = AddTo(es, path, self, kids)
    PROVE  /\ self.reject \subseteq SelfModeset(ft, path).reject
           /\ self.accept \subseteq SelfModeset(ft, path).accept
<1>1. ft \in Seq(Entries)
  BY AddGrows
<1>2. CASE HasEntry(es, path)
  <2> DEFINE k == IndexOf(es, path)
             mid == Join(es[k].self, self)
  <2>1. /\ Len(ft) = Len(es) /\ k \in 1 .. Len(es) /\ ft[k].path = path
        /\ ft[k].self = Join(mid, kids)
    BY <1>2, AddMerges
  <2>2. es[k] \in Entries
    BY <2>1
  <2>3. mid \in Modesets /\ self.reject \subseteq mid.reject /\ self.accept \subseteq mid.accept
    BY <2>2, JoinBounds DEF Entries
  <2> HIDE DEF k, mid
  <2>4. self.reject \subseteq ft[k].self.reject /\ self.accept \subseteq ft[k].self.accept
    BY <2>1, <2>3, JoinBounds
  <2> QED BY <1>1, <2>1, <2>4, LookupSees
<1>3. CASE ~HasEntry(es, path)
  <2>1. Len(ft) \in 1 .. Len(ft) /\ ft[Len(ft)].path = path /\ ft[Len(ft)].self = self
    BY <1>3, AddAppends
  <2> QED BY <1>1, <2>1, LookupSees
<1> QED BY <1>2, <1>3

-----------------------------------------------------------------------------
(***************************************************************************)
(* Type correctness                                                        *)
(***************************************************************************)

\* permfs_actmode returns one of three results and a set of known flags.
LEMMA ActmodeTyped ==
    ASSUME NEW m \in Modesets, NEW mode \in SUBSET Flags
    PROVE  /\ actmode(m, mode).res \in {"OK", "REJECTEDPOLICY", "REJECTEDPROMPT"}
           /\ actmode(m, mode).rejected \in SUBSET Flags
BY DEF actmode, Modesets

\* A lookup returns sets of known flags.
LEMMA UnionTyped ==
    ASSUME NEW es \in Seq(Entries), NEW path, NEW I \in SUBSET (1 .. Len(es))
    PROVE  Union(es, path, I) \in Modesets
<1>1. \A i \in I : Contribution(es[i], path) \in Modesets
  <2> SUFFICES ASSUME NEW i \in I PROVE Contribution(es[i], path) \in Modesets
    OBVIOUS
  <2>1. es[i] \in Entries
    OBVIOUS
  <2>2. es[i].self \in Modesets /\ es[i].children \in Modesets
    BY <2>1 DEF Entries
  <2> QED BY <2>2, SimpleModesets DEF Contribution
<1> QED BY <1>1 DEF Union, Modesets

\* The same of the two modesets that gh_permfs_getmode hands out.
LEMMA LookupTyped ==
    ASSUME NEW es \in Seq(Entries), NEW path
    PROVE  /\ SelfModeset(es, path) \in Modesets
           /\ ChildrenModeset(es, path) \in Modesets
<1>1. SelfModeset(es, path) \in Modesets
  BY UnionTyped DEF SelfModeset
<1> DEFINE UpToLast == {i \in 1 .. Len(es) : \E j \in i .. Len(es) : Below(es[j].path, path)}
           Later == {i \in 1 .. Len(es) \ UpToLast : es[i].path = path}
           more == [reject |-> UNION {es[i].children.reject : i \in Later},
                    accept |-> UNION {es[i].children.accept : i \in Later},
                    prompt |-> UNION {es[i].children.prompt : i \in Later}]
<1>2. Union(es, path, UpToLast) \in Modesets
  BY UnionTyped
<1>3. more \in Modesets
  <2>1. Later \subseteq 1 .. Len(es)
    OBVIOUS
  <2> HIDE DEF Later
  <2>2. \A i \in Later : es[i] \in Entries
    BY <2>1
  <2>3. \A i \in Later : es[i].children \in Modesets
    BY <2>2 DEF Entries
  <2> QED BY <2>3 DEF Modesets
<1>4. ChildrenModeset(es, path) = Join(Union(es, path, UpToLast), more)
  BY DEF ChildrenModeset
<1>5. ChildrenModeset(es, path) \in Modesets
  <2> HIDE DEF UpToLast, more
  <2> QED BY <1>2, <1>3, <1>4, JoinBounds
<1> QED BY <1>1, <1>5

\* Every modeset the host or a policy file adds is one.
LEMMA RuleTyped ==
    ASSUME NEW rule \in Rules
    PROVE  rule.self \in Modesets /\ rule.children \in Modesets
BY RulesAssumption

\* A question, and the outcome it ends in, are well formed.
LEMMA QuestionTyped ==
    ASSUME NEW op \in Operations, NEW path \in Paths,
           NEW self \in SUBSET Flags, NEW kids \in SUBSET Flags,
           NEW shownSelf \in SUBSET Flags, NEW shownKids \in SUBSET Flags
    PROVE  Question(op, path, self, kids, shownSelf, shownKids) \in Questions
BY DEF Question, Questions

\* The answer recorded for a question is an outcome of gh_permfs_gatefile.
LEMMA OutcomeTyped ==
    ASSUME NEW q \in Questions, NEW result \in Results
    PROVE  Outcome(q, result) \in Outcomes
BY DEF Outcome, Outcomes, Questions

\* While a prompt is open the state holds a well formed question.
LEMMA AskingTyped ==
    ASSUME TypeOK, Asking
    PROVE  pending \in Questions
BY DEF TypeOK, Asking, NoPrompt

\* An operation that ends at once keeps the state well formed.
LEMMA ReturnTyped ==
    ASSUME TypeOK, StartOp, NEW op \in Operations, NEW path \in Paths,
           NEW self \in SUBSET Flags, NEW kids \in SUBSET Flags, NEW result \in Results,
           Return(op, path, self, kids, result)
    PROVE  TypeOK'
<1>1. outcome' \in Outcomes
  BY QuestionTyped, OutcomeTyped DEF Return
<1> QED BY <1>1, OpsAssumption DEF TypeOK, StartOp, Return

\* An operation that opens a prompt keeps the state well formed.
LEMMA AskTyped ==
    ASSUME TypeOK, StartOp, NEW op \in Operations, NEW path \in Paths,
           NEW self \in SUBSET Flags, NEW kids \in SUBSET Flags,
           NEW shownSelf \in SUBSET Flags, NEW shownKids \in SUBSET Flags,
           Ask(op, path, self, kids, shownSelf, shownKids)
    PROVE  TypeOK'
<1>1. pending' \in Questions
  BY QuestionTyped DEF Ask
<1> QED BY <1>1, OpsAssumption DEF TypeOK, StartOp, Ask

\* The entries after a step: typed, and grown.
LEMMA EntriesGrow ==
    ASSUME TypeOK, [Next]_vars
    PROVE  entries' \in Seq(Entries) /\ Grows(entries, entries')
<1>0. entries \in Seq(Entries) /\ Grows(entries, entries)
  BY DEF TypeOK, Grows
<1>1. ASSUME NEW path \in Paths, NEW rule \in Rules, Add(path, rule)
      PROVE  entries' \in Seq(Entries) /\ Grows(entries, entries')
  BY <1>0, <1>1, RuleTyped, AddGrows DEF Add
<1>2. ASSUME NEW path \in Paths, NEW rule \in Rules, Load(path, rule)
      PROVE  entries' \in Seq(Entries) /\ Grows(entries, entries')
  BY <1>0, <1>2, RuleTyped, LoadGrows DEF Load
<1>3. ASSUME NEW verdict \in Verdicts, AnswerRemember(verdict)
      PROVE  entries' \in Seq(Entries) /\ Grows(entries, entries')
  <2>1. pending \in Questions
    BY <1>3, AskingTyped DEF AnswerRemember
  <2>2. /\ pending.path \in Paths
        /\ pending.shownSelf \in SUBSET Flags /\ pending.shownKids \in SUBSET Flags
    BY <2>1 DEF Questions
  <2>3. CASE verdict = "accept"
    BY <1>0, <1>3, <2>2, <2>3, SimpleModesets, AddGrows DEF AnswerRemember
  <2>4. CASE verdict # "accept"
    BY <1>0, <1>3, <2>2, <2>4, SimpleModesets, AddGrows DEF AnswerRemember
  <2> QED BY <2>3, <2>4
<1>4. ASSUME NEW path \in Paths, NEW mode \in SUBSET Flags, GateFile(path, mode)
      PROVE  entries' = entries
  BY <1>4 DEF GateFile, Return, Ask
<1>5. ASSUME NEW path \in Paths, NEW self \in SUBSET Flags, NEW kids \in SUBSET Flags,
             NEW dry \in BOOLEAN, RequestNode(path, self, kids, dry)
      PROVE  entries' = entries
  BY <1>5 DEF RequestNode, Return, Ask
<1>6. ASSUME \/ \E answer \in Answers : AnswerOnce(answer)
             \/ RememberFails \/ Done \/ UNCHANGED vars
      PROVE  entries' = entries
  BY <1>6 DEF AnswerOnce, RememberFails, Done, vars
<1> QED BY <1>0, <1>1, <1>2, <1>3, <1>4, <1>5, <1>6 DEF Next

\* Every step of gh_permfs keeps its state well formed.
LEMMA TypeStep ==
    ASSUME TypeOK, [Next]_vars
    PROVE  TypeOK'
<1>0. entries' \in Seq(Entries)
  BY EntriesGrow
<1>1. ASSUME NEW path \in Paths, NEW rule \in Rules, Add(path, rule) \/ Load(path, rule)
      PROVE  TypeOK'
  BY <1>0, <1>1, OpsAssumption DEF TypeOK, Add, Load, StartOp
<1>2. ASSUME NEW path \in Paths, NEW mode \in SUBSET Flags, GateFile(path, mode)
      PROVE  TypeOK'
  <2> DEFINE verdict == actmode(SelfModeset(entries, path), mode)
  <2>1. /\ verdict.res \in {"OK", "REJECTEDPOLICY", "REJECTEDPROMPT"}
        /\ verdict.rejected \in SUBSET Flags
    BY LookupTyped, ActmodeTyped DEF TypeOK
  <2>2. \/ \E result \in Results : Return("gate", path, mode, {}, result)
        \/ Ask("gate", path, mode, {}, verdict.rejected, {})
    <3> HIDE DEF verdict
    <3>1. verdict.res \in Results /\ "BADTYPE" \in Results
      BY <2>1 DEF Results
    <3> QED BY <1>2, <3>1 DEF GateFile, verdict
  <2> HIDE DEF verdict
  <2>3. "gate" \in Operations /\ {} \in SUBSET Flags /\ StartOp
    BY <1>2 DEF Operations, GateFile
  <2> QED BY <2>1, <2>2, <2>3, ReturnTyped, AskTyped
<1>3. ASSUME NEW path \in Paths, NEW self \in SUBSET Flags, NEW kids \in SUBSET Flags,
             NEW dry \in BOOLEAN, RequestNode(path, self, kids, dry)
      PROVE  TypeOK'
  <2> DEFINE askSelf == LeftToAsk(SelfModeset(entries, path), self)
             askKids == LeftToAsk(ChildrenModeset(entries, path), kids)
  <2>1. askSelf \in SUBSET Flags /\ askKids \in SUBSET Flags
    BY LookupTyped, ActmodeTyped DEF TypeOK, LeftToAsk
  <2>2. \/ \E result \in Results : Return("request", path, self, kids, result)
        \/ Ask("request", path, self, kids, askSelf, askKids)
    BY <1>3, Zenon DEF RequestNode, Results
  <2> HIDE DEF askSelf, askKids
  <2>3. "request" \in Operations /\ StartOp
    BY <1>3 DEF Operations, RequestNode
  <2> QED BY <2>1, <2>2, <2>3, ReturnTyped, AskTyped
<1>4. ASSUME NEW answer \in Answers, AnswerOnce(answer)
      PROVE  TypeOK'
  <2>1. answer[2] \in Results
    BY DEF Answers, Results
  <2>2. outcome' \in Outcomes
    BY <1>4, <2>1, AskingTyped, OutcomeTyped DEF AnswerOnce
  <2> QED BY <1>4, <2>2 DEF AnswerOnce, TypeOK
<1>5. ASSUME NEW verdict \in Verdicts, AnswerRemember(verdict)
      PROVE  TypeOK'
  <2>1. pending \in Questions
    BY <1>5, AskingTyped DEF AnswerRemember
  <2>2. (IF verdict = "accept" THEN "OK" ELSE "REJECTEDUSER") \in Results
    BY DEF Results
  <2>3. outcome' \in Outcomes
    BY <1>5, <2>1, <2>2, OutcomeTyped DEF AnswerRemember
  <2>4. DecisionsOf(pending, verdict) \subseteq Decisions
    BY <2>1 DEF DecisionsOf, Decisions, Scopes, Questions
  <2> QED BY <1>0, <1>5, <2>3, <2>4 DEF AnswerRemember, TypeOK
<1>6. CASE RememberFails
  <2>1. outcome' \in Outcomes
    BY <1>6, AskingTyped, OutcomeTyped DEF RememberFails, Results
  <2> QED BY <1>6, <2>1 DEF RememberFails, TypeOK
<1>7. CASE Done \/ UNCHANGED vars
  BY <1>7 DEF Done, vars, TypeOK
<1> QED BY <1>1, <1>2, <1>3, <1>4, <1>5, <1>6, <1>7 DEF Next

\* The state of gh_permfs is well formed in every behaviour: the list holds
\* entries, an open prompt a question about known flags, and every call returns
\* one of the results the header names.
THEOREM PolicyTyped == Spec => []TypeOK
<1>1. Init => TypeOK
  BY OpsAssumption DEF Init, TypeOK
<1>2. TypeOK /\ [Next]_vars => TypeOK'
  BY TypeStep
<1> QED BY <1>1, <1>2, PTL DEF Spec

-----------------------------------------------------------------------------
(***************************************************************************)
(* The policy only grows                                                   *)
(***************************************************************************)

\* No call of gh_permfs_add, no policy file and no answer withdraws a rejection
\* or an acceptance that applies to a node.
THEOREM OnlyGrows == Spec => PolicyOnlyGrows
<1>1. TypeOK /\ [Next]_vars =>
        [\A path \in Paths :
           /\ SelfModeset(entries, path).reject \subseteq SelfModeset(entries', path).reject
           /\ SelfModeset(entries, path).accept \subseteq SelfModeset(entries', path).accept]_vars
  BY EntriesGrow, LookupGrows DEF TypeOK
<1> QED BY <1>1, PolicyTyped, PTL DEF Spec, PolicyOnlyGrows

-----------------------------------------------------------------------------
(***************************************************************************)
(* One entry per path                                                      *)
(***************************************************************************)

\* gh_permfs_add keeps the paths of the list distinct.
LEMMA AddKeepsDistinct ==
    ASSUME NEW es \in Seq(Entries), NEW path \in Paths,
           NEW self \in Modesets, NEW kids \in Modesets,
           NEW ft, ft = AddTo(es, path, self, kids),
           \A i, j \in 1 .. Len(es) : es[i].path = es[j].path => i = j
    PROVE  \A i, j \in 1 .. Len(ft) : ft[i].path = ft[j].path => i = j
<1>1. CASE HasEntry(es, path)
  <2>1. Len(ft) = Len(es) /\ \A i \in 1 .. Len(es) : ft[i].path = es[i].path
    BY <1>1, AddMerges
  <2> QED BY <2>1
<1>2. CASE ~HasEntry(es, path)
  <2>1. /\ Len(ft) = Len(es) + 1 /\ \A i \in 1 .. Len(es) : ft[i] = es[i]
        /\ ft[Len(ft)].path = path
    BY <1>2, AddAppends
  <2>2. \A i \in 1 .. Len(es) : ft[i].path # path
    BY <1>2, <2>1 DEF HasEntry
  <2> QED BY <2>1, <2>2
<1> QED BY <1>1, <1>2

\* So does the parser, which goes through gh_permfs_add and then writes to the
\* entry it got.
LEMMA LoadKeepsDistinct ==
    ASSUME NEW es \in Seq(Entries), NEW path \in Paths,
           NEW self \in Modesets, NEW kids \in Modesets,
           NEW ft, ft = LoadInto(es, path, self, kids),
           \A i, j \in 1 .. Len(es) : es[i].path = es[j].path => i = j
    PROVE  \A i, j \in 1 .. Len(ft) : ft[i].path = ft[j].path => i = j
<1> DEFINE found == AddTo(es, path, Empty, Empty)
           k == IndexOf(found, path)
<1>1. Empty \in Modesets
  BY SimpleModesets
<1>2. found \in Seq(Entries) /\ HasEntry(found, path)
  BY <1>1, AddGrows DEF HasEntry
<1>3. \A i, j \in 1 .. Len(found) : found[i].path = found[j].path => i = j
  BY <1>1, AddKeepsDistinct
<1>4. ft = [found EXCEPT ![k].self = Join(@, self), ![k].children = Join(@, kids)]
  BY DEF LoadInto
<1> HIDE DEF found
<1>5. k \in 1 .. Len(found)
  BY <1>2, IndexFound
<1> HIDE DEF k
<1>6. found[k] \in Entries
  BY <1>2, <1>5
<1>7. Len(ft) = Len(found) /\ \A i \in 1 .. Len(found) : ft[i].path = found[i].path
  BY <1>2, <1>4, <1>5, <1>6 DEF Entries
<1> QED BY <1>3, <1>7

\* The policy never holds two entries for one path, so the entry that
\* gh_permfs_add finds is the only one there is to merge into.
THEOREM OneEntry == Spec => []OneEntryPerPath
<1>1. Init => OneEntryPerPath
  BY DEF Init, OneEntryPerPath
<1>2. TypeOK /\ OneEntryPerPath /\ [Next]_vars => OneEntryPerPath'
  <2> SUFFICES ASSUME TypeOK, OneEntryPerPath, [Next]_vars
               PROVE  OneEntryPerPath'
    OBVIOUS
  <2>0. /\ entries \in Seq(Entries)
        /\ \A i, j \in 1 .. Len(entries) : entries[i].path = entries[j].path => i = j
    BY DEF TypeOK, OneEntryPerPath
  <2>1. ASSUME NEW path \in Paths, NEW rule \in Rules, Add(path, rule)
        PROVE  OneEntryPerPath'
    BY <2>0, <2>1, RuleTyped, AddKeepsDistinct DEF Add, OneEntryPerPath
  <2>2. ASSUME NEW path \in Paths, NEW rule \in Rules, Load(path, rule)
        PROVE  OneEntryPerPath'
    BY <2>0, <2>2, RuleTyped, LoadKeepsDistinct DEF Load, OneEntryPerPath
  <2>3. ASSUME NEW verdict \in Verdicts, AnswerRemember(verdict)
        PROVE  OneEntryPerPath'
    <3>1. pending \in Questions
      BY <2>3, AskingTyped DEF AnswerRemember
    <3>2. /\ pending.path \in Paths
          /\ pending.shownSelf \in SUBSET Flags /\ pending.shownKids \in SUBSET Flags
      BY <3>1 DEF Questions
    <3>3. CASE verdict = "accept"
      BY <2>0, <2>3, <3>2, <3>3, SimpleModesets, AddKeepsDistinct
      DEF AnswerRemember, OneEntryPerPath
    <3>4. CASE verdict # "accept"
      BY <2>0, <2>3, <3>2, <3>4, SimpleModesets, AddKeepsDistinct
      DEF AnswerRemember, OneEntryPerPath
    <3> QED BY <3>3, <3>4
  <2>4. ASSUME entries' = entries PROVE OneEntryPerPath'
    BY <2>4 DEF OneEntryPerPath
  <2>5. ASSUME NEW path \in Paths, NEW mode \in SUBSET Flags, GateFile(path, mode)
        PROVE  entries' = entries
    BY <2>5 DEF GateFile, Return, Ask
  <2>6. ASSUME NEW path \in Paths, NEW self \in SUBSET Flags, NEW kids \in SUBSET Flags,
               NEW dry \in BOOLEAN, RequestNode(path, self, kids, dry)
        PROVE  entries' = entries
    BY <2>6 DEF RequestNode, Return, Ask
  <2>7. ASSUME \/ \E answer \in Answers : AnswerOnce(answer)
               \/ RememberFails \/ Done \/ UNCHANGED vars
        PROVE  entries' = entries
    BY <2>7 DEF AnswerOnce, RememberFails, Done, vars
  <2> QED BY <2>1, <2>2, <2>3, <2>4, <2>5, <2>6, <2>7 DEF Next
<1> QED BY <1>1, <1>2, PolicyTyped, PTL DEF Spec

-----------------------------------------------------------------------------
(***************************************************************************)
(* Decisions stand                                                         *)
(***************************************************************************)

\* The strengthening of NoGrantAfterReject and NeverAskedAgain: an open prompt
\* is about a mode of which the policy rejects nothing, and when it shows flags
\* of the node itself the policy does not accept the whole mode.  The policy
\* cannot change while the prompt is open.
PromptIsNeeded ==
    Asking =>
        /\ pending.self \cap SelfModeset(entries, pending.path).reject = {}
        /\ pending.shownSelf # {} =>
              ~(pending.self \subseteq SelfModeset(entries, pending.path).accept)

\* What DecisionsStand says, as one invariant.
Decided == Remembered /\ NoGrantAfterReject /\ PromptIsNeeded

\* permfs_actmode: what OK and REJECTEDPROMPT mean for the mode asked about.
LEMMA ActmodeMeans ==
    ASSUME NEW m \in Modesets, NEW mode \in SUBSET Flags
    PROVE  /\ actmode(m, mode).res = "OK" =>
                 m.reject \cap mode = {} /\ mode \subseteq m.accept
                 /\ actmode(m, mode).rejected = {}
           /\ actmode(m, mode).res = "REJECTEDPROMPT" => m.reject \cap mode = {}
           /\ actmode(m, mode).res = "REJECTEDPROMPT" /\ mode # {} =>
                 ~(mode \subseteq m.accept)
           /\ actmode(m, mode).res = "REJECTEDPOLICY" <=> m.reject \cap mode # {}
BY DEF actmode, Modesets

\* The remembered rejections and acceptances of a path are in its lookup.
LEMMA ForeverInPolicy ==
    ASSUME Remembered, NEW path
    PROVE  /\ Forever(path, "reject") \subseteq SelfModeset(entries, path).reject
           /\ Forever(path, "accept") \subseteq SelfModeset(entries, path).accept
BY DEF Remembered, Forever

\* A step that leaves the decisions alone keeps them in the policy.
LEMMA RememberedKept ==
    ASSUME TypeOK, Remembered, [Next]_vars, decided' = decided
    PROVE  Remembered'
<1>1. \A path : /\ SelfModeset(entries, path).reject \subseteq SelfModeset(entries', path).reject
                /\ SelfModeset(entries, path).accept \subseteq SelfModeset(entries', path).accept
  BY EntriesGrow, LookupGrows DEF TypeOK
<1> QED BY <1>1 DEF Remembered

\* An answer with "remember" enters the policy it is read from.
LEMMA AnswerRemembered ==
    ASSUME TypeOK, Remembered, NEW verdict \in Verdicts, AnswerRemember(verdict)
    PROVE  Remembered'
<1>1. entries \in Seq(Entries)
  BY DEF TypeOK
<1>2. pending \in Questions
  BY AskingTyped DEF AnswerRemember
<1>3. /\ pending.path \in Paths
      /\ pending.shownSelf \in SUBSET Flags /\ pending.shownKids \in SUBSET Flags
  BY <1>2 DEF Questions
<1>4. [Next]_vars
  BY DEF Next
<1>5. entries' \in Seq(Entries) /\ Grows(entries, entries')
  BY <1>4, EntriesGrow
<1>6. \A path : /\ SelfModeset(entries, path).reject \subseteq SelfModeset(entries', path).reject
                /\ SelfModeset(entries, path).accept \subseteq SelfModeset(entries', path).accept
  BY <1>1, <1>5, LookupGrows
<1>7. pending.shownSelf \subseteq IF verdict = "accept"
                                  THEN SelfModeset(entries', pending.path).accept
                                  ELSE SelfModeset(entries', pending.path).reject
  <2>1. CASE verdict = "accept"
    <3> DEFINE own == Accepting(pending.shownSelf)
               kids == Accepting(pending.shownKids)
    <3>1. entries' = AddTo(entries, pending.path, own, kids)
      BY <2>1 DEF AnswerRemember
    <3>2. own \in Modesets /\ kids \in Modesets /\ own.accept = pending.shownSelf
      BY <1>3, SimpleModesets
    <3> HIDE DEF own, kids
    <3>3. own.accept \subseteq SelfModeset(entries', pending.path).accept
      BY <1>1, <1>3, <3>1, <3>2, AddTakes
    <3> QED BY <2>1, <3>2, <3>3
  <2>2. CASE verdict # "accept"
    <3> DEFINE own == Rejecting(pending.shownSelf)
               kids == Rejecting(pending.shownKids)
    <3>1. entries' = AddTo(entries, pending.path, own, kids)
      BY <2>2 DEF AnswerRemember
    <3>2. own \in Modesets /\ kids \in Modesets /\ own.reject = pending.shownSelf
      BY <1>3, SimpleModesets
    <3> HIDE DEF own, kids
    <3>3. own.reject \subseteq SelfModeset(entries', pending.path).reject
      BY <1>1, <1>3, <3>1, <3>2, AddTakes
    <3> QED BY <2>2, <3>2, <3>3
  <2> QED BY <2>1, <2>2
<1>8. \A d \in DecisionsOf(pending, verdict) :
         d.scope = "self" => /\ d.path = pending.path /\ d.verdict = verdict
                             /\ d.flag \in pending.shownSelf
  BY DEF DecisionsOf
<1>9. \A d \in decided' : d \in decided \/ d \in DecisionsOf(pending, verdict)
  BY DEF AnswerRemember
<1> QED BY <1>6, <1>7, <1>8, <1>9 DEF Remembered

\* The three parts of Decided survive an operation that ends without a prompt.
LEMMA ReturnKeeps ==
    ASSUME TypeOK, Decided, [Next]_vars, ~Asking,
           NEW op, NEW path, NEW self, NEW kids, NEW result,
           Return(op, path, self, kids, result),
           result = "OK" => self \cap SelfModeset(entries, path).reject = {}
    PROVE  Decided'
<1>1. Remembered'
  BY RememberedKept DEF Decided, Return
<1>2. NoGrantAfterReject'
  <2>1. /\ outcome'.path = path /\ outcome'.self = self /\ outcome'.result = result
    BY DEF Return, Outcome, Question
  <2>2. Forever(path, "reject")' = Forever(path, "reject")
    BY DEF Return, Forever
  <2>3. Forever(path, "reject") \subseteq SelfModeset(entries, path).reject
    BY ForeverInPolicy DEF Decided
  <2>4. Granted' => self \cap Forever(path, "reject") = {}
    BY <2>1, <2>3 DEF Granted
  <2> QED BY <2>1, <2>2, <2>4 DEF NoGrantAfterReject, Return, Forever
<1>3. PromptIsNeeded'
  BY DEF PromptIsNeeded, Return, Asking
<1> QED BY <1>1, <1>2, <1>3 DEF Decided

\* And one that opens a prompt.
LEMMA AskKeeps ==
    ASSUME TypeOK, Decided, [Next]_vars,
           NEW op, NEW path, NEW self, NEW kids, NEW shownSelf, NEW shownKids,
           Ask(op, path, self, kids, shownSelf, shownKids),
           self \cap SelfModeset(entries, path).reject = {},
           shownSelf # {} => ~(self \subseteq SelfModeset(entries, path).accept)
    PROVE  Decided'
<1>1. Remembered'
  BY RememberedKept DEF Decided, Ask
<1>2. NoGrantAfterReject'
  BY DEF Decided, NoGrantAfterReject, Ask, Granted, Forever
<1>3. PromptIsNeeded'
  <2>1. pending'.path = path /\ pending'.self = self /\ pending'.shownSelf = shownSelf
    BY DEF Ask, Question
  <2>2. entries' = entries
    BY DEF Ask
  <2> QED BY <2>1, <2>2 DEF PromptIsNeeded
<1> QED BY <1>1, <1>2, <1>3 DEF Decided

\* An answer that is not remembered, and the loss of one, keep Decided.
LEMMA AnswerKeeps ==
    ASSUME TypeOK, Decided, [Next]_vars, Asking, NEW result,
           outcome' = Outcome(pending, result), pending' = NoPrompt,
           UNCHANGED <<entries, decided>>
    PROVE  Decided'
<1>1. Remembered'
  BY RememberedKept DEF Decided
<1>2. pending.self \cap Forever(pending.path, "reject") = {}
  BY ForeverInPolicy DEF Decided, PromptIsNeeded
<1>3. NoGrantAfterReject'
  <2>1. outcome'.path = pending.path /\ outcome'.self = pending.self
    BY DEF Outcome
  <2> QED BY <1>2, <2>1 DEF NoGrantAfterReject, Forever
<1>4. PromptIsNeeded'
  BY DEF PromptIsNeeded, Asking, NoPrompt
<1> QED BY <1>1, <1>3, <1>4 DEF Decided

\* Every step keeps the decisions of the user.
LEMMA DecidedStep ==
    ASSUME TypeOK, Decided, [Next]_vars
    PROVE  Decided'
<1>0. entries \in Seq(Entries)
  BY DEF TypeOK
<1>1. ASSUME NEW path \in Paths, NEW rule \in Rules, Add(path, rule) \/ Load(path, rule)
      PROVE  Decided'
  <2>1. /\ ~Asking /\ pending' = pending /\ outcome' = outcome /\ decided' = decided
    BY <1>1 DEF Add, Load, StartOp
  <2>2. Remembered'
    BY <2>1, RememberedKept DEF Decided
  <2>3. NoGrantAfterReject' /\ PromptIsNeeded'
    BY <2>1 DEF Decided, NoGrantAfterReject, Granted, Forever, PromptIsNeeded, Asking
  <2> QED BY <2>2, <2>3 DEF Decided
<1>2. ASSUME NEW path \in Paths, NEW mode \in (SUBSET Flags) \ {{}}, GateFile(path, mode)
      PROVE  Decided'
  <2> DEFINE m == SelfModeset(entries, path)
             verdict == actmode(m, mode)
  <2>1. m \in Modesets
    BY <1>0, LookupTyped
  <2>2. /\ ~Asking
        /\ \/ /\ verdict.res = "REJECTEDPROMPT"
              /\ Ask("gate", path, mode, {}, verdict.rejected, {})
           \/ Return("gate", path, mode, {}, "BADTYPE")
           \/ Return("gate", path, mode, {}, verdict.res)
    BY <1>2 DEF GateFile, StartOp
  <2>3. /\ verdict.res = "OK" => mode \cap m.reject = {}
        /\ verdict.res = "REJECTEDPROMPT" => mode \cap m.reject = {} /\ ~(mode \subseteq m.accept)
    <3>1. mode \in SUBSET Flags /\ mode # {}
      OBVIOUS
    <3> HIDE DEF m
    <3> QED BY <2>1, <3>1, ActmodeMeans
  <2>4. CASE /\ verdict.res = "REJECTEDPROMPT"
             /\ Ask("gate", path, mode, {}, verdict.rejected, {})
    BY <2>3, <2>4, AskKeeps
  <2>5. CASE Return("gate", path, mode, {}, "BADTYPE")
    BY <2>2, <2>5, ReturnKeeps
  <2>6. CASE Return("gate", path, mode, {}, verdict.res)
    BY <2>2, <2>3, <2>6, ReturnKeeps
  <2> QED BY <2>2, <2>4, <2>5, <2>6
<1>3. ASSUME NEW path \in Paths, NEW self \in SUBSET Flags, NEW kids \in SUBSET Flags,
             NEW dry \in BOOLEAN, RequestNode(path, self, kids, dry)
      PROVE  Decided'
  <2> DEFINE m == SelfModeset(entries, path)
             below == ChildrenModeset(entries, path)
             askSelf == LeftToAsk(m, self)
             askKids == LeftToAsk(below, kids)
  <2>1. m \in Modesets
    BY <1>0, LookupTyped
  <2>2. ~Asking
    BY <1>3 DEF RequestNode, StartOp
  <2>3. \/ \E result \in {"NULLREQUEST", "BADTYPE", "REJECTEDPOLICY", "WOULDPROMPT"} :
              Return("request", path, self, kids, result)
        \/ ~Refused(m, self) /\ Return("request", path, self, kids, "OK")
        \/ ~Refused(m, self) /\ Ask("request", path, self, kids, askSelf, askKids)
    BY <1>3, Zenon DEF RequestNode
  <2>4. ~Refused(m, self) => self \cap m.reject = {}
    BY <2>1, ActmodeMeans DEF Refused
  <2>5. ~Refused(m, self) /\ askSelf # {} => ~(self \subseteq m.accept)
    BY <2>1, ActmodeMeans, ActmodeTyped DEF Refused, LeftToAsk
  <2> HIDE DEF askSelf, askKids
  <2>6. CASE \E result \in {"NULLREQUEST", "BADTYPE", "REJECTEDPOLICY", "WOULDPROMPT"} :
                Return("request", path, self, kids, result)
    BY <2>2, <2>6, ReturnKeeps
  <2>7. CASE ~Refused(m, self) /\ Return("request", path, self, kids, "OK")
    BY <2>2, <2>4, <2>7, ReturnKeeps
  <2>8. CASE ~Refused(m, self) /\ Ask("request", path, self, kids, askSelf, askKids)
    BY <2>4, <2>5, <2>8, AskKeeps
  <2> QED BY <2>3, <2>6, <2>7, <2>8
<1>4. ASSUME NEW answer \in Answers, AnswerOnce(answer)
      PROVE  Decided'
  BY <1>4, AnswerKeeps DEF AnswerOnce
<1>5. ASSUME NEW verdict \in Verdicts, AnswerRemember(verdict)
      PROVE  Decided'
  <2>1. Remembered'
    BY <1>5, AnswerRemembered DEF Decided
  <2>2. PromptIsNeeded'
    BY <1>5 DEF AnswerRemember, PromptIsNeeded, Asking, NoPrompt
  <2>3. NoGrantAfterReject'
    <3>1. CASE verdict = "accept"
      <4>1. \A d \in decided' : d.verdict = "reject" => d \in decided
        BY <1>5, <3>1 DEF AnswerRemember, DecisionsOf
      <4>2. pending.self \cap Forever(pending.path, "reject") = {}
        BY <1>5, ForeverInPolicy DEF Decided, PromptIsNeeded, AnswerRemember
      <4>3. outcome'.path = pending.path /\ outcome'.self = pending.self
        BY <1>5 DEF AnswerRemember, Outcome
      <4> QED BY <4>1, <4>2, <4>3 DEF NoGrantAfterReject, Forever
    <3>2. CASE verdict # "accept"
      BY <1>5, <3>2 DEF AnswerRemember, Outcome, NoGrantAfterReject, Granted
    <3> QED BY <3>1, <3>2
  <2> QED BY <2>1, <2>2, <2>3 DEF Decided
<1>6. CASE RememberFails
  BY <1>6, AnswerKeeps DEF RememberFails
<1>7. CASE Done \/ UNCHANGED vars
  BY <1>7 DEF Done, vars, Decided, Remembered, NoGrantAfterReject, Granted, Forever,
              PromptIsNeeded, Asking
<1> QED BY <1>1, <1>2, <1>3, <1>4, <1>5, <1>6, <1>7 DEF Next

\* What the user asked to be remembered stands in every behaviour: it stays in
\* the policy, no call grants what was rejected for good, and no prompt asks
\* again what has been settled.
THEOREM DecisionsStand == Spec => [](Remembered /\ NoGrantAfterReject /\ NeverAskedAgain)
<1>1. Init => Decided
  BY DEF Init, Decided, Remembered, NoGrantAfterReject, Granted, NoOutcome,
         PromptIsNeeded, Asking, NoPrompt
<1>2. TypeOK /\ Decided /\ [Next]_vars => Decided'
  BY DecidedStep
<1>3. Decided => Remembered /\ NoGrantAfterReject /\ NeverAskedAgain
  BY ForeverInPolicy DEF Decided, PromptIsNeeded, NeverAskedAgain
<1> QED BY <1>1, <1>2, <1>3, PolicyTyped, PTL DEF Spec

-----------------------------------------------------------------------------
(***************************************************************************)
(* The loop of gh_permfs_getmode                                           *)
(***************************************************************************)

\* The entries up to the last directory match among the first n, and the entries of the path
\* itself after it.
UpToLastOf(es, path, n) == {i \in 1 .. n : \E j \in i .. n : Below(es[j].path, path)}
LaterOf(es, path, n) == {i \in (1 .. n) \ UpToLastOf(es, path, n) : es[i].path = path}

\* The children modesets of some entries, joined.
KidsUnion(es, indices) ==
    [reject |-> UNION {es[i].children.reject : i \in indices},
     accept |-> UNION {es[i].children.accept : i \in indices},
     prompt |-> UNION {es[i].children.prompt : i \in indices}]

\* The closed form after n rounds of the loop.
ClosedKids(es, path, n) ==
    Join(Union(es, path, UpToLastOf(es, path, n)), KidsUnion(es, LaterOf(es, path, n)))
Closed(es, path, n) ==
    [self |-> Union(es, path, 1 .. n), children |-> ClosedKids(es, path, n)]

\* One more entry.
LEMMA UnionAdds ==
    ASSUME NEW es, NEW path, NEW I, NEW k
    PROVE  Union(es, path, I \cup {k}) = Join(Union(es, path, I), Contribution(es[k], path))
<1>1. UNION {Contribution(es[i], path).reject : i \in I \cup {k}}
        = (UNION {Contribution(es[i], path).reject : i \in I}) \cup Contribution(es[k], path).reject
  OBVIOUS
<1>2. UNION {Contribution(es[i], path).accept : i \in I \cup {k}}
        = (UNION {Contribution(es[i], path).accept : i \in I}) \cup Contribution(es[k], path).accept
  OBVIOUS
<1>3. UNION {Contribution(es[i], path).prompt : i \in I \cup {k}}
        = (UNION {Contribution(es[i], path).prompt : i \in I}) \cup Contribution(es[k], path).prompt
  OBVIOUS
<1> QED
  BY <1>1, <1>2, <1>3 DEF Union, Join

\* The same of the children modesets.
LEMMA KidsUnionAdds ==
    ASSUME NEW es, NEW I, NEW k
    PROVE  KidsUnion(es, I \cup {k}) = Join(KidsUnion(es, I), es[k].children)
<1>1. UNION {es[i].children.reject : i \in I \cup {k}}
        = (UNION {es[i].children.reject : i \in I}) \cup es[k].children.reject
  OBVIOUS
<1>2. UNION {es[i].children.accept : i \in I \cup {k}}
        = (UNION {es[i].children.accept : i \in I}) \cup es[k].children.accept
  OBVIOUS
<1>3. UNION {es[i].children.prompt : i \in I \cup {k}}
        = (UNION {es[i].children.prompt : i \in I}) \cup es[k].children.prompt
  OBVIOUS
<1> QED
  BY <1>1, <1>2, <1>3 DEF KidsUnion, Join

\* Join is what one would expect.
LEMMA JoinLaws ==
    ASSUME NEW a \in Modesets, NEW b \in Modesets, NEW c \in Modesets
    PROVE  /\ Join(a, Empty) = a
           /\ Join(Join(a, b), c) = Join(a, Join(b, c))
           /\ Join(Join(a, b), b) = Join(a, b)
<1>1. Join(a, Empty) = a
  BY DEF Join, Modesets, Empty
<1>2. Join(Join(a, b), c) = Join(a, Join(b, c))
  BY DEF Join, Modesets
<1>3. Join(Join(a, b), b) = Join(a, b)
  BY DEF Join, Modesets
<1> QED
  BY <1>1, <1>2, <1>3

\* Which entries count after one more round.
LEMMA MatchesAfter ==
    ASSUME NEW es \in Seq(Entries), NEW path, NEW n \in 1 .. Len(es)
    PROVE  /\ 1 .. n = (1 .. n - 1) \cup {n}
           /\ Below(es[n].path, path) => /\ UpToLastOf(es, path, n) = 1 .. n
                                         /\ LaterOf(es, path, n) = {}
           /\ ~Below(es[n].path, path) => UpToLastOf(es, path, n) = UpToLastOf(es, path, n - 1)
           /\ ~Below(es[n].path, path) /\ es[n].path = path =>
                 LaterOf(es, path, n) = LaterOf(es, path, n - 1) \cup {n}
           /\ ~Below(es[n].path, path) /\ es[n].path # path =>
                 LaterOf(es, path, n) = LaterOf(es, path, n - 1)
<1>1. 1 .. n = (1 .. n - 1) \cup {n} /\ n \notin 1 .. n - 1
  OBVIOUS
<1>2. Below(es[n].path, path) => UpToLastOf(es, path, n) = 1 .. n
  BY DEF UpToLastOf
<1>3. ASSUME ~Below(es[n].path, path)
      PROVE  UpToLastOf(es, path, n) = UpToLastOf(es, path, n - 1)
  BY <1>3 DEF UpToLastOf
<1>4. n \notin UpToLastOf(es, path, n - 1)
  BY DEF UpToLastOf
<1>5. Below(es[n].path, path) => LaterOf(es, path, n) = {}
  BY <1>2 DEF LaterOf
<1>6. ASSUME ~Below(es[n].path, path), es[n].path = path
      PROVE  LaterOf(es, path, n) = LaterOf(es, path, n - 1) \cup {n}
  BY <1>1, <1>3, <1>4, <1>6 DEF LaterOf
<1>7. ASSUME ~Below(es[n].path, path), es[n].path # path
      PROVE  LaterOf(es, path, n) = LaterOf(es, path, n - 1)
  BY <1>1, <1>3, <1>4, <1>7 DEF LaterOf
<1> QED
  BY <1>1, <1>2, <1>3, <1>5, <1>6, <1>7

\* The order of the natural numbers as a relation.
LessThan == {ss \in Nat \X Nat : ss[1] < ss[2]}

\* Every set of natural numbers has a least element.
LEMMA LeastNumber ==
    ASSUME NEW T, T \subseteq Nat, T # {}
    PROVE  \E x \in T : \A y \in T : x <= y
<1>1. IsWellFoundedOn(LessThan, Nat)
  <2>1. LessThan = OpToRel(<, Nat)
    BY DEF OpToRel, LessThan
  <2> QED
    BY <2>1, NatLessThanWellFounded
<1>2. PICK x \in T : \A y \in T : <<y, x>> \notin LessThan
  BY <1>1, WFMin
<1>3. ASSUME NEW y \in T PROVE x <= y
  <2>1. x \in Nat /\ y \in Nat /\ <<y, x>> \notin LessThan
    BY <1>2
  <2>2. ~(y < x)
    BY <2>1 DEF LessThan
  <2> QED
    BY <2>1, <2>2
<1> QED
  BY <1>3

\* The modesets of the closed form are typed.
LEMMA ClosedTyped ==
    ASSUME NEW es \in Seq(Entries), NEW path, NEW n \in 0 .. Len(es)
    PROVE  /\ Closed(es, path, n) \in [self : Modesets, children : Modesets]
           /\ Union(es, path, 1 .. n) \in Modesets
           /\ Union(es, path, UpToLastOf(es, path, n)) \in Modesets
           /\ KidsUnion(es, LaterOf(es, path, n)) \in Modesets
           /\ ClosedKids(es, path, n) \in Modesets
<1>1. 1 .. n \subseteq 1 .. Len(es) /\ UpToLastOf(es, path, n) \subseteq 1 .. Len(es)
  BY DEF UpToLastOf
<1>2. /\ Union(es, path, 1 .. n) \in Modesets
      /\ Union(es, path, UpToLastOf(es, path, n)) \in Modesets
  BY <1>1, UnionTyped
<1>3. KidsUnion(es, LaterOf(es, path, n)) \in Modesets
  <2>1. LaterOf(es, path, n) \subseteq 1 .. Len(es)
    BY <1>1 DEF LaterOf
  <2>2. \A i \in LaterOf(es, path, n) : es[i] \in Entries
    BY <2>1
  <2>3. \A i \in LaterOf(es, path, n) : es[i].children \in Modesets
    BY <2>2 DEF Entries
  <2> QED
    BY <2>3 DEF KidsUnion, Modesets
<1>4. ClosedKids(es, path, n) \in Modesets
  BY <1>2, <1>3, JoinBounds DEF ClosedKids
<1> QED
  BY <1>2, <1>3, <1>4 DEF Closed

\* Before the first round nothing has been collected.
LEMMA ClosedStart ==
    ASSUME NEW es \in Seq(Entries), NEW path
    PROVE  Closed(es, path, 0) = [self |-> Empty, children |-> Empty]
<1>1. 1 .. 0 = {} /\ UpToLastOf(es, path, 0) = {} /\ LaterOf(es, path, 0) = {}
  BY DEF UpToLastOf, LaterOf
<1>2. Union(es, path, {}) = Empty /\ KidsUnion(es, {}) = Empty
  BY DEF Union, KidsUnion, Empty
<1>3. Join(Empty, Empty) = Empty
  BY SimpleModesets, JoinLaws
<1> QED
  BY <1>1, <1>2, <1>3 DEF Closed, ClosedKids

\* A round of the loop takes the closed form to the closed form.
LEMMA ClosedStep ==
    ASSUME NEW es \in Seq(Entries), NEW path, NEW n \in 1 .. Len(es)
    PROVE  Closed(es, path, n) = LookupStep(Closed(es, path, n - 1), es[n], path)
<1> DEFINE own == Union(es, path, 1 .. n - 1)
           upto == Union(es, path, UpToLastOf(es, path, n - 1))
           later == KidsUnion(es, LaterOf(es, path, n - 1))
           e == es[n]
<1>1. /\ n - 1 \in 0 .. Len(es) /\ n \in 0 .. Len(es) /\ e \in Entries
  OBVIOUS
<1>2. /\ own \in Modesets /\ upto \in Modesets /\ later \in Modesets
      /\ e.self \in Modesets /\ e.children \in Modesets /\ Empty \in Modesets
  BY <1>1, ClosedTyped, SimpleModesets DEF Entries
<1>3. /\ Closed(es, path, n - 1).self = own
      /\ Closed(es, path, n - 1).children = Join(upto, later)
  BY DEF Closed, ClosedKids
<1>4. Union(es, path, 1 .. n) = Join(own, Contribution(e, path))
  BY MatchesAfter, UnionAdds
<1>5. CASE e.path = path
  <2>1. ~Below(e.path, path)
    <3>1. ~(Len(path) < Len(path))
      <4>1. e.path \in Seq(STRING)
        BY <1>1, PathsAssumption DEF Entries
      <4> QED
        BY <1>5, <4>1
    <3> QED
      BY <1>5, <3>1 DEF Below
  <2>2. Union(es, path, 1 .. n) = Join(own, e.self)
    BY <1>4, <1>5 DEF Contribution
  <2>3. ClosedKids(es, path, n) = Join(upto, Join(later, e.children))
    BY <1>5, <2>1, MatchesAfter, KidsUnionAdds DEF ClosedKids
  <2>4. ClosedKids(es, path, n) = Join(Join(upto, later), e.children)
    BY <1>2, <2>3, JoinLaws
  <2> QED
    BY <1>3, <1>5, <2>2, <2>4 DEF Closed, LookupStep
<1>6. CASE e.path # path /\ Below(e.path, path)
  <2>1. Union(es, path, 1 .. n) = Join(own, e.children)
    BY <1>4, <1>6 DEF Contribution
  <2>2. ClosedKids(es, path, n) = Join(Union(es, path, 1 .. n), KidsUnion(es, {}))
    BY <1>6, MatchesAfter DEF ClosedKids
  <2>3. KidsUnion(es, {}) = Empty
    BY DEF KidsUnion, Empty
  <2>4. Join(own, e.children) \in Modesets
    BY <1>2, JoinBounds
  <2>5. ClosedKids(es, path, n) = Join(own, e.children)
    BY <2>1, <2>2, <2>3, <2>4, JoinLaws
  <2>6. Join(Join(own, e.children), e.children) = Join(own, e.children)
    BY <1>2, JoinLaws
  <2> QED
    BY <1>3, <1>6, <2>1, <2>5, <2>6 DEF Closed, LookupStep
<1>7. CASE e.path # path /\ ~Below(e.path, path)
  <2>1. Union(es, path, 1 .. n) = own
    BY <1>2, <1>4, <1>7, JoinLaws DEF Contribution
  <2>2. ClosedKids(es, path, n) = ClosedKids(es, path, n - 1)
    BY <1>7, MatchesAfter DEF ClosedKids
  <2> QED
    BY <1>7, <2>1, <2>2 DEF Closed, LookupStep
<1> QED
  BY <1>5, <1>6, <1>7

\* So the loop has a result, and it is the closed form.  A function that follows the loop and
\* differs from it would differ first after some round n, but it agrees after n - 1.
LEMMA LookupClosed ==
    ASSUME NEW es \in Seq(Entries), NEW path
    PROVE  Lookup(es, path) = Closed(es, path, Len(es))
<1> DEFINE Round(f, n) == IF n = 0 THEN [self |-> Empty, children |-> Empty]
                          ELSE LookupStep(f[n - 1], es[n], path)
           Loop(f) == f = [n \in 0 .. Len(es) |-> Round(f, n)]
           closed == [n \in 0 .. Len(es) |-> Closed(es, path, n)]
           acc == CHOOSE f : Loop(f)
<1>0. Len(es) \in Nat
  OBVIOUS
<1>1. Lookup(es, path) = acc[Len(es)]
  BY DEF Lookup
<1>2. Loop(closed)
  <2>1. ASSUME NEW n \in 0 .. Len(es) PROVE Closed(es, path, n) = Round(closed, n)
    <3>1. CASE n = 0
      BY <3>1, ClosedStart
    <3>2. CASE n # 0
      <4>1. n \in 1 .. Len(es) /\ n - 1 \in 0 .. Len(es)
        BY <1>0, <2>1, <3>2
      <4>2. closed[n - 1] = Closed(es, path, n - 1)
        BY <4>1
      <4> QED
        BY <3>2, <4>1, <4>2, ClosedStep
    <3> QED
      BY <3>1, <3>2
  <2> QED
    BY <2>1
<1>3. Loop(acc)
  BY <1>2
<1>4. \A n \in 0 .. Len(es) : acc[n] = Round(acc, n)
  BY <1>3
<1> HIDE DEF acc
<1> DEFINE Wrong == {n \in 0 .. Len(es) : acc[n] # Closed(es, path, n)}
<1>5. Wrong = {}
  <2>1. SUFFICES ASSUME Wrong # {} PROVE FALSE
    OBVIOUS
  <2>2. Wrong \subseteq Nat
    BY <1>0
  <2>3. PICK n \in Wrong : \A m \in Wrong : n <= m
    BY <2>1, <2>2, LeastNumber
  <2>4. n \in 0 .. Len(es) /\ acc[n] # Closed(es, path, n) /\ acc[n] = Round(acc, n)
    BY <1>4, <2>3
  <2>5. CASE n = 0
    BY <2>4, <2>5, ClosedStart
  <2>6. CASE n # 0
    <3>1. n \in 1 .. Len(es) /\ n - 1 \in 0 .. Len(es) /\ ~(n <= n - 1)
      BY <1>0, <2>4, <2>6
    <3>2. acc[n - 1] = Closed(es, path, n - 1)
      BY <2>3, <3>1
    <3> QED
      BY <2>4, <2>6, <3>1, <3>2, ClosedStep
  <2> QED
    BY <2>5, <2>6
<1>6. Len(es) \in 0 .. Len(es)
  BY <1>0
<1> QED
  BY <1>1, <1>5, <1>6

\* gh_permfs_getmode computes the closed form for lists of any length: every entry that
\* matches counts for the node, and the last directory match decides which count below it.
THEOREM LoopIsUnion == Spec => []LookupIsUnion
<1>1. TypeOK => LookupIsUnion
  <2> SUFFICES ASSUME TypeOK, NEW path \in Paths
               PROVE  Lookup(entries, path) = [self |-> SelfModeset(entries, path),
                                               children |-> ChildrenModeset(entries, path)]
    BY DEF LookupIsUnion
  <2>1. entries \in Seq(Entries)
    BY DEF TypeOK
  <2>2. Lookup(entries, path) = Closed(entries, path, Len(entries))
    BY <2>1, LookupClosed
  <2>3. /\ SelfModeset(entries, path) = Union(entries, path, 1 .. Len(entries))
        /\ ChildrenModeset(entries, path) = ClosedKids(entries, path, Len(entries))
    BY DEF SelfModeset, ChildrenModeset, ClosedKids, UpToLastOf, LaterOf, KidsUnion
  <2> QED
    BY <2>2, <2>3 DEF Closed
<1> QED
  BY <1>1, PolicyTyped, PTL

-----------------------------------------------------------------------------
(***************************************************************************)
(* What is granted was shown                                               *)
(***************************************************************************)

\* How the flags asked for and the flags shown stand to the modeset m of the node.
Accounted(m, self, shown) ==
    \/ self \subseteq (shown \cup m.accept)
    \/ shown \subseteq m.prompt /\ self \cap shown # {}

\* An open prompt is accounted for by the policy in force, and so will be its grant.
PromptIsAccounted ==
    Asking => Accounted(SelfModeset(entries, pending.path), pending.self, pending.shownSelf)

\* The inductive invariant behind GrantsWereShown.
ShownInv == PromptIsAccounted /\ GrantsWereShown

\* A modeset that has grown accounts for what it did.
LEMMA AccountedGrows ==
    ASSUME NEW m, NEW n, NEW self, NEW shown, Accounted(m, self, shown),
           m.accept \subseteq n.accept, m.prompt \subseteq n.prompt
    PROVE  Accounted(n, self, shown)
BY DEF Accounted

\* permfs_actmode reports all that is missing, or the flags of the prompt rules when one of
\* them is.
LEMMA ActmodeShows ==
    ASSUME NEW m \in Modesets, NEW mode \in SUBSET Flags,
           actmode(m, mode).res # "REJECTEDPOLICY"
    PROVE  Accounted(m, mode, actmode(m, mode).rejected)
BY DEF actmode, Accounted, Modesets

\* The policy of a node in the next state accounts for at least as much.
LEMMA PolicyGrown ==
    ASSUME TypeOK, [Next]_vars, NEW path, NEW self, NEW shown,
           Accounted(SelfModeset(entries, path), self, shown)
    PROVE  Accounted(SelfModeset(entries', path), self, shown)
<1>1. /\ SelfModeset(entries, path).accept \subseteq SelfModeset(entries', path).accept
      /\ SelfModeset(entries, path).prompt \subseteq SelfModeset(entries', path).prompt
  BY EntriesGrow, LookupGrows DEF TypeOK
<1> QED
  BY <1>1, AccountedGrows

\* The property in these terms.
LEMMA ShownMeans ==
    /\ GrantsWereShown <=>
          (Granted => Accounted(SelfModeset(entries, outcome.path), outcome.self, outcome.shownSelf))
    /\ GrantsWereShown' <=>
          (Granted' => Accounted(SelfModeset(entries', outcome'.path), outcome'.self,
                                 outcome'.shownSelf))
BY DEF GrantsWereShown, Accounted

\* A step that does not touch the prompt or the outcome.
LEMMA ShownKept ==
    ASSUME TypeOK, ShownInv, [Next]_vars, ~Asking', outcome' = outcome
    PROVE  ShownInv'
<1>1. GrantsWereShown'
  <2>1. Granted' <=> Granted
    BY DEF Granted
  <2> QED
    BY <2>1, ShownMeans, PolicyGrown DEF ShownInv
<1> QED
  BY <1>1 DEF ShownInv, PromptIsAccounted

\* An operation that ends without a prompt.
LEMMA ReturnShown ==
    ASSUME ShownInv, NEW op, NEW path, NEW self, NEW kids, NEW result, ~Asking,
           Return(op, path, self, kids, result),
           result = "OK" => self \subseteq SelfModeset(entries, path).accept
    PROVE  ShownInv'
<1>1. /\ outcome'.path = path /\ outcome'.self = self /\ outcome'.result = result
      /\ outcome'.shownSelf = {} /\ entries' = entries /\ pending' = pending
  BY DEF Return, Outcome, Question
<1>2. GrantsWereShown'
  BY <1>1 DEF GrantsWereShown, Granted
<1> QED
  BY <1>1, <1>2 DEF ShownInv, PromptIsAccounted, Asking

\* An operation that opens a prompt.
LEMMA AskShown ==
    ASSUME ShownInv, NEW op, NEW path, NEW self, NEW kids, NEW shownSelf, NEW shownKids,
           Ask(op, path, self, kids, shownSelf, shownKids),
           Accounted(SelfModeset(entries, path), self, shownSelf)
    PROVE  ShownInv'
<1>1. /\ pending'.path = path /\ pending'.self = self /\ pending'.shownSelf = shownSelf
      /\ entries' = entries /\ outcome' = outcome
  BY DEF Ask, Question
<1> QED
  BY <1>1 DEF ShownInv, PromptIsAccounted, GrantsWereShown, Granted

\* An answer to the prompt.
LEMMA AnswerShown ==
    ASSUME TypeOK, ShownInv, [Next]_vars, Asking, NEW result,
           outcome' = Outcome(pending, result), pending' = NoPrompt
    PROVE  ShownInv'
<1>1. /\ outcome'.path = pending.path /\ outcome'.self = pending.self
      /\ outcome'.shownSelf = pending.shownSelf
  BY DEF Outcome
<1>2. Accounted(SelfModeset(entries', pending.path), pending.self, pending.shownSelf)
  BY PolicyGrown DEF ShownInv, PromptIsAccounted
<1>3. GrantsWereShown'
  BY <1>1, <1>2, ShownMeans
<1> QED
  BY <1>3 DEF ShownInv, PromptIsAccounted, Asking, NoPrompt

\* Every step.
LEMMA ShownStep ==
    ASSUME TypeOK, ShownInv, [Next]_vars
    PROVE  ShownInv'
<1>0. entries \in Seq(Entries)
  BY DEF TypeOK
<1>1. ASSUME NEW path \in Paths, NEW rule \in Rules, Add(path, rule) \/ Load(path, rule)
      PROVE  ShownInv'
  <2>1. ~Asking' /\ outcome' = outcome
    BY <1>1 DEF Add, Load, StartOp, Asking
  <2> QED
    BY <2>1, ShownKept
<1>2. ASSUME NEW path \in Paths, NEW mode \in SUBSET Flags, GateFile(path, mode)
      PROVE  ShownInv'
  <2> DEFINE m == SelfModeset(entries, path)
             verdict == actmode(m, mode)
  <2>1. m \in Modesets
    BY <1>0, LookupTyped
  <2>2. /\ verdict.res = "OK" => mode \subseteq m.accept
        /\ verdict.res # "REJECTEDPOLICY" => Accounted(m, mode, verdict.rejected)
    BY <2>1, ActmodeMeans, ActmodeShows
  <2>3. ~Asking
    BY <1>2 DEF GateFile, StartOp
  <2>4. \/ Return("gate", path, mode, {}, "BADTYPE")
        \/ Return("gate", path, mode, {}, verdict.res)
        \/ /\ verdict.res = "REJECTEDPROMPT"
           /\ Ask("gate", path, mode, {}, verdict.rejected, {})
    BY <1>2 DEF GateFile
  <2> HIDE DEF verdict
  <2>5. CASE Return("gate", path, mode, {}, "BADTYPE")
    BY <2>3, <2>5, ReturnShown
  <2>6. CASE Return("gate", path, mode, {}, verdict.res)
    BY <2>2, <2>3, <2>6, ReturnShown
  <2>7. CASE /\ verdict.res = "REJECTEDPROMPT"
             /\ Ask("gate", path, mode, {}, verdict.rejected, {})
    BY <2>2, <2>7, AskShown
  <2> QED
    BY <2>4, <2>5, <2>6, <2>7
<1>3. ASSUME NEW path \in Paths, NEW self \in SUBSET Flags, NEW kids \in SUBSET Flags,
             NEW dry \in BOOLEAN, RequestNode(path, self, kids, dry)
      PROVE  ShownInv'
  <2> DEFINE m == SelfModeset(entries, path)
             below == ChildrenModeset(entries, path)
             askSelf == LeftToAsk(m, self)
             askKids == LeftToAsk(below, kids)
  <2>1. m \in Modesets
    BY <1>0, LookupTyped
  <2>2. ~Refused(m, self) => Accounted(m, self, askSelf)
    <3>1. CASE self = {}
      BY <3>1 DEF Accounted
    <3>2. CASE self # {}
      BY <2>1, <3>2, ActmodeShows DEF Refused, LeftToAsk
    <3> QED
      BY <3>1, <3>2
  <2>3. ~Asking
    BY <1>3 DEF RequestNode, StartOp
  <2>4. \/ \E result \in {"NULLREQUEST", "BADTYPE", "REJECTEDPOLICY", "WOULDPROMPT"} :
              Return("request", path, self, kids, result)
        \/ /\ ~Refused(m, self) /\ askSelf = {} /\ Return("request", path, self, kids, "OK")
        \/ /\ ~Refused(m, self) /\ Ask("request", path, self, kids, askSelf, askKids)
    BY <1>3, Zenon DEF RequestNode
  <2> HIDE DEF m, askSelf, askKids
  <2>5. ASSUME NEW result \in {"NULLREQUEST", "BADTYPE", "REJECTEDPOLICY", "WOULDPROMPT"},
               Return("request", path, self, kids, result)
        PROVE  ShownInv'
    BY <2>3, <2>5, ReturnShown
  <2>6. CASE ~Refused(m, self) /\ askSelf = {} /\ Return("request", path, self, kids, "OK")
    <3>1. self \subseteq m.accept
      BY <2>2, <2>6 DEF Accounted
    <3> QED
      BY <2>3, <2>6, <3>1, ReturnShown DEF m
  <2>7. CASE ~Refused(m, self) /\ Ask("request", path, self, kids, askSelf, askKids)
    BY <2>2, <2>7, AskShown DEF m
  <2> QED
    BY <2>4, <2>5, <2>6, <2>7
<1>4. ASSUME NEW answer \in Answers, AnswerOnce(answer)
      PROVE  ShownInv'
  BY <1>4, AnswerShown DEF AnswerOnce
<1>5. ASSUME NEW verdict \in Verdicts, AnswerRemember(verdict)
      PROVE  ShownInv'
  BY <1>5, AnswerShown DEF AnswerRemember
<1>6. CASE RememberFails
  BY <1>6, AnswerShown DEF RememberFails
<1>7. CASE Done \/ UNCHANGED vars
  BY <1>7 DEF Done, vars, ShownInv, PromptIsAccounted, GrantsWereShown, Granted, Asking
<1> QED
  BY <1>1, <1>2, <1>3, <1>4, <1>5, <1>6, <1>7 DEF Next

\* Whatever the rules are, what gh_permfs_gatefile and gh_permfs_requestnode grant the policy
\* accepts or the user has seen in the list, except by a prompt about the flags of "prompt" rules
\* that apply to the node, one of them requested.
THEOREM GrantsShown == Spec => []GrantsWereShown
<1>1. Init => ShownInv
  BY DEF Init, ShownInv, PromptIsAccounted, GrantsWereShown, Granted, Asking, NoPrompt, NoOutcome
<1>2. TypeOK /\ ShownInv /\ [Next]_vars => ShownInv'
  BY ShownStep
<1>3. ShownInv => GrantsWereShown
  BY DEF ShownInv
<1> QED
  BY <1>1, <1>2, <1>3, PolicyTyped, PTL DEF Spec
=============================================================================
