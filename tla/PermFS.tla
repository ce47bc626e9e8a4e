------------------------------- MODULE PermFS -------------------------------
(***************************************************************************)
(* The filesystem permission handler (src/ghost/perms/permfs.c): the       *)
(* policy of one gh_thread, a list of entries that says per path which     *)
(* operations are rejected, accepted or left to a prompt, and the two      *)
(* calls that consult it, gh_permfs_gatefile before an operation and       *)
(* gh_permfs_requestnode when a script asks in advance.  Either may open   *)
(* an interactive prompt, and an answer with "remember" is written back    *)
(* into the list.                                                          *)
(*                                                                         *)
(* A gh_permfs_mode is a set of flags.  A canonical path is the sequence   *)
(* of its components, so the root is the empty sequence.  The handler runs *)
(* on one host thread and blocks in the prompter, therefore one operation  *)
(* is in progress at a time; the prompt splits it into two steps.          *)
(***************************************************************************)
EXTENDS Naturals, Sequences, FiniteSets

CONSTANTS
    Flags,      \* the operations of gh_permfs_mode
    Paths,      \* the canonical paths in play
    Odd,        \* paths of sockets, devices and other refused node types
    Rules,      \* the (self, children) pairs a policy file or the host adds
    MaxOps,     \* bound: operations in one behaviour
    AllocFails  \* whether the allocation of a new entry may fail

Modesets == [reject : SUBSET Flags, accept : SUBSET Flags, prompt : SUBSET Flags]
Entries == [path : Paths, self : Modesets, children : Modesets]

ASSUME PathsAssumption == Paths \subseteq Seq(STRING) /\ Odd \subseteq Paths
ASSUME RulesAssumption == Rules \subseteq [self : Modesets, children : Modesets]
ASSUME OpsAssumption == MaxOps \in Nat /\ AllocFails \in BOOLEAN

Empty == [reject |-> {}, accept |-> {}, prompt |-> {}]
Accepting(mode) == [Empty EXCEPT !.accept = mode]
Rejecting(mode) == [Empty EXCEPT !.reject = mode]

Results == {"OK", "WOULDPROMPT", "REJECTEDPOLICY", "REJECTEDUSER",
            "REJECTEDPROMPT", "BADTYPE", "NULLREQUEST", "ERROR"}
Operations == {"gate", "request"}

\* What the end user asked to be remembered.
Verdicts == {"accept", "reject"}
Scopes == {"self", "children"}
Decisions == [path : Paths, scope : Scopes, flag : Flags, verdict : Verdicts]

Questions == [op : Operations, path : Paths,
              self : SUBSET Flags, kids : SUBSET Flags,
              shownSelf : SUBSET Flags, shownKids : SUBSET Flags]
Outcomes == [op : Operations, path : Paths,
             self : SUBSET Flags, kids : SUBSET Flags,
             shownSelf : SUBSET Flags, shownKids : SUBSET Flags,
             result : Results]

NoPrompt == [op |-> "none"]
NoOutcome == [op |-> "none"]

VARIABLES
    entries,    \* permfs->file_perms
    pending,    \* the question shown by the prompter, or NoPrompt
    outcome,    \* what the last operation was and what it returned
    decided,    \* every decision the user asked to be remembered
    ops         \* operations started

vars == <<entries, pending, outcome, decided, ops>>

Asking == pending.op # "none"
Granted == outcome.op # "none" /\ outcome.result = "OK"

-----------------------------------------------------------------------------
(***************************************************************************)
(* gh_permfs_getmode                                                       *)
(***************************************************************************)

\* gh_permfs_modeset_join, and merge_modeset
Join(a, b) == [reject |-> a.reject \cup b.reject,
               accept |-> a.accept \cup b.accept,
               prompt |-> a.prompt \cup b.prompt]

\* The directory match: the entry's path is a prefix of the path looked up and
\* the next character there is '/'.  The string of the root is "/", after which
\* no canonical path has a second '/': an entry for the root covers nothing.
Below(dir, path) ==
    /\ dir # << >>
    /\ Len(dir) < Len(path)
    /\ dir = SubSeq(path, 1, Len(dir))

\* A mutant of LookupStep: the first exact match ends the search.
LookupStepShadowed(acc, e, path) ==
    IF acc.self # Empty THEN acc
    ELSE IF e.path = path THEN [self |-> e.self, children |-> e.children]
    ELSE IF Below(e.path, path) THEN [self |-> e.children, children |-> e.children]
    ELSE acc

\* One iteration of the loop over the entries.
LookupStep(acc, e, path) ==
    IF e.path = path THEN
        [self |-> Join(acc.self, e.self), children |-> Join(acc.children, e.children)]
    ELSE IF Below(e.path, path) THEN
        LET self == Join(acc.self, e.children)
        IN  [self |-> self, children |-> Join(self, e.children)]
    ELSE acc

\* The loop as written, as a recursive function of the entries seen so far.
Lookup(es, path) ==
    LET acc[n \in 0 .. Len(es)] ==
          IF n = 0 THEN [self |-> Empty, children |-> Empty]
                   ELSE LookupStep(acc[n - 1], es[n], path)
    IN  acc[Len(es)]

\* What one entry contributes to the modes of a path.
Contribution(e, path) ==
    IF e.path = path THEN e.self
    ELSE IF Below(e.path, path) THEN e.children
    ELSE Empty

\* The contributions of the entries with the given indices, joined.
Union(es, path, indices) ==
    [reject |-> UNION {Contribution(es[i], path).reject : i \in indices},
     accept |-> UNION {Contribution(es[i], path).accept : i \in indices},
     prompt |-> UNION {Contribution(es[i], path).prompt : i \in indices}]

\* The loop's results in closed form.  For the node itself every matching entry
\* counts.  For the nodes below it each directory match overwrites what was
\* collected with the node's own modes so far, so the entries up to the last
\* directory match count as they do for the node; only an entry of the path
\* itself that comes later adds its children modes.
SelfModeset(es, path) == Union(es, path, 1 .. Len(es))

ChildrenModeset(es, path) ==
    LET UpToLast == {i \in 1 .. Len(es) : \E j \in i .. Len(es) : Below(es[j].path, path)}
        Later == {i \in 1 .. Len(es) \ UpToLast : es[i].path = path}
    IN  Join(Union(es, path, UpToLast),
             [reject |-> UNION {es[i].children.reject : i \in Later},
              accept |-> UNION {es[i].children.accept : i \in Later},
              prompt |-> UNION {es[i].children.prompt : i \in Later}])

-----------------------------------------------------------------------------
(***************************************************************************)
(* gh_permfs_add and the policy parser                                     *)
(***************************************************************************)

HasEntry(es, path) == \E i \in 1 .. Len(es) : es[i].path = path
IndexOf(es, path) == CHOOSE i \in 1 .. Len(es) : es[i].path = path

\* A mutant of AddTo: an existing entry is overwritten instead of merged.
AddToOverwriting(es, path, self, children) ==
    IF HasEntry(es, path)
    THEN [es EXCEPT ![IndexOf(es, path)].self = self]
    ELSE Append(es, [path |-> path, self |-> self, children |-> children])

\* gh_permfs_add: an existing entry takes both modesets into its self modeset.
AddTo(es, path, self, children) ==
    IF HasEntry(es, path)
    THEN [es EXCEPT ![IndexOf(es, path)].self = Join(Join(@, self), children)]
    ELSE Append(es, [path |-> path, self |-> self, children |-> children])

\* permfsparser_newentry adds an empty entry or finds the one there is, and
\* permfsparser_setfield then sets its modesets, each in its own field.
LoadInto(es, path, self, children) ==
    LET found == AddTo(es, path, Empty, Empty)
        i == IndexOf(found, path)
    IN  [found EXCEPT ![i].self = Join(@, self), ![i].children = Join(@, children)]

StartOp == /\ ~Asking
           /\ ops < MaxOps
           /\ ops' = ops + 1

\* The host calls gh_permfs_add.
Add(path, rule) ==
    /\ StartOp
    /\ entries' = AddTo(entries, path, rule.self, rule.children)
    /\ UNCHANGED <<pending, outcome, decided>>

\* One entry of a policy file is parsed.
Load(path, rule) ==
    /\ StartOp
    /\ entries' = LoadInto(entries, path, rule.self, rule.children)
    /\ UNCHANGED <<pending, outcome, decided>>

-----------------------------------------------------------------------------
(***************************************************************************)
(* Consulting the policy                                                   *)
(***************************************************************************)

\* Mutants of actmode: accepts are looked at before rejects; one accepted flag
\* is enough.
actmodeAcceptFirst(modeset, mode) ==
    LET missing == mode \ modeset.accept IN
    IF mode # {} /\ missing = {} THEN [res |-> "OK", rejected |-> {}]
    ELSE IF modeset.reject \cap mode # {} THEN
        [res |-> "REJECTEDPOLICY", rejected |-> mode \ modeset.reject]
    ELSE [res |-> "REJECTEDPROMPT", rejected |-> missing]

actmodeAnyFlag(modeset, mode) ==
    LET missing == mode \ modeset.accept IN
    IF modeset.reject \cap mode # {} THEN
        [res |-> "REJECTEDPOLICY", rejected |-> mode \ modeset.reject]
    ELSE IF missing # mode THEN [res |-> "OK", rejected |-> {}]
    ELSE [res |-> "REJECTEDPROMPT", rejected |-> missing]

\* permfs_actmode: the verdict and the rejected_mode it reports.
actmode(modeset, mode) ==
    LET missing == mode \ modeset.accept IN
    IF modeset.reject \cap mode # {} THEN
        [res |-> "REJECTEDPOLICY", rejected |-> mode \ modeset.reject]
    ELSE IF mode # {} /\ missing = {} THEN
        [res |-> "OK", rejected |-> {}]
    ELSE
        [res |-> "REJECTEDPROMPT",
         rejected |-> IF modeset.prompt \cap missing # {} THEN modeset.prompt ELSE missing]

Question(op, path, self, kids, shownSelf, shownKids) ==
    [op |-> op, path |-> path, self |-> self, kids |-> kids,
     shownSelf |-> shownSelf, shownKids |-> shownKids]

Outcome(q, result) ==
    [op |-> q.op, path |-> q.path, self |-> q.self, kids |-> q.kids,
     shownSelf |-> q.shownSelf, shownKids |-> q.shownKids, result |-> result]

\* An operation that ends without a prompt.
Return(op, path, self, kids, result) ==
    /\ outcome' = Outcome(Question(op, path, self, kids, {}, {}), result)
    /\ UNCHANGED <<entries, pending, decided>>

\* permfs_promptrequest up to the call of the prompter.
Ask(op, path, self, kids, shownSelf, shownKids) ==
    /\ pending' = Question(op, path, self, kids, shownSelf, shownKids)
    /\ UNCHANGED <<entries, outcome, decided>>

\* gh_permfs_gatefile.  The caller's mode is never empty: open maps to READ,
\* WRITE or both, and the other calls name one flag.
GateFile(path, mode) ==
    LET verdict == actmode(SelfModeset(entries, path), mode) IN
    /\ StartOp
    /\ IF path \in Odd THEN Return("gate", path, mode, {}, "BADTYPE")
       ELSE IF verdict.res = "REJECTEDPROMPT"
            THEN Ask("gate", path, mode, {}, verdict.rejected, {})
            ELSE Return("gate", path, mode, {}, verdict.res)

\* What is left to ask of a requested mode (self_mode and children_mode after
\* the two calls of permfs_actmode).
LeftToAsk(modeset, mode) == IF mode = {} THEN {} ELSE actmode(modeset, mode).rejected
Refused(modeset, mode) == mode # {} /\ actmode(modeset, mode).res = "REJECTEDPOLICY"

\* gh_permfs_requestnode; dry is a call with out_wouldprompt.
RequestNode(path, self, kids, dry) ==
    LET own   == SelfModeset(entries, path)
        below == ChildrenModeset(entries, path)
        askSelf == LeftToAsk(own, self)
        askKids == LeftToAsk(below, kids)
    IN
    /\ StartOp
    /\ IF self = {} /\ kids = {} THEN
            Return("request", path, self, kids, "NULLREQUEST")
       ELSE IF path \in Odd THEN
            Return("request", path, self, kids, "BADTYPE")
       ELSE IF Refused(own, self) \/ Refused(below, kids) THEN
            Return("request", path, self, kids, "REJECTEDPOLICY")
       ELSE IF askSelf = {} /\ askKids = {} THEN
            Return("request", path, self, kids, "OK")
       ELSE IF dry THEN
            Return("request", path, self, kids, "WOULDPROMPT")
       ELSE Ask("request", path, self, kids, askSelf, askKids)

\* The prompter answers without "remember", or with a value the switch does not
\* know, or it fails (as does a description that does not fit its buffer).
Answers == {<<"accept", "OK">>, <<"reject", "REJECTEDUSER">>,
            <<"other", "REJECTEDPROMPT">>, <<"failed", "ERROR">>}

\* A mutant of AnswerOnce: the prompter's answer is returned as the result.
AnswerOnceRaw(answer) ==
    /\ Asking
    /\ outcome' = Outcome(pending, answer[1])
    /\ pending' = NoPrompt
    /\ UNCHANGED <<entries, decided, ops>>

AnswerOnce(answer) ==
    /\ Asking
    /\ outcome' = Outcome(pending, answer[2])
    /\ pending' = NoPrompt
    /\ UNCHANGED <<entries, decided, ops>>

\* The decisions an answer with "remember" makes about the flags shown.
DecisionsOf(q, verdict) ==
    {[path |-> q.path, scope |-> "self", flag |-> f, verdict |-> verdict] :
        f \in q.shownSelf} \cup
    {[path |-> q.path, scope |-> "children", flag |-> f, verdict |-> verdict] :
        f \in q.shownKids}

\* ACCEPTREMEMBER and REJECTREMEMBER: the shown flags go into the policy.
AnswerRemember(verdict) ==
    LET Set(mode) == IF verdict = "accept" THEN Accepting(mode) ELSE Rejecting(mode) IN
    /\ Asking
    /\ entries' = AddTo(entries, pending.path, Set(pending.shownSelf), Set(pending.shownKids))
    /\ decided' = decided \cup DecisionsOf(pending, verdict)
    /\ outcome' = Outcome(pending, IF verdict = "accept" THEN "OK" ELSE "REJECTEDUSER")
    /\ pending' = NoPrompt
    /\ UNCHANGED ops

\* The entry cannot be allocated: the answer is lost and the call fails, even
\* when the user accepted.
RememberFails ==
    /\ AllocFails
    /\ Asking
    /\ ~HasEntry(entries, pending.path)
    /\ outcome' = Outcome(pending, "ERROR")
    /\ pending' = NoPrompt
    /\ UNCHANGED <<entries, decided, ops>>

-----------------------------------------------------------------------------
Init ==
    /\ entries = << >>
    /\ pending = NoPrompt
    /\ outcome = NoOutcome
    /\ decided = {}
    /\ ops = 0

Done == ~Asking /\ ops = MaxOps /\ UNCHANGED vars

Next ==
    \/ \E path \in Paths, rule \in Rules : Add(path, rule)
    \/ \E path \in Paths, rule \in Rules : Load(path, rule)
    \/ \E path \in Paths, mode \in (SUBSET Flags) \ {{}} : GateFile(path, mode)
    \/ \E path \in Paths, self \in SUBSET Flags, kids \in SUBSET Flags, dry \in BOOLEAN :
            RequestNode(path, self, kids, dry)
    \/ \E answer \in Answers : AnswerOnce(answer)
    \/ \E verdict \in Verdicts : AnswerRemember(verdict)
    \/ RememberFails
    \/ Done

Spec == Init /\ [][Next]_vars

-----------------------------------------------------------------------------
(***************************************************************************)
(* Properties                                                              *)
(***************************************************************************)

\* The shape of the state of gh_permfs and of the operation in progress.
TypeOK ==
    /\ entries \in Seq(Entries)
    /\ pending \in Questions \cup {NoPrompt}
    /\ outcome \in Outcomes \cup {NoOutcome}
    /\ decided \subseteq Decisions
    /\ ops \in 0 .. MaxOps

\* gh_permfs_add never leaves two entries for one path, which is what makes
\* "the" entry of a path, and its merge, meaningful.
OneEntryPerPath ==
    \A i, j \in 1 .. Len(entries) : entries[i].path = entries[j].path => i = j

\* The loop of gh_permfs_getmode computes the closed form, for every path and
\* in every state of the policy, whatever order the entries are in.
LookupIsUnion ==
    \A path \in Paths :
        Lookup(entries, path) = [self |-> SelfModeset(entries, path),
                                 children |-> ChildrenModeset(entries, path)]

\* What the user asked to be remembered about a node is in the modes that every
\* later lookup of that node sees: nothing that is added, loaded or remembered
\* afterwards takes it away.
Remembered ==
    \A d \in decided :
        d.scope = "self" =>
            d.flag \in IF d.verdict = "accept"
                       THEN SelfModeset(entries, d.path).accept
                       ELSE SelfModeset(entries, d.path).reject

\* The flags of a node the user rejected, or accepted, for good.
Forever(path, verdict) ==
    {d.flag : d \in {e \in decided : /\ e.path = path
                                     /\ e.scope = "self"
                                     /\ e.verdict = verdict}}

\* No gh_permfs_gatefile returns GHR_OK for an operation on a node that the user
\* had rejected with "remember", whatever was accepted, loaded or asked since.
NoGrantAfterReject ==
    Granted =>
        outcome.self \cap Forever(outcome.path, "reject") = {}

\* The user is never shown a prompt about a node again for operations that are
\* all accepted for good, nor for any operation rejected for good.
NeverAskedAgain ==
    Asking /\ pending.shownSelf # {} =>
        /\ ~(pending.self \subseteq Forever(pending.path, "accept"))
        /\ pending.self \cap Forever(pending.path, "reject") = {}

\* What a granted operation may do, the policy accepts or the prompt that was
\* accepted has listed ("the script will receive access to the object as
\* specified in the list above").  It fails where a rule leaves some flags to the
\* prompt: permfs_actmode then lists the rule's flags, not the missing ones.
GrantsWereListed ==
    Granted =>
        outcome.self \subseteq
            (outcome.shownSelf \cup SelfModeset(entries, outcome.path).accept)

\* The only grant of an operation that neither the policy accepts nor the prompt
\* listed is by a prompt that listed flags of "prompt" rules which apply to the
\* node, one of the requested flags among them (permfs.c:232).  So a node that no
\* such rule covers is never granted what the user was not shown, and no prompt
\* grants anything when none of the requested flags was on its list.
GrantsWereShown ==
    Granted =>
        LET own == SelfModeset(entries, outcome.path)
            shown == outcome.shownSelf
        IN  \/ outcome.self \subseteq (shown \cup own.accept)
            \/ shown \subseteq own.prompt /\ outcome.self \cap shown # {}

\* No step of the handler withdraws a rejection or an acceptance that applies
\* to a node: the effective policy only grows.
PolicyOnlyGrows ==
    [][\A path \in Paths :
          /\ SelfModeset(entries, path).reject \subseteq SelfModeset(entries', path).reject
          /\ SelfModeset(entries, path).accept \subseteq SelfModeset(entries', path).accept]_vars

\* A remembered answer about the nodes below a directory applies to every node
\* below it (gh_permfs_add: "Set of modes to apply to nodes below the path in
\* the hierarchy").
RememberedBelow ==
    \A d \in decided, path \in Paths :
        d.scope = "children" /\ Below(d.path, path) =>
            d.flag \in IF d.verdict = "accept"
                       THEN SelfModeset(entries, path).accept
                       ELSE SelfModeset(entries, path).reject

\* A script cannot bring up a prompt for operations on the nodes below a path
\* that the entry of that path rejects ("Scripts cannot prompt for permissions
\* that have been explicitly rejected forever").
NoPromptForRejected ==
    Asking =>
        \A i \in 1 .. Len(entries) :
            entries[i].path = pending.path =>
                entries[i].children.reject \cap pending.kids = {}
=============================================================================
