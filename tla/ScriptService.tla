--------------------------- MODULE ScriptService ---------------------------
(***************************************************************************)
(* What the gh_thread API promises an application, without the processes,  *)
(* the socket and the script ids: requests are numbered as they are made,  *)
(* each is executed at most once and has one result, and a reply for a     *)
(* request carries the result of that very request and is given at most    *)
(* once.  An operation may also end with an error instead of a reply.      *)
(***************************************************************************)
EXTENDS Naturals

CONSTANT Results

VARIABLES submitted, \* number of requests made so far
          open,      \* requests that wait for a reply
          ran,       \* set of <<request, result>>: requests executed so far
          reply      \* the last answer: <<request, result>>, or << >>

vars == <<submitted, open, ran, reply>>

Init ==
    /\ submitted = 0
    /\ open = {}
    /\ ran = {}
    /\ reply = << >>

\* A request is accepted, or refused at once.
Submit ==
    /\ submitted' = submitted + 1
    /\ \/ open' = open \cup {submitted + 1} /\ UNCHANGED reply
       \/ open' = open /\ reply' = << >>
    /\ UNCHANGED ran

Execute(n, r) ==
    /\ n \in 1 .. submitted
    /\ \A q \in Results : <<n, q>> \notin ran
    /\ ran' = ran \cup {<<n, r>>}
    /\ UNCHANGED <<submitted, open, reply>>

Deliver(n, r) ==
    /\ n \in open
    /\ <<n, r>> \in ran
    /\ open' = open \ {n}
    /\ reply' = <<n, r>>
    /\ UNCHANGED <<submitted, ran>>

\* The operation ends with an error, or returns before its result is known.
GiveUp(S) ==
    /\ open' = open \ S
    /\ reply' = << >>
    /\ UNCHANGED <<submitted, ran>>

Next ==
    \/ Submit
    \/ \E n \in 1 .. submitted, r \in Results : Execute(n, r)
    \/ \E n \in open, r \in Results : Deliver(n, r)
    \/ \E S \in SUBSET open : GiveUp(S)

Spec == Init /\ [][Next]_vars
=============================================================================
