------------------------------ MODULE MCPermFS ------------------------------
(***************************************************************************)
(* Instances of PermFS for TLC: a directory, a file in it and a socket, or *)
(* a directory, a directory in it and a file in that.                      *)
(***************************************************************************)
EXTENDS PermFS

dir  == <<"d">>
file == <<"d", "f">>
leaf == <<"d", "f", "l">>
sock == <<"s">>

FlatPaths == {dir, file, sock}
DeepPaths == {dir, file, leaf}
DirPaths == {dir, file}

Sockets == {sock}

Rule(self, children) == [self |-> self, children |-> children]

\* Policies without "prompt" rules.
PlainRules ==
    {Rule(Accepting({"r"}), Rejecting({"w"})), Rule(Rejecting({"r"}), Accepting({"r", "w"}))}

\* A policy that leaves an operation to the prompter.
PromptRules == {Rule([Empty EXCEPT !.prompt = {"r"}], Empty)}

\* Both: one rule accepts and rejects, the other leaves an operation on the node
\* itself to the prompter.
MixedRules ==
    {Rule(Accepting({"r"}), Rejecting({"w"})),
     Rule([Empty EXCEPT !.prompt = {"r"}], Accepting({"r", "w"}))}

\* A policy that rejects an operation on the nodes below.
BelowRules == {Rule(Empty, Rejecting({"w"}))}
=============================================================================
