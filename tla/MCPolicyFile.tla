---------------------------- MODULE MCPolicyFile ----------------------------
(* Paths and rules for the instances of PolicyFile. *)
EXTENDS PolicyFile

\* A directory and a file in it.
PathSet == {<<"/dir">>, <<"/dir", "/file">>}

\* A path with a character that the writer does not escape.
QuotedPathSet == {<<"/dir">>, <<"/dir", "Q">>}

FlagSeq == <<"read">>

Mode(verb) == [Empty EXCEPT ![verb] = FlagSet]
RuleSet == {[self |-> Mode("accept"), children |-> Empty],
            [self |-> Mode("reject"), children |-> Mode("accept")]}
=============================================================================
