----------------------------- MODULE MCPermExec -----------------------------
(* Policy files for the instances of PermExec. *)
EXTENDS PermExec

CONSTANTS ls, rm

File(hash, token, mode) == [hash |-> hash, token |-> token, mode |-> mode]

\* A policy that asks about one program every time.
PromptFiles == {<<File(ls, "identifier", "PROMPT")>>}

\* Entries that accept, reject or ask, one without a mode and one that cannot be read.
MixedFiles ==
    PromptFiles \cup
    {<<File(ls, "identifier", "ACCEPT")>>,
     <<File(ls, "identifier", "REJECT"), File(rm, "none", "PROMPT")>>,
     <<File(rm, "string", "REJECT"), File(ls, "identifier", "ACCEPT")>>}
=============================================================================
