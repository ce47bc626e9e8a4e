---------------------------- MODULE MCCallFrame ----------------------------
(* Strings for the instances of CallFrame. *)
EXTENDS CallFrame

\* No '\0' among the characters; the longest makes the memory grow twice.
PlainStrings == {<<1>>, <<1, 1, 1, 1, 1>>}

\* An inner and a trailing null byte.
ZeroStrings == {<<1, 0, 1>>}
EndStrings == {<<1, 0>>, <<1>>}
=============================================================================
