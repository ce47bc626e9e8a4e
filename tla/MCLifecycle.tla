---------------------------- MODULE MCLifecycle ----------------------------
(* Two sandboxes with one thread each.  The second jail is forked after the *)
(* first thread may have been built, so it inherits the host's ends of both. *)
EXTENDS Lifecycle

CONSTANTS s1, s2, t1, t2

MCHome == [t \in Threads |-> IF t = t1 THEN s1 ELSE s2]
=============================================================================
