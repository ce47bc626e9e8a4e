------------------------------- MODULE MCStdFs -------------------------------
(* Flags of open(2) for the instances of StdFs. *)
EXTENDS StdFs, TLC

CONSTANTS t1, t2, home, tmp, f, g, link

Places == [d \in Dirs |-> IF d = tmp THEN "/tmp" ELSE "/home"]
Symmetry == Permutations(Threads) \cup Permutations(Nodes \ {link})

OpenWith(acc, creat, trunc) == [acc |-> acc, append |-> FALSE, creat |-> creat, trunc |-> trunc]

\* Reading, creating a file to write it, and appending to a file that is open for reading.
UsualFlags == {OpenWith("r", FALSE, FALSE), OpenWith("w", TRUE, TRUE),
               [OpenWith("r", FALSE, FALSE) EXCEPT !.append = TRUE]}
TruncatingFlags == {OpenWith("r", FALSE, TRUE)}
AllFlags == UsualFlags \cup TruncatingFlags

TemporaryFlags == {OpenWith("rw", TRUE, FALSE)}
ReadOnlyTemporaryFlags == {OpenWith("r", TRUE, FALSE)}
=============================================================================
