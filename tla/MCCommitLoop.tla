---------------------------- MODULE MCCommitLoop ----------------------------
\* CommitLoop with a file in scope, a denied one in scope too, a linked
\* test and a file out of scope.
EXTENDS CommitLoop

CONSTANTS a, d, l, o

AllFiles == {a, d, l, o}
InAllowed == {a, d}
OnlyDenied == {d}
OnlyLinked == {l}
OnlyOutside == {o}
OneFile == [f \in AllFiles |-> IF f = l THEN 1 ELSE 0]
=============================================================================
