----------------------------- MODULE MCTapWiring -----------------------------
\* TapWiring on two files that name the same server, and a second server.
EXTENDS TapWiring

CONSTANTS c1, c2, n1, n2, x, y

TwoFiles == {<<c1, n1>>, <<c1, n2>>, <<c2, n1>>}
=============================================================================
