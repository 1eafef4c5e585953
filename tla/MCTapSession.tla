---------------------------- MODULE MCTapSession ----------------------------
\* TapSession with two ids in a map of two.
EXTENDS TapSession, TLC

Symmetry == Permutations(Ids)
=============================================================================
