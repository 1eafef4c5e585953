---------------------------- MODULE MCCompletion ----------------------------
\* Completion with two receipts, two sessions and two Stop hooks.
EXTENDS Completion, TLC

CONSTANTS w1, w2, a, b, s1, s2

TwoWorks == {w1, w2}
FirstOnly == {w1}
Different == [w \in TwoWorks |-> w]
TwoSessions == {a, b}
TwoStops == {s1, s2}
Symmetry == Permutations(TwoSessions) \cup Permutations(TwoStops)
=============================================================================
