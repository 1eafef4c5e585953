-------------------------- MODULE MCSessionWindow --------------------------
\* SessionWindow and TapWindow with two hooks and one process running begin.
EXTENDS TapWindow, TLC

CONSTANTS h1, h2, b1

TwoHooks == {h1, h2}
OneBegin == {b1}
HookSymmetry == Permutations(TwoHooks)
=============================================================================
