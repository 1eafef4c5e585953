---------------------------- MODULE MCCaptureLog ----------------------------
\* CaptureLog with two hooks.
EXTENDS CaptureLog, TLC

CONSTANTS h1, h2

TwoHooks == {h1, h2}
Symmetry == Permutations(TwoHooks)
=============================================================================
