------------------------------ MODULE MCLedger ------------------------------
\* The ledger and its tree, with two writers.
EXTENDS LedgerTree, TLC

CONSTANTS w1, w2

TwoWriters == {w1, w2}
Symmetry == Permutations(TwoWriters)
=============================================================================
