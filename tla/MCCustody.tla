----------------------------- MODULE MCCustody -----------------------------
\* Custody with two anchors and two reviewers, of work that passes and work that does not.
EXTENDS Custody, TLC

CONSTANTS a1, a2, r1, r2, good, bad

TwoAnchors == {a1, a2}
TwoReviewers == {r1, r2}
Symmetry == Permutations(TwoAnchors) \cup Permutations(TwoReviewers)
Verdicts == good :> "pass" @@ bad :> "fail"
=============================================================================
