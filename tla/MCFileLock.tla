----------------------------- MODULE MCFileLock -----------------------------
\* FileLock on three processes.
EXTENDS FileLock, TLC

CONSTANTS p1, p2, p3

ThreeProcs == {p1, p2, p3}
=============================================================================
