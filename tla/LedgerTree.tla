----------------------------- MODULE LedgerTree -----------------------------
(***************************************************************************)
(* The ledger with `ledger merkle`: its chained entries are the leaves of a *)
(* tree (runLedgerMerkle, printMerkleReport), whose root somebody notes and *)
(* later holds against the ledger as it is then.                            *)
(***************************************************************************)
EXTENDS Ledger, Merkle

VARIABLE noted    \* the root once noted, with its size and, as history, its leaves

treeVars == <<vars, noted>>

NothingNoted == [size |-> 0, root |-> Empty, leaves |-> <<>>]

\* ledgerMerkleLeaves: the hashes of the lines that parse and are chained.
LedgerMerkleLeaves(file) ==
    LET chained == SelectSeq(Parsed(file), LAMBDA e : e.hash # <<>>)
    IN  [i \in DOMAIN chained |-> chained[i].hash]

\* ledger merkle root: what it prints is kept.
NoteRoot ==
    /\ noted = NothingNoted /\ LedgerMerkleLeaves(ledger) # <<>>
    /\ LET leaves == LedgerMerkleLeaves(ledger)
       IN  noted' = [size |-> Len(leaves), root |-> MerkleRoot(leaves), leaves |-> leaves]
    /\ UNCHANGED vars

TInit == Init /\ noted = NothingNoted
TNext == (Next /\ UNCHANGED noted) \/ NoteRoot
TSpec == TInit /\ [][TNext]_treeVars

\* ledger merkle consistency --old-size --old-root; "input" is exit 2.
Consistency ==
    LET leaves == LedgerMerkleLeaves(ledger)
    IN  IF noted.size < 1 \/ noted.size > Len(leaves) THEN "input"
        ELSE IF VerifyConsistency(noted.size, Len(leaves), ConsistencyProof(noted.size, leaves),
                                    noted.root, MerkleRoot(leaves)) THEN "extends"
        ELSE "fork"

\* ledger merkle prove --index.
Proves(index, leaf) ==
    LET leaves == LedgerMerkleLeaves(ledger)
    IN  VerifyInclusion(LeafHash(leaf), index, Len(leaves), InclusionProof(index, leaves),
                        MerkleRoot(leaves))

-----------------------------------------------------------------------------
\* Every entry proves its place in the tree, and neither another place nor
\* another entry can be proved with the same path.  A root noted earlier is
\* extended by the ledger exactly when every entry it was made of is still
\* where it was, though only roots and a proof are compared; so a rebuild that
\* changes an entry shows, which the chain itself does not tell, and appending
\* never looks like a fork, crashes included.
ForkShows ==
    LET leaves == LedgerMerkleLeaves(ledger)
    IN  /\ \A i, j \in DOMAIN leaves : Proves(i - 1, leaves[j]) <=> leaves[i] = leaves[j]
        /\ noted # NothingNoted =>
              /\ Consistency = "extends" <=> IsPrefix(noted.leaves, leaves)
              /\ rebuilds = 0 => \/ Consistency = "extends"
                                 \/ \E i \in DOMAIN ledger : ledger[i] = Corrupt
=============================================================================
