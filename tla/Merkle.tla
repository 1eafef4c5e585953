------------------------------- MODULE Merkle -------------------------------
(***************************************************************************)
(* merkle.ts: the tree of RFC 6962 over a list of leaves, the proofs that a *)
(* leaf is in it and that a tree extends an earlier one, and their checks.  *)
(* A hash is the tuple of what it covers.  Leaves are counted from 1 here,  *)
(* indices from 0 as in the code.                                           *)
(***************************************************************************)
EXTENDS Integers, Sequences, SequencesExt

LeafHash(d) == <<"leaf", d>>
NodeHash(l, r) == <<"node", l, r>>
Empty == <<"empty">>

\* The largest power of two below n.
SplitPoint(n) == LET k == CHOOSE k \in 0 .. n : 2 ^ k < n /\ n <= 2 ^ (k + 1) IN 2 ^ k
Left(leaves) == SubSeq(leaves, 1, SplitPoint(Len(leaves)))
Right(leaves) == SubSeq(leaves, SplitPoint(Len(leaves)) + 1, Len(leaves))

RECURSIVE MerkleRoot(_)
MerkleRoot(leaves) ==
    IF Len(leaves) = 0 THEN Empty
    ELSE IF Len(leaves) = 1 THEN LeafHash(leaves[1])
    ELSE NodeHash(MerkleRoot(Left(leaves)), MerkleRoot(Right(leaves)))

RECURSIVE InclusionProof(_, _)
InclusionProof(index, leaves) ==
    LET k == SplitPoint(Len(leaves))
    IN  IF Len(leaves) = 1 THEN <<>>
        ELSE IF index < k THEN Append(InclusionProof(index, Left(leaves)), MerkleRoot(Right(leaves)))
        ELSE Append(InclusionProof(index - k, Right(leaves)), MerkleRoot(Left(leaves)))

Odd(n) == n % 2 = 1

\* Shifting [fn, sn] right until fn is odd or zero.
RECURSIVE Shifted(_, _)
Shifted(fn, sn) == IF Odd(fn) \/ fn = 0 THEN <<fn, sn>> ELSE Shifted(fn \div 2, sn \div 2)

\* The loop of verifyInclusion, one hash of the proof at a time.
RECURSIVE Climb(_, _, _, _)
Climb(fn, sn, r, proof) ==
    IF proof = <<>> THEN <<sn, r>>
    ELSE IF sn = 0 THEN <<-1, r>>
    ELSE IF Odd(fn) \/ fn = sn
    THEN LET at == Shifted(fn, sn)
         IN  Climb(at[1] \div 2, at[2] \div 2, NodeHash(proof[1], r), Tail(proof))
    ELSE Climb(fn \div 2, sn \div 2, NodeHash(r, proof[1]), Tail(proof))

VerifyInclusion(leaf, index, size, proof, root) ==
    /\ index >= 0 /\ index < size
    /\ Climb(index, size - 1, leaf, proof) = <<0, root>>

RECURSIVE Subproof(_, _, _)
Subproof(m, leaves, whole) ==
    LET n == Len(leaves)
        k == SplitPoint(n)
    IN  IF m = n THEN (IF whole THEN <<>> ELSE <<MerkleRoot(leaves)>>)
        ELSE IF m <= k THEN Append(Subproof(m, Left(leaves), whole), MerkleRoot(Right(leaves)))
        ELSE Append(Subproof(m - k, Right(leaves), FALSE), MerkleRoot(Left(leaves)))
ConsistencyProof(m, leaves) == IF m = Len(leaves) THEN <<>> ELSE Subproof(m, leaves, TRUE)

RECURSIVE Lowered(_, _)
Lowered(node, last) == IF Odd(node) THEN Lowered(node \div 2, last \div 2) ELSE <<node, last>>

\* The two loops of verifyConsistency: up to the old root, where both roots
\* grow, then on to the new one.  The result is <<old, new, rest of proof>>,
\* or <<>> when the proof is too short.
RECURSIVE GrowNew(_, _, _, _)
GrowNew(last, n1, n2, proof) ==
    IF last = 0 THEN <<n1, n2, proof>>
    ELSE IF proof = <<>> THEN <<>>
    ELSE GrowNew(last \div 2, n1, NodeHash(n2, proof[1]), Tail(proof))
RECURSIVE GrowBoth(_, _, _, _, _)
GrowBoth(node, last, n1, n2, proof) ==
    IF node = 0 THEN GrowNew(last, n1, n2, proof)
    ELSE IF proof = <<>> THEN <<>>
    ELSE IF Odd(node)
    THEN GrowBoth(node \div 2, last \div 2, NodeHash(proof[1], n1), NodeHash(proof[1], n2),
                  Tail(proof))
    ELSE IF node < last
    THEN GrowBoth(node \div 2, last \div 2, n1, NodeHash(n2, proof[1]), Tail(proof))
    ELSE GrowBoth(node \div 2, last \div 2, n1, n2, proof)

\* Mutant: the old root is not compared.
VerifyNewOnly(m, n, proof, oldRoot, newRoot) ==
    IF m >= n THEN m = n /\ proof = <<>> /\ oldRoot = newRoot
    ELSE LET at == Lowered(m - 1, n - 1)
             start == IF at[1] > 0 THEN proof[1] ELSE oldRoot
             end == GrowBoth(at[1], at[2], start, start, IF at[1] > 0 THEN Tail(proof) ELSE proof)
         IN  end # <<>> /\ end[2] = newRoot

VerifyConsistency(m, n, proof, oldRoot, newRoot) ==
    IF m > n THEN FALSE
    ELSE IF m = n THEN proof = <<>> /\ oldRoot = newRoot
    ELSE IF m = 0 THEN proof = <<>>
    ELSE IF proof = <<>> THEN FALSE
    ELSE LET at == Lowered(m - 1, n - 1)
             start == IF at[1] > 0 THEN proof[1] ELSE oldRoot
             rest == IF at[1] > 0 THEN Tail(proof) ELSE proof
         IN  GrowBoth(at[1], at[2], start, start, rest) = <<oldRoot, newRoot, <<>>>>
=============================================================================
