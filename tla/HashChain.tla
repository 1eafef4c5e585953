------------------------------ MODULE HashChain ------------------------------
(***************************************************************************)
(* Append-only JSONL files whose records are chained by hashes: the common *)
(* part of capture.ts and ledger.ts.  A hash is a natural number, fresh    *)
(* for every record (no two records of a run agree in all hashed fields,   *)
(* their time stamp included); NoHash is what a line written by a version  *)
(* without the chain has.  A line that does not parse is Corrupt.          *)
(***************************************************************************)
EXTENDS Naturals, Sequences, SequencesExt

CONSTANT Corrupt    \* a line of the file that JSON.parse rejects

NoHash == 0

IsRecord(line) == line # Corrupt

\* What a reader gets: split at newlines, drop what does not parse.
Parsed(file) ==
    LET upTo[i \in 0 .. Len(file)] ==
            IF i = 0 THEN <<>>
            ELSE IF IsRecord(file[i]) THEN Append(upTo[i - 1], file[i]) ELSE upTo[i - 1]
    IN  upTo[Len(file)]

\* The last line that parses, or the given default.
LastRecord(file, default) ==
    IF \E i \in DOMAIN file : IsRecord(file[i])
    THEN file[CHOOSE i \in DOMAIN file :
                /\ IsRecord(file[i])
                /\ \A k \in DOMAIN file : k > i => ~IsRecord(file[k])]
    ELSE default

\* Lines i and j are consecutive for a reader: nothing between them parses.
Adjacent(file, i, j) ==
    /\ i < j /\ IsRecord(file[i]) /\ IsRecord(file[j])
    /\ \A k \in DOMAIN file : i < k /\ k < j => ~IsRecord(file[k])

\* Appending lines to a file.  When an earlier write stopped before its
\* newline the first new line joins the unfinished one: neither parses.
AppendLines(file, closed, lines) ==
    IF closed = "yes" \/ file = <<>> THEN file \o lines
    ELSE Front(file) \o <<Corrupt>> \o Tail(lines)

\* k whole lines reached the file, and part of the next one.
Cut(lines, k) == SubSeq(lines, 1, k) \o <<Corrupt>>
=============================================================================
