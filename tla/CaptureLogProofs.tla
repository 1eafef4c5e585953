-------------------------- MODULE CaptureLogProofs --------------------------
(***************************************************************************)
(* Proofs about CaptureLog, for every number of hooks, events and records  *)
(* per event, and about SessionWindow and TapWindow, which build on it.    *)
(* First what the operators on files return; then the chain and the order  *)
(* of the numbers, whatever happens to the file; then what hooks, mark,    *)
(* `capture verify` and begin know of a log no line of which was broken    *)
(* and which was not reset; then the tap log.                              *)
(***************************************************************************)
EXTENDS TapWindow, Integers, SequenceTheorems, WellFoundedInduction, TLAPS

-----------------------------------------------------------------------------
(* What the operators of HashChain return, for every file                  *)

\* A set of natural numbers has a least one.
LEMMA LeastNatural ==
  ASSUME NEW T \in SUBSET Nat, T # {}
  PROVE  \E x \in T : \A y \in T : x <= y
<1> DEFINE R == {s \in Nat \X Nat : s[1] < s[2]}
<1>1. IsWellFoundedOn(R, Nat)
  BY NatLessThanWellFounded, Zenon DEF OpToRel
<1>2. \E x \in T : \A y \in T : ~(<<y, x>> \in R)
  <2> HIDE DEF R
  <2> QED
    BY <1>1, WFMin
<1>3. PICK x \in T : \A y \in T : ~(<<y, x>> \in R)
  BY <1>2
<1>4. ASSUME NEW y \in T PROVE x <= y
  <2>1. x \in Nat /\ y \in Nat /\ ~(<<y, x>> \in R)
    BY <1>3
  <2> QED
    BY <2>1
<1> QED
  BY <1>4

\* A set of positions of a sequence has a greatest one.
LEMMA GreatestPosition ==
  ASSUME NEW n \in Nat, NEW T \in SUBSET (1 .. n), T # {}
  PROVE  \E x \in T : \A y \in T : y <= x
<1> DEFINE D == {n - t : t \in T}
<1>1. D \in SUBSET Nat /\ D # {}
  <2>1. \A t \in T : n - t \in Nat
    OBVIOUS
  <2>2. D \subseteq Nat
    BY <2>1
  <2>3. PICK t \in T : TRUE
    OBVIOUS
  <2>4. n - t \in D
    OBVIOUS
  <2> QED
    BY <2>2, <2>4
<1>2. PICK d \in D : \A e \in D : d <= e
  BY <1>1, LeastNatural
<1>3. PICK x \in T : d = n - x
  OBVIOUS
<1>4. ASSUME NEW y \in T PROVE y <= x
  <2>1. n - y \in D
    OBVIOUS
  <2>2. n - x <= n - y /\ x \in 1 .. n /\ y \in 1 .. n
    BY <1>2, <1>3, <2>1
  <2> QED
    BY <2>2
<1> QED
  BY <1>4

\* LastRecord returns the last line that parses, or the default.
LEMMA LastRecordIsLast ==
  ASSUME NEW S, NEW file \in Seq(S), NEW d
  PROVE  /\ (\A i \in DOMAIN file : ~IsRecord(file[i])) => LastRecord(file, d) = d
         /\ (\E i \in DOMAIN file : IsRecord(file[i])) =>
               \E i \in DOMAIN file :
                  /\ IsRecord(file[i]) /\ LastRecord(file, d) = file[i]
                  /\ \A k \in DOMAIN file : k > i => ~IsRecord(file[k])
<1>1. Len(file) \in Nat /\ DOMAIN file = 1 .. Len(file)
  OBVIOUS
<1>2. (\A i \in DOMAIN file : ~IsRecord(file[i])) => LastRecord(file, d) = d
  BY DEF LastRecord
<1>3. ASSUME \E i \in DOMAIN file : IsRecord(file[i])
      PROVE  \E i \in DOMAIN file :
                /\ IsRecord(file[i]) /\ LastRecord(file, d) = file[i]
                /\ \A k \in DOMAIN file : k > i => ~IsRecord(file[k])
  <2> DEFINE P(i) == IsRecord(file[i]) /\ \A k \in DOMAIN file : k > i => ~IsRecord(file[k])
             T == {i \in DOMAIN file : IsRecord(file[i])}
  <2>1. T \in SUBSET (1 .. Len(file)) /\ T # {}
    BY <1>1, <1>3
  <2>2. PICK x \in T : \A y \in T : y <= x
    BY <1>1, <2>1, GreatestPosition
  <2>3. x \in DOMAIN file /\ P(x)
    <3>1. x \in DOMAIN file /\ IsRecord(file[x])
      OBVIOUS
    <3>2. ASSUME NEW k \in DOMAIN file, k > x PROVE ~IsRecord(file[k])
      <4>1. IsRecord(file[k]) => k <= x
        BY <2>2
      <4> QED
        BY <1>1, <3>2, <4>1
    <3> QED
      BY <3>1, <3>2
  <2> HIDE DEF P
  <2>4. (CHOOSE i \in DOMAIN file : P(i)) \in DOMAIN file /\ P(CHOOSE i \in DOMAIN file : P(i))
    BY <2>3
  <2>5. LastRecord(file, d) = file[CHOOSE i \in DOMAIN file : P(i)]
    BY <1>3 DEF LastRecord, P
  <2> QED
    BY <2>4, <2>5 DEF P
<1> QED
  BY <1>2, <1>3

\* An append keeps the lines up to `kept`; the new lines follow.  Where the
\* file did not end with a newline the last line is not kept, and the first
\* new one takes its place as a line that does not parse.
Kept(file, shut) ==
    IF shut = "yes" \/ file = <<>> THEN Len(file) ELSE Len(file) - 1

\* What AppendLines returns, line by line.
LEMMA AppendLinesShape ==
  ASSUME NEW S, Corrupt \in S, NEW file \in Seq(S), NEW shut,
         NEW lines \in Seq(S), lines # <<>>
  PROVE  LET b == Kept(file, shut)
             out == AppendLines(file, shut, lines)
         IN  /\ b \in 0 .. Len(file)
             /\ out \in Seq(S) /\ Len(out) = b + Len(lines)
             /\ \A i \in 1 .. b : out[i] = file[i]
             /\ \A i \in b + 1 .. b + Len(lines) :
                   out[i] = IF b < Len(file) /\ i = b + 1 THEN Corrupt ELSE lines[i - b]
<1> DEFINE L == Len(file)
           m == Len(lines)
<1>1. L \in Nat /\ m \in Nat /\ m >= 1
  OBVIOUS
<1>2. CASE shut = "yes" \/ file = <<>>
  <2> DEFINE out == file \o lines
  <2>1. AppendLines(file, shut, lines) = out /\ Kept(file, shut) = L
    BY <1>2 DEF AppendLines, Kept
  <2>2. /\ out \in Seq(S) /\ Len(out) = L + m
        /\ \A i \in 1 .. L + m : out[i] = IF i <= L THEN file[i] ELSE lines[i - L]
    BY ConcatProperties
  <2> HIDE DEF out, L, m
  <2>3. /\ \A i \in 1 .. L : out[i] = file[i]
        /\ \A i \in L + 1 .. L + m : out[i] = lines[i - L]
    BY <1>1, <2>2
  <2> QED
    BY <1>1, <2>1, <2>2, <2>3 DEF L, m
<1>3. CASE ~(shut = "yes" \/ file = <<>>)
  <2> DEFINE f == SubSeq(file, 1, L - 1)
             c == <<Corrupt>>
             t == Tail(lines)
             fc == f \o c
             out == fc \o t
  <2>1. L >= 1
    BY <1>1, <1>3
  <2>2. AppendLines(file, shut, lines) = out /\ Kept(file, shut) = L - 1
    BY <1>3 DEF AppendLines, Front, Kept
  <2>3. /\ f \in Seq(S) /\ Len(f) = L - 1
        /\ \A i \in 1 .. L - 1 : f[i] = file[i]
    <3>1. 1 \in Int /\ L - 1 \in Int /\ \A i \in 1 .. L - 1 : file[i] \in S
      BY <1>1, <2>1, ElementOfSeq
    <3>2. /\ f \in Seq(S)
          /\ Len(f) = (IF 1 <= L - 1 THEN (L - 1) - 1 + 1 ELSE 0)
          /\ \A i \in 1 .. (L - 1) - 1 + 1 : f[i] = file[1 + i - 1]
      BY <3>1, SubSeqProperties
    <3> HIDE DEF f, L
    <3> QED
      BY <1>1, <2>1, <3>2
  <2>4. c \in Seq(S) /\ Len(c) = 1 /\ c[1] = Corrupt
    OBVIOUS
  <2>5. /\ t \in Seq(S) /\ Len(t) = m - 1
        /\ \A i \in 1 .. m - 1 : t[i] = lines[i + 1]
    BY HeadTailProperties
  <2> HIDE DEF f, c, t, L, m
  <2>6. /\ fc \in Seq(S) /\ Len(fc) = L
        /\ \A i \in 1 .. L : fc[i] = IF i <= L - 1 THEN f[i] ELSE c[i - (L - 1)]
    <3>1. /\ fc \in Seq(S) /\ Len(fc) = Len(f) + Len(c)
          /\ \A i \in 1 .. Len(f) + Len(c) :
                fc[i] = IF i <= Len(f) THEN f[i] ELSE c[i - Len(f)]
      BY <2>3, <2>4, ConcatProperties
    <3>2. Len(f) + Len(c) = L
      BY <1>1, <2>3, <2>4
    <3> QED
      BY <2>3, <3>1, <3>2
  <2> HIDE DEF fc
  <2>7. /\ out \in Seq(S) /\ Len(out) = L + (m - 1)
        /\ \A i \in 1 .. L + (m - 1) : out[i] = IF i <= L THEN fc[i] ELSE t[i - L]
    <3>1. /\ out \in Seq(S) /\ Len(out) = Len(fc) + Len(t)
          /\ \A i \in 1 .. Len(fc) + Len(t) :
                out[i] = IF i <= Len(fc) THEN fc[i] ELSE t[i - Len(fc)]
      BY <2>5, <2>6, ConcatProperties
    <3> QED
      BY <2>5, <2>6, <3>1
  <2> HIDE DEF out
  <2>8. \A i \in 1 .. L - 1 : out[i] = file[i]
    <3> TAKE i \in 1 .. L - 1
    <3>1. i \in 1 .. L /\ i <= L - 1 /\ i <= L /\ i \in 1 .. L + (m - 1)
      BY <1>1, <2>1
    <3> QED
      BY <2>3, <2>6, <2>7, <3>1
  <2>9. out[L] = Corrupt
    <3>1. L \in 1 .. L /\ ~(L <= L - 1) /\ L <= L /\ L \in 1 .. L + (m - 1)
          /\ L - (L - 1) = 1
      BY <1>1, <2>1
    <3> QED
      BY <2>4, <2>6, <2>7, <3>1
  <2>10. ASSUME NEW i \in L + 1 .. L + (m - 1) PROVE out[i] = lines[i - (L - 1)]
    <3>1. /\ ~(i <= L) /\ i \in 1 .. L + (m - 1)
          /\ i - L \in 1 .. m - 1 /\ (i - L) + 1 = i - (L - 1)
      BY <1>1, <2>1
    <3>2. out[i] = t[i - L]
      BY <2>7, <3>1
    <3>3. t[i - L] = lines[(i - L) + 1]
      BY <2>5, <3>1
    <3> QED
      BY <3>1, <3>2, <3>3
  <2>11. \A i \in (L - 1) + 1 .. (L - 1) + m :
            out[i] = IF L - 1 < L /\ i = (L - 1) + 1 THEN Corrupt ELSE lines[i - (L - 1)]
    <3> TAKE i \in (L - 1) + 1 .. (L - 1) + m
    <3>1. i = L \/ i \in L + 1 .. L + (m - 1)
      BY <1>1, <2>1
    <3>2. (L - 1) + 1 = L /\ L - 1 < L
      BY <1>1
    <3>3. i \in L + 1 .. L + (m - 1) => i # L
      BY <1>1
    <3> QED
      BY <2>9, <2>10, <3>1, <3>2, <3>3
  <2>12. L - 1 \in 0 .. L /\ Len(out) = (L - 1) + m
    BY <1>1, <2>1, <2>7
  <2> QED
    BY <2>2, <2>7, <2>8, <2>11, <2>12 DEF L, m
<1> QED
  BY <1>2, <1>3

\* A write cut after k lines leaves these lines and one that does not parse.
LEMMA CutShape ==
  ASSUME NEW S, Corrupt \in S, NEW lines \in Seq(S), NEW k \in 0 .. Len(lines) - 1
  PROVE  /\ Cut(lines, k) \in Seq(S) /\ Len(Cut(lines, k)) = k + 1
         /\ \A i \in 1 .. k + 1 : Cut(lines, k)[i] = IF i <= k THEN lines[i] ELSE Corrupt
<1> DEFINE s == SubSeq(lines, 1, k)
           c == <<Corrupt>>
<1>1. k \in Nat /\ Len(lines) \in Nat /\ k <= Len(lines)
  OBVIOUS
<1>2. s \in Seq(S) /\ Len(s) = k /\ \A i \in 1 .. k : s[i] = lines[i]
  <2>1. 1 \in Int /\ k \in Int /\ \A i \in 1 .. k : lines[i] \in S
    BY <1>1, ElementOfSeq
  <2>2. /\ s \in Seq(S)
        /\ Len(s) = (IF 1 <= k THEN k - 1 + 1 ELSE 0)
        /\ \A i \in 1 .. k - 1 + 1 : s[i] = lines[1 + i - 1]
    BY <2>1, SubSeqProperties
  <2> HIDE DEF s
  <2> QED
    BY <1>1, <2>2
<1>3. c \in Seq(S) /\ Len(c) = 1 /\ c[1] = Corrupt
  OBVIOUS
<1> HIDE DEF s, c
<1>4. /\ s \o c \in Seq(S) /\ Len(s \o c) = k + 1
      /\ \A i \in 1 .. k + 1 : (s \o c)[i] = IF i <= k THEN s[i] ELSE c[i - k]
  <2>1. /\ s \o c \in Seq(S) /\ Len(s \o c) = Len(s) + Len(c)
        /\ \A i \in 1 .. Len(s) + Len(c) :
              (s \o c)[i] = IF i <= Len(s) THEN s[i] ELSE c[i - Len(s)]
    BY <1>2, <1>3, ConcatProperties
  <2> QED
    BY <1>2, <1>3, <2>1
<1>5. ASSUME NEW i \in 1 .. k + 1
      PROVE  (s \o c)[i] = IF i <= k THEN lines[i] ELSE Corrupt
  <2>1. CASE i <= k
    BY <1>1, <1>2, <1>4, <2>1
  <2>2. CASE ~(i <= k)
    <3>1. i - k = 1
      BY <1>1, <2>2
    <3> QED
      BY <1>3, <1>4, <2>2, <3>1
  <2> QED
    BY <2>1, <2>2
<1>6. Cut(lines, k) = s \o c
  BY DEF Cut, s, c
<1> QED
  BY <1>4, <1>5, <1>6

\* A reader gets every line of a file without a broken one.
LEMMA ParsedWhole ==
  ASSUME NEW S, NEW file \in Seq(S), \A i \in DOMAIN file : IsRecord(file[i])
  PROVE  Parsed(file) = file
<1> DEFINE n == Len(file)
           F == [i \in 0 .. n |-> SubSeq(file, 1, i)]
           G(f) == [i \in 0 .. n |->
                      IF i = 0 THEN <<>>
                      ELSE IF IsRecord(file[i]) THEN Append(f[i - 1], file[i]) ELSE f[i - 1]]
           H == CHOOSE f : f = G(f)
<1>1. n \in Nat /\ DOMAIN file = 1 .. n /\ n \in 0 .. n
  OBVIOUS
<1>2. Parsed(file) = H[n]
  BY DEF Parsed
<1>3. ASSUME NEW i \in 0 .. n, i # 0
      PROVE  SubSeq(file, 1, i) = Append(SubSeq(file, 1, i - 1), file[i])
  <2>1. i \in 1 .. n /\ IsRecord(file[i])
    BY <1>1, <1>3
  <2> QED
    BY <2>1
<1>4. ASSUME NEW i \in 0 .. n
      PROVE  F[i] = IF i = 0 THEN <<>>
                    ELSE IF IsRecord(file[i]) THEN Append(F[i - 1], file[i]) ELSE F[i - 1]
  <2>1. CASE i = 0
    BY <2>1
  <2>2. CASE i # 0
    <3>1. i \in 1 .. n /\ i - 1 \in 0 .. n /\ IsRecord(file[i])
      BY <1>1, <2>2
    <3> QED
      BY <1>3, <2>2, <3>1
  <2> QED
    BY <2>1, <2>2
<1>5. F = G(F)
  BY <1>4
<1> HIDE DEF F
<1>6. H = G(H)
  BY <1>5
<1> HIDE DEF H
<1>7. \A i \in 0 .. n : H[i] = SubSeq(file, 1, i)
  <2> DEFINE T == {i \in 0 .. n : H[i] # SubSeq(file, 1, i)}
  <2> SUFFICES ASSUME T # {} PROVE FALSE
    OBVIOUS
  <2>0. T \in SUBSET Nat
    BY <1>1
  <2>1. PICK x \in T : \A y \in T : x <= y
    <3> HIDE DEF T
    <3> QED
      BY <2>0, LeastNatural
  <2>2. x \in 0 .. n /\ H[x] # SubSeq(file, 1, x)
    BY <2>1
  <2>3. H[0] = <<>> /\ SubSeq(file, 1, 0) = <<>>
    BY <1>1, <1>6
  <2>4. x # 0 /\ x - 1 \in 0 .. n /\ x \in 1 .. n
    <3>1. x # 0
      BY <2>2, <2>3
    <3> QED
      BY <1>1, <2>2, <3>1
  <2>5. H[x - 1] = SubSeq(file, 1, x - 1)
    BY <2>1, <2>4
  <2>6. H[x] = Append(H[x - 1], file[x])
    BY <1>1, <1>6, <2>4
  <2> QED
    BY <1>3, <2>2, <2>4, <2>5, <2>6
<1>8. SubSeq(file, 1, n) = file
  BY <1>1
<1> QED
  BY <1>1, <1>2, <1>7, <1>8

-----------------------------------------------------------------------------
(* The capture log                                                         *)

\* What a hook appends are records, numbered on from its tail.
LEMMA NewRecordsType ==
  ASSUME TypeOK, NEW h \in Hooks
  PROVE  /\ NewRecords(h) \in Seq(Records)
         /\ Len(NewRecords(h)) = job[h].n
         /\ \A k \in 1 .. job[h].n :
               /\ NewRecords(h)[k].seq = tail[h].lastSeq + k
               /\ NewRecords(h)[k].hash = stamp + k
               /\ k = 1 => NewRecords(h)[k].prev = tail[h].lastHash
               /\ k # 1 => NewRecords(h)[k].prev = stamp + k - 1
<1>1. job[h].n \in Nat /\ job[h].op \in {"action", "degraded"}
      /\ tail[h].lastSeq \in Nat /\ tail[h].lastHash \in Nat /\ stamp \in Nat
  BY DEF TypeOK, Jobs, Tails
<1>2. \A k \in 1 .. job[h].n :
        [op |-> job[h].op, seq |-> tail[h].lastSeq + k, hash |-> stamp + k,
         prev |-> IF k = 1 THEN tail[h].lastHash ELSE stamp + k - 1] \in Records
  BY <1>1 DEF Records
<1>3. NewRecords(h) \in [1 .. job[h].n -> Records]
  BY <1>2 DEF NewRecords
<1>4. NewRecords(h) \in Seq(Records)
  BY <1>1, <1>3, SeqDef
<1>5. DOMAIN NewRecords(h) = 1 .. job[h].n
  BY DEF NewRecords
<1>6. Len(NewRecords(h)) = job[h].n
  BY <1>1, <1>4, <1>5, LenProperties
<1> QED
  BY <1>4, <1>6 DEF NewRecords

-----------------------------------------------------------------------------
(* What a write leaves in the file                                         *)

Lines == Records \cup {Corrupt}

\* What one append of hook h puts into the file: its records in order, each
\* of them whole or not to be read.
Piece(h, lines) ==
    /\ lines \in Seq(Lines) /\ Len(lines) \in 1 .. job[h].n
    /\ \A k \in 1 .. Len(lines) : lines[k] \in {Corrupt, NewRecords(h)[k]}

\* A whole append and an append cut anywhere are pieces.
LEMMA Pieces ==
  ASSUME TypeOK, NEW h \in Hooks
  PROVE  /\ Piece(h, NewRecords(h))
         /\ \A k \in 0 .. job[h].n - 1 : Piece(h, Cut(NewRecords(h), k))
<1>1. NewRecords(h) \in Seq(Lines) /\ Corrupt \in Lines
  BY NewRecordsType, SeqMonotonic DEF Lines
<1>2. Len(NewRecords(h)) = job[h].n /\ job[h].n \in Nat \ {0}
  BY NewRecordsType DEF TypeOK, Jobs
<1>3. Piece(h, NewRecords(h))
  BY <1>1, <1>2 DEF Piece
<1>4. ASSUME NEW k \in 0 .. job[h].n - 1 PROVE Piece(h, Cut(NewRecords(h), k))
  <2> DEFINE r == NewRecords(h)
  <2>1. r \in Seq(Lines) /\ Len(r) = job[h].n /\ k \in 0 .. Len(r) - 1
    BY <1>1, <1>2
  <2> HIDE DEF r
  <2>2. /\ Cut(r, k) \in Seq(Lines) /\ Len(Cut(r, k)) = k + 1
        /\ \A i \in 1 .. k + 1 : Cut(r, k)[i] = IF i <= k THEN r[i] ELSE Corrupt
    BY <1>1, <2>1, CutShape
  <2> QED
    BY <1>2, <2>2 DEF Piece, r
<1> QED
  BY <1>3, <1>4

\* The file is the log up to line b, then a piece of h's records; if a line
\* of the log was lost, it was the last one, and its place cannot be read.
GrownFrom(h, file, b) ==
    /\ b \in 0 .. Len(log) /\ b <= Len(file)
    /\ \A i \in 1 .. b : file[i] = log[i]
    /\ \A i \in b + 1 .. Len(file) :
          /\ i - b \in 1 .. job[h].n
          /\ file[i] \in {Corrupt, NewRecords(h)[i - b]}
    /\ b < Len(log) => b + 1 <= Len(file) /\ file[b + 1] = Corrupt

Grown(h, file) == file \in Seq(Lines) /\ \E b \in Nat : GrownFrom(h, file, b)

\* Appending a piece makes the file grow in that way, whether or not it ended
\* with a newline.
LEMMA AppendGrows ==
  ASSUME TypeOK, NEW h \in Hooks, NEW lines, Piece(h, lines)
  PROVE  Grown(h, AppendLines(log, closed, lines))
<1> DEFINE b == Kept(log, closed)
           file == AppendLines(log, closed, lines)
<1>1. /\ log \in Seq(Lines) /\ lines \in Seq(Lines) /\ Corrupt \in Lines
      /\ Len(log) \in Nat /\ Len(lines) \in Nat /\ Len(lines) >= 1 /\ lines # <<>>
      /\ job[h].n \in Nat /\ Len(lines) <= job[h].n
      /\ \A k \in 1 .. Len(lines) : lines[k] \in {Corrupt, NewRecords(h)[k]}
  BY DEF TypeOK, Lines, Piece, Jobs
<1>2. /\ b \in 0 .. Len(log)
      /\ file \in Seq(Lines) /\ Len(file) = b + Len(lines)
      /\ \A i \in 1 .. b : file[i] = log[i]
      /\ \A i \in b + 1 .. b + Len(lines) :
            file[i] = IF b < Len(log) /\ i = b + 1 THEN Corrupt ELSE lines[i - b]
  BY <1>1, AppendLinesShape
<1> HIDE DEF b, file
<1>3. ASSUME NEW i \in b + 1 .. Len(file)
      PROVE  i - b \in 1 .. job[h].n /\ file[i] \in {Corrupt, NewRecords(h)[i - b]}
  <2>1. i - b \in 1 .. Len(lines) /\ i - b \in 1 .. job[h].n /\ i \in b + 1 .. b + Len(lines)
    BY <1>1, <1>2
  <2> QED
    BY <1>1, <1>2, <2>1
<1>4. b < Len(log) => b + 1 <= Len(file) /\ file[b + 1] = Corrupt
  <2>1. b + 1 \in b + 1 .. b + Len(lines)
    BY <1>1, <1>2
  <2> QED
    BY <1>1, <1>2, <2>1
<1>5. GrownFrom(h, file, b) /\ b \in Nat
  BY <1>1, <1>2, <1>3, <1>4 DEF GrownFrom
<1> QED
  BY <1>2, <1>5 DEF Grown, file

\* A log changes in no other way, unless it is removed; every append uses the
\* hashes after the last one used.
LEMMA LogGrows ==
  ASSUME TypeOK, [Next]_vars
  PROVE  \/ UNCHANGED <<log, stamp>>
         \/ log' = <<>> /\ resets' = resets + 1 /\ stamp' = stamp
         \/ \E h \in Hooks : /\ pc[h] = "append" /\ Grown(h, log')
                            /\ stamp' = stamp + job[h].n
<1> DEFINE Wrote(h) == Grown(h, log') /\ stamp' = stamp + job[h].n
<1>1. ASSUME NEW h \in Hooks, PartialWrite(h) PROVE Wrote(h)
  BY <1>1, Pieces, AppendGrows DEF PartialWrite
<1>2. ASSUME NEW h \in Hooks, AppendRecords(h) PROVE Wrote(h)
  BY <1>2, Pieces, AppendGrows DEF AppendRecords
<1> HIDE DEF Wrote
<1>3. ASSUME NEW h \in Hooks, AppendThrows(h) PROVE pc[h] = "append" /\ Wrote(h)
  BY <1>1, <1>3 DEF AppendThrows
<1>4. ASSUME NEW h \in Hooks, Crash(h)
      PROVE  UNCHANGED <<log, stamp>> \/ (pc[h] = "append" /\ Wrote(h))
  BY <1>1, <1>4 DEF Crash
<1>5. CASE \E h \in Hooks : AppendRecords(h) \/ AppendThrows(h) \/ Crash(h)
  <2>1. PICK h \in Hooks : AppendRecords(h) \/ AppendThrows(h) \/ Crash(h)
    BY <1>5
  <2>2. AppendRecords(h) => pc[h] = "append"
    BY DEF AppendRecords
  <2> QED
    BY <1>2, <1>3, <1>4, <2>1, <2>2 DEF Wrote
<1>6. CASE ~ \E h \in Hooks : AppendRecords(h) \/ AppendThrows(h) \/ Crash(h)
  BY <1>6 DEF Next, Hook, Deliver, Lock, LockThrows, ReadTail, WriteHead,
        WriteHeadFails, Finish, Failed, StealStale, RemoveLog, RemoveHead,
        VerifyReads, VerifyCompares, vars, fileVars, hookVars, otherVars
<1> QED
  BY <1>5, <1>6

-----------------------------------------------------------------------------
(* The inductive invariant                                                 *)

\* The lock keeps the section to one hook, and what a hook has read of the
\* log still holds when it appends: no readable line has a greater number,
\* and a last line that parses is the tail (a reset only empties the log).
TailFits(h) ==
    /\ \A i \in 1 .. Len(log) : IsRecord(log[i]) => log[i].seq <= tail[h].lastSeq
    /\ (Len(log) > 0 /\ IsRecord(log[Len(log)]))
          => /\ tail[h].lastSeq = log[Len(log)].seq
             /\ tail[h].lastHash = log[Len(log)].hash

Guarded == /\ \A h \in Hooks : InSection(h) => holder = h
           /\ \A h \in Hooks : pc[h] = "append" => TailFits(h)

\* Sequence numbers grow from each readable line to each later one.
Increasing ==
    \A i, j \in 1 .. Len(log) :
       (i < j /\ IsRecord(log[i]) /\ IsRecord(log[j])) => log[i].seq < log[j].seq

IInv == TypeOK /\ Guarded /\ ChainSound /\ Increasing

\* The empty log is chained and guarded.
LEMMA InitIInv == Init => IInv
<1> SUFFICES ASSUME Init PROVE IInv
  OBVIOUS
<1>1. TypeOK
  BY CaptureAssumption
     DEF Init, TypeOK, Jobs, NoJob, Tails, NoTail, NoHash, Outcomes
<1>2. Guarded /\ ChainSound /\ Increasing
  BY CaptureAssumption DEF Init, Guarded, ChainSound, Increasing, InSection
<1> QED
  BY <1>1, <1>2 DEF IInv

\* No step of a hook, a reset or a verify leaves the types.
LEMMA TypeStep == ASSUME IInv, [Next]_vars PROVE TypeOK'
<1> USE CaptureAssumption DEF IInv, TypeOK, Goto, Gone
<1>0. /\ NoTail \in Tails /\ NoJob \in Jobs
      /\ \A h \in Hooks : job[h].n \in Nat \ {0} /\ tail[h].lastSeq \in Nat
                          /\ tail[h].count \in Nat
  BY DEF NoTail, NoHash, Tails, NoJob, Jobs
<1>1. ASSUME NEW h \in Hooks, Hook(h) PROVE TypeOK'
  <2>0. ASSUME PartialWrite(h)
        PROVE  log' \in Seq(Records \cup {Corrupt}) /\ closed' = "no" /\ stamp' \in Nat
    <3>1. log' \in Seq(Records \cup {Corrupt})
      BY <2>0, Pieces, AppendGrows DEF PartialWrite, Grown, Lines
    <3>2. closed' = "no" /\ stamp' \in Nat
      BY <1>0, <2>0 DEF PartialWrite
    <3> QED
      BY <3>1, <3>2
  <2>1. CASE Deliver(h)
    <3>1. Events \subseteq Jobs
      BY DEF Events, Jobs
    <3>2. PICK j \in Events : job' = [job EXCEPT ![h] = j]
      BY <2>1 DEF Deliver
    <3>3. job' \in [Hooks -> Jobs]
      BY <3>1, <3>2
    <3> QED
      BY <2>1, <3>3 DEF Deliver, fileVars, otherVars
  <2>2. CASE Lock(h)
    BY <2>2 DEF Lock, fileVars, otherVars
  <2>3. ASSUME Degrade(h)
        PROVE  /\ job' \in [Hooks -> Jobs] /\ tail' \in [Hooks -> Tails]
               /\ outcome' \in [Hooks -> Outcomes]
               /\ pc' \in [Hooks -> {"idle", "lock", "tail", "append", "head", "unlock", "failed"}]
    <3>1. CASE job[h].op = "action"
      <4>1. [op |-> "degraded", n |-> 1, verdict |-> job[h].verdict] \in Jobs
        BY DEF Jobs
      <4>2. job' \in [Hooks -> Jobs]
        BY <2>3, <3>1, <4>1 DEF Degrade
      <4>3. UNCHANGED <<outcome, tail>> /\ pc' = [pc EXCEPT ![h] = "lock"]
        BY <2>3, <3>1 DEF Degrade
      <4> QED
        BY <4>2, <4>3
    <3>2. CASE job[h].op # "action"
      <4>1. [trace |-> "none", verdict |-> job[h].verdict, emitted |-> "no"] \in Outcomes
        BY DEF Outcomes, Jobs
      <4>2. Exit(h, "none", "no")
        BY <2>3, <3>2 DEF Degrade
      <4>3. outcome' \in [Hooks -> Outcomes]
        BY <4>1, <4>2 DEF Exit
      <4>4. Gone(h)
        BY <4>2 DEF Exit
      <4>5. /\ job' \in [Hooks -> Jobs] /\ tail' \in [Hooks -> Tails]
            /\ pc' \in [Hooks -> {"idle", "lock", "tail", "append", "head", "unlock", "failed"}]
        BY <1>0, <4>4
      <4> QED
        BY <4>3, <4>5
    <3> QED
      BY <3>1, <3>2
  <2>4. CASE LockThrows(h)
    BY <2>3, <2>4 DEF LockThrows, fileVars, otherVars
  <2>5. CASE ReadTail(h)
    <3>1. LET r == LastRecord(log, [seq |-> 0, hash |-> NoHash])
          IN  r.seq \in Nat /\ r.hash \in Nat
      <4> DEFINE d == [seq |-> 0, hash |-> NoHash]
      <4>1. \A i \in DOMAIN log : IsRecord(log[i]) => log[i] \in Records
        BY DEF IsRecord
      <4>2. LastRecord(log, d) = d \/ LastRecord(log, d) \in Records
        BY <4>1, LastRecordIsLast
      <4> QED
        BY <4>2 DEF NoHash, Records
    <3>2. Len(log) \in Nat
      OBVIOUS
    <3>3. tail' \in [Hooks -> Tails]
      BY <2>5, <3>1, <3>2 DEF ReadTail, Tails
    <3> QED
      BY <2>5, <3>3 DEF ReadTail, fileVars, otherVars
  <2>6. CASE AppendRecords(h)
    <3>1. log' \in Seq(Records \cup {Corrupt})
      BY <2>6, Pieces, AppendGrows DEF AppendRecords, Grown, Lines
    <3>2. stamp' \in Nat /\ closed' = "yes"
      BY <1>0, <2>6 DEF AppendRecords
    <3> QED
      BY <2>6, <3>1, <3>2 DEF AppendRecords, otherVars
  <2>7. CASE AppendThrows(h)
    BY <2>0, <2>7 DEF AppendThrows, otherVars
  <2>8. CASE WriteHead(h)
    <3>1. head' \subseteq Heads /\ \A m, n \in head' : m = n
      BY <1>0, <2>8 DEF WriteHead, Heads
    <3> QED
      BY <2>8, <3>1 DEF WriteHead, otherVars
  <2>9. CASE WriteHeadFails(h)
    BY <2>9 DEF WriteHeadFails, fileVars, otherVars
  <2>10. CASE Finish(h)
    <3>1. \A t \in {"records", "marker"}, e \in {"yes", "no"} :
             [trace |-> t, verdict |-> job[h].verdict, emitted |-> e] \in Outcomes
      BY DEF Outcomes, Jobs
    <3>2. PICK t \in {"records", "marker"}, e \in {"yes", "no"} : Exit(h, t, e)
      BY <2>10 DEF Finish
    <3>3. outcome' \in [Hooks -> Outcomes]
      BY <3>1, <3>2 DEF Exit
    <3>4. Gone(h)
      BY <3>2 DEF Exit
    <3>5. /\ job' \in [Hooks -> Jobs] /\ tail' \in [Hooks -> Tails]
          /\ pc' \in [Hooks -> {"idle", "lock", "tail", "append", "head", "unlock", "failed"}]
      BY <1>0, <3>4
    <3> QED
      BY <2>10, <3>3, <3>5 DEF Finish, fileVars, otherVars
  <2>11. CASE Failed(h)
    BY <2>3, <2>11 DEF Failed, fileVars, otherVars
  <2>12. CASE Crash(h)
    <3>1. log' \in Seq(Records \cup {Corrupt}) /\ closed' \in {"yes", "no"} /\ stamp' \in Nat
      BY <2>0, <2>12 DEF Crash
    <3> QED
      BY <1>0, <2>12, <3>1 DEF Crash, otherVars
  <2> QED
    BY <1>1, <2>1, <2>2, <2>4, <2>5, <2>6, <2>7, <2>8, <2>9, <2>10, <2>11, <2>12
       DEF Hook
<1>2. CASE StealStale
  BY <1>2 DEF StealStale, fileVars, hookVars, otherVars
<1>3. CASE RemoveLog
  BY <1>3, EmptySeq DEF RemoveLog, hookVars
<1>4. CASE RemoveHead
  BY <1>4 DEF RemoveHead, hookVars
<1>5. CASE VerifyReads
  BY <1>5 DEF VerifyReads, fileVars, hookVars
<1>6. CASE VerifyCompares
  BY <1>6 DEF VerifyCompares, fileVars, hookVars
<1>7. CASE UNCHANGED vars
  BY <1>7 DEF vars, fileVars, hookVars, otherVars
<1> QED
  BY <1>1, <1>2, <1>3, <1>4, <1>5, <1>6, <1>7 DEF Next

-----------------------------------------------------------------------------
(* The chain and the numbers                                               *)

\* A piece appended where the tail still fits continues the chain, and its
\* numbers go on growing.
LEMMA GrownSound ==
  ASSUME TypeOK, ChainSound, Increasing,
         NEW h \in Hooks, TailFits(h), NEW file, file \in Seq(Lines),
         NEW b \in Nat, GrownFrom(h, file, b)
  PROVE  /\ \A i \in 1 .. Len(file) - 1 :
               (IsRecord(file[i]) /\ IsRecord(file[i + 1]))
                  => file[i + 1].prev = file[i].hash /\ file[i + 1].seq = file[i].seq + 1
         /\ \A i, j \in 1 .. Len(file) :
               (i < j /\ IsRecord(file[i]) /\ IsRecord(file[j])) => file[i].seq < file[j].seq
<1> DEFINE r == NewRecords(h)
           n == job[h].n
           L == Len(log)
           m == Len(file)
           q == tail[h].lastSeq
<1>1. /\ n \in Nat /\ stamp \in Nat /\ q \in Nat /\ L \in Nat /\ m \in Nat
      /\ \A i \in 1 .. L : IsRecord(log[i]) => log[i].seq \in Nat
  <2>1. n \in Nat /\ stamp \in Nat /\ q \in Nat /\ L \in Nat /\ m \in Nat
    BY DEF TypeOK, Jobs, Tails
  <2>2. \A i \in 1 .. L : log[i] \in Records \cup {Corrupt}
    BY DEF TypeOK
  <2> QED
    BY <2>1, <2>2 DEF IsRecord, Records
<1>2. \A k \in 1 .. n : /\ r[k].seq = q + k /\ r[k].hash = stamp + k
                        /\ k = 1 => r[k].prev = tail[h].lastHash
                        /\ k # 1 => r[k].prev = stamp + k - 1
  BY NewRecordsType
<1>3. /\ b <= L /\ b <= m
      /\ \A i \in 1 .. b : file[i] = log[i]
      /\ \A i \in b + 1 .. m : i - b \in 1 .. n /\ (IsRecord(file[i]) => file[i] = r[i - b])
      /\ b < L => b + 1 <= m /\ ~IsRecord(file[b + 1])
  BY DEF GrownFrom, IsRecord
<1>4. /\ \A i \in 1 .. L : IsRecord(log[i]) => log[i].seq <= q
      /\ (L > 0 /\ IsRecord(log[L])) => q = log[L].seq /\ tail[h].lastHash = log[L].hash
  BY DEF TailFits
<1>5. /\ \A i \in 1 .. L - 1 : (IsRecord(log[i]) /\ IsRecord(log[i + 1]))
            => log[i + 1].prev = log[i].hash /\ log[i + 1].seq = log[i].seq + 1
      /\ \A i, j \in 1 .. L :
            (i < j /\ IsRecord(log[i]) /\ IsRecord(log[j])) => log[i].seq < log[j].seq
  BY DEF ChainSound, ChainProblem, Increasing
<1> HIDE DEF r, n, L, m, q
<1>6. ASSUME NEW i \in 1 .. m - 1, IsRecord(file[i]), IsRecord(file[i + 1])
      PROVE  file[i + 1].prev = file[i].hash /\ file[i + 1].seq = file[i].seq + 1
  <2>1. CASE i < b
    <3>1. i \in 1 .. b /\ i + 1 \in 1 .. b /\ i \in 1 .. L - 1
      BY <1>1, <1>3, <2>1
    <3> QED
      BY <1>3, <1>5, <1>6, <3>1
  <2>2. CASE i = b
    <3>1. b = L
      BY <1>1, <1>3, <1>6, <2>2
    <3>2. /\ i \in 1 .. b /\ i + 1 \in b + 1 .. m /\ (i + 1) - b = 1 /\ 1 \in 1 .. n /\ L > 0
      <4>1. i \in 1 .. b /\ i + 1 \in b + 1 .. m /\ (i + 1) - b = 1 /\ L > 0
        BY <1>1, <2>2, <3>1
      <4> QED
        BY <1>3, <4>1
    <3>3. file[i] = log[L] /\ file[i + 1] = r[1]
      BY <1>3, <1>6, <2>2, <3>1, <3>2
    <3>4. q = log[L].seq /\ tail[h].lastHash = log[L].hash
      BY <1>4, <1>6, <3>2, <3>3
    <3>5. r[1].prev = tail[h].lastHash /\ r[1].seq = q + 1
      BY <1>2, <3>2
    <3> QED
      BY <3>3, <3>4, <3>5
  <2>3. CASE i > b
    <3>1. /\ i \in b + 1 .. m /\ i + 1 \in b + 1 .. m
          /\ (i + 1) - b = (i - b) + 1 /\ (i - b) + 1 # 1
      BY <1>1, <1>3, <2>3
    <3>2. /\ i - b \in 1 .. n /\ (i - b) + 1 \in 1 .. n
          /\ file[i] = r[i - b] /\ file[i + 1] = r[(i - b) + 1]
      BY <1>3, <1>6, <3>1
    <3>3. ASSUME NEW k \in 1 .. n, k + 1 \in 1 .. n, k + 1 # 1
          PROVE  r[k + 1].prev = r[k].hash /\ r[k + 1].seq = r[k].seq + 1
      <4>1. /\ r[k + 1].prev = stamp + (k + 1) - 1 /\ r[k].hash = stamp + k
            /\ r[k + 1].seq = q + (k + 1) /\ r[k].seq = q + k
        BY <1>2, <3>3
      <4>2. stamp + (k + 1) - 1 = stamp + k /\ q + (k + 1) = (q + k) + 1
        BY <1>1
      <4> QED
        BY <4>1, <4>2
    <3> QED
      BY <3>1, <3>2, <3>3
  <2> QED
    BY <1>1, <2>1, <2>2, <2>3
<1>7. ASSUME NEW i \in 1 .. m, NEW j \in 1 .. m, i < j, IsRecord(file[i]), IsRecord(file[j])
      PROVE  file[i].seq < file[j].seq
  <2>1. CASE j <= b
    <3>1. i \in 1 .. b /\ j \in 1 .. b /\ i \in 1 .. L /\ j \in 1 .. L
      BY <1>1, <1>3, <1>7, <2>1
    <3> QED
      BY <1>3, <1>5, <1>7, <3>1
  <2>2. CASE j > b
    <3>1. j \in b + 1 .. m /\ j - b \in 1 .. n /\ file[j].seq = q + (j - b)
      <4>1. j \in b + 1 .. m
        BY <1>1, <2>2
      <4> QED
        BY <1>2, <1>3, <1>7, <4>1
    <3>2. CASE i <= b
      <4>1. i \in 1 .. b /\ i \in 1 .. L
        BY <1>1, <1>3, <3>2
      <4>2. file[i].seq \in Nat /\ file[i].seq <= q
        BY <1>1, <1>3, <1>4, <1>7, <4>1
      <4> QED
        BY <1>1, <3>1, <4>2
    <3>3. CASE i > b
      <4>1. i \in b + 1 .. m
        BY <1>1, <3>3
      <4>2. i - b \in 1 .. n /\ file[i].seq = q + (i - b)
        BY <1>2, <1>3, <1>7, <4>1
      <4> QED
        BY <1>1, <1>7, <3>1, <4>2
    <3> QED
      BY <1>1, <3>2, <3>3
  <2> QED
    BY <1>1, <2>1, <2>2
<1> QED
  BY <1>6, <1>7 DEF m

\* So no step breaks the chain or the order of the numbers.
LEMMA ChainStep == ASSUME IInv, [Next]_vars PROVE ChainSound' /\ Increasing'
<1>1. CASE UNCHANGED log
  BY <1>1 DEF IInv, ChainSound, ChainProblem, Increasing
<1>2. CASE log' = <<>>
  <2>1. Len(log') = 0
    BY <1>2
  <2> QED
    BY <2>1 DEF ChainSound, Increasing
<1>3. ASSUME NEW h \in Hooks, pc[h] = "append", Grown(h, log')
      PROVE  ChainSound' /\ Increasing'
  <2>1. PICK b \in Nat : GrownFrom(h, log', b)
    BY <1>3 DEF Grown
  <2>2. TailFits(h) /\ log' \in Seq(Lines) /\ TypeOK /\ ChainSound /\ Increasing
    BY <1>3 DEF IInv, Guarded, Grown
  <2> QED
    BY <2>1, <2>2, GrownSound DEF ChainSound, ChainProblem, Increasing
<1> QED
  BY <1>1, <1>2, <1>3, LogGrows DEF IInv

\* The lock is what keeps a hook's tail valid until it appends.
LEMMA GuardedStep == ASSUME IInv, [Next]_vars PROVE Guarded'
<1> USE CaptureAssumption
    DEF IInv, TypeOK, Guarded, InSection, Goto, Gone, fileVars, hookVars, otherVars
<1>1. ASSUME NEW h \in Hooks, Hook(h) PROVE Guarded'
  <2>1. CASE Deliver(h)
    BY <2>1 DEF Deliver, TailFits
  <2>2. CASE Lock(h)
    BY <2>2 DEF Lock, TailFits
  <2>3. CASE LockThrows(h)
    BY <2>3 DEF LockThrows, Degrade, Exit, TailFits
  <2>4. CASE ReadTail(h)
    <3>1. TailFits(h)'
      <4> DEFINE d == [seq |-> 0, hash |-> NoHash]
      <4>1. tail'[h].lastSeq = LastRecord(log, d).seq
            /\ tail'[h].lastHash = LastRecord(log, d).hash
            /\ log' = log
        BY <2>4 DEF ReadTail
      <4>2. Len(log) \in Nat /\ DOMAIN log = 1 .. Len(log)
            /\ \A i \in 1 .. Len(log) : IsRecord(log[i]) => log[i].seq \in Nat
        BY DEF IsRecord, Records
      <4> HIDE DEF d
      <4>3. ASSUME \E i \in DOMAIN log : IsRecord(log[i]) PROVE TailFits(h)'
        <5>1. PICK i \in DOMAIN log :
                 /\ IsRecord(log[i]) /\ LastRecord(log, d) = log[i]
                 /\ \A k \in DOMAIN log : k > i => ~IsRecord(log[k])
          BY <4>3, LastRecordIsLast
        <5>2. ASSUME NEW k \in 1 .. Len(log), IsRecord(log[k]) PROVE log[k].seq <= log[i].seq
          <6>1. k < i \/ k = i
            BY <4>2, <5>1, <5>2
          <6> QED
            BY <4>2, <5>1, <5>2, <6>1 DEF Increasing
        <5>3. (Len(log) > 0 /\ IsRecord(log[Len(log)])) => i = Len(log)
          BY <4>2, <5>1
        <5> QED
          BY <4>1, <5>1, <5>2, <5>3 DEF TailFits
      <4>4. ASSUME ~ \E i \in DOMAIN log : IsRecord(log[i]) PROVE TailFits(h)'
        BY <4>1, <4>2, <4>4 DEF TailFits
      <4> QED
        BY <4>3, <4>4
    <3>2. \A q \in Hooks : pc'[q] = "append" => q = h
      BY <2>4 DEF ReadTail
    <3> QED
      BY <2>4, <3>1, <3>2 DEF ReadTail
  <2>5. CASE AppendRecords(h)
    <3>1. \A q \in Hooks : pc'[q] # "append"
      BY <2>5 DEF AppendRecords
    <3> QED
      BY <2>5, <3>1 DEF AppendRecords
  <2>6. CASE AppendThrows(h)
    <3>1. \A q \in Hooks : pc'[q] # "append"
      BY <2>6 DEF AppendThrows
    <3> QED
      BY <2>6, <3>1 DEF AppendThrows
  <2>7. CASE WriteHead(h)
    BY <2>7 DEF WriteHead, TailFits
  <2>8. CASE WriteHeadFails(h)
    BY <2>8 DEF WriteHeadFails, TailFits
  <2>9. CASE Finish(h)
    BY <2>9 DEF Finish, Exit, TailFits
  <2>10. CASE Failed(h)
    BY <2>10 DEF Failed, Degrade, Exit, TailFits
  <2>11. CASE Crash(h)
    <3>1. CASE UNCHANGED log
      BY <2>11, <3>1 DEF Crash, TailFits
    <3>2. CASE pc[h] = "append"
      <4>1. \A q \in Hooks : pc'[q] # "append"
        BY <2>11, <3>2 DEF Crash
      <4> QED
        BY <2>11, <3>2, <4>1 DEF Crash
    <3> QED
      BY <2>11, <3>1, <3>2 DEF Crash
  <2> QED
    BY <1>1, <2>1, <2>2, <2>3, <2>4, <2>5, <2>6, <2>7, <2>8, <2>9, <2>10, <2>11
       DEF Hook
<1>2. CASE StealStale
  BY <1>2 DEF StealStale, TailFits
<1>3. CASE RemoveLog
  <2>1. Len(log') = 0
    BY <1>3 DEF RemoveLog
  <2> QED
    BY <1>3, <2>1 DEF RemoveLog, TailFits
<1>4. CASE RemoveHead
  BY <1>4 DEF RemoveHead, TailFits
<1>5. CASE VerifyReads
  BY <1>5 DEF VerifyReads, TailFits
<1>6. CASE VerifyCompares
  BY <1>6 DEF VerifyCompares, TailFits
<1>7. CASE UNCHANGED vars
  BY <1>7 DEF vars, TailFits
<1> QED
  BY <1>1, <1>2, <1>3, <1>4, <1>5, <1>6, <1>7 DEF Next

-----------------------------------------------------------------------------
\* The three steps together: the strengthened invariant is inductive.
LEMMA Invariant == Spec => []IInv
<1>1. IInv /\ [Next]_vars => IInv'
  BY TypeStep, ChainStep, GuardedStep DEF IInv
<1> QED
  BY <1>1, InitIInv, PTL DEF Spec

\* The files and the hooks stay within their types, torn writes included.
THEOREM Typing == Spec => []TypeOK
<1>1. IInv => TypeOK
  BY DEF IInv
<1> QED
  BY <1>1, Invariant, PTL

\* No interleaving of any number of hooks, crashes, torn writes, lost marks,
\* lock failures and resets leaves two neighbouring readable lines that do
\* not fit: what `capture verify` calls a break lies at a broken line.
THEOREM ChainHolds == Spec => []ChainSound
<1>1. IInv => ChainSound
  BY DEF IInv
<1> QED
  BY <1>1, Invariant, PTL

\* And the numbers grow along the readable log: the observation window of a
\* session can rely on their order.
THEOREM NumbersGrow == Spec => []SeqIncreasing
<1>1. ASSUME IInv PROVE SeqIncreasing
  <2>1. DOMAIN log = 1 .. Len(log)
    BY <1>1 DEF IInv, TypeOK
  <2> QED
    BY <1>1, <2>1 DEF IInv, SeqIncreasing, Increasing, Adjacent
<1> QED
  BY <1>1, Invariant, PTL

-----------------------------------------------------------------------------
(***************************************************************************)
(* An untouched log                                                        *)

\* As long as no line is broken and the log was not reset, the k-th line has
\* the number k, and what hooks, mark and `capture verify` know of the log
\* is what it holds: a hook that is about to append has counted its lines, one
\* that has appended finds its records where it put them, and the mark may lag
\* behind but is never ahead.
Numbered == \A i \in 1 .. Len(log) : log[i].seq = i /\ log[i].hash <= stamp

TailCounts(h) == tail[h].lastSeq = Len(log) /\ tail[h].count = Len(log)

Recorded(h) ==
    /\ tail[h].lastSeq + job[h].n <= Len(log) /\ tail[h].count + job[h].n <= Len(log)
    /\ \A k \in 1 .. job[h].n : log[tail[h].lastSeq + k].op = job[h].op

MarkBehind == \A m \in head : m.lastSeq <= Len(log) /\ m.count <= Len(log)

VerifyFits == (verify.at = "head" /\ stamp = verify.since) => verify.lines = log

SinceKnown == /\ verify.since \in Nat /\ verify.since <= stamp
              /\ verify.at = "head" => verify.report = "none"

Sections == /\ \A h \in Hooks : pc[h] = "append" => TailCounts(h)
            /\ \A h \in Hooks : pc[h] \in {"head", "unlock"} => Recorded(h)

Plain == Numbered /\ MarkBehind /\ Sections /\ VerifyFits

LogInv == IInv /\ SinceKnown /\ (Untouched => Plain)

\* Every line of an untouched log is a record.
LEMMA UntouchedLines ==
  ASSUME TypeOK, Untouched
  PROVE  /\ Len(log) \in Nat /\ DOMAIN log = 1 .. Len(log)
         /\ \A i \in 1 .. Len(log) : IsRecord(log[i]) /\ log[i] \in Records
BY DEF TypeOK, Untouched, IsRecord

\* Records of one hook follow the last line of the log.
GrownWith(h, file) ==
    /\ Len(log) <= Len(file) /\ Len(file) <= Len(log) + job[h].n
    /\ \A i \in 1 .. Len(log) : file[i] = log[i]
    /\ \A i \in Len(log) + 1 .. Len(file) :
          i - Len(log) \in 1 .. job[h].n /\ file[i] = NewRecords(h)[i - Len(log)]

\* What a log without a broken line has grown by.
LEMMA GrownWhole ==
  ASSUME TypeOK, NEW h \in Hooks, NEW file, Grown(h, file),
         \A i \in DOMAIN file : IsRecord(file[i])
  PROVE  GrownWith(h, file)
<1>1. PICK b \in Nat : GrownFrom(h, file, b)
  BY DEF Grown
<1>2. /\ Len(log) \in Nat /\ Len(file) \in Nat /\ DOMAIN file = 1 .. Len(file)
      /\ job[h].n \in Nat
  BY DEF TypeOK, Jobs, Grown
<1>3. b = Len(log)
  <2>1. b + 1 \in Nat /\ (b + 1 <= Len(file) => b + 1 \in DOMAIN file)
    BY <1>2
  <2>2. ~(b < Len(log))
    BY <1>1, <2>1 DEF GrownFrom, IsRecord
  <2> QED
    BY <1>1, <1>2, <2>2 DEF GrownFrom
<1>4. \A i \in b + 1 .. Len(file) : i - b \in 1 .. job[h].n /\ file[i] = NewRecords(h)[i - b]
  BY <1>1, <1>2 DEF GrownFrom, IsRecord
<1>5. Len(file) <= Len(log) + job[h].n
  <2>1. b \in Nat /\ Len(log) = b /\ b <= Len(file)
    BY <1>1, <1>3 DEF GrownFrom
  <2>2. \A l, n, f \in Nat :
           (l <= f /\ (\A i \in l + 1 .. f : i - l \in 1 .. n)) => f <= l + n
    <3> SUFFICES ASSUME NEW l \in Nat, NEW n \in Nat, NEW f \in Nat,
                        l < f, \A i \in l + 1 .. f : i - l \in 1 .. n
                 PROVE  f <= l + n
      OBVIOUS
    <3>1. f \in l + 1 .. f
      OBVIOUS
    <3> QED
      BY <3>1
  <2> QED
    BY <1>2, <1>4, <2>1, <2>2
<1> QED
  BY <1>1, <1>3, <1>4, <1>5 DEF GrownFrom, GrownWith

\* A log that is still untouched after a step was so before, and the step has
\* at most added records of one hook behind its last line.
LEMMA StaysUntouched ==
  ASSUME TypeOK, [Next]_vars, Untouched'
  PROVE  /\ Untouched
         /\ \/ UNCHANGED <<log, stamp>>
            \/ \E h \in Hooks :
                 pc[h] = "append" /\ stamp' = stamp + job[h].n /\ GrownWith(h, log')
<1>1. resets = 0 /\ resets' = 0
  <2>1. resets \in Nat /\ resets' \in {resets, resets + 1}
    BY CaptureAssumption DEF TypeOK, Next, Hook, Deliver, Lock, LockThrows, ReadTail,
       AppendRecords,
      AppendThrows, WriteHead, WriteHeadFails, Finish, Failed, Crash, StealStale,
      RemoveLog, RemoveHead, VerifyReads, VerifyCompares, vars, otherVars
  <2> QED
    BY <2>1 DEF Untouched
<1>2. ASSUME NEW h \in Hooks, Grown(h, log') PROVE GrownWith(h, log') /\ Untouched
  <2>0. \A i \in DOMAIN log' : IsRecord(log'[i])
    BY DEF Untouched
  <2>1. GrownWith(h, log')
    BY <1>2, <2>0, GrownWhole
  <2>2. /\ DOMAIN log = 1 .. Len(log) /\ DOMAIN log' = 1 .. Len(log')
        /\ Len(log) \in Nat /\ Len(log') \in Nat
    BY <1>2 DEF TypeOK, Grown
  <2>3. ASSUME NEW i \in DOMAIN log PROVE IsRecord(log[i])
    <3>1. i \in 1 .. Len(log) /\ i \in DOMAIN log'
      BY <2>1, <2>2 DEF GrownWith
    <3> QED
      BY <2>0, <2>1, <3>1 DEF GrownWith
  <2> QED
    BY <1>1, <2>1, <2>3 DEF Untouched
<1>3. UNCHANGED log => Untouched
  BY <1>1 DEF Untouched
<1>4. resets' # resets + 1
  BY <1>1
<1> QED
  BY <1>2, <1>3, <1>4, LogGrows

\* An append that was not cut wrote every record of its batch.
LEMMA AppendsAll ==
  ASSUME TypeOK, NEW h \in Hooks, AppendRecords(h), Untouched'
  PROVE  Len(log') = Len(log) + job[h].n
<1> DEFINE r == NewRecords(h)
           b == Kept(log, closed)
<1>1. /\ log \in Seq(Lines) /\ r \in Seq(Lines) /\ Corrupt \in Lines
      /\ Len(r) = job[h].n /\ job[h].n \in Nat \ {0} /\ r # <<>>
  <2>1. r \in Seq(Records) /\ Len(r) = job[h].n
    BY NewRecordsType
  <2>2. log \in Seq(Lines) /\ job[h].n \in Nat \ {0}
    BY DEF TypeOK, Lines, Jobs
  <2> QED
    BY <2>1, <2>2, SeqMonotonic DEF Lines
<1>2. log' = AppendLines(log, closed, r)
  BY DEF AppendRecords
<1> HIDE DEF r
<1>3. /\ b \in 0 .. Len(log) /\ log' \in Seq(Lines) /\ Len(log') = b + Len(r)
      /\ \A i \in b + 1 .. b + Len(r) :
            log'[i] = IF b < Len(log) /\ i = b + 1 THEN Corrupt ELSE r[i - b]
  BY <1>1, <1>2, AppendLinesShape
<1> HIDE DEF b
<1>4. Len(log) \in Nat /\ DOMAIN log' = 1 .. Len(log')
  BY <1>1, <1>3
<1>5. b + 1 \in b + 1 .. b + Len(r) /\ b + 1 \in 1 .. Len(log')
  BY <1>1, <1>3, <1>4
<1>6. IsRecord(log'[b + 1])
  BY <1>4, <1>5 DEF Untouched
<1>7. ~(b < Len(log))
  BY <1>3, <1>5, <1>6 DEF IsRecord
<1> QED
  BY <1>1, <1>3, <1>4, <1>7

\* The tail of an untouched log is its length.
LEMMA TailIsLength ==
  ASSUME TypeOK, Untouched, Numbered
  PROVE  LastRecord(log, [seq |-> 0, hash |-> NoHash]).seq = Len(log)
<1> DEFINE d == [seq |-> 0, hash |-> NoHash]
<1>1. /\ Len(log) \in Nat /\ DOMAIN log = 1 .. Len(log)
      /\ \A i \in 1 .. Len(log) : IsRecord(log[i])
  BY UntouchedLines
<1>2. d.seq = 0
  OBVIOUS
<1> HIDE DEF d
<1>3. CASE Len(log) = 0
  <2>0. \A i \in DOMAIN log : ~IsRecord(log[i])
    BY <1>1, <1>3
  <2>1. LastRecord(log, d) = d
    BY <2>0, LastRecordIsLast DEF TypeOK
  <2> QED
    BY <1>2, <1>3, <2>1 DEF d
<1>4. CASE Len(log) # 0
  <2>1. Len(log) \in DOMAIN log /\ IsRecord(log[Len(log)])
    BY <1>1, <1>4
  <2>2. PICK i \in DOMAIN log : /\ LastRecord(log, d) = log[i]
                                /\ \A k \in DOMAIN log : k > i => ~IsRecord(log[k])
    BY <2>1, LastRecordIsLast DEF TypeOK
  <2>3. i = Len(log)
    BY <1>1, <2>1, <2>2
  <2> QED
    BY <2>1, <1>1, <2>2, <2>3 DEF Numbered, d
<1> QED
  BY <1>3, <1>4

-----------------------------------------------------------------------------
\* Initially the log is empty.
LEMMA InitLogInv == Init => LogInv
BY InitIInv DEF Init, LogInv, SinceKnown, Plain, Numbered, MarkBehind, Sections,
   VerifyFits

\* The last hash used only grows, so what a verify remembers of it stays known.
LEMMA SinceStep == ASSUME LogInv, [Next]_vars PROVE SinceKnown'
<1>1. TypeOK /\ SinceKnown /\ stamp \in Nat /\ \A h \in Hooks : job[h].n \in Nat
  BY DEF LogInv, IInv, TypeOK, Jobs
<1>2. stamp' \in Nat /\ stamp <= stamp'
  BY <1>1, LogGrows
<1>3. \/ verify' = verify
      \/ verify'.since = stamp /\ verify'.report = "none"
      \/ verify'.since = 0 /\ verify'.at = "idle"
  BY DEF Next, Hook, Deliver, Lock, LockThrows, ReadTail, AppendRecords,
     AppendThrows, WriteHead, WriteHeadFails, Finish, Failed, Crash, StealStale,
     RemoveLog, RemoveHead, VerifyReads, VerifyCompares, vars, otherVars
<1> QED
  BY <1>1, <1>2, <1>3 DEF SinceKnown

\* What an untouched log has grown by keeps the numbers.
LEMMA NumberedStep ==
  ASSUME LogInv, [Next]_vars, Untouched'
  PROVE  /\ Numbered'
         /\ Len(log) \in Nat /\ Len(log') \in Nat /\ Len(log) <= Len(log')
         /\ \A i \in 1 .. Len(log) : log'[i] = log[i]
         /\ \A i \in Len(log) + 1 .. Len(log') : log'[i].hash > stamp
<1>1. /\ TypeOK /\ Untouched /\ Numbered /\ Sections /\ stamp \in Nat
      /\ \A h \in Hooks : job[h].n \in Nat /\ tail[h].lastSeq \in Nat
      /\ \A i \in 1 .. Len(log) : log[i].hash \in Nat
  <2>1. TypeOK /\ Untouched
    BY StaysUntouched DEF LogInv, IInv
  <2>2. \A i \in 1 .. Len(log) : log[i].hash \in Nat
    BY <2>1, UntouchedLines DEF Records
  <2>3. \A h \in Hooks : job[h].n \in Nat /\ tail[h].lastSeq \in Nat
    BY <2>1 DEF TypeOK, Jobs, Tails
  <2> QED
    BY <2>1, <2>2, <2>3 DEF LogInv, Plain, TypeOK
<1>2. Len(log) \in Nat /\ Len(log') \in Nat
  BY TypeStep DEF LogInv, IInv, TypeOK
<1>3. CASE UNCHANGED <<log, stamp>>
  BY <1>1, <1>2, <1>3 DEF Numbered
<1>4. ASSUME NEW h \in Hooks, pc[h] = "append", stamp' = stamp + job[h].n, GrownWith(h, log')
      PROVE  /\ Numbered' /\ Len(log) <= Len(log')
             /\ \A i \in 1 .. Len(log) : log'[i] = log[i]
             /\ \A i \in Len(log) + 1 .. Len(log') : log'[i].hash > stamp
  <2> SUFFICES ASSUME NEW i \in 1 .. Len(log')
               PROVE  /\ log'[i].seq = i /\ log'[i].hash <= stamp'
                      /\ i \in Len(log) + 1 .. Len(log') => log'[i].hash > stamp
    BY <1>2, <1>4 DEF GrownWith, Numbered
  <2>1. CASE i \in 1 .. Len(log)
    <3>1. log'[i] = log[i] /\ log[i].seq = i /\ log[i].hash <= stamp
      BY <1>1, <1>4, <2>1 DEF GrownWith, Numbered
    <3>2. log[i].hash \in Nat /\ job[h].n \in Nat
      BY <1>1, <2>1
    <3> QED
      BY <1>1, <1>2, <1>4, <2>1, <3>1, <3>2
  <2>2. CASE ~(i \in 1 .. Len(log))
    <3>1. i \in Len(log) + 1 .. Len(log') /\ tail[h].lastSeq = Len(log)
      BY <1>1, <1>2, <1>4, <2>2 DEF Sections, TailCounts
    <3>2. i - Len(log) \in 1 .. job[h].n /\ log'[i] = NewRecords(h)[i - Len(log)]
      BY <1>4, <3>1 DEF GrownWith
    <3>3. log'[i].seq = Len(log) + (i - Len(log)) /\ log'[i].hash = stamp + (i - Len(log))
      BY <1>1, <3>1, <3>2, NewRecordsType
    <3> QED
      BY <1>1, <1>2, <1>4, <3>1, <3>2, <3>3
  <2> QED
    BY <2>1, <2>2
<1> QED
  BY <1>2, <1>3, <1>4, <1>1, StaysUntouched
\* The mark moves to what a hook has just appended, and the log only grows.
LEMMA MarkStep == ASSUME LogInv, [Next]_vars, Untouched' PROVE MarkBehind'
<1>1. /\ Untouched /\ MarkBehind /\ Sections /\ TypeOK
      /\ Len(log) \in Nat /\ Len(log') \in Nat /\ Len(log) <= Len(log')
      /\ \A m \in head : m.lastSeq \in Nat /\ m.count \in Nat
  BY StaysUntouched, NumberedStep DEF LogInv, IInv, Plain, TypeOK, Heads
<1>2. CASE head' = head \/ head' = {}
  BY <1>1, <1>2 DEF MarkBehind
<1>3. ASSUME NEW h \in Hooks, WriteHead(h) PROVE MarkBehind'
  <2>1. Recorded(h) /\ log' = log
    BY <1>1, <1>3 DEF WriteHead, Sections
  <2> QED
    BY <1>3, <2>1 DEF WriteHead, Recorded, MarkBehind
<1>4. head' = head \/ head' = {} \/ \E h \in Hooks : WriteHead(h)
  BY DEF Next, Hook, Deliver, Lock, LockThrows, ReadTail, AppendRecords,
     AppendThrows, WriteHeadFails, Finish, Failed, Crash, StealStale,
     RemoveLog, RemoveHead, VerifyReads, VerifyCompares, vars, fileVars
<1> QED
  BY <1>2, <1>3, <1>4

\* An append moves the last hash used away from what a verify remembers.
LEMMA VerifyStep == ASSUME LogInv, [Next]_vars, Untouched' PROVE VerifyFits'
<1>1. Untouched /\ VerifyFits /\ TypeOK /\ SinceKnown /\ stamp \in Nat
  BY StaysUntouched DEF LogInv, IInv, Plain, TypeOK
<1>2. CASE VerifyReads
  <2>1. log' = log /\ Parsed(log) = log
    BY <1>1, <1>2, ParsedWhole DEF VerifyReads, fileVars, TypeOK, Untouched
  <2> QED
    BY <1>2, <2>1 DEF VerifyReads, VerifyFits
<1>3. CASE VerifyCompares
  BY <1>3 DEF VerifyCompares, VerifyFits
<1>4. CASE verify' = verify
  <2>1. CASE UNCHANGED <<log, stamp>>
    BY <1>1, <1>4, <2>1 DEF VerifyFits
  <2>2. CASE \E h \in Hooks : stamp' = stamp + job[h].n
    <3>1. PICK h \in Hooks : stamp' = stamp + job[h].n
      BY <2>2
    <3>2. job[h].n \in Nat \ {0}
      BY <1>1 DEF TypeOK, Jobs
    <3>3. stamp' # verify.since
      BY <1>1, <3>1, <3>2 DEF SinceKnown
    <3> QED
      BY <1>4, <3>3 DEF VerifyFits
  <2> QED
    BY <1>1, <2>1, <2>2, StaysUntouched
<1>5. VerifyReads \/ VerifyCompares \/ verify' = verify
  BY DEF Next, Hook, Deliver, Lock, LockThrows, ReadTail, AppendRecords,
     AppendThrows, WriteHead, WriteHeadFails, Finish, Failed, Crash, StealStale,
     RemoveLog, RemoveHead, vars, otherVars
<1> QED
  BY <1>2, <1>3, <1>4, <1>5

\* The lock keeps what a hook knows of the log true until it has used it.
LEMMA SectionsStep == ASSUME LogInv, [Next]_vars, Untouched' PROVE Sections'
<1>1. /\ Untouched /\ Sections /\ TypeOK /\ Guarded /\ Numbered
      /\ Len(log) \in Nat /\ Len(log') \in Nat /\ Len(log) <= Len(log')
      /\ \A i \in 1 .. Len(log) : log'[i] = log[i]
  BY StaysUntouched, NumberedStep DEF LogInv, IInv, Plain
<1>2. /\ \A h \in Hooks : job[h].n \in Nat \ {0} /\ tail[h].lastSeq \in Nat
                          /\ tail[h].count \in Nat
      /\ pc \in [Hooks -> {"idle", "lock", "tail", "append", "head", "unlock", "failed"}]
      /\ DOMAIN job = Hooks /\ DOMAIN tail = Hooks
  BY <1>1 DEF TypeOK, Jobs, Tails
<1>3. ASSUME NEW h \in Hooks, tail'[h] = tail[h], job'[h] = job[h], Recorded(h)
      PROVE  Recorded(h)'
  <2>1. \A k \in 1 .. job[h].n : tail[h].lastSeq + k \in 1 .. Len(log)
    BY <1>1, <1>2, <1>3 DEF Recorded
  <2>2. \A k \in 1 .. job[h].n : log'[tail[h].lastSeq + k].op = job[h].op
    BY <1>1, <1>3, <2>1 DEF Recorded
  <2>3. tail[h].lastSeq + job[h].n <= Len(log') /\ tail[h].count + job[h].n <= Len(log')
    BY <1>1, <1>2, <1>3 DEF Recorded
  <2> QED
    BY <1>3, <2>2, <2>3 DEF Recorded
<1>4. ASSUME NEW h \in Hooks, UNCHANGED log, pc'[h] = pc[h], tail'[h] = tail[h],
             job'[h] = job[h]
      PROVE  /\ pc'[h] = "append" => TailCounts(h)'
             /\ pc'[h] \in {"head", "unlock"} => Recorded(h)'
  BY <1>1, <1>3, <1>4 DEF Sections, TailCounts
<1>5. ASSUME NEW h \in Hooks, Hook(h),
             /\ pc'[h] = "append" => TailCounts(h)'
             /\ pc'[h] \in {"head", "unlock"} => Recorded(h)'
      PROVE  Sections'
  <2> SUFFICES ASSUME NEW q \in Hooks, q # h
               PROVE  /\ pc'[q] = "append" => TailCounts(q)'
                      /\ pc'[q] \in {"head", "unlock"} => Recorded(q)'
    BY <1>5 DEF Sections
  <2>1. pc'[q] = pc[q] /\ tail'[q] = tail[q] /\ job'[q] = job[q]
    BY <1>2, <1>5 DEF Hook, Deliver, Lock, LockThrows, ReadTail, AppendRecords,
       AppendThrows, WriteHead, WriteHeadFails, Finish, Failed, Crash, Goto, Gone, Exit,
       Degrade
  <2>2. CASE UNCHANGED log
    BY <1>4, <2>1, <2>2
  <2>3. CASE pc[h] = "append"
    <3>1. ~InSection(q)
      BY <1>1, <2>3 DEF Guarded, InSection
    <3> QED
      BY <2>1, <3>1 DEF InSection
  <2>4. UNCHANGED log \/ pc[h] = "append"
    BY <1>5 DEF Hook, Deliver, Lock, LockThrows, ReadTail, AppendRecords,
       AppendThrows, WriteHead, WriteHeadFails, Finish, Failed, Crash, fileVars
  <2> QED
    BY <2>2, <2>3, <2>4
<1>6. ASSUME NEW h \in Hooks, Hook(h) PROVE Sections'
  <2>1. CASE ReadTail(h)
    <3>1. pc'[h] = "append" /\ log' = log
      BY <1>2, <2>1 DEF ReadTail, Goto, fileVars
    <3>2. TailCounts(h)'
      BY <1>1, <1>2, <2>1, <3>1, TailIsLength DEF ReadTail, TailCounts
    <3> QED
      BY <1>5, <1>6, <3>1, <3>2
  <2>2. CASE AppendRecords(h)
    <3>1. pc'[h] = "head" /\ pc[h] = "append" /\ job' = job /\ tail' = tail
      BY <1>2, <2>2 DEF AppendRecords, Goto
    <3>2. Len(log') = Len(log) + job[h].n /\ TailCounts(h)
      BY <1>1, <2>2, <3>1, AppendsAll DEF Sections
    <3>3. ASSUME NEW k \in 1 .. job[h].n
          PROVE  log'[tail[h].lastSeq + k].op = job[h].op
      <4>1. PICK g \in Hooks : pc[g] = "append" /\ GrownWith(g, log')
        <5>1. ~ UNCHANGED log
          BY <1>1, <1>2, <3>2
        <5> QED
          BY <1>1, <5>1, StaysUntouched
      <4>2. g = h
        BY <1>1, <3>1, <4>1 DEF Guarded, InSection
      <4>3. tail[h].lastSeq + k \in Len(log) + 1 .. Len(log')
            /\ (tail[h].lastSeq + k) - Len(log) = k
        BY <1>1, <1>2, <3>2 DEF TailCounts
      <4>4. log'[tail[h].lastSeq + k] = NewRecords(h)[k]
        BY <4>1, <4>2, <4>3 DEF GrownWith
      <4>5. NewRecords(h)[k].op = job[h].op
        BY DEF NewRecords
      <4> QED
        BY <4>4, <4>5
    <3>4. /\ tail[h].lastSeq + job[h].n <= Len(log')
          /\ tail[h].count + job[h].n <= Len(log')
      BY <1>1, <1>2, <3>2 DEF TailCounts
    <3>5. Recorded(h)'
      BY <3>1, <3>3, <3>4 DEF Recorded
    <3> QED
      BY <1>5, <1>6, <3>1, <3>5
  <2>3. CASE WriteHead(h) \/ WriteHeadFails(h)
    <3>1. pc[h] = "head" /\ pc'[h] = "unlock" /\ UNCHANGED <<job, tail, log>>
      BY <1>2, <2>3 DEF WriteHead, WriteHeadFails, Goto, fileVars
    <3>2. Recorded(h)'
      BY <1>1, <1>3, <3>1 DEF Sections
    <3> QED
      BY <1>5, <1>6, <3>1, <3>2
  <2>4. CASE \/ Deliver(h) \/ Lock(h) \/ LockThrows(h) \/ AppendThrows(h)
             \/ Finish(h) \/ Failed(h) \/ Crash(h)
    <3>1. pc'[h] \in {"idle", "lock", "tail", "failed"}
      BY <1>2, <2>4 DEF Deliver, Lock, LockThrows, AppendThrows, Finish, Failed, Crash,
         Goto, Gone, Exit, Degrade
    <3> QED
      BY <1>5, <1>6, <3>1
  <2> QED
    BY <1>6, <2>1, <2>2, <2>3, <2>4 DEF Hook
<1>7. CASE UNCHANGED <<log, pc, tail, job>>
  BY <1>4, <1>7 DEF Sections
<1>8. (\E h \in Hooks : Hook(h)) \/ UNCHANGED <<log, pc, tail, job>> \/ RemoveLog
  BY DEF Next, StealStale, RemoveHead, VerifyReads, VerifyCompares, vars, fileVars,
     hookVars
<1>9. ~RemoveLog
  BY <1>1, CaptureAssumption DEF RemoveLog, Untouched
<1> QED
  BY <1>6, <1>7, <1>8, <1>9

\* Together: the invariant of the log is inductive.
LEMMA LogStep == ASSUME LogInv, [Next]_vars PROVE LogInv'
<1>1. IInv'
  BY TypeStep, ChainStep, GuardedStep DEF LogInv, IInv
<1> QED
  BY <1>1, SinceStep, NumberedStep, MarkStep, VerifyStep, SectionsStep DEF LogInv, Plain

\* So the books about an untouched log are right in every state.
LEMMA LogInvariant == Spec => []LogInv
<1>1. LogInv /\ [Next]_vars => LogInv'
  BY LogStep
<1> QED
  BY <1>1, InitLogInv, PTL DEF Spec

\* A hook answers the agent with a deny only where all its records are in the log.
THEOREM EvidenceIsFirst == Spec => EvidenceFirst
<1> DEFINE A == \A h \in Hooks :
         (pc[h] # "idle" /\ pc'[h] = "idle" /\ outcome'[h].emitted = "yes"
                         /\ outcome' # outcome /\ Untouched)
           => \A k \in 1 .. job[h].n : \E i \in DOMAIN log :
                 log[i].op = "action" /\ log[i].seq = tail[h].lastSeq + k
<1>1. LogInv /\ [Next]_vars => [A]_vars
  <2> SUFFICES ASSUME LogInv, [Next]_vars, NEW h \in Hooks, pc[h] # "idle",
                      pc'[h] = "idle", outcome'[h].emitted = "yes", outcome' # outcome,
                      Untouched, NEW k \in 1 .. job[h].n
               PROVE  \E i \in DOMAIN log :
                         log[i].op = "action" /\ log[i].seq = tail[h].lastSeq + k
    OBVIOUS
  <2>1. /\ TypeOK /\ Numbered /\ Sections
        /\ pc \in [Hooks -> {"idle", "lock", "tail", "append", "head", "unlock", "failed"}]
        /\ outcome \in [Hooks -> Outcomes]
        /\ job[h].n \in Nat \ {0} /\ tail[h].lastSeq \in Nat
    BY DEF LogInv, IInv, Plain, TypeOK, Jobs, Tails
  <2>2. PICK q \in Hooks : Finish(q) \/ LockThrows(q) \/ Failed(q)
    BY DEF Next, Hook, Deliver, Lock, ReadTail, AppendRecords, AppendThrows, WriteHead,
       WriteHeadFails, Crash, StealStale, RemoveLog, RemoveHead, VerifyReads,
       VerifyCompares, vars, hookVars
  <2>3. q = h
    BY <2>1, <2>2 DEF Finish, LockThrows, Failed, Degrade, Exit, Gone, Goto
  <2>4. Finish(h) /\ job[h].op = "action"
    BY <2>1, <2>2, <2>3 DEF Finish, LockThrows, Failed, Degrade, Exit
  <2>5. Recorded(h)
    BY <2>1, <2>4 DEF Finish, Sections
  <2>6. tail[h].lastSeq + k \in 1 .. Len(log) /\ DOMAIN log = 1 .. Len(log)
    BY <2>1, <2>5, UntouchedLines DEF Recorded
  <2>7. log[tail[h].lastSeq + k].op = "action"
    BY <2>4, <2>5 DEF Recorded
  <2> QED
    BY <2>1, <2>6, <2>7 DEF Numbered
<1> HIDE DEF A
<1>2. EvidenceFirst <=> [][A]_vars
  BY DEF EvidenceFirst, A
<1> QED
  BY <1>1, <1>2, LogInvariant, PTL DEF Spec

\* A verify that reads an untouched log and then a mark ahead of it was overtaken.
THEOREM AlarmHasCause == Spec => TruncationHasCause
<1> DEFINE A == (verify.at = "head" /\ verify'.report = "truncation")
                   => ~Untouched \/ stamp # verify.since
<1>1. LogInv /\ [Next]_vars => [A]_vars
  <2> SUFFICES ASSUME LogInv, [Next]_vars, verify.at = "head",
                      verify'.report = "truncation", Untouched, stamp = verify.since
               PROVE  FALSE
    OBVIOUS
  <2>1. /\ TypeOK /\ Numbered /\ MarkBehind /\ verify.report = "none" /\ verify.lines = log
        /\ \A m \in head : m.lastSeq \in Nat /\ m.count \in Nat
    BY DEF LogInv, IInv, Plain, SinceKnown, VerifyFits, TypeOK, Heads
  <2>2. verify' # verify
    BY <2>1
  <2>3. VerifyCompares
    BY <2>2 DEF Next, Hook, Deliver, Lock, LockThrows, ReadTail, AppendRecords,
       AppendThrows,
       WriteHead, WriteHeadFails, Finish, Failed, Crash, StealStale, RemoveLog, RemoveHead,
       VerifyReads, vars, otherVars
  <2>4. PICK m \in head : Truncation(log, m)
    BY <2>1, <2>3 DEF VerifyCompares
  <2>5. Len(log) \in Nat /\ (log # <<>> => Last(log).seq = Len(log))
    <3>1. /\ log \in Seq(Records \cup {Corrupt}) /\ Len(log) \in Nat
      BY <2>1 DEF TypeOK
    <3>2. log # <<>> => Len(log) \in 1 .. Len(log)
      BY <3>1
    <3> QED
      BY <2>1, <3>1, <3>2 DEF Numbered, Last
  <2>6. log = <<>> => Len(log) = 0
    OBVIOUS
  <2> QED
    BY <2>1, <2>4, <2>5, <2>6 DEF Truncation, MarkBehind
<1> HIDE DEF A
<1>2. TruncationHasCause <=> [][A]_vars
  BY DEF TruncationHasCause, A
<1> QED
  BY <1>1, <1>2, LogInvariant, PTL DEF Spec

-----------------------------------------------------------------------------
(***************************************************************************)
(* The window of a session                                                 *)

\* A boundary as some begin read it: no line of an untouched log that is
\* within it came later, and if the mark was level none beyond it is older.
ReadFits(r) ==
    /\ r.boundary \in Nat /\ r.since \in Nat /\ r.since <= stamp
    /\ Untouched =>
         /\ r.boundary <= Len(log)
         /\ \A i \in 1 .. Len(log) :
              /\ log[i].hash > r.since => i > r.boundary
              /\ (r.level = "yes" /\ i > r.boundary) => log[i].hash > r.since

WindowInv == LogInv /\ DOMAIN begin = Begins
                    /\ (\A r \in session : ReadFits(r))
                    /\ (\A b \in Begins : \A r \in begin[b].read : ReadFits(r))

\* A step of the hooks, a reset or a verify leaves a boundary true.
LEMMA FitsStep ==
  ASSUME LogInv, [Next]_vars, NEW r, ReadFits(r)
  PROVE  ReadFits(r)'
<1>1. stamp \in Nat /\ stamp' \in Nat /\ stamp <= stamp'
  <2>1. TypeOK /\ stamp \in Nat /\ \A h \in Hooks : job[h].n \in Nat
    BY DEF LogInv, IInv, TypeOK, Jobs
  <2> QED
    BY <2>1, LogGrows
<1>2. r.boundary \in Nat /\ r.since \in Nat /\ r.since <= stamp'
  BY <1>1 DEF ReadFits
<1>3. ASSUME Untouched'
      PROVE  /\ r.boundary <= Len(log')
             /\ \A i \in 1 .. Len(log') :
                  /\ log'[i].hash > r.since => i > r.boundary
                  /\ (r.level = "yes" /\ i > r.boundary) => log'[i].hash > r.since
  <2>1. /\ Len(log) \in Nat /\ Len(log') \in Nat /\ Len(log) <= Len(log')
        /\ \A i \in 1 .. Len(log) : log'[i] = log[i]
        /\ \A i \in Len(log) + 1 .. Len(log') : log'[i].hash > stamp
    BY <1>3, NumberedStep
  <2>2. /\ r.boundary <= Len(log)
        /\ \A i \in 1 .. Len(log) :
             /\ log[i].hash > r.since => i > r.boundary
             /\ (r.level = "yes" /\ i > r.boundary) => log[i].hash > r.since
    BY <1>3, StaysUntouched DEF LogInv, IInv, ReadFits
  <2>3. \A i \in 1 .. Len(log') : log'[i].hash \in Nat
    <3>1. TypeOK'
      BY TypeStep DEF LogInv
    <3> QED
      BY <1>3, <3>1 DEF TypeOK, Untouched, IsRecord, Records
  <2>4. ASSUME NEW i \in 1 .. Len(log')
        PROVE  /\ log'[i].hash > r.since => i > r.boundary
               /\ (r.level = "yes" /\ i > r.boundary) => log'[i].hash > r.since
    <3>1. CASE i \in 1 .. Len(log)
      BY <2>1, <2>2, <3>1
    <3>2. CASE ~(i \in 1 .. Len(log))
      <4>1. i \in Len(log) + 1 .. Len(log') /\ i > r.boundary
        BY <1>2, <2>1, <2>2, <3>2
      <4>2. log'[i].hash > r.since
        BY <1>1, <1>2, <2>1, <2>3, <4>1 DEF ReadFits
      <4> QED
        BY <4>1, <4>2
    <3> QED
      BY <3>1, <3>2
  <2> QED
    BY <1>2, <2>1, <2>2, <2>4
<1> QED
  BY <1>2, <1>3 DEF ReadFits

\* What begin reads is such a boundary: the mark is never ahead of the log.
LEMMA BoundaryFits ==
  ASSUME LogInv, NEW r,
         r = [boundary |-> CurrentBoundary, since |-> stamp,
              level |-> IF \A m \in head : m.lastSeq = TailSeq THEN "yes" ELSE "no"]
  PROVE  ReadFits(r)
<1>1. /\ TypeOK /\ stamp \in Nat /\ head \subseteq Heads /\ \A m, n \in head : m = n
  BY DEF LogInv, IInv, TypeOK
<1>2. /\ r.boundary = CurrentBoundary /\ r.since = stamp
      /\ r.level = "yes" => \A m \in head : m.lastSeq = TailSeq
  OBVIOUS
<1>3. TailSeq \in Nat
  <2>1. /\ log \in Seq(Records \cup {Corrupt})
        /\ \A i \in DOMAIN log : IsRecord(log[i]) => log[i].seq \in Nat
    BY <1>1 DEF TypeOK, IsRecord, Records
  <2> DEFINE d == [seq |-> 0, hash |-> NoHash]
  <2>2. d.seq \in Nat
    OBVIOUS
  <2> HIDE DEF d
  <2>3. LastRecord(log, d).seq \in Nat
    BY <2>1, <2>2, LastRecordIsLast
  <2> QED
    BY <2>3 DEF TailSeq, d
<1>4. \/ head = {} /\ CurrentBoundary = TailSeq
      \/ \E m \in head : CurrentBoundary = m.lastSeq
  BY DEF CurrentBoundary
<1>5. CurrentBoundary \in Nat
  BY <1>1, <1>3, <1>4 DEF Heads
<1>6. ASSUME Untouched
      PROVE  /\ CurrentBoundary <= Len(log) /\ Len(log) \in Nat
             /\ (r.level = "yes") => CurrentBoundary = Len(log)
             /\ \A i \in 1 .. Len(log) : log[i].hash <= stamp /\ log[i].hash \in Nat
  <2>1. /\ Numbered /\ MarkBehind /\ TailSeq = Len(log)
        /\ Len(log) \in Nat /\ \A i \in 1 .. Len(log) : log[i].hash \in Nat
    BY <1>1, <1>6, TailIsLength, UntouchedLines DEF LogInv, Plain, TailSeq, Records
  <2>2. CurrentBoundary <= Len(log)
    BY <1>4, <2>1 DEF MarkBehind
  <2>3. (r.level = "yes") => CurrentBoundary = Len(log)
    BY <1>2, <1>4, <2>1
  <2> QED
    BY <2>1, <2>2, <2>3 DEF Numbered
<1> QED
  BY <1>1, <1>2, <1>5, <1>6 DEF ReadFits

\* Initially there is no session and no begin.
LEMMA InitWindowInv == WInit => WindowInv
BY InitLogInv DEF WInit, WindowInv

\* Every step of begin, start and `agent-receipt reset` beside the hooks.
LEMMA WindowStep == ASSUME WindowInv, [WNext]_allVars PROVE WindowInv'
<1>1. [Next]_vars
  BY DEF WNext, DropSession, BeginChecks, BeginSnapshots, BeginWrites, BeginDies, allVars
<1>2. LogInv'
  BY <1>1, LogStep DEF WindowInv
<1>3. \A r : ReadFits(r) => ReadFits(r)'
  BY <1>1, FitsStep DEF WindowInv
<1> DEFINE Known == session \cup UNION {begin[b].read : b \in Begins}
<1>4. \A r \in Known : ReadFits(r)'
  BY <1>3 DEF WindowInv
<1>5. ASSUME DOMAIN begin' = Begins, session' \subseteq Known,
             \A b \in Begins : begin'[b].read \subseteq Known
      PROVE  WindowInv'
  <2>1. (\A r \in session : ReadFits(r))'
    BY <1>4, <1>5
  <2>2. (\A b \in Begins : \A r \in begin[b].read : ReadFits(r))'
    BY <1>4, <1>5
  <2> QED
    BY <1>2, <1>5, <2>1, <2>2 DEF WindowInv
<1>6. CASE UNCHANGED windowVars
  BY <1>5, <1>6 DEF windowVars, WindowInv
<1>7. CASE DropSession
  BY <1>5, <1>7 DEF DropSession, WindowInv
<1>8. ASSUME NEW b \in Begins, BeginChecks(b) \/ BeginDies(b) PROVE WindowInv'
  BY <1>5, <1>8 DEF BeginChecks, BeginDies, WindowInv
<1>9. ASSUME NEW b \in Begins, BeginWrites(b) PROVE WindowInv'
  BY <1>5, <1>9 DEF BeginWrites, WindowInv
<1>10. ASSUME NEW b \in Begins, BeginSnapshots(b) PROVE WindowInv'
  <2>1. PICK r : r = [boundary |-> CurrentBoundary, since |-> stamp,
              level |-> IF \A m \in head : m.lastSeq = TailSeq THEN "yes" ELSE "no"]
    OBVIOUS
  <2>2. ReadFits(r)
    BY <2>1, BoundaryFits DEF WindowInv
  <2>3. ReadFits(r)'
    BY <1>3, <2>2
  <2>4. session' = session /\ begin' = [begin EXCEPT ![b] = [at |-> "write", read |-> {r}]]
    BY <1>10, <2>1 DEF BeginSnapshots
  <2>5. /\ DOMAIN begin' = Begins
        /\ \A c \in Begins : begin'[c].read \subseteq Known \cup {r}
    BY <2>4 DEF WindowInv
  <2>6. (\A x \in session : ReadFits(x))'
    BY <1>4, <2>4
  <2>7. (\A c \in Begins : \A x \in begin[c].read : ReadFits(x))'
    BY <1>4, <2>3, <2>5
  <2> QED
    BY <1>2, <2>5, <2>6, <2>7 DEF WindowInv
<1> QED
  BY <1>6, <1>7, <1>8, <1>9, <1>10 DEF WNext, allVars

\* mcp-tap goes on beside begin and the hooks and touches nothing of theirs.
LEMMA TapAside ==
  /\ TInit => WInit
  /\ [TNext]_everything => [WNext]_allVars
<1>1. TInit => WInit
  BY DEF TInit
<1>2. ASSUME TNext PROVE [WNext]_allVars
  <2>1. CASE Next /\ UNCHANGED <<windowVars, tapVars>>
    BY <2>1 DEF WNext
  <2>2. CASE DropSession /\ UNCHANGED tapVars
    BY <2>2 DEF WNext
  <2>3. ASSUME NEW b \in Begins,
               \/ b \notin due /\ BeginChecks(b) /\ UNCHANGED tapVars
               \/ BeginSnapshots(b) /\ UNCHANGED tapVars
               \/ SessionWritten(b) \/ TapCursorSnapshot(b) \/ NoSnapshot(b)
               \/ BeginDies(b) /\ UNCHANGED tapVars
        PROVE  [WNext]_allVars
    BY <2>3 DEF WNext, SessionWritten, TapCursorSnapshot, NoSnapshot
  <2>4. CASE \/ TapBoot \/ TapFlush \/ TapWrite \/ TapDies \/ TapRemoved
             \/ \E merged \in BOOLEAN : TapCall(merged)
    BY <2>4 DEF TapBoot, TapFlush, TapWrite, TapDies, TapRemoved, TapCall
  <2> QED
    BY <1>2, <2>1, <2>2, <2>3, <2>4 DEF TNext
<1>3. UNCHANGED everything => UNCHANGED allVars
  BY DEF everything
<1> QED
  BY <1>1, <1>2, <1>3

\* So every boundary read, saved or not, fits the log.
LEMMA WindowInvariant == TSpec => []WindowInv
<1>1. TInit => WindowInv
  BY TapAside, InitWindowInv
<1>2. WindowInv /\ [TNext]_everything => WindowInv'
  BY TapAside, WindowStep
<1> QED
  BY <1>1, <1>2, PTL DEF TSpec

\* On an untouched log no late record is taken for an old one, and none from
\* before a session whose mark was level counts for it.
THEOREM WindowHolds == TSpec => [](Untouched => WindowExact)
<1>1. WindowInv => (Untouched => WindowExact)
  <2> SUFFICES ASSUME WindowInv, Untouched, NEW s \in session, NEW i \in Readable
               PROVE  /\ log[i].hash > s.since => InWindow(log[i], s.boundary)
                      /\ (s.level = "yes" /\ InWindow(log[i], s.boundary))
                            => log[i].hash > s.since
    BY DEF WindowExact
  <2>1. ReadFits(s) /\ Numbered /\ TypeOK
    BY DEF WindowInv, LogInv, IInv, Plain
  <2>2. i \in 1 .. Len(log)
    BY <2>1, UntouchedLines DEF Readable
  <2> QED
    BY <2>1, <2>2 DEF ReadFits, Numbered, InWindow
<1> QED
  BY <1>1, WindowInvariant, PTL

\* And an observation called healthy stands on an action of its own session.
THEOREM ObservationHolds == TSpec => [](Untouched => ObservedIsReal)
<1>1. (Untouched => WindowExact) => (Untouched => ObservedIsReal)
  <2> SUFFICES ASSUME WindowExact, NEW s \in session, s.level = "yes",
                      Assess(s.boundary) = "observed"
               PROVE  \E i \in Readable : log[i].op = "action" /\ log[i].hash > s.since
    BY DEF ObservedIsReal
  <2>1. Actions(s.boundary) # {}
    BY DEF Assess
  <2>2. PICK i \in Readable : log[i].op = "action" /\ InWindow(log[i], s.boundary)
    BY <2>1 DEF Actions
  <2> QED
    BY <2>2 DEF WindowExact
<1> QED
  BY <1>1, WindowHolds, PTL

\* Where no write is torn and nobody resets the log, it stays untouched.
THEOREM NeverTouched ==
  ASSUME Torn = FALSE, MaxResets = 0 PROVE TSpec => []Untouched
<1> DEFINE I == TypeOK /\ Untouched /\ closed = "yes"
<1>1. TInit => I
  BY TapAside, InitIInv DEF WInit, Init, IInv, Untouched
<1>2. ASSUME WindowInv, I, [TNext]_everything PROVE I'
  <2>1. [Next]_vars /\ TypeOK'
    BY <1>2, TapAside, WindowStep
       DEF WNext, DropSession, BeginChecks, BeginSnapshots, BeginWrites, BeginDies, allVars,
           WindowInv, LogInv, IInv
  <2>2. resets' = 0 /\ ~RemoveLog
    BY <1>2, <2>1 DEF TypeOK, Untouched, RemoveLog
  <2>3. CASE UNCHANGED <<log, closed>>
    BY <1>2, <2>1, <2>2, <2>3 DEF Untouched
  <2>4. ASSUME NEW h \in Hooks, AppendRecords(h) PROVE I'
    <3>1. /\ NewRecords(h) \in Seq(Records) /\ log \in Seq(Records)
          /\ log' = log \o NewRecords(h) /\ closed' = "yes"
      <4>1. NewRecords(h) \in Seq(Records)
        BY <1>2, NewRecordsType
      <4>2. log \in Seq(Records)
        <5>1. \A i \in 1 .. Len(log) : log[i] \in Records
          BY <1>2, UntouchedLines
        <5> QED
          BY <1>2, <5>1 DEF TypeOK
      <4> QED
        BY <1>2, <2>4, <4>1, <4>2 DEF AppendRecords, AppendLines
    <3>2. log' \in Seq(Records)
      BY <3>1
    <3>3. \A i \in DOMAIN log' : IsRecord(log'[i])
      BY <3>2, CaptureAssumption DEF IsRecord
    <3> QED
      BY <2>1, <2>2, <3>1, <3>3 DEF Untouched
  <2>5. UNCHANGED <<log, closed>> \/ RemoveLog \/ \E h \in Hooks : AppendRecords(h)
    BY <2>1 DEF Next, Hook, Deliver, Lock, LockThrows, ReadTail, AppendThrows, WriteHead,
       WriteHeadFails, Finish, Failed, Crash, StealStale, RemoveHead, VerifyReads,
       VerifyCompares, vars, fileVars
  <2> QED
    BY <2>2, <2>3, <2>4, <2>5
<1>3. I => Untouched
  OBVIOUS
<1> HIDE DEF I
<1> QED
  BY <1>1, <1>2, <1>3, WindowInvariant, PTL DEF TSpec

-----------------------------------------------------------------------------
(***************************************************************************)
(* The tap log and begin's cursor                                          *)

TapRecs == [first : Nat \ {0}, last : Nat, calls : SUBSET Nat]

TapTypes ==
    /\ tapped \in Nat /\ removals \in Nat /\ reborn \in {"yes", "no"}
    /\ disk \in Seq(TapRecs) /\ cursor \subseteq Nat
    /\ tap \subseteq [seq : Nat, open : Seq(TapRecs), queue : Seq(TapRecs)]
    /\ \A p, q \in tap : p = q
    /\ \A p \in tap : Len(p.open) <= 1
    /\ \A c, d \in cursor : c = d
    /\ old \subseteq [calls : SUBSET Nat, taken : {"yes", "no"}]
    /\ \A o \in old : o.calls \subseteq 1 .. tapped

\* The records of the log, then those that wait, in the order they reach it.
Flow(p) == disk \o (p.queue \o p.open)

\* Records follow each other in number, and no two of them count one call.
Ordered(s) ==
    /\ \A i \in 1 .. Len(s) : s[i].first <= s[i].last /\ s[i].calls \subseteq 1 .. tapped
    /\ \A i, j \in 1 .. Len(s) :
          i < j => s[i].last < s[j].first /\ s[i].calls \cap s[j].calls = {}

FlowInv == /\ Ordered(disk)
           /\ \A p \in tap : /\ Ordered(Flow(p))
                             /\ \A i \in 1 .. Len(Flow(p)) : Flow(p)[i].last <= p.seq

\* What waits starts beyond the cursor, and so will what comes; only a process
\* started on a removed log counts from the beginning again.
CursorInv ==
    reborn = "no" =>
       /\ disk # <<>> => CursorAt <= TapTail
       /\ (disk = <<>> /\ removals = 0) => CursorAt = 0
       /\ \A p \in tap : /\ CursorAt <= p.seq
                         /\ \A i \in 1 .. Len(Flow(p)) :
                               i > Len(disk) => CursorAt < Flow(p)[i].first

\* What waits is new to the session; on disk the cursor tells new from old.
OldInv ==
    \A o \in old :
       /\ \A p \in tap : \A i \in 1 .. Len(Flow(p)) :
             i > Len(disk) => Flow(p)[i].calls \cap o.calls = {}
       /\ \A i \in 1 .. Len(disk) :
             /\ (o.taken = "yes" /\ disk[i].first > CursorAt) => disk[i].calls \cap o.calls = {}
             /\ reborn = "no" => disk[i].first > CursorAt \/ disk[i].calls \subseteq o.calls

TapInv == TapTypes /\ FlowInv /\ CursorInv /\ OldInv

\* Two sequences in a row.
LEMMA InARow ==
  ASSUME NEW S, NEW s \in Seq(S), NEW t \in Seq(S)
  PROVE  /\ s \o t \in Seq(S) /\ Len(s) \in Nat /\ Len(t) \in Nat
         /\ Len(s \o t) = Len(s) + Len(t)
         /\ \A i \in 1 .. Len(s) : (s \o t)[i] = s[i]
         /\ \A i \in 1 .. Len(t) : (s \o t)[Len(s) + i] = t[i]
<1>1. Len(s) \in Nat /\ Len(t) \in Nat
  OBVIOUS
<1>2. \A i \in 1 .. Len(s) : (s \o t)[i] = s[i]
  BY <1>1, ConcatProperties
<1>3. ASSUME NEW i \in 1 .. Len(t) PROVE (s \o t)[Len(s) + i] = t[i]
  <2>1. /\ Len(s) + i \in 1 .. Len(s) + Len(t) /\ ~(Len(s) + i <= Len(s))
        /\ (Len(s) + i) - Len(s) = i
    BY <1>1
  <2> QED
    BY <2>1, ConcatProperties
<1> QED
  BY <1>1, <1>2, <1>3, ConcatProperties

\* And three.
LEMMA ThreeInARow ==
  ASSUME NEW S, NEW d \in Seq(S), NEW q \in Seq(S), NEW o \in Seq(S)
  PROVE  LET f == d \o (q \o o)
         IN  /\ f \in Seq(S) /\ Len(d) \in Nat /\ Len(q) \in Nat /\ Len(o) \in Nat
             /\ Len(f) = Len(d) + Len(q) + Len(o)
             /\ \A i \in 1 .. Len(d) : f[i] = d[i]
             /\ \A i \in 1 .. Len(q) : f[Len(d) + i] = q[i]
             /\ \A i \in 1 .. Len(o) : f[Len(d) + Len(q) + i] = o[i]
<1> DEFINE w == q \o o
           f == d \o w
<1>1. /\ w \in Seq(S) /\ Len(w) = Len(q) + Len(o)
      /\ \A i \in 1 .. Len(q) : w[i] = q[i]
      /\ \A i \in 1 .. Len(o) : w[Len(q) + i] = o[i]
      /\ Len(q) \in Nat /\ Len(o) \in Nat
  BY InARow
<1> HIDE DEF w
<1>0. w \in Seq(S)
  BY <1>1
<1>2. /\ f \in Seq(S) /\ Len(f) = Len(d) + Len(w) /\ Len(d) \in Nat
      /\ \A i \in 1 .. Len(d) : f[i] = d[i]
      /\ \A i \in 1 .. Len(w) : f[Len(d) + i] = w[i]
  <2>1. \A x \in Seq(S) :
          /\ d \o x \in Seq(S) /\ Len(d \o x) = Len(d) + Len(x) /\ Len(d) \in Nat
          /\ \A i \in 1 .. Len(d) : (d \o x)[i] = d[i]
          /\ \A i \in 1 .. Len(x) : (d \o x)[Len(d) + i] = x[i]
    BY InARow
  <2> QED
    BY <1>0, <2>1
<1> HIDE DEF f
<1>3. ASSUME NEW i \in 1 .. Len(q) PROVE f[Len(d) + i] = q[i]
  <2>1. i \in 1 .. Len(w)
    BY <1>1
  <2> QED
    BY <1>1, <1>2, <2>1
<1>4. ASSUME NEW i \in 1 .. Len(o) PROVE f[Len(d) + Len(q) + i] = o[i]
  <2>1. Len(q) + i \in 1 .. Len(w) /\ Len(d) + (Len(q) + i) = Len(d) + Len(q) + i
    BY <1>1, <1>2
  <2> QED
    BY <1>1, <1>2, <2>1
<1>5. Len(f) = Len(d) + Len(q) + Len(o)
  BY <1>1, <1>2
<1>6. f = d \o (q \o o)
  BY DEF f, w
<1> HIDE DEF f, w
<1> QED
  BY <1>1, <1>2, <1>3, <1>4, <1>5, <1>6

\* Where a record of the log or of the process is in the flow.
LEMMA FlowShape ==
  ASSUME TapTypes, NEW p \in tap
  PROVE  /\ Flow(p) \in Seq(TapRecs) /\ p.queue \in Seq(TapRecs) /\ p.open \in Seq(TapRecs)
         /\ p.seq \in Nat /\ disk \in Seq(TapRecs)
         /\ Len(disk) \in Nat /\ Len(p.queue) \in Nat /\ Len(p.open) \in Nat
         /\ Len(Flow(p)) = Len(disk) + Len(p.queue) + Len(p.open)
         /\ \A i \in 1 .. Len(disk) : Flow(p)[i] = disk[i]
         /\ \A i \in 1 .. Len(p.queue) : Flow(p)[Len(disk) + i] = p.queue[i]
         /\ \A i \in 1 .. Len(p.open) : Flow(p)[Len(disk) + Len(p.queue) + i] = p.open[i]
<1>1. /\ p.queue \in Seq(TapRecs) /\ p.open \in Seq(TapRecs) /\ p.seq \in Nat
      /\ disk \in Seq(TapRecs)
  BY DEF TapTypes
<1> DEFINE q == p.queue
           o == p.open
<1>2. q \in Seq(TapRecs) /\ o \in Seq(TapRecs) /\ Flow(p) = disk \o (q \o o)
  BY <1>1 DEF Flow
<1> HIDE DEF q, o
<1>3. /\ Flow(p) \in Seq(TapRecs) /\ Len(disk) \in Nat /\ Len(q) \in Nat /\ Len(o) \in Nat
      /\ Len(Flow(p)) = Len(disk) + Len(q) + Len(o)
      /\ \A i \in 1 .. Len(disk) : Flow(p)[i] = disk[i]
      /\ \A i \in 1 .. Len(q) : Flow(p)[Len(disk) + i] = q[i]
      /\ \A i \in 1 .. Len(o) : Flow(p)[Len(disk) + Len(q) + i] = o[i]
  BY <1>1, <1>2, ThreeInARow
<1> QED
  BY <1>1, <1>3 DEF q, o

\* The tail of the log has its greatest number.
LEMMA TapTailIsGreatest ==
  ASSUME TapTypes, FlowInv
  PROVE  /\ TapTail \in Nat
         /\ disk = <<>> => TapTail = 0
         /\ disk # <<>> => Len(disk) \in 1 .. Len(disk) /\ TapTail = disk[Len(disk)].last
         /\ \A i \in 1 .. Len(disk) : disk[i].first <= disk[i].last /\ disk[i].last <= TapTail
<1>1. /\ disk \in Seq(TapRecs) /\ Len(disk) \in Nat /\ Ordered(disk)
      /\ disk # <<>> => Len(disk) \in 1 .. Len(disk)
      /\ \A i \in 1 .. Len(disk) : disk[i].first \in Nat /\ disk[i].last \in Nat
  <2>1. disk \in Seq(TapRecs) /\ Ordered(disk)
    BY DEF TapTypes, FlowInv
  <2>2. \A i \in 1 .. Len(disk) : disk[i] \in TapRecs
    BY <2>1
  <2>3. Len(disk) \in Nat /\ (disk # <<>> => Len(disk) \in 1 .. Len(disk))
    BY <2>1
  <2> QED
    BY <2>1, <2>2, <2>3 DEF TapRecs
<1>2. disk # <<>> => TapTail = disk[Len(disk)].last
  BY <1>1 DEF TapTail, Last
<1>3. disk = <<>> => TapTail = 0 /\ Len(disk) = 0
  BY DEF TapTail
<1>4. ASSUME NEW i \in 1 .. Len(disk)
      PROVE  disk[i].first <= disk[i].last /\ disk[i].last <= TapTail
  <2>1. disk # <<>>
    BY <1>1, <1>3
  <2>2. i < Len(disk) => disk[i].last < disk[Len(disk)].first
    BY <1>1, <2>1 DEF Ordered
  <2>3. disk[Len(disk)].first <= disk[Len(disk)].last /\ disk[i].first <= disk[i].last
    BY <1>1, <2>1 DEF Ordered
  <2> QED
    BY <1>1, <1>2, <2>1, <2>2, <2>3
<1> QED
  BY <1>1, <1>2, <1>3, <1>4

\* Initially nothing was tapped.
LEMMA InitTapInv == TInit => TapInv
BY DEF TInit, TapInv, TapTypes, FlowInv, Ordered, CursorInv, OldInv, CursorAt

\* What TapInv says of each record, with its numbers.
LEMMA FlowFacts ==
  ASSUME TapTypes, FlowInv, NEW p \in tap
  PROVE  /\ \A i \in 1 .. Len(Flow(p)) :
               /\ Flow(p)[i].first \in Nat \ {0} /\ Flow(p)[i].last \in Nat
               /\ Flow(p)[i].first <= Flow(p)[i].last /\ Flow(p)[i].last <= p.seq
               /\ Flow(p)[i].calls \subseteq 1 .. tapped
         /\ \A i, j \in 1 .. Len(Flow(p)) :
               i < j => /\ Flow(p)[i].last < Flow(p)[j].first
                        /\ Flow(p)[i].calls \cap Flow(p)[j].calls = {}
         /\ TapTail <= p.seq
         /\ \A i \in 1 .. Len(Flow(p)) : i > Len(disk) => TapTail < Flow(p)[i].first
<1> DEFINE f == Flow(p)
<1>0. f \in Seq(TapRecs)
  BY FlowShape
<1>3. /\ Len(disk) \in Nat /\ p.seq \in Nat /\ Len(f) \in Nat /\ Len(disk) <= Len(f)
  <2>1. /\ Len(disk) \in Nat /\ p.seq \in Nat
        /\ Len(p.queue) \in Nat /\ Len(p.open) \in Nat
        /\ Len(f) = Len(disk) + Len(p.queue) + Len(p.open)
    BY FlowShape
  <2>2. \A a, b, c \in Nat : a + b + c \in Nat /\ a <= a + b + c
    OBVIOUS
  <2> QED
    BY <2>1, <2>2, Zenon
<1>10. \A i \in 1 .. Len(disk) : f[i] = disk[i]
  BY FlowShape
<1>2. Ordered(f) /\ \A i \in 1 .. Len(f) : f[i].last <= p.seq
  BY DEF FlowInv
<1> HIDE DEF f
<1>1. \A i \in 1 .. Len(f) : f[i] \in TapRecs
  BY <1>0
<1>4. /\ TapTail \in Nat
      /\ disk = <<>> => TapTail = 0
      /\ disk # <<>> => Len(disk) \in 1 .. Len(disk) /\ TapTail = disk[Len(disk)].last
  BY TapTailIsGreatest
<1>5. \A i \in 1 .. Len(f) :
         /\ f[i].first \in Nat \ {0} /\ f[i].last \in Nat
         /\ f[i].first <= f[i].last /\ f[i].last <= p.seq
         /\ f[i].calls \subseteq 1 .. tapped
  BY <1>1, <1>2 DEF Ordered, TapRecs
<1>6. \A i, j \in 1 .. Len(f) :
         i < j => /\ f[i].last < f[j].first
                  /\ f[i].calls \cap f[j].calls = {}
  BY <1>2 DEF Ordered
<1>7. disk # <<>> => Len(disk) \in 1 .. Len(f) /\ TapTail = f[Len(disk)].last
  BY <1>3, <1>10, <1>4
<1>8. TapTail <= p.seq
  BY <1>3, <1>4, <1>5, <1>7
<1>9. ASSUME NEW i \in 1 .. Len(f), i > Len(disk) PROVE TapTail < f[i].first
  BY <1>3, <1>4, <1>5, <1>6, <1>7, <1>9
<1> QED
  BY <1>5, <1>6, <1>8, <1>9 DEF f

TapProc == [seq : Nat, open : Seq(TapRecs), queue : Seq(TapRecs)]

\* Closing the merge window moves its record to the queue and changes no order.
LEMMA FlushStep == ASSUME TapInv, TapFlush PROVE TapInv'
<1>1. PICK p \in tap : p.open # <<>> /\ tap' = {[p EXCEPT !.open = <<>>, !.queue = @ \o p.open]}
  BY DEF TapFlush
<1>2. /\ UNCHANGED <<tapped, disk, cursor, removals, old, reborn>>
      /\ p \in TapProc /\ tap = {p}
  BY <1>1 DEF TapFlush, TapInv, TapTypes, TapProc
<1>3. PICK n : n = [p EXCEPT !.open = <<>>, !.queue = @ \o p.open]
  OBVIOUS
<1>4. /\ n \in TapProc /\ n.seq = p.seq /\ n.open = <<>> /\ n.queue = p.queue \o p.open
      /\ tap' = {n}
  <2>1. p.queue \o p.open \in Seq(TapRecs) /\ <<>> \in Seq(TapRecs)
    <3>1. \A a, b \in Seq(TapRecs) : a \o b \in Seq(TapRecs)
      OBVIOUS
    <3> QED
      BY <1>2, <3>1 DEF TapProc
  <2>2. /\ n.seq = p.seq /\ n.open = <<>> /\ n.queue = p.queue \o p.open
        /\ n = [seq |-> p.seq, open |-> <<>>, queue |-> p.queue \o p.open]
    BY <1>2, <1>3 DEF TapProc
  <2>3. n \in TapProc
    BY <1>2, <2>1, <2>2 DEF TapProc
  <2> QED
    BY <1>1, <1>3, <2>2, <2>3
<1>5. Flow(n)' = Flow(p)
  <2>1. n.queue \in Seq(TapRecs)
    BY <1>4 DEF TapProc
  <2>2. n.queue \o <<>> = n.queue
    BY <2>1, ConcatEmptySeq
  <2> QED
    BY <1>2, <1>4, <2>2 DEF Flow
<1>6. TapTypes'
  BY <1>2, <1>4 DEF TapInv, TapTypes, TapProc
<1>7. FlowInv'
  BY <1>2, <1>4, <1>5 DEF TapInv, FlowInv, Ordered
<1>8. CursorInv'
  BY <1>2, <1>4, <1>5 DEF TapInv, CursorInv, CursorAt, TapTail
<1>9. OldInv'
  <2>1. CursorAt' = CursorAt
    BY <1>2 DEF CursorAt
  <2> QED
    BY <1>2, <1>4, <1>5, <2>1 DEF TapInv, OldInv
<1> QED
  BY <1>6, <1>7, <1>8, <1>9 DEF TapInv

\* The queue reaches the log; what it held is beyond the cursor.
LEMMA WriteStep == ASSUME TapInv, TapWrite PROVE TapInv'
<1>1. PICK p \in tap : /\ p.queue # <<>> /\ disk' = disk \o p.queue
                       /\ tap' = {[p EXCEPT !.queue = <<>>]}
  BY DEF TapWrite
<1>2. /\ UNCHANGED <<tapped, cursor, removals, old, reborn>>
      /\ p \in TapProc /\ tap = {p}
  BY <1>1 DEF TapWrite, TapInv, TapTypes, TapProc
<1>3. PICK n : n = [p EXCEPT !.queue = <<>>]
  OBVIOUS
<1>4. n \in TapProc /\ n.seq = p.seq /\ n.open = p.open /\ n.queue = <<>> /\ tap' = {n}
  <2>1. /\ n.seq = p.seq /\ n.open = p.open /\ n.queue = <<>>
        /\ n = [seq |-> p.seq, open |-> p.open, queue |-> <<>>]
    BY <1>2, <1>3 DEF TapProc
  <2>2. <<>> \in Seq(TapRecs)
    OBVIOUS
  <2>3. n \in TapProc
    BY <1>2, <2>1, <2>2 DEF TapProc
  <2> QED
    BY <1>1, <1>3, <2>1, <2>3
<1> DEFINE f == Flow(p)
           q == p.queue
           w == p.open
<1>5. /\ f \in Seq(TapRecs) /\ q \in Seq(TapRecs) /\ w \in Seq(TapRecs)
      /\ disk \in Seq(TapRecs) /\ p.seq \in Nat
      /\ Len(disk) \in Nat /\ Len(q) \in Nat /\ Len(w) \in Nat
      /\ Len(f) = Len(disk) + Len(q) + Len(w)
      /\ \A i \in 1 .. Len(disk) : f[i] = disk[i]
      /\ \A i \in 1 .. Len(q) : f[Len(disk) + i] = q[i]
  BY FlowShape DEF TapInv
<1>0. Flow(p) = disk \o (q \o w) /\ n.open = w /\ disk' = disk \o q /\ q # <<>>
  BY <1>1, <1>4 DEF Flow
<1> HIDE DEF q, w
<1>6. Flow(n)' = f
  <2>1. Flow(n)' = (disk \o q) \o (<<>> \o w)
    BY <1>0, <1>4 DEF Flow
  <2>2. <<>> \o w = w
    BY <1>5, ConcatEmptySeq
  <2>3. (disk \o q) \o w = disk \o (q \o w)
    BY <1>5, ConcatAssociative
  <2> QED
    BY <1>0, <2>1, <2>2, <2>3
<1>7. /\ disk' \in Seq(TapRecs) /\ Len(disk') = Len(disk) + Len(q)
      /\ \A i \in 1 .. Len(disk) : disk'[i] = disk[i]
      /\ \A i \in 1 .. Len(q) : disk'[Len(disk) + i] = q[i]
  BY <1>0, <1>5, InARow
<1>8. TapTypes'
  BY <1>2, <1>4, <1>7 DEF TapInv, TapTypes, TapProc
<1>9. Len(q) >= 1 /\ Len(disk') > Len(disk) /\ Len(disk') <= Len(f) /\ Len(disk') \in Nat
      /\ disk' # <<>>
  BY <1>0, <1>5, <1>7
<1>10. \A i \in 1 .. Len(disk') : disk'[i] = f[i] /\ i \in 1 .. Len(f)
  <2> SUFFICES ASSUME NEW i \in 1 .. Len(disk') PROVE disk'[i] = f[i] /\ i \in 1 .. Len(f)
    OBVIOUS
  <2>1. i \in 1 .. Len(f)
    BY <1>5, <1>9
  <2>2. CASE i \in 1 .. Len(disk)
    BY <1>5, <1>7, <2>1, <2>2
  <2>3. CASE ~(i \in 1 .. Len(disk))
    <3>1. i - Len(disk) \in 1 .. Len(q) /\ Len(disk) + (i - Len(disk)) = i
      BY <1>5, <1>7, <2>3
    <3> QED
      BY <1>5, <1>7, <2>1, <3>1
  <2> QED
    BY <2>2, <2>3
<1> HIDE DEF f
<1>11. Ordered(disk)'
  <2>1. Ordered(f)
    BY DEF TapInv, FlowInv, f
  <2> QED
    BY <1>2, <1>10, <2>1 DEF Ordered
<1>12. FlowInv'
  <2>1. Ordered(f) /\ \A i \in 1 .. Len(f) : f[i].last <= p.seq
    BY DEF TapInv, FlowInv, f
  <2>2. Ordered(Flow(n))'
    BY <1>2, <1>6, <2>1 DEF Ordered
  <2> QED
    BY <1>4, <1>6, <1>11, <2>1, <2>2 DEF FlowInv
<1>13. CursorInv'
  <2> SUFFICES ASSUME reborn' = "no" PROVE
         /\ CursorAt <= TapTail'
         /\ CursorAt <= p.seq
         /\ \A i \in 1 .. Len(f) : i > Len(disk') => CursorAt < f[i].first
    BY <1>2, <1>4, <1>6, <1>9 DEF CursorInv, CursorAt
  <2>1. /\ CursorAt <= p.seq
        /\ \A i \in 1 .. Len(f) : i > Len(disk) => CursorAt < f[i].first
    BY <1>2 DEF TapInv, CursorInv, f
  <2>2. TapTail' = f[Len(disk')].last /\ Len(disk') \in 1 .. Len(f)
    BY <1>9, <1>10 DEF TapTail, Last
  <2>3. /\ f[Len(disk')].first \in Nat /\ f[Len(disk')].last \in Nat
        /\ f[Len(disk')].first <= f[Len(disk')].last
    BY <2>2, FlowFacts DEF TapInv, f
  <2>4. CursorAt \in Nat
    BY DEF TapInv, TapTypes, CursorAt
  <2> QED
    BY <1>5, <1>9, <2>1, <2>2, <2>3, <2>4
<1>14. OldInv'
  <2> SUFFICES ASSUME NEW o \in old PROVE
       /\ \A i \in 1 .. Len(f) : i > Len(disk') => f[i].calls \cap o.calls = {}
       /\ \A i \in 1 .. Len(disk') :
             /\ (o.taken = "yes" /\ f[i].first > CursorAt) => f[i].calls \cap o.calls = {}
             /\ reborn = "no" => f[i].first > CursorAt \/ f[i].calls \subseteq o.calls
    BY <1>2, <1>4, <1>6, <1>10 DEF OldInv, CursorAt
  <2>1. \A i \in 1 .. Len(f) : i > Len(disk) => f[i].calls \cap o.calls = {}
    BY DEF TapInv, OldInv, f
  <2>2. \A i \in 1 .. Len(disk) :
             /\ (o.taken = "yes" /\ f[i].first > CursorAt) => f[i].calls \cap o.calls = {}
             /\ reborn = "no" => f[i].first > CursorAt \/ f[i].calls \subseteq o.calls
    BY <1>5 DEF TapInv, OldInv
  <2>3. reborn = "no" => \A i \in 1 .. Len(f) : i > Len(disk) => CursorAt < f[i].first
    BY <1>2 DEF TapInv, CursorInv, f
  <2>4. \A i \in 1 .. Len(f) : f[i].first \in Nat
    BY FlowFacts DEF TapInv, f
  <2>5. CursorAt \in Nat
    BY DEF TapInv, TapTypes, CursorAt
  <2>6. ASSUME NEW i \in 1 .. Len(disk')
        PROVE  /\ (o.taken = "yes" /\ f[i].first > CursorAt) => f[i].calls \cap o.calls = {}
               /\ reborn = "no" => f[i].first > CursorAt \/ f[i].calls \subseteq o.calls
    <3>1. CASE i \in 1 .. Len(disk)
      BY <2>2, <3>1
    <3>2. CASE ~(i \in 1 .. Len(disk))
      <4>1. i \in 1 .. Len(f) /\ i > Len(disk)
        BY <1>5, <1>9, <1>10, <3>2
      <4> QED
        BY <2>1, <2>3, <2>4, <2>5, <4>1
    <3> QED
      BY <3>1, <3>2
  <2>7. \A i \in 1 .. Len(f) : i > Len(disk') => i > Len(disk)
    BY <1>5, <1>9
  <2> QED
    BY <2>1, <2>6, <2>7
<1> QED
  BY <1>8, <1>12, <1>13, <1>14 DEF TapInv

\* What waits dies with its process.
LEMMA DiesStep == ASSUME TapInv, TapDies PROVE TapInv'
<1>1. tap' = {} /\ UNCHANGED <<tapped, disk, cursor, removals, old, reborn>>
  BY DEF TapDies
<1>2. TapTypes' /\ FlowInv'
  BY <1>1 DEF TapInv, TapTypes, FlowInv, Ordered
<1>3. CursorInv'
  BY <1>1 DEF TapInv, CursorInv, CursorAt, TapTail
<1>4. OldInv'
  <2>1. /\ CursorAt' = CursorAt
        /\ \A o \in old : \A i \in 1 .. Len(disk) :
             /\ (o.taken = "yes" /\ disk[i].first > CursorAt) => disk[i].calls \cap o.calls = {}
             /\ reborn = "no" => disk[i].first > CursorAt \/ disk[i].calls \subseteq o.calls
    BY <1>1 DEF TapInv, OldInv, CursorAt
  <2> QED
    BY <1>1, <2>1 DEF OldInv
<1> QED
  BY <1>2, <1>3, <1>4 DEF TapInv

\* A process starts behind the last record of the log.
LEMMA BootStep == ASSUME TapInv, TapBoot PROVE TapInv'
<1>1. PICK n : n = [seq |-> TapTail, open |-> <<>>, queue |-> <<>>]
  OBVIOUS
<1>2. /\ tap' = {n} /\ tap = {} /\ UNCHANGED <<tapped, disk, cursor, removals, old>>
      /\ reborn' = IF disk = <<>> /\ removals > 0 THEN "yes" ELSE reborn
  BY <1>1 DEF TapBoot
<1>3. /\ TapTail \in Nat
      /\ disk = <<>> => TapTail = 0
      /\ \A i \in 1 .. Len(disk) : disk[i].last <= TapTail
      /\ disk \in Seq(TapRecs) /\ Ordered(disk)
  BY TapTailIsGreatest DEF TapInv, TapTypes, FlowInv
<1>4. n \in TapProc /\ n.seq = TapTail /\ n.queue = <<>> /\ n.open = <<>>
  BY <1>1, <1>3 DEF TapProc
<1>5. Flow(n)' = disk
  <2>1. <<>> \o <<>> = <<>> /\ disk \o <<>> = disk
    BY <1>3, ConcatEmptySeq
  <2> QED
    BY <1>2, <1>4, <2>1 DEF Flow
<1>6. TapTypes'
  BY <1>2, <1>4 DEF TapInv, TapTypes, TapProc
<1>7. FlowInv'
  BY <1>2, <1>3, <1>4, <1>5 DEF FlowInv, Ordered
<1>8. CursorInv'
  <2> SUFFICES ASSUME reborn' = "no"
               PROVE  /\ disk # <<>> => CursorAt <= TapTail
                      /\ (disk = <<>> /\ removals = 0) => CursorAt = 0
                      /\ CursorAt <= TapTail
                      /\ \A i \in 1 .. Len(disk) : ~(i > Len(disk))
    BY <1>2, <1>4, <1>5 DEF CursorInv, CursorAt, TapTail
  <2>1. reborn = "no" /\ ~(disk = <<>> /\ removals > 0) /\ removals \in Nat
    BY <1>2 DEF TapInv, TapTypes
  <2>2. /\ disk # <<>> => CursorAt <= TapTail
        /\ (disk = <<>> /\ removals = 0) => CursorAt = 0
    BY <2>1 DEF TapInv, CursorInv
  <2>3. \A i \in 1 .. Len(disk) : ~(i > Len(disk))
    BY <1>3
  <2> QED
    BY <1>3, <2>1, <2>2, <2>3
<1>9. OldInv'
  <2>1. \A i \in 1 .. Len(disk) : ~(i > Len(disk))
    BY <1>3
  <2>2. reborn' = "no" => reborn = "no"
    BY <1>2
  <2> QED
    BY <1>2, <1>5, <2>1, <2>2 DEF TapInv, OldInv, CursorAt
<1> QED
  BY <1>6, <1>7, <1>8, <1>9 DEF TapInv

\* Removing the log leaves what waits.
LEMMA RemovedStep == ASSUME TapInv, TapRemoved PROVE TapInv'
<1>1. /\ disk' = <<>> /\ removals' = removals + 1 /\ removals' \in Nat /\ removals' # 0
      /\ UNCHANGED <<tapped, tap, cursor, old, reborn>>
  BY DEF TapRemoved, TapInv, TapTypes
<1>2. ASSUME NEW p \in tap
      PROVE  /\ Len(Flow(p)') \in Nat /\ Len(disk) \in Nat
             /\ \A i \in 1 .. Len(Flow(p)') :
                   /\ Len(disk) + i \in 1 .. Len(Flow(p)) /\ Len(disk) + i > Len(disk)
                   /\ Flow(p)'[i] = Flow(p)[Len(disk) + i]
  <2> DEFINE q == p.queue
             o == p.open
             w == q \o o
  <2>1. q \in Seq(TapRecs) /\ o \in Seq(TapRecs) /\ disk \in Seq(TapRecs)
    BY DEF TapInv, TapTypes
  <2>2. Flow(p) = disk \o w /\ Flow(p)' = <<>> \o w
    BY <1>1 DEF Flow
  <2> HIDE DEF q, o
  <2>3. w \in Seq(TapRecs)
    BY <2>1
  <2> HIDE DEF w
  <2>4. Flow(p)' = w
    BY <2>2, <2>3, ConcatEmptySeq
  <2>5. /\ Len(disk) \in Nat /\ Len(w) \in Nat /\ Len(disk \o w) = Len(disk) + Len(w)
        /\ \A i \in 1 .. Len(w) : (disk \o w)[Len(disk) + i] = w[i]
    BY <2>1, <2>3, InARow
  <2> QED
    BY <2>2, <2>4, <2>5
<1>3. TapTypes'
  BY <1>1, EmptySeq DEF TapInv, TapTypes
<1>4. FlowInv'
  <2>1. Ordered(disk)'
    BY <1>1 DEF Ordered
  <2>2. ASSUME NEW p \in tap
        PROVE  Ordered(Flow(p))' /\ \A i \in 1 .. Len(Flow(p)') : Flow(p)'[i].last <= p.seq
    <3> DEFINE f == Flow(p)
               L == Len(disk)
    <3>0. PICK g : g = Flow(p)'
      OBVIOUS
    <3>1. /\ \A i \in 1 .. Len(g) : /\ L + i \in 1 .. Len(f) /\ g[i] = f[L + i]
          /\ Len(g) \in Nat /\ L \in Nat
      BY <1>2, <3>0
    <3>2. /\ \A i \in 1 .. Len(f) : f[i].first <= f[i].last /\ f[i].calls \subseteq 1 .. tapped
          /\ \A i, j \in 1 .. Len(f) :
               i < j => f[i].last < f[j].first /\ f[i].calls \cap f[j].calls = {}
          /\ \A i \in 1 .. Len(f) : f[i].last <= p.seq
      BY DEF TapInv, FlowInv, Ordered
    <3> HIDE DEF f, L
    <3>3. \A i, j \in 1 .. Len(g) : i < j => L + i < L + j
      BY <3>1
    <3>4. /\ \A i \in 1 .. Len(g) : g[i].first <= g[i].last /\ g[i].calls \subseteq 1 .. tapped
          /\ \A i, j \in 1 .. Len(g) :
               i < j => g[i].last < g[j].first /\ g[i].calls \cap g[j].calls = {}
          /\ \A i \in 1 .. Len(g) : g[i].last <= p.seq
      BY <3>1, <3>2, <3>3
    <3> QED
      BY <1>1, <3>0, <3>4 DEF Ordered
  <2> QED
    BY <1>1, <2>1, <2>2 DEF FlowInv
<1>5. CursorInv'
  <2> SUFFICES ASSUME reborn = "no", NEW p \in tap
               PROVE  /\ CursorAt <= p.seq
                      /\ \A i \in 1 .. Len(Flow(p)') : CursorAt < Flow(p)'[i].first
    BY <1>1 DEF CursorInv, CursorAt
  <2> QED
    BY <1>2 DEF TapInv, CursorInv
<1>6. OldInv'
  <2>1. ASSUME NEW o \in old, NEW p \in tap, NEW i \in 1 .. Len(Flow(p)')
        PROVE  Flow(p)'[i].calls \cap o.calls = {}
    BY <1>2 DEF TapInv, OldInv
  <2>2. \A i \in 1 .. Len(disk') : FALSE
    BY <1>1
  <2> QED
    BY <1>1, <2>1, <2>2 DEF OldInv
<1> QED
  BY <1>3, <1>4, <1>5, <1>6 DEF TapInv

-----------------------------------------------------------------------------
\* A new session: nothing is old yet.
LEMMA WrittenStep == ASSUME TapInv, NEW b \in Begins, SessionWritten(b) PROVE TapInv'
<1>1. old' = {} /\ UNCHANGED <<tapped, tap, disk, cursor, removals, reborn>>
  BY DEF SessionWritten
<1>2. TapTypes' /\ FlowInv'
  BY <1>1 DEF TapInv, TapTypes, FlowInv, Flow, Ordered
<1>3. CursorInv'
  BY <1>1 DEF TapInv, CursorInv, Flow, CursorAt, TapTail
<1>4. OldInv'
  BY <1>1 DEF OldInv
<1> QED
  BY <1>2, <1>3, <1>4 DEF TapInv

\* Whatever waits when begin looks at the log is in none of its records.
LEMMA SeenIsApart ==
  ASSUME TapInv
  PROVE  /\ Calls(disk) \subseteq 1 .. tapped
         /\ \A i \in 1 .. Len(disk) : disk[i].calls \subseteq Calls(disk)
         /\ \A p \in tap : \A i \in 1 .. Len(Flow(p)) :
               i > Len(disk) => Flow(p)[i].calls \cap Calls(disk) = {}
<1>1. /\ DOMAIN disk = 1 .. Len(disk) /\ Len(disk) \in Nat
      /\ \A i \in 1 .. Len(disk) : disk[i].calls \subseteq 1 .. tapped
  BY DEF TapInv, TapTypes, FlowInv, Ordered
<1>2. ASSUME NEW p \in tap, NEW i \in 1 .. Len(Flow(p)), i > Len(disk),
             NEW j \in 1 .. Len(disk)
      PROVE  Flow(p)[i].calls \cap disk[j].calls = {}
  <2>1. \A k \in 1 .. Len(disk) : Flow(p)[k] = disk[k]
    BY FlowShape DEF TapInv
  <2>2. j \in 1 .. Len(Flow(p)) /\ j < i
    BY <1>1, <1>2
  <2>3. \A k, l \in 1 .. Len(Flow(p)) :
           k < l => Flow(p)[k].calls \cap Flow(p)[l].calls = {}
    BY FlowFacts DEF TapInv
  <2> QED
    BY <2>1, <2>2, <2>3
<1> QED
  BY <1>1, <1>2 DEF Calls

\* begin passes the cursor over: the older one still tells new from old.
LEMMA NoSnapshotStep == ASSUME TapInv, NEW b \in Begins, NoSnapshot(b) PROVE TapInv'
<1>1. PICK o : o = [calls |-> Calls(disk), taken |-> "no"]
  OBVIOUS
<1>2. old' = {o} /\ UNCHANGED <<tapped, tap, disk, cursor, removals, reborn>>
  BY <1>1 DEF NoSnapshot, Seen
<1>3. TapTypes'
  BY <1>1, <1>2, SeenIsApart DEF TapInv, TapTypes
<1>4. FlowInv'
  BY <1>2 DEF TapInv, FlowInv, Flow, Ordered
<1>5. CursorInv'
  BY <1>2 DEF TapInv, CursorInv, Flow, CursorAt, TapTail
<1>6. OldInv'
  <2>1. /\ \A i \in 1 .. Len(disk) : disk[i].calls \subseteq Calls(disk)
        /\ \A p \in tap : \A i \in 1 .. Len(Flow(p)) :
              i > Len(disk) => Flow(p)[i].calls \cap Calls(disk) = {}
    BY SeenIsApart
  <2>2. o.calls = Calls(disk) /\ o.taken = "no"
    BY <1>1
  <2>3. \A p : Flow(p)' = Flow(p)
    BY <1>2 DEF Flow
  <2> QED
    BY <1>2, <2>1, <2>2, <2>3 DEF OldInv
<1> QED
  BY <1>3, <1>4, <1>5, <1>6 DEF TapInv

\* begin takes the cursor: all that is on disk is old, all that waits is new.
LEMMA SnapshotStep == ASSUME TapInv, NEW b \in Begins, TapCursorSnapshot(b) PROVE TapInv'
<1>1. PICK o : o = [calls |-> Calls(disk), taken |-> "yes"]
  OBVIOUS
<1>2. /\ old' = {o} /\ UNCHANGED <<tapped, tap, disk, removals, reborn>>
      /\ cursor' = {TapTail}
  BY <1>1 DEF TapCursorSnapshot, Seen
<1>3. /\ TapTail \in Nat /\ (disk = <<>> => TapTail = 0)
      /\ \A i \in 1 .. Len(disk) : disk[i].first <= disk[i].last /\ disk[i].last <= TapTail
      /\ \A i \in 1 .. Len(disk) : disk[i].first \in Nat /\ disk[i].last \in Nat
  <2>1. \A i \in 1 .. Len(disk) : disk[i].first \in Nat /\ disk[i].last \in Nat
    <3>1. disk \in Seq(TapRecs)
      BY DEF TapInv, TapTypes
    <3>2. \A i \in 1 .. Len(disk) : disk[i] \in TapRecs
      BY <3>1
    <3> QED
      BY <3>2 DEF TapRecs
  <2> QED
    BY <2>1, TapTailIsGreatest DEF TapInv
<1>4. CursorAt' = TapTail /\ TapTail' = TapTail
  BY <1>2 DEF CursorAt, TapTail
<1>5. TapTypes'
  <2>1. o \in [calls : SUBSET Nat, taken : {"yes", "no"}] /\ o.calls \subseteq 1 .. tapped
    BY <1>1, SeenIsApart DEF TapInv, TapTypes
  <2> QED
    BY <1>2, <1>3, <2>1 DEF TapInv, TapTypes
<1>6. FlowInv'
  BY <1>2 DEF TapInv, FlowInv, Flow, Ordered
<1>7. CursorInv'
  <2>1. \A p \in tap : /\ TapTail <= p.seq
                       /\ \A i \in 1 .. Len(Flow(p)) :
                             i > Len(disk) => TapTail < Flow(p)[i].first
    BY FlowFacts DEF TapInv
  <2>2. \A p : Flow(p)' = Flow(p)
    BY <1>2 DEF Flow
  <2> QED
    BY <1>2, <1>3, <1>4, <2>1, <2>2 DEF CursorInv
<1>8. OldInv'
  <2>1. ASSUME NEW i \in 1 .. Len(disk) PROVE ~(disk[i].first > TapTail)
    BY <1>3
  <2>2. /\ \A i \in 1 .. Len(disk) : disk[i].calls \subseteq Calls(disk)
        /\ \A p \in tap : \A i \in 1 .. Len(Flow(p)) :
              i > Len(disk) => Flow(p)[i].calls \cap Calls(disk) = {}
    BY SeenIsApart
  <2>3. o.calls = Calls(disk) /\ o.taken = "yes"
    BY <1>1
  <2>4. \A p : Flow(p)' = Flow(p)
    BY <1>2 DEF Flow
  <2> QED
    BY <1>2, <1>4, <2>1, <2>2, <2>3, <2>4 DEF OldInv
<1> QED
  BY <1>5, <1>6, <1>7, <1>8 DEF TapInv

\* The next call: m is the place of its record, a new one behind all others
\* or the one that is still open.
LEMMA CallKeeps ==
  ASSUME TapInv, NEW p \in tap, NEW n, n \in TapProc, Len(n.open) <= 1, n.seq = p.seq + 1,
         tapped' = tapped + 1, tap' = {n}, UNCHANGED <<disk, cursor, removals, old, reborn>>,
         NEW g, g = Flow(n)', NEW m \in Nat, m > Len(disk), Len(g) = m,
         \A i \in 1 .. m - 1 : i \in 1 .. Len(Flow(p)) /\ g[i] = Flow(p)[i],
         g[m].last = p.seq + 1,
         \/ /\ g[m].first = p.seq + 1 /\ g[m].calls = {tapped + 1}
         \/ /\ m \in 1 .. Len(Flow(p)) /\ g[m].first = Flow(p)[m].first
            /\ g[m].calls = Flow(p)[m].calls \cup {tapped + 1}
  PROVE  TapInv'
<1> DEFINE f == Flow(p)
<1>1. /\ \A i \in 1 .. Len(f) :
               /\ f[i].first \in Nat \ {0} /\ f[i].last \in Nat
               /\ f[i].first <= f[i].last /\ f[i].last <= p.seq
               /\ f[i].calls \subseteq 1 .. tapped
      /\ \A i, j \in 1 .. Len(f) :
               i < j => /\ f[i].last < f[j].first
                        /\ f[i].calls \cap f[j].calls = {}
  BY FlowFacts DEF TapInv
<1>2. p.seq \in Nat /\ Len(disk) \in Nat /\ Len(f) \in Nat /\ tapped \in Nat
  <2>1. p.seq \in Nat /\ Len(disk) \in Nat /\ f \in Seq(TapRecs)
    BY FlowShape DEF TapInv
  <2>2. Len(f) \in Nat
    BY <2>1
  <2> QED
    BY <2>1, <2>2 DEF TapInv, TapTypes
<1> HIDE DEF f
<1>3. /\ g[m].first \in Nat /\ g[m].first <= p.seq + 1
      /\ \A i \in 1 .. m - 1 : f[i].last < g[m].first
  <2>1. CASE g[m].first = p.seq + 1
    BY <1>1, <1>2, <2>1 DEF f
  <2>2. CASE m \in 1 .. Len(f) /\ g[m].first = f[m].first
    <3>1. f[m].first \in Nat /\ f[m].first <= p.seq + 1
      BY <1>1, <1>2, <2>2
    <3>2. \A i \in 1 .. m - 1 : i \in 1 .. Len(f) /\ i < m
      BY <1>2, <2>2
    <3> QED
      BY <1>1, <2>2, <3>1, <3>2
  <2> QED
    BY <2>1, <2>2 DEF f
<1>4. /\ g[m].calls \subseteq 1 .. tapped + 1
      /\ \A i \in 1 .. m - 1 : f[i].calls \cap g[m].calls = {}
  <2>1. \A i \in 1 .. Len(f) : ~(tapped + 1 \in f[i].calls)
    BY <1>1, <1>2
  <2>2. \A x \in 1 .. tapped : x \in 1 .. tapped + 1
    BY <1>2
  <2>3. tapped + 1 \in 1 .. tapped + 1
    BY <1>2
  <2>4. CASE g[m].calls = {tapped + 1}
    BY <2>1, <2>3, <2>4 DEF f
  <2>5. CASE m \in 1 .. Len(f) /\ g[m].calls = f[m].calls \cup {tapped + 1}
    <3>1. \A i \in 1 .. m - 1 : i \in 1 .. Len(f) /\ i < m
      BY <1>2, <2>5
    <3>2. \A i \in 1 .. m - 1 : f[i].calls \cap f[m].calls = {} /\ ~(tapped + 1 \in f[i].calls)
      BY <1>1, <2>1, <2>5, <3>1
    <3> QED
      BY <1>1, <2>2, <2>3, <2>5, <3>2
  <2> QED
    BY <2>4, <2>5 DEF f
<1>5. \A i \in 1 .. m : i = m \/ i \in 1 .. m - 1
  BY <1>2
<1>6. TapTypes'
  <2>1. \A o \in old : o.calls \subseteq 1 .. tapped + 1
    BY <1>2 DEF TapInv, TapTypes
  <2> QED
    BY <1>2, <2>1 DEF TapInv, TapTypes, TapProc
<1>7. Ordered(disk)'
  <2>1. \A x \in 1 .. tapped : x \in 1 .. tapped + 1
    BY <1>2
  <2> QED
    BY <2>1 DEF TapInv, FlowInv, Ordered
<1>8. Ordered(g)' /\ \A i \in 1 .. Len(g) : g[i].last <= p.seq + 1
  <2>0. \A x \in 1 .. tapped : x \in 1 .. tapped + 1
    BY <1>2
  <2>1. ASSUME NEW i \in 1 .. m
        PROVE  /\ g[i].first <= g[i].last /\ g[i].calls \subseteq 1 .. tapped + 1
               /\ g[i].last <= p.seq + 1
    <3>1. CASE i = m
      BY <1>2, <1>3, <1>4, <3>1
    <3>2. CASE i \in 1 .. m - 1
      <4>1. i \in 1 .. Len(f) /\ g[i] = f[i]
        BY <3>2 DEF f
      <4> QED
        BY <1>1, <1>2, <2>0, <4>1
    <3> QED
      BY <1>5, <3>1, <3>2
  <2>2. ASSUME NEW i \in 1 .. m, NEW j \in 1 .. m, i < j
        PROVE  g[i].last < g[j].first /\ g[i].calls \cap g[j].calls = {}
    <3>1. i \in 1 .. m - 1 /\ i \in 1 .. Len(f) /\ g[i] = f[i]
      <4>1. i \in 1 .. m - 1
        BY <2>2
      <4> QED
        BY <4>1 DEF f
    <3>2. CASE j = m
      BY <1>3, <1>4, <3>1, <3>2
    <3>3. CASE j \in 1 .. m - 1
      <4>1. j \in 1 .. Len(f) /\ g[j] = f[j]
        BY <3>3 DEF f
      <4> QED
        BY <1>1, <2>2, <3>1, <4>1
    <3> QED
      BY <1>5, <3>2, <3>3
  <2> QED
    BY <2>1, <2>2 DEF Ordered
<1>9. FlowInv'
  BY <1>7, <1>8 DEF FlowInv, Ordered
<1>10. CursorInv'
  <2> SUFFICES ASSUME reborn = "no"
               PROVE  /\ CursorAt <= p.seq + 1
                      /\ \A i \in 1 .. m : i > Len(disk) => CursorAt < g[i].first
    BY DEF TapInv, CursorInv, CursorAt, TapTail
  <2>1. CursorAt <= p.seq /\ \A i \in 1 .. Len(f) : i > Len(disk) => CursorAt < f[i].first
    BY DEF TapInv, CursorInv, f
  <2>2. CursorAt \in Nat
    BY DEF TapInv, TapTypes, CursorAt
  <2>3. CursorAt < g[m].first
    BY <1>2, <2>1, <2>2 DEF f
  <2>4. ASSUME NEW i \in 1 .. m - 1, i > Len(disk) PROVE CursorAt < g[i].first
    BY <2>1, <2>4 DEF f
  <2> QED
    BY <1>2, <1>5, <2>1, <2>2, <2>3, <2>4
<1>11. OldInv'
  <2>1. ASSUME NEW o \in old, NEW i \in 1 .. m, i > Len(disk)
        PROVE  g[i].calls \cap o.calls = {}
    <3>1. \A k \in 1 .. Len(f) : k > Len(disk) => f[k].calls \cap o.calls = {}
      BY DEF TapInv, OldInv, f
    <3>2. ~(tapped + 1 \in o.calls)
      BY <1>2 DEF TapInv, TapTypes
    <3>3. CASE i = m
      BY <2>1, <3>1, <3>2, <3>3 DEF f
    <3>4. CASE i \in 1 .. m - 1
      BY <2>1, <3>1, <3>4 DEF f
    <3> QED
      BY <1>5, <3>3, <3>4
  <2>2. \A o \in old : \A i \in 1 .. Len(disk) :
             /\ (o.taken = "yes" /\ disk[i].first > CursorAt) => disk[i].calls \cap o.calls = {}
             /\ reborn = "no" => disk[i].first > CursorAt \/ disk[i].calls \subseteq o.calls
    BY DEF TapInv, OldInv
  <2>3. CursorAt' = CursorAt
    BY DEF CursorAt
  <2> QED
    BY <2>1, <2>2, <2>3 DEF OldInv
<1> QED
  BY <1>6, <1>9, <1>10, <1>11 DEF TapInv

\* Every call, merged or not, is such a next one.
LEMMA CallStep == ASSUME TapInv, NEW merged \in BOOLEAN, TapCall(merged) PROVE TapInv'
<1> DEFINE rec(p) == [first |-> p.seq + 1, last |-> p.seq + 1, calls |-> {tapped + 1}]
           more(p, o) == [o EXCEPT !.last = p.seq + 1, !.calls = @ \cup {tapped + 1}]
<1>1. PICK p \in tap :
        \/ /\ p.open # <<>>
           /\ tap' = {[p EXCEPT !.seq = p.seq + 1, !.open = <<more(p, p.open[1])>>]}
        \/ tap' = {[seq |-> p.seq + 1, open |-> <<rec(p)>>, queue |-> p.queue \o p.open]}
  BY DEF TapCall
<1>2. tapped' = tapped + 1 /\ UNCHANGED <<disk, cursor, removals, old, reborn>>
  BY DEF TapCall
<1>3. /\ Flow(p) \in Seq(TapRecs) /\ p.queue \in Seq(TapRecs) /\ p.open \in Seq(TapRecs)
      /\ p.seq \in Nat /\ disk \in Seq(TapRecs) /\ tapped \in Nat
      /\ Len(disk) \in Nat /\ Len(p.queue) \in Nat /\ Len(p.open) \in Nat /\ Len(p.open) <= 1
      /\ Len(Flow(p)) = Len(disk) + Len(p.queue) + Len(p.open)
      /\ p \in TapProc
  BY FlowShape DEF TapInv, TapTypes, TapProc
<1> DEFINE q == p.queue
           o == p.open
           s == p.seq + 1
<1>4. CASE tap' = {[seq |-> s, open |-> <<rec(p)>>, queue |-> q \o o]}
  <2>1. PICK r : r = rec(p)
    OBVIOUS
  <2>2. r \in TapRecs /\ r.first = s /\ r.last = s /\ r.calls = {tapped + 1}
    BY <1>3, <2>1 DEF TapRecs
  <2>3. PICK n : n = [seq |-> s, open |-> <<r>>, queue |-> q \o o]
    OBVIOUS
  <2>4. q \in Seq(TapRecs) /\ o \in Seq(TapRecs) /\ s \in Nat /\ Flow(p) = disk \o (q \o o)
    BY <1>3 DEF Flow
  <2> HIDE DEF q, o, s
  <2>5. /\ q \o o \in Seq(TapRecs) /\ <<r>> \in Seq(TapRecs) /\ Len(<<r>>) = 1
        /\ n \in TapProc /\ n.seq = s /\ n.open = <<r>> /\ n.queue = q \o o /\ tap' = {n}
    <3>1. q \o o \in Seq(TapRecs)
      BY <2>4
    <3>2. <<r>> \in Seq(TapRecs) /\ Len(<<r>>) = 1
      BY <2>2
    <3>3. n \in TapProc
      BY <2>3, <2>4, <3>1, <3>2 DEF TapProc
    <3> QED
      BY <1>4, <2>1, <2>3, <3>1, <3>2, <3>3
  <2>6. PICK g : g = Flow(n)'
    OBVIOUS
  <2>7. g = Flow(p) \o <<r>>
    <3>1. g = disk \o ((q \o o) \o <<r>>)
      BY <1>2, <2>5, <2>6 DEF Flow
    <3>2. disk \o ((q \o o) \o <<r>>) = (disk \o (q \o o)) \o <<r>>
      BY <1>3, <2>5, ConcatAssociative
    <3> QED
      BY <2>4, <3>1, <3>2
  <2> DEFINE L == Len(Flow(p))
  <2>8. /\ L \in Nat /\ Len(g) = L + 1
        /\ \A i \in 1 .. L : g[i] = Flow(p)[i]
        /\ g[L + 1] = r
    <3>1. 1 \in 1 .. Len(<<r>>) /\ <<r>>[1] = r
      BY <2>5
    <3>2. \A a, b \in Seq(TapRecs) :
            /\ Len(a) \in Nat /\ Len(a \o b) = Len(a) + Len(b)
            /\ \A i \in 1 .. Len(a) : (a \o b)[i] = a[i]
            /\ \A i \in 1 .. Len(b) : (a \o b)[Len(a) + i] = b[i]
      BY InARow
    <3>3. /\ Len(Flow(p)) \in Nat /\ Len(g) = Len(Flow(p)) + Len(<<r>>)
          /\ \A i \in 1 .. Len(Flow(p)) : g[i] = Flow(p)[i]
          /\ \A i \in 1 .. Len(<<r>>) : g[Len(Flow(p)) + i] = <<r>>[i]
      BY <1>3, <2>5, <2>7, <3>2
    <3> QED
      BY <2>5, <3>1, <3>3
  <2>9. L + 1 \in Nat /\ L + 1 > Len(disk)
    <3>1. \A a, b, c \in Nat : a + b + c + 1 \in Nat /\ a + b + c + 1 > a
      OBVIOUS
    <3> QED
      BY <1>3, <3>1
  <2>10. \A i \in 1 .. (L + 1) - 1 : i \in 1 .. L /\ g[i] = Flow(p)[i]
    BY <2>8
  <2> HIDE DEF L
  <2>11. n.seq = p.seq + 1 /\ r.first = p.seq + 1 /\ r.last = p.seq + 1 /\ Len(n.open) <= 1
    BY <2>2, <2>5 DEF s
  <2>12. PICK m : m = L + 1
    OBVIOUS
  <2>13. /\ m \in Nat /\ m > Len(disk) /\ Len(g) = m
         /\ \A i \in 1 .. m - 1 : i \in 1 .. Len(Flow(p)) /\ g[i] = Flow(p)[i]
         /\ g[m].last = p.seq + 1 /\ g[m].first = p.seq + 1 /\ g[m].calls = {tapped + 1}
    BY <2>2, <2>8, <2>9, <2>10, <2>11, <2>12 DEF L
  <2> QED
    BY <1>2, <2>5, <2>6, <2>11, <2>13, CallKeeps
<1>5. CASE /\ o # <<>>
           /\ tap' = {[p EXCEPT !.seq = s, !.open = <<more(p, o[1])>>]}
  <2>1. PICK r : r = more(p, o[1])
    OBVIOUS
  <2>2. Len(o) = 1 /\ o[1] \in TapRecs
    <3>1. Len(o) # 0
      BY <1>3, <1>5
    <3>2. Len(o) = 1
      <4>1. \A x \in Nat : (x <= 1 /\ x # 0) => x = 1
        OBVIOUS
      <4> QED
        BY <1>3, <3>1, <4>1
    <3> QED
      BY <1>3, <3>2
  <2>3. /\ r \in TapRecs /\ r.first = o[1].first /\ r.last = s
        /\ r.calls = o[1].calls \cup {tapped + 1}
    <3>1. o[1].first \in Nat \ {0} /\ o[1].calls \in SUBSET Nat
      BY <2>2 DEF TapRecs
    <3>2. r = [first |-> o[1].first, last |-> s, calls |-> o[1].calls \cup {tapped + 1}]
      BY <2>1, <2>2 DEF TapRecs
    <3> HIDE DEF o
    <3> QED
      BY <1>3, <3>1, <3>2 DEF TapRecs
  <2>4. PICK n : n = [p EXCEPT !.seq = s, !.open = <<r>>]
    OBVIOUS
  <2>5. /\ n.seq = s /\ n.open = <<r>> /\ n.queue = q
        /\ n = [seq |-> s, open |-> <<r>>, queue |-> q]
    BY <1>3, <2>4 DEF TapProc
  <2>6. q \in Seq(TapRecs) /\ o \in Seq(TapRecs) /\ s \in Nat /\ Flow(p) = disk \o (q \o o)
    BY <1>3 DEF Flow
  <2>7. tap' = {n}
    BY <1>5, <2>1, <2>4
  <2> HIDE DEF q, o, s
  <2>8. <<r>> \in Seq(TapRecs) /\ Len(<<r>>) = 1 /\ <<r>>[1] = r
    BY <2>3
  <2>9. n \in TapProc
    BY <2>5, <2>6, <2>8 DEF TapProc
  <2>10. PICK g : g = Flow(n)'
    OBVIOUS
  <2>11. g = disk \o (q \o <<r>>)
    BY <1>2, <2>5, <2>10 DEF Flow
  <2> DEFINE L == Len(disk) + Len(q) + 1
  <2>12. /\ Len(disk) \in Nat /\ Len(q) \in Nat
         /\ Len(g) = L /\ Len(Flow(p)) = L
         /\ \A i \in 1 .. Len(disk) : g[i] = disk[i] /\ Flow(p)[i] = disk[i]
         /\ \A i \in 1 .. Len(q) : g[Len(disk) + i] = q[i] /\ Flow(p)[Len(disk) + i] = q[i]
         /\ g[L] = r /\ Flow(p)[L] = o[1]
    <3>1. LET f == disk \o (q \o <<r>>)
          IN  /\ Len(disk) \in Nat /\ Len(q) \in Nat
              /\ Len(f) = Len(disk) + Len(q) + Len(<<r>>)
              /\ \A i \in 1 .. Len(disk) : f[i] = disk[i]
              /\ \A i \in 1 .. Len(q) : f[Len(disk) + i] = q[i]
              /\ \A i \in 1 .. Len(<<r>>) : f[Len(disk) + Len(q) + i] = <<r>>[i]
      BY <1>3, <2>6, <2>8, ThreeInARow
    <3>2. LET f == disk \o (q \o o)
          IN  /\ Len(f) = Len(disk) + Len(q) + Len(o)
              /\ \A i \in 1 .. Len(disk) : f[i] = disk[i]
              /\ \A i \in 1 .. Len(q) : f[Len(disk) + i] = q[i]
              /\ \A i \in 1 .. Len(o) : f[Len(disk) + Len(q) + i] = o[i]
      BY <1>3, <2>6, ThreeInARow
    <3>3. 1 \in 1 .. Len(<<r>>) /\ 1 \in 1 .. Len(o)
      BY <2>2, <2>8
    <3> QED
      BY <2>2, <2>6, <2>8, <2>11, <3>1, <3>2, <3>3
  <2>13. L \in Nat /\ L > Len(disk)
    BY <2>12
  <2>14. ASSUME NEW i \in 1 .. L - 1
         PROVE  i \in 1 .. L /\ g[i] = Flow(p)[i]
    <3>1. i \in 1 .. L
      BY <2>13
    <3>2. CASE i \in 1 .. Len(disk)
      BY <2>12, <3>1, <3>2
    <3>3. CASE ~(i \in 1 .. Len(disk))
      <4>1. i - Len(disk) \in 1 .. Len(q) /\ Len(disk) + (i - Len(disk)) = i
        BY <2>12, <3>3
      <4> QED
        BY <2>12, <3>1, <4>1
    <3> QED
      BY <3>2, <3>3
  <2> HIDE DEF L
  <2>15. PICK m : m = L
    OBVIOUS
  <2>16. /\ m \in Nat /\ m > Len(disk) /\ Len(g) = m /\ m \in 1 .. Len(Flow(p))
         /\ \A i \in 1 .. m - 1 : i \in 1 .. Len(Flow(p)) /\ g[i] = Flow(p)[i]
         /\ g[m].first = Flow(p)[m].first
         /\ g[m].calls = Flow(p)[m].calls \cup {tapped + 1}
    <3>1. L \in 1 .. L
      BY <2>12, <2>13
    <3> QED
      BY <2>3, <2>12, <2>13, <2>14, <2>15, <3>1
  <2>17. n.seq = p.seq + 1 /\ g[m].last = p.seq + 1 /\ Len(n.open) <= 1
    BY <2>3, <2>5, <2>8, <2>12, <2>15 DEF s
  <2> QED
    BY <1>2, <2>7, <2>9, <2>10, <2>16, <2>17, CallKeeps
<1> QED
  BY <1>1, <1>4, <1>5

-----------------------------------------------------------------------------
\* Every step keeps the tap log's books.
LEMMA TapStep == ASSUME TapInv, [TNext]_everything PROVE TapInv'
<1>1. CASE UNCHANGED tapVars
  <2>1. UNCHANGED <<tapped, tap, disk, cursor, removals, old, reborn>>
    BY <1>1 DEF tapVars
  <2>2. TapTypes' /\ FlowInv'
    BY <2>1 DEF TapInv, TapTypes, FlowInv, Flow, Ordered
  <2>3. CursorInv'
    BY <2>1 DEF TapInv, CursorInv, Flow, CursorAt, TapTail
  <2>4. OldInv'
    <3>1. CursorAt' = CursorAt /\ \A p : Flow(p)' = Flow(p)
      BY <2>1 DEF CursorAt, Flow
    <3> QED
      BY <2>1, <3>1 DEF TapInv, OldInv
  <2> QED
    BY <2>2, <2>3, <2>4 DEF TapInv
<1>2. \/ UNCHANGED tapVars
      \/ TapBoot \/ TapFlush \/ TapWrite \/ TapDies \/ TapRemoved
      \/ \E merged \in BOOLEAN : TapCall(merged)
      \/ \E b \in Begins : SessionWritten(b) \/ TapCursorSnapshot(b) \/ NoSnapshot(b)
  BY DEF TNext, everything
<1> QED
  BY <1>1, <1>2, BootStep, FlushStep, WriteStep, DiesStep, RemovedStep, CallStep,
     WrittenStep, SnapshotStep, NoSnapshotStep

\* A call that reaches the disk after begin looked is in the session's summary,
\* and none that was there before.
THEOREM TapWindowHolds == TSpec => []TapWindowExact
<1>1. TapInv => TapWindowExact
  <2> SUFFICES ASSUME TapInv, NEW o \in old
               PROVE  /\ reborn = "no" => Calls(disk) \ o.calls \subseteq Summarised
                      /\ o.taken = "yes" => Summarised \cap o.calls = {}
    BY DEF TapWindowExact
  <2>1. DOMAIN disk = 1 .. Len(disk)
    BY DEF TapInv, TapTypes
  <2>2. \A i \in 1 .. Len(disk) :
             /\ (o.taken = "yes" /\ disk[i].first > CursorAt) => disk[i].calls \cap o.calls = {}
             /\ reborn = "no" => disk[i].first > CursorAt \/ disk[i].calls \subseteq o.calls
    BY DEF TapInv, OldInv
  <2> QED
    BY <2>1, <2>2 DEF Calls, Summarised
<1> QED
  BY <1>1, InitTapInv, TapStep, PTL DEF TSpec
=============================================================================
