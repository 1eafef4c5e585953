---------------------------- MODULE LedgerProofs ----------------------------
(***************************************************************************)
(* The lock and the ledger it guards.  The lock, for every set of          *)
(* processes and every number of retries: it serialises until a file is    *)
(* old enough to steal.  The ledger, for any number of writers, receipts   *)
(* and rebuilds: the chain holds and what was reported stays, whatever     *)
(* dies or is torn, as long as no rebuild runs beside a writer.            *)
(***************************************************************************)
EXTENDS FileLock, Ledger, Integers, FiniteSetTheorems, SequenceTheorems, TLAPS

-----------------------------------------------------------------------------
(* The lock                                                                *)

\* The state of withFileLock stays within its types.
THEOREM LockTyping == LockSpec => []TypeOK
<1>1. LockInit => TypeOK
  BY LockAssumption DEF LockInit, TypeOK, PCs
<1>2. TypeOK /\ [LockNext]_lockVars => TypeOK'
  <2> SUFFICES ASSUME TypeOK, [LockNext]_lockVars PROVE TypeOK'
    OBVIOUS
  <2> USE LockAssumption DEF TypeOK, PCs, GoesTo
  <2>1. CASE Age
    BY <2>1 DEF Age
  <2>2. ASSUME NEW p \in Procs, Call(p) PROVE TypeOK'
    BY <2>2 DEF Call
  <2>3. ASSUME NEW p \in Procs, Step(p) PROVE TypeOK'
    <3>1. CASE Create(p)
      BY <3>1 DEF Create
    <3>2. CASE OpenFails(p)
      BY <3>2 DEF OpenFails
    <3>3. CASE StatGone(p)
      BY <3>3 DEF StatGone, NextTry
    <3>4. CASE StatStale(p)
      BY <3>4 DEF StatStale
    <3>5. CASE StatHeld(p)
      BY <3>5 DEF StatHeld
    <3>6. CASE Throw(p)
      BY <3>6 DEF Throw
    <3>7. CASE Wake(p)
      BY <3>7 DEF Wake, NextTry
    <3>8. CASE Steal(p)
      BY <3>8 DEF Steal, Unlink, NextTry
    <3>9. CASE FnEnds(p)
      BY <3>9 DEF FnEnds
    <3>10. CASE Release(p)
      BY <3>10 DEF Release, Unlink
    <3> QED
      BY <2>3, <3>1, <3>2, <3>3, <3>4, <3>5, <3>6, <3>7, <3>8, <3>9, <3>10
         DEF Step
  <2>4. ASSUME NEW p \in Procs, Dies(p) PROVE TypeOK'
    BY <2>4 DEF Dies
  <2>5. CASE UNCHANGED lockVars
    BY <2>5 DEF lockVars
  <2> QED
    BY <2>1, <2>2, <2>3, <2>4, <2>5 DEF LockNext
<1> QED
  BY <1>1, <1>2, PTL DEF LockSpec

-----------------------------------------------------------------------------
\* The inductive invariant: as long as no lock file has aged, none is old,
\* nobody has set out to steal, and whoever is between its open and its rm
\* owns the file on disk.
Undisturbed ==
    oldest = "new" =>
       /\ age = "new"
       /\ \A p \in Procs : place[p] # "steal"
       /\ \A p \in Procs : place[p] \in {"fn", "unlink"} => owner = p

\* No system call of withFileLock breaks it: as long as no file is old, a
\* path is removed only by the process that created the file.
LEMMA UndisturbedStep == TypeOK /\ Undisturbed /\ [LockNext]_lockVars => Undisturbed'
<1> SUFFICES ASSUME TypeOK, Undisturbed, [LockNext]_lockVars, oldest' = "new" PROVE Undisturbed'
  BY DEF Undisturbed
<1>0. oldest = "new"
  BY DEF TypeOK, LockNext, Age, Call, Step, Create, OpenFails, StatGone, StatStale,
         StatHeld, Throw, Wake, Steal, FnEnds, Release, Dies, lockVars
<1> USE <1>0, LockAssumption DEF TypeOK, PCs, Undisturbed, GoesTo
<1>1. CASE Age
  BY <1>1 DEF Age
<1>2. ASSUME NEW p \in Procs, Call(p) PROVE Undisturbed'
  BY <1>2 DEF Call
<1>3. ASSUME NEW p \in Procs, Step(p) PROVE Undisturbed'
  <2>1. CASE Create(p)
    BY <2>1 DEF Create
  <2>2. CASE OpenFails(p)
    BY <2>2 DEF OpenFails
  <2>3. CASE StatGone(p)
    BY <2>3 DEF StatGone, NextTry
  <2>4. CASE StatStale(p)
    BY <2>4 DEF StatStale
  <2>5. CASE StatHeld(p)
    BY <2>5 DEF StatHeld
  <2>6. CASE Throw(p)
    BY <2>6 DEF Throw
  <2>7. CASE Wake(p)
    BY <2>7 DEF Wake, NextTry
  <2>8. CASE Steal(p)
    BY <2>8 DEF Steal
  <2>9. CASE FnEnds(p)
    BY <2>9 DEF FnEnds
  <2>10. CASE Release(p)
    BY <2>10 DEF Release, Unlink
  <2> QED
    BY <1>3, <2>1, <2>2, <2>3, <2>4, <2>5, <2>6, <2>7, <2>8, <2>9, <2>10
       DEF Step
<1>4. ASSUME NEW p \in Procs, Dies(p) PROVE Undisturbed'
  BY <1>4 DEF Dies
<1>5. CASE UNCHANGED lockVars
  BY <1>5 DEF lockVars
<1> QED
  BY <1>1, <1>2, <1>3, <1>4, <1>5 DEF LockNext

\* So it holds in every state of withFileLock, with any number of processes.
THEOREM UndisturbedInvariant == LockSpec => []Undisturbed
<1>1. LockInit => Undisturbed
  BY LockAssumption DEF LockInit, Undisturbed
<1> QED
  BY <1>1, LockTyping, UndisturbedStep, PTL DEF LockSpec

\* Sections exclude each other, and no rm removes a stranger's lock, until
\* some lock file is old enough to steal.
THEOREM Safe == LockSpec => []SafeUntilStale
<1>1. TypeOK /\ Undisturbed => SafeUntilStale
  BY LockAssumption
     DEF TypeOK, Undisturbed, SafeUntilStale, MutualExclusion, Inside
<1> QED
  BY <1>1, LockTyping, UndisturbedInvariant, PTL

-----------------------------------------------------------------------------
\* With neither a crash nor a section longer than staleMs, nothing ages.
LEMMA NeverAged ==
  ASSUME ~MaySlow, ~MayCrash
  PROVE  LockSpec => [](owner # Orphan /\ oldest = "new")
<1>1. LockInit => owner # Orphan /\ oldest = "new"
  BY LockAssumption DEF LockInit
<1>2. (owner # Orphan /\ oldest = "new") /\ [LockNext]_lockVars => (owner # Orphan /\ oldest = "new")'
  BY LockAssumption
     DEF LockNext, Age, Call, Step, Create, OpenFails, StatGone, StatStale,
         StatHeld, Throw, Wake, Steal, FnEnds, Release, Unlink, Dies, lockVars
<1> QED
  BY <1>1, <1>2, PTL DEF LockSpec

\* The mapping of a step: as long as nothing has aged, it enters, leaves or
\* stutters.
LEMMA StepMaps ==
  ASSUME TypeOK, Undisturbed, TypeOK', Undisturbed', oldest' = "new", [LockNext]_lockVars
  PROVE  [Promised!Next]_Holder
<1>0. oldest = "new"
  BY DEF TypeOK, LockNext, Age, Call, Step, Create, OpenFails, StatGone, StatStale,
         StatHeld, Throw, Wake, Steal, FnEnds, Release, Dies, lockVars
<1>1. \A p \in Procs : Inside(p) => Holder = p
  BY <1>0 DEF Undisturbed, Holder, Inside
<1>2. (\A p \in Procs : ~Inside(p)) => Holder = NoProc
  BY DEF Holder
<1>3. \A p \in Procs : (Inside(p))' => Holder' = p
  BY DEF Undisturbed, Holder, Inside
<1>4. (\A p \in Procs : ~(Inside(p))') => Holder' = NoProc
  BY DEF Holder
<1>5. ASSUME \A p \in Procs : Inside(p) <=> (Inside(p))'
      PROVE  Holder' = Holder
  BY <1>1, <1>2, <1>3, <1>4, <1>5
<1>6. ASSUME NEW p \in Procs, Create(p) PROVE Promised!Enter(p)
  <2>1. \A q \in Procs : ~Inside(q)
    BY <1>0, <1>6, LockAssumption DEF Create, Undisturbed, Inside
  <2>2. (Inside(p))'
    BY <1>6 DEF Create, GoesTo, Inside, TypeOK
  <2> QED
    BY <2>1, <2>2, <1>2, <1>3 DEF Promised!Enter
<1>7. ASSUME NEW p \in Procs, Inside(p), FnEnds(p) \/ Dies(p) PROVE Promised!Leave(p)
  <2>1. \A q \in Procs : ~(Inside(q))'
    BY <1>0, <1>7 DEF FnEnds, Dies, GoesTo, Inside, TypeOK, Undisturbed
  <2> QED
    BY <1>7, <2>1, <1>1, <1>4 DEF Promised!Leave
<1>8. CASE \E p \in Procs : Create(p) \/ (Inside(p) /\ (FnEnds(p) \/ Dies(p)))
  BY <1>6, <1>7, <1>8 DEF Promised!Next
<1>9. CASE ~ \E p \in Procs : Create(p) \/ (Inside(p) /\ (FnEnds(p) \/ Dies(p)))
  <2>1. \A p \in Procs : Inside(p) <=> (Inside(p))'
    BY <1>9
       DEF LockNext, Age, Call, Step, OpenFails, StatGone, StatStale, StatHeld, FnEnds,
           Throw, Wake, Steal, Release, Dies, lockVars, GoesTo, Inside, TypeOK
  <2> QED
    BY <2>1, <1>5
<1> QED
  BY <1>8, <1>9

\* Initially nobody is inside.
LEMMA InitMaps == LockInit => Promised!Init
  BY DEF LockInit, Promised!Init, Holder, Inside

\* Until some lock file is old enough to steal, withFileLock implements the
\* serialised section of Mutex, whoever dies and however many callers there are.
THEOREM Serialises == LockSpec => ImplementsMutex
<1>1. TypeOK /\ Undisturbed /\ TypeOK' /\ Undisturbed' /\ [LockNext]_lockVars
        => [oldest' = "old" \/ Promised!Next]_Holder
  <2> SUFFICES ASSUME TypeOK, Undisturbed, TypeOK', Undisturbed', [LockNext]_lockVars,
                      oldest' # "old"
               PROVE  [Promised!Next]_Holder
    OBVIOUS
  <2> QED
    BY StepMaps DEF TypeOK
<1> QED
  BY <1>1, InitMaps, LockTyping, UndisturbedInvariant, PTL DEF LockSpec, ImplementsMutex

\* With neither a crash nor a section longer than staleMs, it implements all
\* of Mutex, for ever.
THEOREM AlwaysSerialises ==
  ASSUME ~MaySlow, ~MayCrash
  PROVE  LockSpec => Promised!Spec
<1>1. TypeOK /\ Undisturbed /\ TypeOK' /\ Undisturbed' /\ (oldest = "new")' /\ [LockNext]_lockVars
        => [Promised!Next]_Holder
  BY StepMaps
<1> QED
  BY <1>1, InitMaps, LockTyping, UndisturbedInvariant, NeverAged, PTL DEF LockSpec, Promised!Spec

-----------------------------------------------------------------------------
(* Finite sets of numbers                                                  *)

\* How many of a finite set of numbers are no greater than one of them tells
\* that one.
Rank(list, r) == Cardinality({q \in list : q <= r})

LEMMA RankIsOnes ==
  ASSUME NEW list \in SUBSET Nat, IsFiniteSet(list), NEW r \in list, NEW t \in list,
         Rank(list, r) = Rank(list, t)
  PROVE  r = t
<1>1. \A x, y \in list : x < y => Rank(list, x) # Rank(list, y)
  <2> SUFFICES ASSUME NEW x \in list, NEW y \in list, x < y, Rank(list, x) = Rank(list, y)
               PROVE  FALSE
    OBVIOUS
  <2> DEFINE X == {q \in list : q <= x}
             Y == {q \in list : q <= y}
  <2>1. x \in Nat /\ y \in Nat /\ \A q \in list : q \in Nat
    OBVIOUS
  <2>2. \A q \in list : q <= x => q <= y
    BY <2>1
  <2>3. X \subseteq Y
    BY <2>2
  <2>4. y \in Y /\ y \notin X
    BY <2>1
  <2>5. Y \subseteq list /\ Cardinality(X) = Cardinality(Y)
    BY DEF Rank
  <2> HIDE DEF X, Y
  <2>6. IsFiniteSet(Y)
    BY <2>5, FS_Subset
  <2> QED
    BY <2>3, <2>4, <2>5, <2>6, FS_Subset
<1>2. r < t \/ t < r \/ r = t
  OBVIOUS
<1> QED
  BY <1>1, <1>2

LEMMA RankIsAny ==
  ASSUME NEW list \in SUBSET Nat, IsFiniteSet(list)
  PROVE  /\ \A r \in list : Rank(list, r) \in 1 .. Cardinality(list)
         /\ \A k \in 1 .. Cardinality(list) : \E r \in list : Rank(list, r) = k
<1> DEFINE n == Cardinality(list)
           f == [r \in list |-> Rank(list, r)]
<1>1. n \in Nat
  BY FS_CardinalityType
<1>2. \A r \in list : Rank(list, r) \in 1 .. n
  <2> SUFFICES ASSUME NEW r \in list PROVE Rank(list, r) \in 1 .. n
    OBVIOUS
  <2> DEFINE B == {q \in list : q <= r}
  <2>1. B \in SUBSET list /\ r \in B /\ Rank(list, r) = Cardinality(B)
    BY DEF Rank
  <2> HIDE DEF B
  <2>2. Cardinality(B) \in Nat /\ Cardinality(B) <= n /\ Cardinality(B) # 0
    BY <2>1, FS_Subset, FS_CardinalityType, FS_EmptySet
  <2> QED
    BY <1>1, <2>1, <2>2
<1>3. f \in [list -> 1 .. n] /\ \A a, b \in list : f[a] = f[b] => a = b
  BY <1>2, RankIsOnes
<1>4. f \in Injection(list, 1 .. n)
  BY <1>3 DEF Injection, IsInjective
<1>5. IsFiniteSet(1 .. n) /\ Cardinality(1 .. n) = n
  BY <1>1, FS_Interval
<1>6. f \in Surjection(list, 1 .. n)
  <2> HIDE DEF f
  <2> QED
    BY <1>4, <1>5, FS_Injection
<1> QED
  BY <1>2, <1>6 DEF Surjection

\* So a finite set of numbers has a greatest one.
LEMMA Greatest ==
  ASSUME NEW list \in SUBSET Nat, IsFiniteSet(list), list # {}
  PROVE  \E r \in list : \A q \in list : q <= r
<1> DEFINE n == Cardinality(list)
<1>1. n \in Nat /\ n # 0
  BY FS_CardinalityType, FS_EmptySet
<1>2. PICK r \in list : Rank(list, r) = n
  BY <1>1, RankIsAny
<1> DEFINE B == {q \in list : q <= r}
<1>3. B \in SUBSET list /\ Cardinality(B) = Cardinality(list)
  BY <1>2 DEF Rank
<1>4. B = list
  <2> HIDE DEF B
  <2> QED
    BY <1>3, FS_Subset
<1> QED
  BY <1>4

-----------------------------------------------------------------------------
(* Files and entries                                                       *)

Written == Lines \cup {Corrupt}

\* The last line that parses.
IsLast(file, i) == /\ i \in DOMAIN file /\ IsRecord(file[i])
                   /\ \A k \in DOMAIN file : k > i => ~IsRecord(file[k])

LEMMA LastIsRead ==
  ASSUME NEW file \in Seq(Written), NEW d, NEW i, IsLast(file, i)
  PROVE  LastRecord(file, d) = file[i]
<1> DEFINE P(x) == /\ IsRecord(file[x])
                   /\ \A k \in DOMAIN file : k > x => ~IsRecord(file[k])
<1>1. DOMAIN file \subseteq Nat
  OBVIOUS
<1>2. i \in DOMAIN file /\ P(i)
  BY DEF IsLast
<1>3. \A x \in DOMAIN file : P(x) => x = i
  BY <1>1, <1>2
<1>4. (CHOOSE x \in DOMAIN file : P(x)) = i
  <2> HIDE DEF P
  <2> QED
    BY <1>2, <1>3
<1> QED
  BY <1>2, <1>4 DEF LastRecord

LEMMA LastIsWritten ==
  ASSUME NEW file \in Seq(Written)
  PROVE  LastRecord(file, Legacy).hash \in Hashes
<1>1. Legacy \in Lines
  BY DEF Legacy, Lines, Hashes, Claims
<1>2. CASE \E j : IsLast(file, j)
  <2>1. PICK j : IsLast(file, j)
    BY <1>2
  <2>2. LastRecord(file, Legacy) = file[j] /\ file[j] \in Lines
    BY <2>1, LastIsRead DEF IsLast, IsRecord, Written
  <2> QED
    BY <2>2 DEF Lines
<1>3. CASE ~ \E j : IsLast(file, j)
  <2> DEFINE T == {x \in DOMAIN file : IsRecord(file[x])}
  <2>1. T \in SUBSET Nat /\ IsFiniteSet(T)
    <3>1. T \in SUBSET (1 .. Len(file)) /\ Len(file) \in Nat
      OBVIOUS
    <3> HIDE DEF T
    <3>2. IsFiniteSet(1 .. Len(file))
      BY <3>1, FS_Interval
    <3>3. IsFiniteSet(T)
      BY <3>1, <3>2, FS_Subset
    <3> QED
      BY <3>1, <3>3
  <2>2. ASSUME NEW r \in T, \A q \in T : q <= r PROVE FALSE
    <3>1. \A k \in DOMAIN file : k > r => k \notin T
      BY <2>1, <2>2
    <3>2. IsLast(file, r)
      BY <3>1 DEF IsLast
    <3> QED
      BY <1>3, <3>2
  <2>3. T = {}
    <3> HIDE DEF T
    <3> QED
      BY <2>1, <2>2, Greatest
  <2>4. LastRecord(file, Legacy) = Legacy
    BY <2>3 DEF LastRecord
  <2> QED
    BY <1>1, <2>4 DEF Lines
<1> QED
  BY <1>2, <1>3

LEMMA EntryIsLine ==
  ASSUME NEW r \in Nat, NEW c \in Claims, NEW prev \in Hashes
  PROVE  Entry(r, c, prev) \in Lines
<1>1. Append(prev, <<r, c>>) \in Hashes
  BY DEF Hashes
<1> QED
  BY <1>1 DEF Entry, Lines

\* out is the file with one line more: e, or the remains of an unfinished
\* line that e joined.
OneMore(out, file, e) ==
    /\ out \in Seq(Written)
    /\ \/ /\ Len(out) = Len(file) + 1 /\ out[Len(out)] = e
       \/ /\ Len(out) = Len(file) /\ Len(out) # 0 /\ out[Len(out)] = Corrupt
    /\ \A i \in 1 .. Len(out) - 1 : out[i] = file[i]

LEMMA OneLine ==
  ASSUME NEW file \in Seq(Written), NEW shut, NEW e \in Written
  PROVE  OneMore(AppendLines(file, shut, <<e>>), file, e)
<1> DEFINE L == Len(file)
           c == <<e>>
           d == <<Corrupt>>
<1>1. L \in Nat /\ Corrupt \in Written
  BY DEF Written
<1>2. c \in Seq(Written) /\ Len(c) = 1 /\ c[1] = e
  OBVIOUS
<1>3. d \in Seq(Written) /\ Len(d) = 1 /\ d[1] = Corrupt
  BY <1>1
<1>4. CASE shut = "yes" \/ file = <<>>
  <2> DEFINE out == file \o c
  <2>1. AppendLines(file, shut, <<e>>) = out
    BY <1>4 DEF AppendLines
  <2>2. /\ out \in Seq(Written) /\ Len(out) = L + 1
        /\ \A i \in 1 .. L + 1 : out[i] = IF i <= L THEN file[i] ELSE c[i - L]
    <3> HIDE DEF c, out
    <3>1. /\ file \o c \in Seq(Written) /\ Len(file \o c) = L + Len(c)
          /\ \A i \in 1 .. L + Len(c) : (file \o c)[i] = IF i <= L THEN file[i] ELSE c[i - L]
      BY <1>2, ConcatProperties
    <3> QED
      BY <1>2, <3>1 DEF out
  <2> HIDE DEF out, L, c
  <2>3. out[L + 1] = e /\ \A i \in 1 .. (L + 1) - 1 : out[i] = file[i]
    BY <1>1, <1>2, <2>2
  <2> QED
    BY <2>1, <2>2, <2>3 DEF OneMore, L
<1>5. CASE ~(shut = "yes" \/ file = <<>>)
  <2> DEFINE f == SubSeq(file, 1, L - 1)
             out == f \o d
  <2>1. L >= 1
    BY <1>1, <1>5
  <2>2. /\ f \in Seq(Written) /\ Len(f) = L - 1
        /\ \A i \in 1 .. L - 1 : f[i] = file[i]
    <3>1. 1 \in Int /\ L - 1 \in Int /\ \A i \in 1 .. L - 1 : file[i] \in Written
      BY <1>1, <2>1, ElementOfSeq
    <3>2. /\ f \in Seq(Written)
          /\ Len(f) = (IF 1 <= L - 1 THEN (L - 1) - 1 + 1 ELSE 0)
          /\ \A i \in 1 .. (L - 1) - 1 + 1 : f[i] = file[1 + i - 1]
      BY <3>1, SubSeqProperties
    <3> HIDE DEF f, L
    <3> QED
      BY <1>1, <2>1, <3>2
  <2>3. Tail(c) = <<>>
    OBVIOUS
  <2>4. AppendLines(file, shut, <<e>>) = out \o Tail(c)
    BY <1>5 DEF AppendLines, Front
  <2> HIDE DEF f, d, L, c
  <2>5. /\ out \in Seq(Written) /\ Len(out) = L
        /\ \A i \in 1 .. L : out[i] = IF i <= L - 1 THEN f[i] ELSE d[i - (L - 1)]
    <3>1. /\ out \in Seq(Written) /\ Len(out) = Len(f) + Len(d)
          /\ \A i \in 1 .. Len(f) + Len(d) :
                out[i] = IF i <= Len(f) THEN f[i] ELSE d[i - Len(f)]
      BY <1>3, <2>2, ConcatProperties
    <3>2. Len(f) + Len(d) = L
      BY <1>1, <1>3, <2>1, <2>2
    <3> QED
      BY <2>2, <3>1, <3>2
  <2> HIDE DEF out
  <2>6. AppendLines(file, shut, <<e>>) = out
    BY <2>3, <2>4, <2>5, ConcatEmptySeq
  <2>7. out[L] = Corrupt
    <3>1. L \in 1 .. L /\ ~(L <= L - 1) /\ L - (L - 1) = 1
      BY <1>1, <2>1
    <3> QED
      BY <1>3, <2>5, <3>1
  <2>8. \A i \in 1 .. L - 1 : out[i] = file[i]
    <3> TAKE i \in 1 .. L - 1
    <3>1. i \in 1 .. L /\ i <= L - 1
      BY <1>1, <2>1
    <3> QED
      BY <2>2, <2>5, <3>1
  <2>9. L # 0
    BY <2>1, <1>1
  <2> QED
    BY <2>5, <2>6, <2>7, <2>8, <2>9 DEF OneMore, L
<1> QED
  BY <1>4, <1>5

-----------------------------------------------------------------------------
(* A rebuilt ledger                                                        *)

\* An entry of a rebuilt ledger names the one before it, and every receipt that
\* was listed has its entry.
LEMMA RebuiltHolds ==
  ASSUME NEW list \in SUBSET Nat, IsFiniteSet(list)
  PROVE  LET out == Rebuilt(list)
             n == Cardinality(list)
         IN  /\ n \in Nat /\ out \in Seq(Lines) /\ Len(out) = n
             /\ \A k \in 1 .. n : k # 1 => out[k].prev = out[k - 1].hash
             /\ \A r \in list : \E k \in 1 .. n : out[k].receipt = r
<1> DEFINE n == Cardinality(list)
           nth(k) == CHOOSE r \in list : Cardinality({q \in list : q <= r}) = k
           before(k) == [i \in 1 .. k - 1 |-> <<nth(i), "unchecked">>]
           out == [k \in 1 .. n |-> Entry(nth(k), "unchecked", before(k))]
<1>1. n \in Nat
  BY FS_CardinalityType
<1>2. Rebuilt(list) = out
  BY DEF Rebuilt
<1>3. \A k \in 1 .. n : \E r \in list : Rank(list, r) = k
  BY RankIsAny
<1>4. \A k \in 1 .. n : nth(k) \in list /\ Rank(list, nth(k)) = k
  BY <1>3 DEF Rank
<1>5. \A r \in list : Rank(list, r) \in 1 .. n /\ nth(Rank(list, r)) = r
  <2> SUFFICES ASSUME NEW r \in list
               PROVE  Rank(list, r) \in 1 .. n /\ nth(Rank(list, r)) = r
    OBVIOUS
  <2>1. Rank(list, r) \in 1 .. n
    BY RankIsAny
  <2>2. PICK t : t = nth(Rank(list, r))
    OBVIOUS
  <2> HIDE DEF nth
  <2>3. t \in list /\ Rank(list, t) = Rank(list, r)
    BY <1>4, <2>1, <2>2
  <2>4. t = r
    BY <2>3, RankIsOnes
  <2> QED
    BY <2>1, <2>2, <2>4
<1> HIDE DEF nth
<1>6. \A k \in 1 .. n : /\ before(k) \in Hashes /\ Len(before(k)) = k - 1
                         /\ nth(k) \in Nat
  <2> SUFFICES ASSUME NEW k \in 1 .. n
               PROVE  before(k) \in Hashes /\ Len(before(k)) = k - 1 /\ nth(k) \in Nat
    OBVIOUS
  <2>1. k - 1 \in Nat /\ \A i \in 1 .. k - 1 : i \in 1 .. n
    BY <1>1
  <2>2. \A i \in 1 .. k - 1 : <<nth(i), "unchecked">> \in Nat \X Claims
    BY <1>4, <2>1 DEF Claims
  <2>3. before(k) \in [1 .. k - 1 -> Nat \X Claims]
    BY <2>2
  <2>4. DOMAIN before(k) = 1 .. k - 1
    OBVIOUS
  <2>5. PICK b : b = before(k)
    OBVIOUS
  <2> HIDE DEF before
  <2>6. b \in Hashes /\ Len(b) = k - 1
    BY <2>1, <2>3, <2>4, <2>5, SeqDef, LenProperties DEF Hashes
  <2> QED
    BY <1>4, <2>5, <2>6
<1>7. \A k \in 1 .. n : k # 1 => before(k) = Append(before(k - 1), <<nth(k - 1), "unchecked">>)
  <2> SUFFICES ASSUME NEW k \in 1 .. n, k # 1
               PROVE  before(k) = Append(before(k - 1), <<nth(k - 1), "unchecked">>)
    OBVIOUS
  <2> DEFINE a == before(k - 1)
             b == before(k)
             x == <<nth(k - 1), "unchecked">>
  <2>1. k - 1 \in 1 .. n /\ k - 1 \in Nat
    BY <1>1
  <2>2. a \in Hashes /\ b \in Hashes /\ Len(a) = k - 2 /\ Len(b) = k - 1 /\ x \in Nat \X Claims
    <3>1. /\ before(k - 1) \in Hashes /\ Len(before(k - 1)) = (k - 1) - 1 /\ nth(k - 1) \in Nat
          /\ before(k) \in Hashes /\ Len(before(k)) = k - 1
      <4> HIDE DEF before
      <4> QED
        BY <1>6, <2>1
    <3> HIDE DEF before
    <3>2. (k - 1) - 1 = k - 2
      BY <1>1
    <3> QED
      BY <3>1, <3>2 DEF Claims
  <2>3. \A i \in 1 .. k - 1 : b[i] = IF i = k - 1 THEN x ELSE a[i]
    <3> SUFFICES ASSUME NEW i \in 1 .. k - 1 PROVE b[i] = IF i = k - 1 THEN x ELSE a[i]
      OBVIOUS
    <3>1. b[i] = <<nth(i), "unchecked">>
      OBVIOUS
    <3>2. i # k - 1 => i \in 1 .. (k - 1) - 1
      BY <2>1
    <3>3. i # k - 1 => a[i] = <<nth(i), "unchecked">>
      BY <3>2
    <3> QED
      BY <3>1, <3>3
  <2> HIDE DEF a, b, x
  <2>4. Append(a, x) \in Hashes /\ Len(Append(a, x)) = k - 1
        /\ \A i \in 1 .. k - 1 : Append(a, x)[i] = IF i = k - 1 THEN x ELSE a[i]
    BY <2>1, <2>2 DEF Hashes
  <2>5. b = Append(a, x)
    BY <2>2, <2>3, <2>4, SeqEqual DEF Hashes
  <2> QED
    BY <2>5 DEF a, b, x
<1> HIDE DEF before
<1>8. \A k \in 1 .. n : out[k] \in Lines
  BY <1>6, EntryIsLine DEF Claims
<1>9. out \in Seq(Lines) /\ Len(out) = n
  BY <1>1, <1>8
<1>10. \A k \in 1 .. n : k # 1 => out[k].prev = out[k - 1].hash
  <2> SUFFICES ASSUME NEW k \in 1 .. n, k # 1 PROVE out[k].prev = out[k - 1].hash
    OBVIOUS
  <2>1. k - 1 \in 1 .. n
    BY <1>1
  <2> QED
    BY <1>7, <2>1 DEF Entry
<1>11. \A r \in list : \E k \in 1 .. n : out[k].receipt = r
  BY <1>3, <1>5 DEF Entry
<1> QED
  BY <1>1, <1>2, <1>9, <1>10, <1>11

-----------------------------------------------------------------------------
(* The invariant                                                           *)

TypeInv ==
    /\ ledger \in Seq(Written) /\ sealed \in Nat
    /\ receipts \subseteq 1 .. sealed /\ acked \subseteq 0 .. sealed
    /\ DOMAIN pc = Writers /\ DOMAIN job = Writers /\ prior \in [Writers -> Hashes]
    /\ \A w \in Writers : job[w].receipt \in 0 .. sealed /\ job[w].claim \in Claims

\* Who is in the section holds the lock.
Section == \A w \in Writers : pc[w] \in {"read", "append", "unlock"} => holder = w

\* What a writer that is about to append has read is still the hash of the last
\* line that parses.
Reading == \A w \in Writers : pc[w] = "append"
              => \A i \in DOMAIN ledger : IsLast(ledger, i) => prior[w] = ledger[i].hash

\* A rebuild has listed the receipts there are, and no writer is under way.
Rebuilding == rebuild.at = "replace" => Idle /\ rebuild.list = receipts

Clean == \A i \in DOMAIN ledger : ledger[i] # Corrupt

\* The entry a writer is about to report is in the ledger, or a line that does
\* not parse tells that some are missing.
Entered == \A w \in Writers : pc[w] = "unlock" => (Clean => InLedger(job[w].receipt))

LedgerInv == /\ TypeInv /\ Section /\ Reading /\ Rebuilding /\ Entered
             /\ ChainIntact /\ ReportedStay

-----------------------------------------------------------------------------
(* What one more line leaves as it was                                     *)

\* Lines whose last was written after a look at the last that parsed are chained,
\* and nothing that parsed is gone unless a line that does not parse is there.
LEMMA Grown ==
  ASSUME LedgerInv, NEW w \in Writers, pc[w] = "append", NEW e,
         e \in {Entry(job[w].receipt, job[w].claim, prior[w]), Corrupt},
         ledger' = AppendLines(ledger, closed, <<e>>)
  PROVE  /\ ledger' \in Seq(Written) /\ ChainIntact'
         /\ Clean' => Clean /\ \A r : InLedger(r) => InLedger(r)'
         /\ Clean' /\ e # Corrupt => \A r : r = job[w].receipt => InLedger(r)'
<1> DEFINE L == Len(ledger)
           M == Len(ledger')
<1>1. e \in Written /\ ledger \in Seq(Written)
  <2>1. job[w].receipt \in Nat /\ job[w].claim \in Claims /\ prior[w] \in Hashes
    BY DEF LedgerInv, TypeInv
  <2> QED
    BY <2>1, EntryIsLine DEF Written, LedgerInv, TypeInv
<1>2. OneMore(ledger', ledger, e)
  BY <1>1, OneLine
<1>3. /\ L \in Nat /\ M \in Nat /\ DOMAIN ledger = 1 .. L /\ DOMAIN ledger' = 1 .. M
      /\ ledger' \in Seq(Written)
  BY <1>1, <1>2 DEF OneMore
<1> HIDE DEF L, M
<1>4. /\ \/ M = L + 1 /\ ledger'[M] = e
         \/ M = L /\ M # 0 /\ ledger'[M] = Corrupt
      /\ \A i \in 1 .. M - 1 : ledger'[i] = ledger[i]
  BY <1>2 DEF OneMore, L, M
<1>5. \A i \in 1 .. M : i \in 1 .. M - 1 \/ i = M
  BY <1>3
<1>6. \A i \in 1 .. M - 1 : i \in 1 .. L /\ i \in 1 .. M
  BY <1>3, <1>4
<1>7. ChainIntact'
  <2> SUFFICES ASSUME NEW i \in 1 .. M, NEW j \in 1 .. M, Adjacent(ledger', i, j)
               PROVE  ~ChainProblem(i, j)'
    BY <1>3 DEF ChainIntact
  <2>1. /\ i < j /\ IsRecord(ledger'[i]) /\ IsRecord(ledger'[j])
        /\ \A k \in 1 .. M : i < k /\ k < j => ~IsRecord(ledger'[k])
    BY <1>3 DEF Adjacent
  <2>2. i \in 1 .. M - 1 /\ ledger'[i] = ledger[i] /\ i \in 1 .. L
    BY <1>3, <1>4, <1>6, <2>1
  <2>3. CASE j \in 1 .. M - 1
    <3>1. ledger'[j] = ledger[j] /\ j \in 1 .. L
      BY <1>4, <1>6, <2>3
    <3>2. \A k \in 1 .. L : i < k /\ k < j => ~IsRecord(ledger[k])
      <4> SUFFICES ASSUME NEW k \in 1 .. L, i < k, k < j PROVE ~IsRecord(ledger[k])
        OBVIOUS
      <4>1. k \in 1 .. M - 1
        BY <1>3, <2>3
      <4> QED
        BY <1>4, <1>6, <2>1, <4>1
    <3>3. Adjacent(ledger, i, j)
      BY <1>3, <2>1, <2>2, <3>1, <3>2 DEF Adjacent
    <3>4. ~ChainProblem(i, j)
      BY <1>3, <2>2, <3>1, <3>3 DEF LedgerInv, ChainIntact
    <3> QED
      BY <2>2, <3>1, <3>4 DEF ChainProblem
  <2>4. CASE j = M
    <3>1. M = L + 1 /\ ledger'[M] = e /\ e # Corrupt
      BY <1>4, <2>1, <2>4 DEF IsRecord
    <3>2. \A k \in 1 .. L : k > i => ~IsRecord(ledger[k])
      <4> SUFFICES ASSUME NEW k \in 1 .. L, k > i PROVE ~IsRecord(ledger[k])
        OBVIOUS
      <4>1. k \in 1 .. M - 1 /\ k < j /\ i < k
        BY <1>3, <2>2, <2>4, <3>1
      <4> QED
        BY <1>4, <1>6, <2>1, <4>1
    <3>3. IsLast(ledger, i)
      BY <1>3, <2>1, <2>2, <3>2 DEF IsLast
    <3>4. prior[w] = ledger[i].hash
      BY <1>3, <2>2, <3>3 DEF LedgerInv, Reading
    <3>5. e.prev = prior[w]
      BY <3>1 DEF Entry
    <3> QED
      BY <2>2, <2>4, <3>1, <3>4, <3>5 DEF ChainProblem
  <2> QED
    BY <1>5, <2>3, <2>4
<1>8. ASSUME Clean' PROVE M = L + 1 /\ ledger'[M] = e /\ e # Corrupt
  <2>1. M \in 1 .. M
    BY <1>3, <1>4
  <2>2. ledger'[M] # Corrupt
    BY <1>3, <1>8, <2>1 DEF Clean
  <2> QED
    BY <1>4, <2>2
<1>9. ASSUME Clean' PROVE \A i \in 1 .. L : i \in 1 .. M /\ ledger'[i] = ledger[i]
  BY <1>3, <1>4, <1>8, <1>9
<1>10. Clean' => Clean /\ \A r : InLedger(r) => InLedger(r)'
  BY <1>3, <1>9 DEF Clean, InLedger
<1>11. ASSUME Clean', e # Corrupt, NEW r, r = job[w].receipt PROVE InLedger(r)'
  <2>1. M \in 1 .. M /\ ledger'[M] = Entry(job[w].receipt, job[w].claim, prior[w])
    BY <1>3, <1>8, <1>11
  <2>2. ledger'[M] # Corrupt
    BY <1>8, <1>11
  <2>3. ledger'[M].receipt = r
    BY <1>11, <2>1 DEF Entry
  <2>4. M \in DOMAIN ledger' /\ IsRecord(ledger'[M])
    BY <1>3, <2>1, <2>2 DEF IsRecord
  <2>5. \E i \in DOMAIN ledger' : IsRecord(ledger'[i]) /\ ledger'[i].receipt = r
    BY <2>3, <2>4
  <2> QED
    BY <2>5 DEF InLedger
<1> QED
  BY <1>3, <1>7, <1>10, <1>11

-----------------------------------------------------------------------------
(* The steps                                                               *)

\* Steps that leave the ledger and what a writer knows of it alone.
LEMMA FileFrame ==
  ASSUME LedgerInv, UNCHANGED <<fileVars, receipts, acked, rebuild>>
  PROVE  ChainIntact' /\ ReportedStay' /\ (Clean' <=> Clean)
         /\ \A r : InLedger(r) <=> InLedger(r)'
BY DEF LedgerInv, ChainIntact, ChainProblem, ReportedStay, InLedger, Clean, fileVars

\* A writer moves on, or dies: nobody else enters the section or leaves it.
Moves(w, l) == /\ Goto(w, l) /\ pc[w] # "idle"
               /\ l \in {"read", "append", "unlock"} => holder' = w
               /\ holder' # holder => holder \in {w, NoWriter}

LEMMA WriterFrame ==
  ASSUME LedgerInv, NEW w \in Writers, NEW l, Moves(w, l)
  PROVE  /\ Section' /\ DOMAIN pc' = Writers
         /\ \A v \in Writers : v # w => pc'[v] = pc[v]
         /\ pc'[w] = l
         /\ rebuild.at # "replace"
<1>1. /\ DOMAIN pc' = Writers /\ pc'[w] = l
      /\ \A v \in Writers : v # w => pc'[v] = pc[v]
  BY DEF LedgerInv, TypeInv, Moves, Goto
<1>2. \A v \in Writers : v # w /\ pc'[v] \in {"read", "append", "unlock"} => holder' = v
  BY <1>1, LedgerAssumption DEF LedgerInv, Section, Moves
<1>3. rebuild.at # "replace"
  BY DEF LedgerInv, Rebuilding, Idle, Moves
<1> QED
  BY <1>1, <1>2, <1>3 DEF Section, Moves

LEMMA SealStep ==
  ASSUME Overlap = FALSE, LedgerInv, NEW w \in Writers, Seal(w)
  PROVE  LedgerInv'
<1>1. /\ pc[w] = "idle" /\ rebuild.at = "idle" /\ sealed' = sealed + 1
      /\ Goto(w, "lock") /\ UNCHANGED <<fileVars, holder, prior, rebuild, rebuilds, acked>>
  BY DEF Seal
<1>2. PICK c \in Claims, kept \in {"yes", "no"} :
         /\ job' = [job EXCEPT ![w] = [receipt |-> sealed', claim |-> c, kept |-> kept]]
         /\ receipts' = IF kept = "yes" THEN receipts \cup {sealed'} ELSE receipts
  BY DEF Seal
<1>3. sealed \in Nat /\ sealed' \in Nat /\ sealed < sealed' /\ \A x \in 0 .. sealed : x \in 0 .. sealed'
  BY <1>1 DEF LedgerInv, TypeInv
<1>4. /\ DOMAIN job' = Writers /\ DOMAIN pc' = Writers /\ pc'[w] = "lock"
      /\ \A v \in Writers : v # w => pc'[v] = pc[v] /\ job'[v] = job[v]
      /\ job'[w].receipt = sealed' /\ job'[w].claim = c
  BY <1>1, <1>2 DEF LedgerInv, TypeInv, Goto
<1>5. receipts' \subseteq 1 .. sealed' /\ \A r \in receipts' : r \in 0 .. sealed => r \in receipts
  BY <1>1, <1>2, <1>3 DEF LedgerInv, TypeInv
<1>6. TypeInv'
  BY <1>1, <1>3, <1>4, <1>5 DEF LedgerInv, TypeInv, fileVars
<1>7. Section' /\ Reading' /\ Rebuilding'
  BY <1>1, <1>4 DEF LedgerInv, Section, Reading, Rebuilding, fileVars
<1>8. (Clean' <=> Clean) /\ ChainIntact' /\ \A r : InLedger(r) <=> InLedger(r)'
  BY <1>1 DEF LedgerInv, ChainIntact, ChainProblem, Clean, InLedger, fileVars
<1>9. Entered'
  <2> SUFFICES ASSUME NEW v \in Writers, pc'[v] = "unlock", Clean'
               PROVE  InLedger(job[v].receipt)'
    BY DEF Entered
  <2>1. v # w /\ pc[v] = "unlock" /\ job'[v] = job[v]
    BY <1>4
  <2>2. InLedger(job[v].receipt)
    BY <1>8, <2>1 DEF LedgerInv, Entered
  <2> QED
    BY <1>1, <2>1, <2>2 DEF InLedger, fileVars
<1>10. ReportedStay'
  <2> SUFFICES ASSUME Clean', NEW r \in acked' \cap receipts' PROVE InLedger(r)'
    BY DEF ReportedStay, Clean
  <2>1. r \in acked \cap receipts
    BY <1>1, <1>5 DEF LedgerInv, TypeInv
  <2> QED
    BY <1>8, <2>1 DEF LedgerInv, ReportedStay, Clean
<1> QED
  BY <1>6, <1>7, <1>8, <1>9, <1>10 DEF LedgerInv

\* Steps of a writer that write nothing.
LEMMA QuietSteps ==
  ASSUME LedgerInv, NEW w \in Writers,
         Lock(w) \/ LockThrows(w) \/ ReadPrior(w) \/ (Crash(w) /\ UNCHANGED fileVars)
  PROVE  LedgerInv'
<1>1. PICK l : /\ Goto(w, l) /\ l \in {"idle", "read", "append"}
               /\ l \in {"read", "append"} => holder' = w
               /\ l = "append" => prior'[w] = LastRecord(ledger, Legacy).hash
  <2>1. CASE Lock(w)
    BY <2>1 DEF Lock
  <2>2. CASE LockThrows(w)
    BY <2>2 DEF LockThrows
  <2>3. CASE ReadPrior(w)
    BY <2>3 DEF ReadPrior, LedgerInv, Section, TypeInv
  <2>4. CASE Crash(w)
    BY <2>4 DEF Crash
  <2> QED
    BY <2>1, <2>2, <2>3, <2>4
<1>2. /\ UNCHANGED <<fileVars, receipts, sealed, job, rebuild, rebuilds, acked>>
      /\ pc[w] # "idle"
      /\ holder' # holder => holder \in {w, NoWriter}
      /\ prior' \in [Writers -> Hashes] /\ \A v \in Writers : v # w => prior'[v] = prior[v]
  <2>1. LastRecord(ledger, Legacy).hash \in Hashes
    BY LastIsWritten DEF LedgerInv, TypeInv
  <2> QED
    BY <2>1 DEF Lock, LockThrows, ReadPrior, Crash, LedgerInv, TypeInv
<1>3. /\ Section' /\ DOMAIN pc' = Writers /\ pc'[w] = l
      /\ \A v \in Writers : v # w => pc'[v] = pc[v]
      /\ rebuild.at # "replace"
  <2>1. Moves(w, l)
    BY <1>1, <1>2 DEF Moves
  <2> QED
    BY <2>1, WriterFrame
<1>4. TypeInv'
  BY <1>2, <1>3 DEF LedgerInv, TypeInv, fileVars
<1>5. ChainIntact' /\ ReportedStay' /\ (Clean' <=> Clean) /\ \A r : InLedger(r) <=> InLedger(r)'
  BY <1>2, FileFrame
<1>6. Reading'
  <2> SUFFICES ASSUME NEW v \in Writers, pc'[v] = "append", NEW i \in DOMAIN ledger,
                      IsLast(ledger, i)
               PROVE  prior'[v] = ledger[i].hash
    BY <1>2 DEF Reading, fileVars
  <2>1. CASE v = w
    BY <1>1, <1>3, <2>1, LastIsRead DEF LedgerInv, TypeInv
  <2>2. CASE v # w
    BY <1>2, <1>3, <2>2 DEF LedgerInv, Reading
  <2> QED
    BY <2>1, <2>2
<1>7. Entered'
  <2> SUFFICES ASSUME NEW v \in Writers, pc'[v] = "unlock", Clean'
               PROVE  InLedger(job[v].receipt)'
    BY DEF Entered
  <2>1. pc[v] = "unlock" /\ job'[v] = job[v]
    BY <1>1, <1>2, <1>3
  <2>2. InLedger(job[v].receipt)
    BY <1>5, <2>1 DEF LedgerInv, Entered
  <2> QED
    BY <1>2, <2>2 DEF InLedger, fileVars
<1>8. Rebuilding'
  BY <1>2, <1>3 DEF Rebuilding
<1> QED
  BY <1>3, <1>4, <1>5, <1>6, <1>7, <1>8 DEF LedgerInv

\* An append, whole or not.
Appends(w, l, e) ==
    /\ pc[w] = "append" /\ l \in {"idle", "unlock"} /\ Moves(w, l)
    /\ e \in {Entry(job[w].receipt, job[w].claim, prior[w]), Corrupt}
    /\ l = "unlock" => e # Corrupt
    /\ ledger' = AppendLines(ledger, closed, <<e>>)
    /\ UNCHANGED <<receipts, sealed, job, prior, rebuild, rebuilds, acked>>

LEMMA AppendStep ==
  ASSUME LedgerInv, NEW w \in Writers, NEW l, NEW e, Appends(w, l, e)
  PROVE  LedgerInv'
<1>0. /\ pc[w] = "append" /\ l \in {"idle", "unlock"} /\ Moves(w, l)
      /\ e \in {Entry(job[w].receipt, job[w].claim, prior[w]), Corrupt}
      /\ l = "unlock" => e # Corrupt
      /\ ledger' = AppendLines(ledger, closed, <<e>>)
      /\ UNCHANGED <<receipts, sealed, job, prior, rebuild, rebuilds, acked>>
  BY DEF Appends
<1>1. /\ Section' /\ DOMAIN pc' = Writers /\ pc'[w] = l /\ rebuild.at # "replace"
      /\ \A v \in Writers : v # w => pc'[v] = pc[v]
  BY <1>0, WriterFrame
<1>2. /\ ledger' \in Seq(Written) /\ ChainIntact'
      /\ Clean' => Clean /\ \A r : InLedger(r) => InLedger(r)'
      /\ Clean' /\ e # Corrupt => \A r : r = job[w].receipt => InLedger(r)'
  BY <1>0, Grown
<1>3. TypeInv'
  BY <1>0, <1>1, <1>2 DEF LedgerInv, TypeInv
<1>4. \A v \in Writers : v # w => pc'[v] \notin {"append", "unlock"}
  <2>1. holder = w
    BY <1>0 DEF LedgerInv, Section
  <2> QED
    BY <1>1, <2>1 DEF LedgerInv, Section
<1>5. Reading'
  BY <1>0, <1>1, <1>4 DEF Reading
<1>6. Rebuilding'
  BY <1>0, <1>1 DEF Rebuilding
<1>7. Entered'
  <2> SUFFICES ASSUME NEW v \in Writers, pc'[v] = "unlock", Clean'
               PROVE  InLedger(job[v].receipt)'
    BY DEF Entered
  <2>1. v = w /\ e # Corrupt /\ job' = job
    BY <1>0, <1>1, <1>4
  <2>2. \A r : r = job[w].receipt => InLedger(r)'
    BY <1>2, <2>1
  <2> QED
    BY <2>1, <2>2 DEF InLedger
<1>8. ReportedStay'
  <2> SUFFICES ASSUME Clean', NEW r \in acked \cap receipts PROVE InLedger(r)'
    BY <1>0 DEF ReportedStay, Clean
  <2>1. InLedger(r)
    BY <1>2 DEF LedgerInv, ReportedStay, Clean
  <2> QED
    BY <1>2, <2>1
<1> QED
  BY <1>1, <1>2, <1>3, <1>5, <1>6, <1>7, <1>8 DEF LedgerInv

\* The steps of a writer that append.
LEMMA AppendSteps ==
  ASSUME LedgerInv, NEW w \in Writers,
         \/ Append1(w) \/ AppendThrows(w)
         \/ Crash(w) /\ pc[w] = "append" /\ PartialWrite(w)
  PROVE  LedgerInv'
<1>0. PICK x : x = Entry(job[w].receipt, job[w].claim, prior[w])
  OBVIOUS
<1>1. pc[w] = "append" /\ holder = w
  <2>1. pc[w] = "append"
    BY DEF Append1, AppendThrows
  <2> QED
    BY <2>1 DEF LedgerInv, Section
<1>2. x # Corrupt
  <2>1. job[w].receipt \in Nat /\ job[w].claim \in Claims /\ prior[w] \in Hashes
    BY DEF LedgerInv, TypeInv
  <2> QED
    BY <1>0, <2>1, EntryIsLine, LedgerAssumption
<1>3. Line(w) = <<x>> /\ Cut(Line(w), 0) = <<Corrupt>>
  <2>1. Line(w) = <<x>>
    BY <1>0 DEF Line
  <2>2. SubSeq(<<x>>, 1, 0) = <<>>
    OBVIOUS
  <2>3. <<>> \o <<Corrupt>> = <<Corrupt>>
    OBVIOUS
  <2> QED
    BY <2>1, <2>2, <2>3 DEF Cut
<1>4. PICK l \in {"idle", "unlock"} : Moves(w, l) /\ (l = "unlock" => Append1(w))
  BY <1>1 DEF Moves, Append1, AppendThrows, Crash
<1>5. PICK e \in {x, Corrupt} : /\ ledger' = AppendLines(ledger, closed, <<e>>)
                                /\ l = "unlock" => e # Corrupt
  <2>1. CASE Append1(w)
    BY <1>2, <1>3, <2>1 DEF Append1
  <2>2. CASE ~Append1(w)
    <3>1. PartialWrite(w)
      BY <2>2 DEF AppendThrows
    <3>2. \E e \in {x, Corrupt} : ledger' = AppendLines(ledger, closed, <<e>>)
      BY <1>3, <3>1 DEF PartialWrite
    <3> QED
      BY <1>4, <2>2, <3>2
  <2> QED
    BY <2>1, <2>2
<1>6. UNCHANGED <<receipts, sealed, job, prior, rebuild, rebuilds, acked>>
  BY DEF Append1, AppendThrows, Crash
<1>7. e \in {Entry(job[w].receipt, job[w].claim, prior[w]), Corrupt}
  BY <1>0, <1>5
<1>8. Appends(w, l, e)
  <2>1. pc[w] = "append" /\ l \in {"idle", "unlock"} /\ Moves(w, l)
    BY <1>1, <1>4
  <2>2. (l = "unlock" => e # Corrupt) /\ ledger' = AppendLines(ledger, closed, <<e>>)
    BY <1>5
  <2> QED
    BY <2>1, <2>2, <1>6, <1>7, Zenon DEF Appends
<1> QED
  BY <1>8, AppendStep

\* The command reports its entry.
LEMMA ReportStep ==
  ASSUME LedgerInv, NEW w \in Writers, Report(w)
  PROVE  LedgerInv'
<1>1. /\ pc[w] = "unlock" /\ Moves(w, "idle") /\ acked' = acked \cup {job[w].receipt}
      /\ UNCHANGED <<fileVars, receipts, sealed, job, prior, rebuild, rebuilds>>
  BY DEF Report, Moves, LedgerInv, Section
<1>2. /\ Section' /\ DOMAIN pc' = Writers /\ pc'[w] = "idle" /\ rebuild.at # "replace"
      /\ \A v \in Writers : v # w => pc'[v] = pc[v]
  BY <1>1, WriterFrame
<1>3. TypeInv'
  BY <1>1, <1>2 DEF LedgerInv, TypeInv, fileVars
<1>4. ChainIntact' /\ (Clean' <=> Clean) /\ \A r : InLedger(r) <=> InLedger(r)'
  BY <1>1 DEF LedgerInv, ChainIntact, ChainProblem, Clean, InLedger, fileVars
<1>5. Reading' /\ Rebuilding'
  BY <1>1, <1>2 DEF LedgerInv, Reading, Rebuilding, fileVars
<1>6. Entered'
  <2> SUFFICES ASSUME NEW v \in Writers, pc'[v] = "unlock", Clean'
               PROVE  InLedger(job[v].receipt)'
    BY DEF Entered
  <2>1. pc[v] = "unlock"
    BY <1>2
  <2>2. InLedger(job[v].receipt)
    BY <1>4, <2>1 DEF LedgerInv, Entered
  <2> QED
    BY <1>1, <2>2 DEF InLedger, fileVars
<1>7. ReportedStay'
  <2> SUFFICES ASSUME Clean', NEW r \in acked' \cap receipts PROVE InLedger(r)'
    BY <1>1 DEF ReportedStay, Clean
  <2>1. CASE r \in acked
    BY <1>4, <2>1 DEF LedgerInv, ReportedStay, Clean
  <2>2. CASE r = job[w].receipt
    BY <1>1, <1>4, <2>2 DEF LedgerInv, Entered
  <2> QED
    BY <1>1, <2>1, <2>2
<1> QED
  BY <1>2, <1>3, <1>4, <1>5, <1>6, <1>7 DEF LedgerInv

\* A stale lock goes, receipts are listed, or nothing happens.
LEMMA OtherSteps ==
  ASSUME Overlap = FALSE, LedgerInv, StealStale \/ ListReceipts \/ UNCHANGED vars
  PROVE  LedgerInv'
<1>1. /\ UNCHANGED <<fileVars, receipts, sealed, writerVars, acked>>
      /\ holder' # holder => holder = Dead
  BY DEF StealStale, ListReceipts, vars
<1>2. TypeInv'
  BY <1>1 DEF LedgerInv, TypeInv, fileVars, writerVars
<1>3. Section'
  BY <1>1, LedgerAssumption DEF LedgerInv, Section, writerVars
<1>4. Reading' /\ Entered' /\ ChainIntact' /\ ReportedStay'
  BY <1>1 DEF LedgerInv, Reading, Entered, ChainIntact, ChainProblem, ReportedStay, InLedger,
              Clean, fileVars, writerVars
<1>5. Rebuilding'
  BY <1>1 DEF LedgerInv, Rebuilding, StealStale, ListReceipts, Idle, vars, writerVars
<1> QED
  BY <1>2, <1>3, <1>4, <1>5 DEF LedgerInv

\* The file made anew is chained, and has all receipts.
LEMMA RebuiltIsRight ==
  ASSUME NEW list \in SUBSET Nat, IsFiniteSet(list), NEW out, out = Rebuilt(list)
  PROVE  /\ out \in Seq(Written)
         /\ \A i, j \in DOMAIN out : Adjacent(out, i, j) => out[j].prev = out[i].hash
         /\ \A r \in list : \E i \in DOMAIN out : IsRecord(out[i]) /\ out[i].receipt = r
<1>1. PICK n \in Nat : /\ out \in Seq(Lines) /\ Len(out) = n
                       /\ \A k \in 1 .. n : k # 1 => out[k].prev = out[k - 1].hash
                       /\ \A r \in list : \E k \in 1 .. n : out[k].receipt = r
  BY RebuiltHolds
<1>2. DOMAIN out = 1 .. n /\ \A i \in 1 .. n : IsRecord(out[i])
  BY <1>1, LedgerAssumption DEF IsRecord
<1>3. out \in Seq(Written)
  BY <1>1 DEF Written
<1>4. ASSUME NEW i \in 1 .. n, NEW j \in 1 .. n, Adjacent(out, i, j)
      PROVE  out[j].prev = out[i].hash
  <2>1. i < j /\ \A k \in 1 .. n : ~(i < k /\ k < j)
    BY <1>2, <1>4 DEF Adjacent
  <2>2. i = j - 1 /\ j # 1
    <3>1. i \in Int /\ j \in Int /\ i >= 1 /\ j <= n /\ i + 1 \in Int
      OBVIOUS
    <3>2. i + 1 < j => i + 1 \in 1 .. n /\ i < i + 1
      BY <3>1
    <3> QED
      BY <2>1, <3>1, <3>2
  <2> QED
    BY <1>1, <2>2
<1> QED
  BY <1>1, <1>2, <1>3, <1>4

LEMMA ReplaceStep ==
  ASSUME LedgerInv, Replace
  PROVE  LedgerInv'
<1>1. /\ Idle /\ ledger' = Rebuilt(receipts) /\ rebuild'.at = "idle"
      /\ UNCHANGED <<receipts, sealed, holder, writerVars, rebuilds, acked>>
  BY DEF Replace, LedgerInv, Rebuilding
<1>2. receipts \in SUBSET Nat /\ IsFiniteSet(receipts)
  <2>1. receipts \in SUBSET (1 .. sealed) /\ sealed \in Nat
    BY DEF LedgerInv, TypeInv
  <2>2. IsFiniteSet(1 .. sealed)
    BY <2>1, FS_Interval
  <2>3. IsFiniteSet(receipts)
    BY <2>1, <2>2, FS_Subset
  <2>4. receipts \in SUBSET Nat
    BY <2>1
  <2> QED
    BY <2>3, <2>4
<1>3. /\ ledger' \in Seq(Written)
      /\ \A i, j \in DOMAIN ledger' : Adjacent(ledger', i, j) => ledger'[j].prev = ledger'[i].hash
      /\ \A r \in receipts : \E i \in DOMAIN ledger' : IsRecord(ledger'[i]) /\ ledger'[i].receipt = r
  BY <1>1, <1>2, RebuiltIsRight
<1>4. TypeInv'
  BY <1>1, <1>3 DEF LedgerInv, TypeInv, writerVars
<1>5. Section' /\ Reading' /\ Rebuilding' /\ Entered'
  BY <1>1 DEF Section, Reading, Rebuilding, Entered, Idle, writerVars
<1>6. ChainIntact'
  BY <1>3 DEF ChainIntact, ChainProblem
<1>7. ReportedStay'
  BY <1>1, <1>3 DEF ReportedStay, InLedger
<1> QED
  BY <1>4, <1>5, <1>6, <1>7 DEF LedgerInv

-----------------------------------------------------------------------------
(* The theorems                                                            *)

LEMMA LedgerBegins ==
  ASSUME Init PROVE LedgerInv
<1>1. PICK k \in 0 .. Old : receipts = 1 .. k
  BY DEF Init
<1>2. Old \in Nat /\ sealed = Old /\ k \in Nat
  BY LedgerAssumption DEF Init
<1>3. receipts \subseteq 1 .. sealed /\ receipts \in SUBSET Nat /\ IsFiniteSet(receipts)
  <2>1. IsFiniteSet(1 .. k)
    BY <1>2, FS_Interval
  <2> QED
    BY <1>1, <1>2, <2>1
<1>4. /\ ledger \in Seq(Written)
      /\ \A i, j \in DOMAIN ledger : Adjacent(ledger, i, j) => ~ChainProblem(i, j)
  <2>1. CASE ledger = <<>>
    BY <2>1
  <2>2. CASE ledger = <<Legacy>>
    <3>1. Legacy \in Written /\ Legacy.hash = <<>>
      BY DEF Legacy, Written, Lines, Hashes, Claims
    <3> QED
      BY <2>2, <3>1 DEF ChainProblem
  <2>3. CASE ledger = Rebuilt(receipts)
    <3>1. /\ ledger \in Seq(Written)
          /\ \A i, j \in DOMAIN ledger : Adjacent(ledger, i, j) => ledger[j].prev = ledger[i].hash
      BY <1>3, <2>3, RebuiltIsRight
    <3> QED
      BY <3>1 DEF ChainProblem
  <2> QED
    BY <2>1, <2>2, <2>3 DEF Init
<1>5. TypeInv
  <2>1. <<>> \in Hashes
    BY DEF Hashes
  <2> QED
    BY <1>2, <1>3, <1>4, <2>1 DEF Init, TypeInv, NoJob, Claims
<1>6. Section /\ Reading /\ Rebuilding /\ Entered /\ ReportedStay
  BY DEF Init, Section, Reading, Rebuilding, Entered, ReportedStay
<1> QED
  BY <1>4, <1>5, <1>6 DEF LedgerInv, ChainIntact

LEMMA LedgerStep ==
  ASSUME Overlap = FALSE, LedgerInv, [Next]_vars PROVE LedgerInv'
<1>1. ASSUME NEW w \in Writers, Writer(w) PROVE LedgerInv'
  <2>1. CASE Seal(w)
    BY <2>1, SealStep
  <2>2. CASE Lock(w) \/ LockThrows(w) \/ ReadPrior(w)
    BY <2>2, QuietSteps
  <2>3. CASE Append1(w) \/ AppendThrows(w)
    BY <2>3, AppendSteps
  <2>4. CASE Report(w)
    BY <2>4, ReportStep
  <2>5. CASE Crash(w)
    <3>1. UNCHANGED fileVars \/ (pc[w] = "append" /\ PartialWrite(w))
      BY <2>5 DEF Crash
    <3> QED
      BY <2>5, <3>1, QuietSteps, AppendSteps
  <2> QED
    BY <1>1, <2>1, <2>2, <2>3, <2>4, <2>5 DEF Writer
<1>2. CASE StealStale \/ ListReceipts \/ UNCHANGED vars
  BY <1>2, OtherSteps
<1>3. CASE Replace
  BY <1>3, ReplaceStep
<1> QED
  BY <1>1, <1>2, <1>3 DEF Next

LEMMA LedgerInvariant ==
  ASSUME Overlap = FALSE PROVE Spec => []LedgerInv
<1>1. Init => LedgerInv
  BY LedgerBegins
<1>2. LedgerInv /\ [Next]_vars => LedgerInv'
  BY LedgerStep
<1> QED
  BY <1>1, <1>2, PTL DEF Spec

\* Where no rebuild runs beside a writer, `ledger verify` finds no break: writers
\* that die, tear a line or get no lock, and rebuilds, leave the entries that
\* parse chained (appendLedger, verifyLedgerChain, runLedgerRebuild).
THEOREM ChainStays ==
  ASSUME Overlap = FALSE PROVE Spec => []ChainIntact
<1>1. LedgerInv => ChainIntact
  BY DEF LedgerInv
<1> QED
  BY <1>1, LedgerInvariant, PTL

\* And a receipt whose entry was reported is in the ledger as long as every line
\* parses (appendLedger, runLedgerRebuild).
THEOREM EntryStays ==
  ASSUME Overlap = FALSE PROVE Spec => []ReportedStay
<1>1. LedgerInv => ReportedStay
  BY DEF LedgerInv
<1> QED
  BY <1>1, LedgerInvariant, PTL
=============================================================================
