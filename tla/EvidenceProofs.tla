--------------------------- MODULE EvidenceProofs ---------------------------
(***************************************************************************)
(* Proofs about Evidence, for any verifiers, reports, worlds and receipt    *)
(* files: what a verifier has found is about the report it read and the     *)
(* texts it was given, what it seals is that, replay tells whether it still *)
(* is, a break in the decision log has a cause, the graph commands tell one *)
(* story of whatever receipts there are, and a verdict is the world's.       *)
(***************************************************************************)
EXTENDS EvidenceProps, SequenceTheorems, FiniteSetTheorems, WellFoundedInduction, TLAPS

-----------------------------------------------------------------------------
(* The verifiers                                                           *)

\* A sequence, of whatever.
Shaped(s) == Len(s) \in Nat /\ s = [k \in 1 .. Len(s) |-> s[k]]

\* What a result says of its claim.
Borne(c, x) ==
    /\ x.statement = c.statement
    /\ (x.fetched # Null /\ Has(c, "quotedText")) => x.checks["citation"] = CitationStatus(c.quotedText, x.fetched)
    /\ x.verdict = "failed" <=> FailuresOf(x) # {}
    /\ DOMAIN x.checks \subseteq CheckKinds

\* The results so far are of the first claims of the report, in their order.
ReadSoFar(raw, results) ==
    /\ raw \in DOMAIN Reports
    /\ Shaped(results) /\ Len(results) <= Len(Reports[raw].claims)
    /\ \A i \in DOMAIN results : Borne(Reports[raw].claims[i], results[i])

ReadWhole(raw, results) == ReadSoFar(raw, results) /\ Len(results) = Len(Reports[raw].claims)

Verifying(p) ==
    /\ p = [at |-> p.at, raw |-> p.raw, out |-> p.out, fetch |-> p.fetch, source |-> p.source,
            unreachable |-> p.unreachable, results |-> p.results, prev |-> p.prev]
    /\ p.at \in {"claims", "log", "seal", "write"} /\ p.out \in Outs
    /\ ReadSoFar(p.raw, p.results)
    /\ p.at # "claims" => ReadWhole(p.raw, p.results)

ProcInv ==
    /\ input \in DOMAIN Reports /\ clock \in Nat
    /\ proc = [v \in Verifiers |-> proc[v]]
    /\ \A v \in Verifiers : proc[v] = Idle \/ Verifying(proc[v])

LEMMA ProcInit ==
  ASSUME Init PROVE ProcInv
BY DEF Init, ProcInv

\* One verifier moves.
LEMMA ProcMoves ==
  ASSUME ProcInv, NEW v \in Verifiers, NEW p, Becomes(v, p), input' = input, clock' \in Nat,
         p = Idle \/ Verifying(p)
  PROVE  ProcInv'
<1>1. /\ proc' = [u \in Verifiers |-> proc'[u]] /\ proc'[v] = p
      /\ \A u \in Verifiers : u # v => proc'[u] = proc[u]
  BY DEF ProcInv, Becomes
<1>2. \A u \in Verifiers : proc'[u] = Idle \/ Verifying(proc'[u])
  BY <1>1 DEF ProcInv
<1> QED
  BY <1>1, <1>2 DEF ProcInv

LEMMA GoingVerifies ==
  ASSUME ProcInv, NEW v \in Verifiers, proc[v].at # "idle"
  PROVE  Verifying(proc[v])
BY DEF ProcInv, Idle

Verifier(at, raw, out, fetch, source, unreachable, results, prev) ==
    [at |-> at, raw |-> raw, out |-> out, fetch |-> fetch, source |-> source,
     unreachable |-> unreachable, results |-> results, prev |-> prev]

\* A verifier's record with other fields in it.
LEMMA AtChanges ==
  ASSUME NEW p, Verifying(p), NEW x
  PROVE  [p EXCEPT !.at = x] = Verifier(x, p.raw, p.out, p.fetch, p.source, p.unreachable, p.results, p.prev)
BY DEF Verifying, Verifier

LEMMA AtPrevChange ==
  ASSUME NEW p, Verifying(p), NEW x, NEW y
  PROVE  [p EXCEPT !.at = x, !.prev = y] = Verifier(x, p.raw, p.out, p.fetch, p.source, p.unreachable, p.results, y)
<1>1. PICK q : q = [p EXCEPT !.at = x]
  OBVIOUS
<1>2. q = Verifier(x, p.raw, p.out, p.fetch, p.source, p.unreachable, p.results, p.prev)
  BY <1>1 DEF Verifying, Verifier
<1>3. [q EXCEPT !.prev = y] = Verifier(x, p.raw, p.out, p.fetch, p.source, p.unreachable, p.results, y)
  BY <1>2 DEF Verifier
<1>4. [p EXCEPT !.at = x, !.prev = y] = [q EXCEPT !.prev = y]
  BY <1>1
<1> QED
  BY <1>3, <1>4

LEMMA SourceResultsChange ==
  ASSUME NEW p, Verifying(p), NEW x, NEW y
  PROVE  [p EXCEPT !.source = x, !.results = y] = Verifier(p.at, p.raw, p.out, p.fetch, x, p.unreachable, y, p.prev)
<1>1. PICK q : q = [p EXCEPT !.source = x]
  OBVIOUS
<1>2. q = Verifier(p.at, p.raw, p.out, p.fetch, x, p.unreachable, p.results, p.prev)
  BY <1>1 DEF Verifying, Verifier
<1>3. [q EXCEPT !.results = y] = Verifier(p.at, p.raw, p.out, p.fetch, x, p.unreachable, y, p.prev)
  BY <1>2 DEF Verifier
<1>4. [p EXCEPT !.source = x, !.results = y] = [q EXCEPT !.results = y]
  BY <1>1
<1> QED
  BY <1>3, <1>4

LEMMA SourceUnreachableChange ==
  ASSUME NEW p, Verifying(p), NEW x, NEW y
  PROVE  [p EXCEPT !.source = x, !.unreachable = y] = Verifier(p.at, p.raw, p.out, p.fetch, x, y, p.results, p.prev)
<1>1. PICK q : q = [p EXCEPT !.source = x]
  OBVIOUS
<1>2. q = Verifier(p.at, p.raw, p.out, p.fetch, x, p.unreachable, p.results, p.prev)
  BY <1>1 DEF Verifying, Verifier
<1>3. [q EXCEPT !.unreachable = y] = Verifier(p.at, p.raw, p.out, p.fetch, x, y, p.results, p.prev)
  BY <1>2 DEF Verifier
<1>4. [p EXCEPT !.source = x, !.unreachable = y] = [q EXCEPT !.unreachable = y]
  BY <1>1
<1> QED
  BY <1>3, <1>4

\* And one with the fields of a verifier is one.
LEMMA VerifierIs ==
  ASSUME NEW at \in {"claims", "log", "seal", "write"}, NEW raw, NEW out \in Outs, NEW fetch, NEW source, NEW n,
         NEW results, NEW prev, ReadSoFar(raw, results), at # "claims" => ReadWhole(raw, results)
  PROVE  Verifying(Verifier(at, raw, out, fetch, source, n, results, prev))
<1>1. PICK p : p = Verifier(at, raw, out, fetch, source, n, results, prev)
  OBVIOUS
<1>2. p.at = at /\ p.raw = raw /\ p.out = out /\ p.results = results
  BY <1>1 DEF Verifier
<1>3. p = [at |-> p.at, raw |-> p.raw, out |-> p.out, fetch |-> p.fetch, source |-> p.source,
           unreachable |-> p.unreachable, results |-> p.results, prev |-> p.prev]
  BY <1>1 DEF Verifier
<1> QED
  BY <1>1, <1>2, <1>3 DEF Verifying

LEMMA Advances ==
  ASSUME NEW p, Verifying(p), NEW a \in {"claims", "log", "seal", "write"}, NEW x,
         a # "claims" => ReadWhole(p.raw, p.results)
  PROVE  Verifying([p EXCEPT !.at = a]) /\ Verifying([p EXCEPT !.at = a, !.prev = x])
<1>1. p.out \in Outs /\ ReadSoFar(p.raw, p.results)
  BY DEF Verifying
<1>2. Verifying(Verifier(a, p.raw, p.out, p.fetch, p.source, p.unreachable, p.results, p.prev))
  BY <1>1, VerifierIs
<1>3. Verifying(Verifier(a, p.raw, p.out, p.fetch, p.source, p.unreachable, p.results, x))
  BY <1>1, VerifierIs
<1>4. [p EXCEPT !.at = a] = Verifier(a, p.raw, p.out, p.fetch, p.source, p.unreachable, p.results, p.prev)
  BY AtChanges
<1>5. [p EXCEPT !.at = a, !.prev = x]
        = Verifier(a, p.raw, p.out, p.fetch, p.source, p.unreachable, p.results, x)
  BY AtPrevChange
<1> QED
  BY <1>2, <1>3, <1>4, <1>5

\* What EvaluateClaim is given has the quotation of the claim.
LEMMA QuoteIsKept ==
  ASSUME NEW surface, NEW c, NEW w, NEW dir, Has(c, "quotedText")
  PROVE  LET a == Assembled(surface, c, w, dir) IN Has(a, "quotedText") /\ a.quotedText = c.quotedText
<1> DEFINE r == ResearchInput(c, w, dir)
           k == CouncilInput(c, w, dir)
<1>1. Has(r, "quotedText") /\ r.quotedText = c.quotedText
  BY DEF ResearchInput, Has
<1>2. Has(k, "quotedText") /\ k.quotedText = r.quotedText
  BY <1>1 DEF CouncilInput, Has
<1> QED
  BY <1>1, <1>2 DEF Assembled

LEMMA ResultIsBorne ==
  ASSUME NEW c, NEW a, NEW source, NEW fetched,
         Has(c, "quotedText") => Has(a, "quotedText") /\ a.quotedText = c.quotedText,
         fetched = source \/ fetched = Null
  PROVE  Borne(c, Result(c, EvaluateClaim(a, source), fetched))
<1> DEFINE ev == EvaluateClaim(a, source)
           x == Result(c, ev, fetched)
<1>1. ev.results = [k \in {k \in CheckKinds : Applies(k, a)} |-> Run(k, a, source)]
  BY DEF EvaluateClaim
<1>2. ev.failed <=> {k \in DOMAIN ev.results : ev.results[k] \in Failures} # {}
  BY DEF EvaluateClaim
<1>3. /\ x.statement = c.statement /\ x.checks = ev.results /\ x.verdict = VerdictOf(ev)
      /\ x.fetched = fetched
  BY DEF Result
<1> HIDE DEF ev, x
<1>4. x.verdict = "failed" <=> FailuresOf(x) # {}
  BY <1>2, <1>3 DEF VerdictOf, FailuresOf
<1>5. DOMAIN x.checks \subseteq CheckKinds
  BY <1>1, <1>3
<1>6. ASSUME x.fetched # Null, Has(c, "quotedText")
      PROVE  x.checks["citation"] = CitationStatus(c.quotedText, x.fetched)
  <2>1. fetched = source
    BY <1>3, <1>6
  <2>2. "citation" \in CheckKinds /\ Applies("citation", a)
    BY <1>6 DEF CheckKinds, Applies
  <2>3. Run("citation", a, source) = CitationStatus(a.quotedText, source)
    BY DEF Run
  <2> QED
    BY <1>1, <1>3, <1>6, <2>1, <2>2, <2>3
<1> QED
  BY <1>3, <1>4, <1>5, <1>6 DEF Borne, x, ev

LEMMA NextResultIsBorne ==
  ASSUME NEW v
  PROVE  LET ev == EvaluateClaim(Assembled(Raw(v).surface, Claim(v), world, receipts), SourceOf(v))
         IN  Borne(Claim(v), Result(Claim(v), ev, IF Live(v) THEN SourceOf(v) ELSE Null))
<1> DEFINE c == Claim(v)
           a == Assembled(Raw(v).surface, c, world, receipts)
           fetched == IF Live(v) THEN SourceOf(v) ELSE Null
<1>1. Has(c, "quotedText") => Has(a, "quotedText") /\ a.quotedText = c.quotedText
  BY QuoteIsKept
<1>2. fetched = SourceOf(v) \/ fetched = Null
  OBVIOUS
<1> HIDE DEF c, a, fetched
<1>3. Borne(c, Result(c, EvaluateClaim(a, SourceOf(v)), fetched))
  BY <1>1, <1>2, ResultIsBorne
<1> QED
  BY <1>3 DEF c, a, fetched

LEMMA ShapedAppends ==
  ASSUME NEW s, Shaped(s), NEW x
  PROVE  /\ Shaped(Append(s, x)) /\ Len(Append(s, x)) = Len(s) + 1
         /\ DOMAIN s = 1 .. Len(s) /\ DOMAIN Append(s, x) = 1 .. Len(s) + 1
         /\ \A i \in 1 .. Len(s) : Append(s, x)[i] = s[i]
         /\ Append(s, x)[Len(s) + 1] = x
<1> DEFINE S == {s[k] : k \in 1 .. Len(s)} \cup {x}
<1>1. s \in [1 .. Len(s) -> S] /\ Len(s) \in Nat /\ x \in S
  BY DEF Shaped
<1> HIDE DEF S
<1>2. s \in Seq(S)
  BY <1>1, SeqDef
<1>3. PICK t : t = Append(s, x)
  OBVIOUS
<1>4. /\ t \in Seq(S) /\ Len(t) = Len(s) + 1 /\ t[Len(s) + 1] = x
      /\ \A i \in 1 .. Len(s) : t[i] = s[i]
  BY <1>1, <1>2, <1>3, AppendProperties
<1>5. DOMAIN s = 1 .. Len(s) /\ DOMAIN t = 1 .. Len(t) /\ t = [k \in 1 .. Len(t) |-> t[k]]
  BY <1>1, <1>2, <1>4
<1> QED
  BY <1>1, <1>3, <1>4, <1>5 DEF Shaped

LEMMA ShapedChanges ==
  ASSUME NEW s, Shaped(s), NEW j \in 1 .. Len(s), NEW x, NEW t, t = [s EXCEPT ![j] = x]
  PROVE  /\ Shaped(t) /\ Len(t) = Len(s) /\ t[j] = x
         /\ \A k \in 1 .. Len(s) : k # j => t[k] = s[k]
<1> DEFINE S == {t[k] : k \in 1 .. Len(s)}
<1>1. Len(s) \in Nat /\ DOMAIN s = 1 .. Len(s)
  BY DEF Shaped
<1>2. DOMAIN t = 1 .. Len(s) /\ t = [k \in 1 .. Len(s) |-> t[k]]
  BY <1>1
<1>3. t \in [1 .. Len(s) -> S]
  BY <1>2
<1> HIDE DEF S
<1>4. Len(t) = Len(s)
  BY <1>1, <1>3, SeqDef
<1>5. t[j] = x /\ \A k \in 1 .. Len(s) : k # j => t[k] = s[k]
  BY <1>1
<1> QED
  BY <1>1, <1>2, <1>4, <1>5 DEF Shaped

LEMMA StartsKeeps ==
  ASSUME ProcInv, NEW v \in Verifiers, NEW o \in Outs, NEW fetch, Starts(v, o, fetch)
  PROVE  ProcInv'
<1>1. ReadSoFar(input, <<>>)
  <2>1. input \in DOMAIN Reports /\ Len(Reports[input].claims) \in Nat
    BY ReportAssumption DEF ProcInv
  <2> QED
    BY <2>1 DEF ReadSoFar, Shaped
<1>2. Verifying(Verifier("claims", input, o, fetch, <<>>, 0, <<>>, Null))
  BY <1>1, VerifierIs
<1>3. Becomes(v, Verifier("claims", input, o, fetch, <<>>, 0, <<>>, Null))
  BY DEF Starts, Verifier
<1>4. input' = input /\ clock' \in Nat
  BY DEF Starts, ProcInv
<1> QED
  BY <1>2, <1>3, <1>4, ProcMoves

LEMMA FetchesKeeps ==
  ASSUME ProcInv, NEW v \in Verifiers, Fetches(v)
  PROVE  ProcInv'
<1> DEFINE p == proc[v]
           n == p.unreachable + (IF world.page = Null THEN 1 ELSE 0)
           q == Verifier(p.at, p.raw, p.out, p.fetch, <<world.page>>, n, p.results, p.prev)
<1>1. Verifying(p) /\ p.at = "claims"
  BY GoingVerifies DEF Fetches
<1>2. [p EXCEPT !.source = <<world.page>>, !.unreachable = n] = q
  BY <1>1, SourceUnreachableChange
<1>3. Verifying(q)
  BY <1>1, VerifierIs DEF Verifying
<1>4. Becomes(v, [p EXCEPT !.source = <<world.page>>, !.unreachable = n])
  BY DEF Fetches
<1>5. input' = input /\ clock' \in Nat
  BY DEF Fetches, ProcInv
<1> HIDE DEF q
<1> QED
  BY <1>2, <1>3, <1>4, <1>5, ProcMoves

LEMMA GradesKeeps ==
  ASSUME ProcInv, NEW v \in Verifiers, Grades(v)
  PROVE  ProcInv'
<1> DEFINE p == proc[v]
           ev == EvaluateClaim(Assembled(Raw(v).surface, Claim(v), world, receipts), SourceOf(v))
           x == Result(Claim(v), ev, IF Live(v) THEN SourceOf(v) ELSE Null)
           s == Append(p.results, x)
           q == Verifier(p.at, p.raw, p.out, p.fetch, <<>>, p.unreachable, s, p.prev)
<1>1. Verifying(p) /\ p.at = "claims" /\ p.out \in Outs
  BY GoingVerifies DEF Grades, Verifying
<1>2. Borne(Claim(v), x)
  BY NextResultIsBorne
<1>3. Becomes(v, [p EXCEPT !.source = <<>>, !.results = s])
  BY DEF Grades
<1>4. input' = input /\ clock' \in Nat
  BY DEF Grades, ProcInv
<1>5. ~Graded(v)
  BY DEF Grades
<1> HIDE DEF x
<1>6. [p EXCEPT !.source = <<>>, !.results = s] = q
  BY <1>1, SourceResultsChange
<1>7. ReadSoFar(p.raw, s)
  <2>1. /\ p.raw \in DOMAIN Reports /\ Shaped(p.results)
        /\ Len(p.results) <= Len(Reports[p.raw].claims)
        /\ \A i \in DOMAIN p.results : Borne(Reports[p.raw].claims[i], p.results[i])
    BY <1>1 DEF Verifying, ReadSoFar
  <2>2. Len(Reports[p.raw].claims) \in Nat /\ Len(p.results) \in Nat
    BY <2>1, ReportAssumption DEF Shaped
  <2>3. Len(p.results) # Len(Reports[p.raw].claims)
    BY <1>5 DEF Graded, Raw
  <2>4. Claim(v) = Reports[p.raw].claims[Len(p.results) + 1]
    BY DEF Claim, Raw
  <2>5. /\ Shaped(s) /\ Len(s) = Len(p.results) + 1 /\ DOMAIN s = 1 .. Len(p.results) + 1
        /\ DOMAIN p.results = 1 .. Len(p.results)
        /\ \A i \in 1 .. Len(p.results) : s[i] = p.results[i]
        /\ s[Len(p.results) + 1] = x
    BY <2>1, ShapedAppends
  <2> HIDE DEF p, s
  <2>6. ASSUME NEW i \in DOMAIN s PROVE Borne(Reports[p.raw].claims[i], s[i])
    <3>1. CASE i = Len(p.results) + 1
      BY <1>2, <2>4, <2>5, <3>1
    <3>2. CASE i # Len(p.results) + 1
      <4>1. i \in 1 .. Len(p.results)
        BY <2>2, <2>5, <3>2
      <4> QED
        BY <2>1, <2>5, <4>1
    <3> QED
      BY <3>1, <3>2
  <2> QED
    BY <2>1, <2>2, <2>3, <2>5, <2>6 DEF ReadSoFar
<1> HIDE DEF s
<1>8. Verifying(q)
  BY <1>1, <1>7, VerifierIs
<1> HIDE DEF q
<1> QED
  BY <1>3, <1>4, <1>6, <1>8, ProcMoves

\* A verifier that goes on to its log or its receipt has read the report whole.
LEMMA AdvancesKeeps ==
  ASSUME ProcInv, NEW v \in Verifiers, ReadsLog(v) \/ AppendsLog(v) \/ Truncates(v)
  PROVE  ProcInv'
<1> DEFINE p == proc[v]
<1>1. Verifying(p)
  BY GoingVerifies DEF ReadsLog, AppendsLog, Truncates
<1>2. ReadWhole(p.raw, p.results)
  BY <1>1 DEF ReadsLog, AppendsLog, Truncates, Verifying, ReadWhole, Graded, Raw
<1>3. input' = input /\ clock' \in Nat
  BY DEF ReadsLog, AppendsLog, Truncates, ProcInv
<1>4. CASE ReadsLog(v)
  <2>1. PICK x : Becomes(v, [p EXCEPT !.at = "log", !.prev = x])
    BY <1>4 DEF ReadsLog
  <2>2. Verifying([p EXCEPT !.at = "log", !.prev = x])
    BY <1>1, <1>2, Advances
  <2> HIDE DEF p
  <2> QED
    BY <1>3, <2>1, <2>2, ProcMoves
<1>5. CASE AppendsLog(v)
  <2>1. Becomes(v, [p EXCEPT !.at = "seal"])
    BY <1>5 DEF AppendsLog
  <2>2. Verifying([p EXCEPT !.at = "seal"])
    BY <1>1, <1>2, Advances
  <2> HIDE DEF p
  <2> QED
    BY <1>3, <2>1, <2>2, ProcMoves
<1>6. CASE Truncates(v)
  <2>1. Becomes(v, [p EXCEPT !.at = "write"])
    BY <1>6 DEF Truncates
  <2>2. Verifying([p EXCEPT !.at = "write"])
    BY <1>1, <1>2, Advances
  <2> HIDE DEF p
  <2> QED
    BY <1>3, <2>1, <2>2, ProcMoves
<1> QED
  BY <1>4, <1>5, <1>6

LEMMA EndsKeeps ==
  ASSUME ProcInv, NEW v \in Verifiers, Seals(v) \/ Dies(v)
  PROVE  ProcInv'
<1>1. Becomes(v, Idle) /\ input' = input /\ clock' \in Nat
  BY DEF Seals, Dies, Writes, ProcInv
<1> QED
  BY <1>1, ProcMoves

LEMMA ProcStep ==
  ASSUME ProcInv, [Next]_vars PROVE ProcInv'
<1>1. CASE WorldChanges \/ InputChanges \/ (\E o \in Outs : ReceiptChanges(o)) \/ UNCHANGED vars
  BY <1>1 DEF WorldChanges, InputChanges, ReceiptChanges, vars, ProcInv
<1>2. ASSUME NEW v \in Verifiers, NEW o \in Outs, NEW fetch \in BOOLEAN, Starts(v, o, fetch)
      PROVE  ProcInv'
  BY <1>2, StartsKeeps
<1>3. ASSUME NEW v \in Verifiers,
             Fetches(v) \/ Grades(v) \/ ReadsLog(v) \/ AppendsLog(v) \/ Truncates(v) \/ Seals(v) \/ Dies(v)
      PROVE  ProcInv'
  BY <1>3, FetchesKeeps, GradesKeeps, AdvancesKeeps, EndsKeeps
<1> QED
  BY <1>1, <1>2, <1>3 DEF Next

-----------------------------------------------------------------------------
(* The decision log                                                        *)

Half(l) == l = [whole |-> FALSE, ended |-> l.ended]
Full(l) == l = [whole |-> TRUE, prev |-> l.prev, raw |-> l.raw, decisions |-> l.decisions,
                alone |-> l.alone]

\* A line of which somebody else may not know.
Shaky(l) == ~l.whole \/ ~l.alone

Chained(l) ==
    \A k \in 2 .. Len(l) : (l[k].whole /\ l[k].prev # l[k - 1]) => Shaky(l[k - 1]) \/ ~l[k].alone

\* What a verifier between its two steps knows of the last line.
Reading(p) ==
    p.at = "log" /\ Len(log) # 0 => p.prev = log[Len(log)] \/ Shaky(log[Len(log)])

LogInv ==
    /\ Shaped(log) /\ \A k \in 1 .. Len(log) : Half(log[k]) \/ Full(log[k])
    /\ Chained(log)
    /\ \A v \in Verifiers : Reading(proc[v])

LEMMA LogInit ==
  ASSUME Init PROVE LogInv
<1>1. log = <<>> /\ Len(log) = 0 /\ Shaped(log)
  BY DEF Init, Shaped
<1> QED
  BY <1>1 DEF LogInv, Chained, Reading

LEMMA WholeOrNot ==
  ASSUME NEW l
  PROVE  (Half(l) => ~l.whole) /\ (Full(l) => l.whole)
BY DEF Half, Full

\* A line more.
LEMMA LineMore ==
  ASSUME LogInv, NEW x, log' = Append(log, x), Half(x) \/ Full(x),
         (Len(log) # 0 /\ x.whole /\ x.prev # log[Len(log)]) => Shaky(log[Len(log)]) \/ ~x.alone
  PROVE  /\ Shaped(log') /\ \A k \in 1 .. Len(log') : Half(log'[k]) \/ Full(log'[k])
         /\ Chained(log') /\ log'[Len(log')] = x
<1>1. /\ Shaped(log') /\ Len(log') = Len(log) + 1 /\ log'[Len(log) + 1] = x
      /\ \A i \in 1 .. Len(log) : log'[i] = log[i]
  BY ShapedAppends DEF LogInv
<1>2. Len(log) \in Nat
  BY DEF LogInv, Shaped
<1>3. ASSUME NEW k \in 1 .. Len(log') PROVE Half(log'[k]) \/ Full(log'[k])
  <2>1. k \in 1 .. Len(log) \/ k = Len(log) + 1
    BY <1>1, <1>2
  <2> QED
    BY <2>1, <1>1 DEF LogInv
<1>4. ASSUME NEW k \in 2 .. Len(log'), log'[k].whole, log'[k].prev # log'[k - 1]
      PROVE  Shaky(log'[k - 1]) \/ ~log'[k].alone
  <2>1. CASE k = Len(log) + 1
    <3>1. log'[k] = x /\ Len(log) # 0 /\ k - 1 = Len(log) /\ Len(log) \in 1 .. Len(log)
      BY <1>1, <1>2, <2>1
    <3> QED
      BY <1>1, <1>4, <3>1
  <2>2. CASE k # Len(log) + 1
    <3>1. k \in 2 .. Len(log) /\ k \in 1 .. Len(log) /\ k - 1 \in 1 .. Len(log)
      BY <1>1, <1>2, <2>2
    <3> QED
      BY <1>1, <1>4, <3>1 DEF LogInv, Chained
  <2> QED
    BY <2>1, <2>2
<1> QED
  BY <1>1, <1>3, <1>4 DEF Chained

LEMMA AppendsLine ==
  ASSUME ProcInv, LogInv, NEW v \in Verifiers, AppendsLog(v)
  PROVE  LogInv'
<1> DEFINE p == proc[v]
           d == Decided(p.results)
           a == \A u \in Verifiers \ {v} : proc[u].at # "log"
           x == [whole |-> TRUE, prev |-> p.prev, raw |-> p.raw, decisions |-> d, alone |-> a]
<1>1. p.at = "log" /\ Becomes(v, [p EXCEPT !.at = "seal"])
  BY DEF AppendsLog
<1>2. proc'[v].at # "log" /\ \A u \in Verifiers : u # v => proc'[u] = proc[u]
  <2>1. Verifying(p)
    BY <1>1, GoingVerifies
  <2>2. [p EXCEPT !.at = "seal"].at = "seal"
    BY <2>1 DEF Verifying
  <2> HIDE DEF p
  <2>3. proc'[v] = [p EXCEPT !.at = "seal"] /\ \A u \in Verifiers : u # v => proc'[u] = proc[u]
    BY <1>1 DEF Becomes, ProcInv
  <2> QED
    BY <2>2, <2>3
<1>3. CASE log # <<>> /\ ~Last(log).whole /\ ~Last(log).ended
  <2>1. log' = [log EXCEPT ![Len(log)].ended = TRUE]
    BY <1>3 DEF AppendsLog
  <2>2. Shaped(log) /\ Len(log) \in Nat /\ DOMAIN log = 1 .. Len(log)
    BY DEF LogInv, Shaped
  <2>3. Len(log) # 0
    <3>1. Len(log) = 0 => log = <<>>
      BY <2>2 DEF Shaped
    <3> QED
      BY <3>1, <1>3
  <2>4. Len(log) \in 1 .. Len(log)
    BY <2>2, <2>3
  <2>5. Half(log[Len(log)])
    <3>1. ~log[Len(log)].whole
      BY <1>3, <2>3 DEF Last
    <3> QED
      BY <2>4, <3>1, WholeOrNot DEF LogInv
  <2>6. PICK y : y = [log[Len(log)] EXCEPT !.ended = TRUE]
    OBVIOUS
  <2>7. Half(y) /\ ~y.whole
    <3>1. y = [whole |-> FALSE, ended |-> TRUE]
      <4>1. PICK l : l = log[Len(log)]
        OBVIOUS
      <4>2. PICK b : l = [whole |-> FALSE, ended |-> b]
        BY <2>5, <4>1 DEF Half
      <4>3. y = [l EXCEPT !.ended = TRUE]
        BY <2>6, <4>1
      <4> QED
        BY <4>2, <4>3
    <3> QED
      BY <3>1 DEF Half
  <2>8. log' = [log EXCEPT ![Len(log)] = y]
    BY <2>1, <2>6
  <2>9. /\ Shaped(log') /\ Len(log') = Len(log) /\ log'[Len(log)] = y
        /\ \A k \in 1 .. Len(log) : k # Len(log) => log'[k] = log[k]
    BY <2>2, <2>4, <2>8, ShapedChanges
  <2>10. \A k \in 1 .. Len(log') : Half(log'[k]) \/ Full(log'[k])
    BY <2>7, <2>9 DEF LogInv
  <2>11. ASSUME NEW k \in 2 .. Len(log'), log'[k].whole, log'[k].prev # log'[k - 1]
         PROVE  Shaky(log'[k - 1]) \/ ~log'[k].alone
    <3>1. k # Len(log)
      BY <2>7, <2>9, <2>11
    <3>2. k \in 2 .. Len(log) /\ k \in 1 .. Len(log) /\ k - 1 \in 1 .. Len(log) /\ k - 1 # Len(log)
      <4>1. PICK n \in Nat : n = Len(log)
        BY <2>2
      <4>2. k \in 2 .. n /\ k # n
        BY <2>9, <2>11, <3>1, <4>1
      <4>3. k \in 1 .. n /\ k - 1 \in 1 .. n /\ k - 1 # n
        BY <4>2
      <4> QED
        BY <4>1, <4>2, <4>3
    <3> QED
      BY <2>9, <2>11, <3>1, <3>2 DEF LogInv, Chained
  <2>12. \A u \in Verifiers : Reading(proc[u])'
    BY <2>7, <2>9 DEF Reading, Shaky
  <2> QED
    BY <2>9, <2>10, <2>11, <2>12 DEF LogInv, Chained
<1>4. CASE ~(log # <<>> /\ ~Last(log).whole /\ ~Last(log).ended)
  <2>1. log' = Append(log, x)
    BY <1>4 DEF AppendsLog
  <2>2. Full(x) /\ x.prev = p.prev /\ x.alone = a
    BY DEF Full
  <2>3. (Len(log) # 0 /\ x.whole /\ x.prev # log[Len(log)]) => Shaky(log[Len(log)]) \/ ~x.alone
    BY <1>1, <2>2 DEF LogInv, Reading
  <2> HIDE DEF x
  <2>4. /\ Shaped(log') /\ \A k \in 1 .. Len(log') : Half(log'[k]) \/ Full(log'[k])
        /\ Chained(log') /\ log'[Len(log')] = x
    BY <2>1, <2>2, <2>3, LineMore
  <2>5. ASSUME NEW u \in Verifiers PROVE Reading(proc[u])'
    <3>1. CASE u = v
      BY <1>2, <3>1 DEF Reading
    <3>2. CASE u # v /\ proc[u].at = "log"
      <4>1. ~a
        BY <3>2
      <4> QED
        BY <2>2, <2>4, <4>1 DEF Reading, Shaky
    <3>3. CASE u # v /\ proc[u].at # "log"
      BY <1>2, <3>3 DEF Reading
    <3> QED
      BY <3>1, <3>2, <3>3
  <2> QED
    BY <2>4, <2>5 DEF LogInv
<1> QED
  BY <1>3, <1>4

LEMMA ReadsLine ==
  ASSUME ProcInv, LogInv, NEW v \in Verifiers, ReadsLog(v)
  PROVE  LogInv'
<1> DEFINE y == IF log = <<>> \/ ~Last(log).whole THEN Null ELSE Last(log)
<1>1. log' = log /\ Verifying(proc[v]) /\ Becomes(v, [proc[v] EXCEPT !.at = "log", !.prev = y])
  BY GoingVerifies DEF ReadsLog
<1>2. PICK q : q = [proc[v] EXCEPT !.at = "log", !.prev = y]
  OBVIOUS
<1>3. q.prev = y
  BY <1>1, <1>2 DEF Verifying
<1>4. proc'[v] = q /\ \A u \in Verifiers : u # v => proc'[u] = proc[u]
  BY <1>1, <1>2 DEF Becomes, ProcInv
<1>5. Reading(proc[v])'
  <2>1. Len(log) # 0 => log # <<>> /\ Last(log) = log[Len(log)]
    BY DEF Last
  <2> QED
    BY <1>1, <1>3, <1>4, <2>1 DEF Reading, Shaky
<1> HIDE DEF y
<1>6. \A u \in Verifiers : Reading(proc[u])'
  BY <1>1, <1>4, <1>5 DEF LogInv, Reading
<1> QED
  BY <1>1, <1>6 DEF LogInv

\* A verifier whose step is about something else.
LEMMA LogApart ==
  ASSUME ProcInv, LogInv, NEW v \in Verifiers, NEW p, Becomes(v, p), p.at # "log", log' = log
  PROVE  LogInv'
<1>1. proc'[v] = p /\ \A u \in Verifiers : u # v => proc'[u] = proc[u]
  BY DEF Becomes, ProcInv
<1>2. \A u \in Verifiers : Reading(proc[u])'
  BY <1>1 DEF LogInv, Reading
<1> QED
  BY <1>2 DEF LogInv

LEMMA LogStep ==
  ASSUME ProcInv, LogInv, [Next]_vars PROVE LogInv'
<1>1. CASE WorldChanges \/ InputChanges \/ (\E o \in Outs : ReceiptChanges(o)) \/ UNCHANGED vars
  BY <1>1 DEF WorldChanges, InputChanges, ReceiptChanges, vars, LogInv, Reading
<1>2. ASSUME NEW v \in Verifiers, NEW o \in Outs, NEW fetch \in BOOLEAN, Starts(v, o, fetch)
      PROVE  LogInv'
  <2>1. PICK p : Becomes(v, p) /\ p.at # "log" /\ log' = log
    BY <1>2 DEF Starts
  <2> QED
    BY <2>1, LogApart
<1>3. ASSUME NEW v \in Verifiers, Fetches(v) PROVE LogInv'
  <2>1. PICK x, y : Becomes(v, [proc[v] EXCEPT !.source = x, !.unreachable = y])
    BY <1>3 DEF Fetches
  <2>2. Verifying(proc[v]) /\ proc[v].at # "log" /\ log' = log
    BY <1>3, GoingVerifies DEF Fetches
  <2>3. [proc[v] EXCEPT !.source = x, !.unreachable = y].at = proc[v].at
    BY <2>2 DEF Verifying
  <2> QED
    BY <2>1, <2>2, <2>3, LogApart
<1>4. ASSUME NEW v \in Verifiers, Grades(v) PROVE LogInv'
  <2>1. PICK x, y : Becomes(v, [proc[v] EXCEPT !.source = x, !.results = y])
    BY <1>4 DEF Grades
  <2>2. Verifying(proc[v]) /\ proc[v].at # "log" /\ log' = log
    BY <1>4, GoingVerifies DEF Grades
  <2>3. [proc[v] EXCEPT !.source = x, !.results = y].at = proc[v].at
    BY <2>2 DEF Verifying
  <2> QED
    BY <2>1, <2>2, <2>3, LogApart
<1>5. ASSUME NEW v \in Verifiers, Truncates(v) PROVE LogInv'
  <2>1. Verifying(proc[v]) /\ log' = log /\ Becomes(v, [proc[v] EXCEPT !.at = "write"])
    BY <1>5, GoingVerifies DEF Truncates
  <2>2. [proc[v] EXCEPT !.at = "write"].at = "write"
    BY <2>1 DEF Verifying
  <2> QED
    BY <2>1, <2>2, LogApart
<1>6. ASSUME NEW v \in Verifiers, Seals(v) PROVE LogInv'
  <2>1. Becomes(v, Idle) /\ log' = log
    BY <1>6 DEF Seals, Writes
  <2> QED
    BY <2>1, LogApart DEF Idle
<1>7. ASSUME NEW v \in Verifiers, Dies(v) PROVE LogInv'
  <2>1. Becomes(v, Idle)
    BY <1>7 DEF Dies
  <2>2. CASE log' = log
    BY <2>1, <2>2, LogApart DEF Idle
  <2>3. CASE log' = Append(log, [whole |-> FALSE, ended |-> FALSE])
    <3>1. PICK x : x = [whole |-> FALSE, ended |-> FALSE]
      OBVIOUS
    <3>2. Half(x) /\ ~x.whole
      BY <3>1 DEF Half
    <3>3. /\ Shaped(log') /\ \A k \in 1 .. Len(log') : Half(log'[k]) \/ Full(log'[k])
          /\ Chained(log') /\ log'[Len(log')] = x
      BY <2>3, <3>1, <3>2, LineMore
    <3>4. \A u \in Verifiers : Reading(proc[u])'
      BY <3>2, <3>3 DEF Reading, Shaky
    <3> QED
      BY <3>3, <3>4 DEF LogInv
  <2> QED
    BY <1>7, <2>2, <2>3 DEF Dies
<1> QED
  BY <1>1, <1>2, <1>3, <1>4, <1>5, <1>6, <1>7, ReadsLine, AppendsLine DEF Next

\* Two neighbouring lines of the decision log that do not chain had a torn line
\* or a second council between them, for any number of verifiers that die at any
\* point: what appendDecisionLog read as the last line is still the last one
\* when it appends, or somebody was in between and one of the lines shows it.
THEOREM LogBreaksHaveCause == Spec => []LogBreakHasCause
<1>1. Init => ProcInv /\ LogInv
  BY ProcInit, LogInit
<1>2. ProcInv /\ LogInv /\ [Next]_vars => (ProcInv /\ LogInv)'
  BY ProcStep, LogStep
<1>3. LogInv => LogBreakHasCause
  BY DEF LogInv, Chained, Shaky, LogBreakHasCause
<1> QED
  BY <1>1, <1>2, <1>3, PTL DEF Spec

-----------------------------------------------------------------------------
(* The receipts                                                            *)

Body(b) == b = [receiptId |-> b.receiptId, surface |-> b.surface, verifiedAt |-> b.verifiedAt,
                input |-> b.input, commit |-> b.commit, existed |-> b.existed,
                results |-> b.results, unreachable |-> b.unreachable, verdict |-> b.verdict]

\* What a verifier completes: the whole report, under its own name, sealed.
SealedRight(w) ==
    /\ w = [body |-> w.body, contentHash |-> w.body] /\ Body(w.body)
    /\ ReadWhole(w.body.input, w.body.results)
    /\ w.body.verdict = VerdictOfAll(w.body.results)
    /\ w.body.receiptId = ReceiptId(w.body.input, w.body.verdict)
    /\ w.body.verifiedAt \in 0 .. clock

\* What an edit of a receipt leaves as it was.
Kept(x, w) ==
    /\ x = [body |-> x.body, contentHash |-> w.body] /\ Body(x.body)
    /\ x.body.receiptId = w.body.receiptId /\ x.body.verifiedAt = w.body.verifiedAt
    /\ x.body.results = w.body.results \/ x.body.results = <<>>
    /\ x.body.input = w.body.input \/ x.body.input = "elsewhere"

ReceiptsInv ==
    /\ DOMAIN receipts = Outs /\ DOMAIN written = Outs
    /\ \A o \in Outs :
          IsReceipt(receipts[o]) => SealedRight(written[o]) /\ Kept(receipts[o], written[o])

LEMMA ReceiptsInit ==
  ASSUME Init PROVE ReceiptsInv
BY DEF Init, ReceiptsInv, IsReceipt

LEMMA SealedStays ==
  ASSUME NEW w, SealedRight(w), clock \in Nat, clock' \in Nat, clock <= clock'
  PROVE  SealedRight(w)'
<1>1. w.body.verifiedAt \in 0 .. clock'
  BY DEF SealedRight
<1> QED
  BY <1>1 DEF SealedRight

\* One field of a body is another.
LEMMA FieldEdited ==
  ASSUME NEW x, NEW w, Kept(x, w), NEW y,
         \/ \E z : y = [x EXCEPT !.body.verdict = z]
         \/ y = [x EXCEPT !.body.results = <<>>]
         \/ y = [x EXCEPT !.body.input = "elsewhere"]
  PROVE  Kept(y, w)
<1> DEFINE b == x.body
<1>1. /\ x = [body |-> b, contentHash |-> w.body] /\ Body(b)
      /\ b.receiptId = w.body.receiptId /\ b.verifiedAt = w.body.verifiedAt
      /\ b.results = w.body.results \/ b.results = <<>>
      /\ b.input = w.body.input \/ b.input = "elsewhere"
  BY DEF Kept
<1> HIDE DEF b
<1>2. PICK c : /\ y = [x EXCEPT !.body = c]
               /\ \/ \E z : c = [b EXCEPT !.verdict = z]
                  \/ c = [b EXCEPT !.results = <<>>]
                  \/ c = [b EXCEPT !.input = "elsewhere"]
  BY DEF b
<1>3. y = [body |-> c, contentHash |-> w.body]
  BY <1>1, <1>2
<1>4. y.body = c
  BY <1>3
<1>5. CASE \E z : c = [b EXCEPT !.verdict = z]
  <2>1. PICK z : c = [b EXCEPT !.verdict = z]
    BY <1>5
  <2>2. Body(c)
    BY <1>1, <2>1 DEF Body
  <2>3. c.receiptId = b.receiptId /\ c.verifiedAt = b.verifiedAt /\ c.results = b.results /\ c.input = b.input
    BY <1>1, <2>1 DEF Body
  <2> QED
    BY <1>1, <1>3, <1>4, <2>2, <2>3 DEF Kept
<1>6. CASE c = [b EXCEPT !.results = <<>>]
  <2>1. Body(c)
    BY <1>1, <1>6 DEF Body
  <2>2. c.receiptId = b.receiptId /\ c.verifiedAt = b.verifiedAt /\ c.results = <<>> /\ c.input = b.input
    BY <1>1, <1>6 DEF Body
  <2> QED
    BY <1>1, <1>3, <1>4, <2>1, <2>2 DEF Kept
<1>7. CASE c = [b EXCEPT !.input = "elsewhere"]
  <2>1. Body(c)
    BY <1>1, <1>7 DEF Body
  <2>2. c.receiptId = b.receiptId /\ c.verifiedAt = b.verifiedAt /\ c.results = b.results /\ c.input = "elsewhere"
    BY <1>1, <1>7 DEF Body
  <2> QED
    BY <1>1, <1>3, <1>4, <2>1, <2>2 DEF Kept
<1> QED
  BY <1>2, <1>5, <1>6, <1>7

LEMMA EditsKeep ==
  ASSUME ProcInv, ReceiptsInv, NEW o \in Outs, ReceiptChanges(o)
  PROVE  ReceiptsInv'
<1>1. written' = written /\ clock' = clock /\ clock \in Nat /\ IsReceipt(receipts[o])
  BY DEF ReceiptChanges, ProcInv
<1>2. PICK x, w : x = receipts[o] /\ w = written[o]
  OBVIOUS
<1>3. PICK y : /\ receipts' = [receipts EXCEPT ![o] = y]
               /\ \/ \E z : y = [x EXCEPT !.body.verdict = z]
                  \/ y = [x EXCEPT !.body.results = <<>>]
                  \/ y = [x EXCEPT !.body.input = "elsewhere"]
  BY <1>2 DEF ReceiptChanges
<1>4. Kept(x, w) /\ SealedRight(w)
  BY <1>1, <1>2 DEF ReceiptsInv
<1>5. Kept(y, w)
  BY <1>3, <1>4, FieldEdited
<1>6. \A q \in Outs : (SealedRight(written[q]))' <=> SealedRight(written[q])
  BY <1>1 DEF SealedRight
<1> QED
  BY <1>1, <1>2, <1>3, <1>4, <1>5, <1>6 DEF ReceiptsInv

LEMMA SealsKeep ==
  ASSUME ProcInv, ReceiptsInv, NEW v \in Verifiers, Seals(v)
  PROVE  ReceiptsInv'
<1> DEFINE p == proc[v]
<1>1. PICK t : /\ t \in {clock, clock + 1} /\ clock' = t
               /\ Writes(v, ReceiptOf(v, VerdictOfAll(p.results), p.raw, t))
  BY DEF Seals
<1>2. clock \in Nat /\ clock' \in Nat /\ clock <= clock' /\ t \in 0 .. clock'
  BY <1>1 DEF ProcInv
<1>3. Verifying(p) /\ ReadWhole(p.raw, p.results) /\ p.out \in Outs
  BY GoingVerifies DEF Seals, Verifying
<1>4. PICK w : w = ReceiptOf(v, VerdictOfAll(p.results), p.raw, t)
  OBVIOUS
<1>5. SealedRight(w)' /\ Kept(w, w)
  <2> DEFINE d == VerdictOfAll(p.results)
             b == [receiptId |-> ReceiptId(p.raw, d), surface |-> Raw(v).surface, verifiedAt |-> t,
                   input |-> p.raw, commit |-> Raw(v).commit, existed |-> Existed(Raw(v).commit),
                   results |-> p.results, unreachable |-> p.unreachable, verdict |-> d]
  <2>1. w = [body |-> b, contentHash |-> b]
    BY <1>4 DEF ReceiptOf, Sealed
  <2>2. /\ Body(b) /\ b.input = p.raw /\ b.results = p.results /\ b.verdict = d
        /\ b.receiptId = ReceiptId(p.raw, d) /\ b.verifiedAt = t
    BY DEF Body
  <2> HIDE DEF b
  <2>3. w.body = b /\ w.contentHash = b
    BY <2>1
  <2>4. SealedRight(w)'
    BY <1>2, <1>3, <2>1, <2>2, <2>3 DEF SealedRight
  <2> QED
    BY <2>1, <2>2, <2>3, <2>4 DEF Kept
<1>6. receipts' = [receipts EXCEPT ![p.out] = w] /\ written' = [written EXCEPT ![p.out] = w]
  BY <1>1, <1>4 DEF Writes
<1>7. \A q \in Outs : SealedRight(written[q]) => SealedRight(written[q])'
  <2> SUFFICES ASSUME NEW q \in Outs, SealedRight(written[q]), q # p.out
               PROVE  SealedRight(written[q])'
    BY <1>3, <1>5, <1>6 DEF ReceiptsInv
  <2>1. PICK x : x = written[q]
    OBVIOUS
  <2>2. SealedRight(x)'
    BY <1>2, <2>1, SealedStays
  <2>3. written'[q] = x
    BY <1>6, <2>1 DEF ReceiptsInv
  <2> QED
    BY <2>2, <2>3 DEF SealedRight
<1> HIDE DEF p
<1>8. DOMAIN receipts' = Outs /\ DOMAIN written' = Outs
  BY <1>6 DEF ReceiptsInv
<1>9. ASSUME NEW q \in Outs, IsReceipt(receipts'[q])
      PROVE  SealedRight(written[q])' /\ Kept(receipts'[q], written'[q])
  <2>1. CASE q = p.out
    <3>1. receipts'[q] = w /\ written'[q] = w
      BY <1>3, <1>6, <2>1 DEF ReceiptsInv
    <3> QED
      BY <1>5, <3>1 DEF SealedRight
  <2>2. CASE q # p.out
    <3>1. receipts'[q] = receipts[q] /\ written'[q] = written[q]
      BY <1>3, <1>6, <2>2 DEF ReceiptsInv
    <3> QED
      BY <1>7, <1>9, <3>1 DEF ReceiptsInv
  <2> QED
    BY <2>1, <2>2
<1> QED
  BY <1>8, <1>9 DEF ReceiptsInv

LEMMA ReceiptsStep ==
  ASSUME ProcInv, ReceiptsInv, [Next]_vars PROVE ReceiptsInv'
<1>1. ASSUME UNCHANGED <<receipts, written, clock>> PROVE ReceiptsInv'
  BY <1>1 DEF ReceiptsInv, SealedRight
<1>2. CASE WorldChanges \/ InputChanges \/ UNCHANGED vars
  BY <1>1, <1>2 DEF WorldChanges, InputChanges, vars
<1>3. ASSUME NEW v \in Verifiers, NEW o \in Outs, NEW fetch \in BOOLEAN, Starts(v, o, fetch)
      PROVE  ReceiptsInv'
  BY <1>1, <1>3 DEF Starts
<1>4. ASSUME NEW v \in Verifiers,
             Fetches(v) \/ Grades(v) \/ ReadsLog(v) \/ AppendsLog(v) \/ Dies(v)
      PROVE  ReceiptsInv'
  BY <1>1, <1>4 DEF Fetches, Grades, ReadsLog, AppendsLog, Dies
<1>5. ASSUME NEW v \in Verifiers, Truncates(v) PROVE ReceiptsInv'
  <2>1. /\ receipts' = [receipts EXCEPT ![proc[v].out] = Torn]
        /\ written' = written /\ clock' = clock
    BY <1>5 DEF Truncates
  <2>2. \A o \in Outs : IsReceipt(receipts'[o]) => receipts'[o] = receipts[o] /\ IsReceipt(receipts[o])
    BY <2>1 DEF ReceiptsInv, IsReceipt
  <2>3. \A o \in Outs : SealedRight(written[o]) => SealedRight(written[o])'
    BY <2>1 DEF SealedRight
  <2> QED
    BY <2>1, <2>2, <2>3 DEF ReceiptsInv
<1> QED
  BY <1>2, <1>3, <1>4, <1>5, EditsKeep, SealsKeep DEF Next

LEMMA Quoted ==
  ASSUME NEW quote, NEW text, text # Null
  PROVE  CitationStatus(quote, text) = "verified" <=> quote \in text.says \ {Blank}
<1>1. CASE quote = Blank
  BY <1>1 DEF CitationStatus
<1>2. CASE quote # Blank /\ quote \in text.says
  BY <1>2 DEF CitationStatus
<1>3. CASE quote # Blank /\ quote \notin text.says
  BY <1>3 DEF CitationStatus
<1> QED
  BY <1>1, <1>2, <1>3

LEMMA WhatReplaySays ==
  ASSUME NEW x, NEW now, NEW repo
  PROVE  ReplayExit(x, now, repo) = 0 <=>
            IsReceipt(x) /\ x.contentHash = x.body /\ x.body.receiptId = ReceiptId(x.body.input, x.body.verdict)
<1> DEFINE p == Replay(x, now, repo)
<1>1. /\ p.contentHashOk <=> x.contentHash = x.body
      /\ p.receiptIdOk <=> x.body.receiptId = ReceiptId(x.body.input, x.body.verdict)
  BY DEF Replay
<1>2. Intact(x, now, repo) <=> p.contentHashOk /\ p.receiptIdOk
  BY DEF Intact
<1> HIDE DEF p
<1>3. ReplayExit(x, now, repo) = 0 <=> IsReceipt(x) /\ Intact(x, now, repo)
  <2>1. CASE ~IsReceipt(x)
    BY <2>1 DEF ReplayExit
  <2>2. CASE IsReceipt(x) /\ Intact(x, now, repo)
    BY <2>2 DEF ReplayExit
  <2>3. CASE IsReceipt(x) /\ ~Intact(x, now, repo)
    BY <2>3 DEF ReplayExit
  <2> QED
    BY <2>1, <2>2, <2>3
<1> QED
  BY <1>1, <1>2, <1>3

LEMMA WhatGateAllows ==
  ASSUME NEW x, GateDecision(x) = "allow"
  PROVE  IsReceipt(x) /\ Lower(x.body.verdict) \in {"pass", "abstain"}
<1>1. IsReceipt(x)
  <2>1. ~IsReceipt(x) => GateDecision(x) = "error"
    BY DEF GateDecision
  <2> QED
    BY <2>1
<1>2. ASSUME Lower(x.body.verdict) \notin {"pass", "abstain"} PROVE FALSE
  <2>1. GateDecision(x) = "block"
    BY <1>1, <1>2 DEF GateDecision
  <2> QED
    BY <2>1
<1> QED
  BY <1>1, <1>2

LEMMA SealShowsReading ==
  ASSUME ReceiptsInv PROVE SealSaysWhatWasRead
<1> SUFFICES ASSUME NEW o \in Outs, IsReceipt(receipts[o]), receipts[o] = written[o]
             PROVE  LET r == receipts[o].body
                        c(i) == Reports[r.input].claims[i]
                    IN  /\ Len(r.results) = Len(Reports[r.input].claims)
                        /\ \A i \in DOMAIN r.results :
                              /\ r.results[i].statement = c(i).statement
                              /\ (r.results[i].fetched # Null /\ Has(c(i), "quotedText")) =>
                                    (r.results[i].checks["citation"] = "verified"
                                        <=> c(i).quotedText \in r.results[i].fetched.says \ {Blank})
                        /\ \A i \in DOMAIN SourceDrift(receipts[o], world.page) :
                              (/\ SourceDrift(receipts[o], world.page)[i] = "same"
                               /\ Has(c(i), "quotedText")) =>
                                 CitationStatus(c(i).quotedText, world.page) = r.results[i].checks["citation"]
  BY DEF SealSaysWhatWasRead, OnDisk, Untouched
<1> DEFINE r == receipts[o].body
           c(i) == Reports[r.input].claims[i]
           drift == SourceDrift(receipts[o], world.page)
<1>1. ReadWhole(r.input, r.results)
  BY DEF ReceiptsInv, SealedRight
<1>2. Len(r.results) = Len(Reports[r.input].claims)
  BY <1>1 DEF ReadWhole
<1>3. \A i \in DOMAIN r.results : Borne(c(i), r.results[i])
  BY <1>1 DEF ReadWhole, ReadSoFar
<1>4. /\ DOMAIN drift \subseteq DOMAIN r.results
      /\ \A i \in DOMAIN drift : r.results[i].fetched # Null
      /\ \A i \in DOMAIN drift : drift[i] = "same" => r.results[i].fetched = world.page
  BY DEF SourceDrift
<1> HIDE DEF r, drift
<1>5. ASSUME NEW i \in DOMAIN r.results, r.results[i].fetched # Null, Has(c(i), "quotedText")
      PROVE  r.results[i].checks["citation"] = "verified"
               <=> c(i).quotedText \in r.results[i].fetched.says \ {Blank}
  <2>1. r.results[i].checks["citation"] = CitationStatus(c(i).quotedText, r.results[i].fetched)
    BY <1>3, <1>5 DEF Borne
  <2> QED
    BY <1>5, <2>1, Quoted
<1>6. ASSUME NEW i \in DOMAIN drift, drift[i] = "same", Has(c(i), "quotedText")
      PROVE  CitationStatus(c(i).quotedText, world.page) = r.results[i].checks["citation"]
  <2>1. i \in DOMAIN r.results /\ r.results[i].fetched # Null /\ r.results[i].fetched = world.page
    BY <1>4, <1>6
  <2>2. r.results[i].checks["citation"] = CitationStatus(c(i).quotedText, r.results[i].fetched)
    BY <1>3, <1>6, <2>1 DEF Borne
  <2> QED
    BY <2>1, <2>2
<1>7. \A i \in DOMAIN r.results : r.results[i].statement = c(i).statement
  BY <1>3 DEF Borne
<1> QED
  BY <1>2, <1>5, <1>6, <1>7 DEF r, drift

LEMMA ReplayTells ==
  ASSUME ReceiptsInv PROVE ReplayIsExact
<1> SUFFICES ASSUME NEW o \in Outs
             PROVE  LET intact == ReplayExit(receipts[o], Now, world.repo) = 0
                    IN  /\ o \in OnDisk => (intact <=> Untouched(o))
                        /\ (GateDecision(receipts[o]) = "allow" /\ intact) =>
                              \A i \in DOMAIN receipts[o].body.results :
                                 receipts[o].body.results[i].verdict # "failed"
  BY DEF ReplayIsExact
<1> DEFINE x == receipts[o]
           w == written[o]
           intact == ReplayExit(x, Now, world.repo) = 0
<1>1. intact <=> IsReceipt(x) /\ x.contentHash = x.body /\ x.body.receiptId = ReceiptId(x.body.input, x.body.verdict)
  BY WhatReplaySays
<1>2. IsReceipt(x) => SealedRight(w) /\ Kept(x, w)
  BY DEF ReceiptsInv
<1>3. o \in OnDisk <=> IsReceipt(x)
  BY DEF OnDisk
<1>4. Untouched(o) <=> x = w
  BY DEF Untouched
<1>5. GateDecision(x) = "allow" => IsReceipt(x) /\ Lower(x.body.verdict) \in {"pass", "abstain"}
  BY WhatGateAllows
<1> HIDE DEF x, w, intact
<1>6. ASSUME IsReceipt(x), intact PROVE x = w
  <2>1. x = [body |-> x.body, contentHash |-> w.body] /\ w = [body |-> w.body, contentHash |-> w.body]
    BY <1>2, <1>6 DEF Kept, SealedRight
  <2>2. x.contentHash = w.body
    BY <2>1
  <2>3. x.body = w.body
    BY <1>1, <1>6, <2>2
  <2> QED
    BY <2>1, <2>3
<1>7. ASSUME IsReceipt(x), x = w PROVE intact
  <2>1. /\ w = [body |-> w.body, contentHash |-> w.body]
        /\ w.body.receiptId = ReceiptId(w.body.input, w.body.verdict)
    BY <1>2, <1>7 DEF SealedRight
  <2>2. w.contentHash = w.body
    BY <2>1
  <2> QED
    BY <1>1, <1>7, <2>1, <2>2
<1>8. ASSUME GateDecision(x) = "allow", intact, NEW i \in DOMAIN x.body.results,
             x.body.results[i].verdict = "failed"
      PROVE  FALSE
  <2>1. IsReceipt(x) /\ x = w /\ Lower(x.body.verdict) \in {"pass", "abstain"}
    BY <1>5, <1>6, <1>8
  <2>2. x.body.verdict = VerdictOfAll(x.body.results)
    BY <1>2, <2>1 DEF SealedRight
  <2>3. x.body.verdict = "fail"
    BY <1>8, <2>2 DEF VerdictOfAll
  <2> QED
    BY <2>1, <2>3 DEF Lower
<1> QED
  BY <1>3, <1>4, <1>6, <1>7, <1>8 DEF x, w, intact

EvidenceInv == ProcInv /\ ReceiptsInv

LEMMA EvidenceInvariant == Spec => []EvidenceInv
<1>1. Init => EvidenceInv
  BY ProcInit, ReceiptsInit DEF EvidenceInv
<1>2. EvidenceInv /\ [Next]_vars => EvidenceInv'
  BY ProcStep, ReceiptsStep DEF EvidenceInv
<1> QED
  BY <1>1, <1>2, PTL DEF Spec

\* Whatever happens to the report, its sources and the receipts meanwhile, a
\* receipt as its verifier completed it has one result for each claim of the
\* report it names, in order, and the text sealed with a result is the text its
\* quotation was judged by: runResearchVerify reads the report once and each
\* page once, and seals the hash of what it read.
THEOREM SealsSayWhatWasRead == Spec => []SealSaysWhatWasRead
<1>1. EvidenceInv => SealSaysWhatWasRead
  BY SealShowsReading DEF EvidenceInv
<1> QED
  BY <1>1, EvidenceInvariant, PTL

\* replay says intact of exactly the receipts that are as their verifier
\* completed them, under any number of edits, deaths and half-written files; and
\* no receipt that the gate lets through and replay finds intact has a failed
\* claim in it (replayVerificationReceipt, gateDecision).
THEOREM ReplaysAreExact == Spec => []ReplayIsExact
<1>1. EvidenceInv => ReplayIsExact
  BY ReplayTells DEF EvidenceInv
<1> QED
  BY <1>1, EvidenceInvariant, PTL

-----------------------------------------------------------------------------
(* Finite sums                                                             *)

LEMMA LeastNatural ==
  ASSUME NEW T \in SUBSET Nat, T # {}
  PROVE  \E x \in T : \A y \in T : x <= y
<1> DEFINE R == {s \in Nat \X Nat : s[1] < s[2]}
<1>1. IsWellFoundedOn(R, Nat)
  BY NatLessThanWellFounded, Zenon DEF OpToRel
<1>2. \E x \in T : \A y \in T : ~(<<y, x>> \in R)
  <2> HIDE DEF R
  <2> QED
    BY <1>1, WFMin
<1>3. PICK x \in T : \A y \in T : ~(<<y, x>> \in R)
  BY <1>2
<1>4. ASSUME NEW y \in T PROVE x <= y
  <2>1. x \in Nat /\ y \in Nat /\ ~(<<y, x>> \in R)
    BY <1>3
  <2> QED
    BY <2>1
<1> QED
  BY <1>4

\* A sum over a finite set that counts disjoint parts counts their union.
Adds(S, c, p, f) ==
    f[{}] = 0 /\ \A s \in SUBSET S : s # {} => p[s] \in s /\ f[s] = c[p[s]] + f[s \ {p[s]}]

LEMMA OneSum ==
  ASSUME NEW S, IsFiniteSet(S), NEW c, NEW p, NEW d, NEW f, Adds(S, c, p, f), Adds(S, c, p, d)
  PROVE  f[S] = d[S]
<1> DEFINE Bad == {n \in Nat : \E s \in SUBSET S : Cardinality(s) = n /\ f[s] # d[s]}
<1>1. SUFFICES ASSUME Bad # {} PROVE FALSE
  BY FS_CardinalityType
<1>2. PICK n \in Bad : \A m \in Bad : n <= m
  <2> HIDE DEF Bad
  <2>1. Bad \in SUBSET Nat
    BY DEF Bad
  <2> QED
    BY <1>1, <2>1, LeastNatural
<1>3. PICK s \in SUBSET S : Cardinality(s) = n /\ f[s] # d[s] /\ n \in Nat
  OBVIOUS
<1>4. s # {}
  BY <1>3 DEF Adds
<1>5. PICK x \in s : f[s] = c[x] + f[s \ {x}] /\ d[s] = c[x] + d[s \ {x}]
  BY <1>4 DEF Adds
<1>6. Cardinality(s \ {x}) = n - 1 /\ n - 1 \in Nat
  <2>1. IsFiniteSet(s) /\ IsFiniteSet(s \ {x})
    BY FS_Subset
  <2>2. Cardinality(s \ {x}) = n - 1 /\ Cardinality(s \ {x}) \in Nat
    BY <1>3, <2>1, FS_RemoveElement, FS_CardinalityType
  <2> QED
    BY <2>2
<1>7. s \ {x} \in SUBSET S /\ f[s \ {x}] # d[s \ {x}]
  BY <1>3, <1>5
<1>8. n - 1 \in Bad
  BY <1>6, <1>7
<1> HIDE DEF Bad
<1> QED
  BY <1>2, <1>3, <1>8

Union(part, s) == UNION {part[x] : x \in s}

LEMMA PartsAdd ==
  ASSUME NEW S, IsFiniteSet(S), NEW part, \A x \in S : IsFiniteSet(part[x]),
         \A x, y \in S : x # y => part[x] \cap part[y] = {}
  PROVE  /\ \A s \in SUBSET S : IsFiniteSet(s) /\ IsFiniteSet(Union(part, s))
         /\ \A s \in SUBSET S : \A x \in s :
               Cardinality(Union(part, s)) = Cardinality(part[x]) + Cardinality(Union(part, s \ {x}))
<1>1. \A s \in SUBSET S : IsFiniteSet(s)
  BY FS_Subset
<1>2. ASSUME NEW s \in SUBSET S PROVE IsFiniteSet(Union(part, s))
  <2> DEFINE g == [x \in s |-> part[x]]
             T == {g[x] : x \in s}
  <2>1. g \in Surjection(s, T)
    BY DEF Surjection
  <2>2. \A t \in T : IsFiniteSet(t)
    OBVIOUS
  <2>3. T = {part[x] : x \in s}
    OBVIOUS
  <2> HIDE DEF g, T
  <2>4. IsFiniteSet(T)
    BY <1>1, <2>1, FS_Surjection
  <2> QED
    BY <2>2, <2>3, <2>4, FS_UNION DEF Union
<1>3. ASSUME NEW s \in SUBSET S, NEW x \in s
      PROVE  Cardinality(Union(part, s)) = Cardinality(part[x]) + Cardinality(Union(part, s \ {x}))
  <2> DEFINE A == part[x]
             B == Union(part, s \ {x})
  <2>1. Union(part, s) = A \cup B /\ A \cap B = {}
    BY DEF Union
  <2>2. IsFiniteSet(A) /\ IsFiniteSet(B)
    BY <1>2
  <2> HIDE DEF A, B
  <2>3. Cardinality(A \cup B) = Cardinality(A) + Cardinality(B) - Cardinality(A \cap B)
    BY <2>2, FS_Union
  <2>4. Cardinality(A \cap B) = 0 /\ Cardinality(A) \in Nat /\ Cardinality(B) \in Nat
    BY <2>1, <2>2, FS_EmptySet, FS_CardinalityType
  <2> QED
    BY <2>1, <2>3, <2>4 DEF A, B
<1> QED
  BY <1>1, <1>2, <1>3

LEMMA SumCounts ==
  ASSUME NEW c, NEW part, IsFiniteSet(DOMAIN c),
         \A x \in DOMAIN c : IsFiniteSet(part[x]) /\ c[x] = Cardinality(part[x]),
         \A x, y \in DOMAIN c : x # y => part[x] \cap part[y] = {}
  PROVE  SumFunction(c) = Cardinality(Union(part, DOMAIN c))
<1> DEFINE S == DOMAIN c
           p == [s \in SUBSET S |-> CHOOSE x \in s : TRUE]
           d == [s \in SUBSET S |-> Cardinality(Union(part, s))]
           f == CHOOSE g : g = [s \in SUBSET S |->
                                  IF s = {} THEN 0
                                  ELSE c[CHOOSE x \in s : TRUE] + g[s \ {CHOOSE x \in s : TRUE}]]
<1>1. SumFunction(c) = f[S]
  BY DEF SumFunction, SumFunctionOnSet, FoldFunctionOnSet, MapThenFoldSet
<1>2. /\ \A s \in SUBSET S : IsFiniteSet(s) /\ IsFiniteSet(Union(part, s))
      /\ \A s \in SUBSET S : \A x \in s :
            Cardinality(Union(part, s)) = Cardinality(part[x]) + Cardinality(Union(part, s \ {x}))
  BY PartsAdd
<1>3. \A s \in SUBSET S : p[s] = CHOOSE x \in s : TRUE
  OBVIOUS
<1>4. \A s \in SUBSET S : s # {} => p[s] \in s
  OBVIOUS
<1> HIDE DEF p
<1>5. d[{}] = 0 /\ d \in [SUBSET S -> Nat] /\ d[S] = Cardinality(Union(part, S))
  <2>1. Union(part, {}) = {}
    BY DEF Union
  <2> QED
    BY <1>2, <2>1, FS_EmptySet, FS_CardinalityType
<1>6. \A s \in SUBSET S : s # {} => d[s] = c[p[s]] + d[s \ {p[s]}]
  BY <1>2, <1>4
<1>7. d = [s \in SUBSET S |-> IF s = {} THEN 0
                              ELSE c[CHOOSE x \in s : TRUE] + d[s \ {CHOOSE x \in s : TRUE}]]
  BY <1>3, <1>5, <1>6
<1>8. f = [s \in SUBSET S |-> IF s = {} THEN 0
                              ELSE c[CHOOSE x \in s : TRUE] + f[s \ {CHOOSE x \in s : TRUE}]]
  BY <1>7
<1> HIDE DEF d, f
<1>9. Adds(S, c, p, d)
  BY <1>4, <1>5, <1>6 DEF Adds
<1>10. Adds(S, c, p, f)
  <2>1. f[{}] = 0
    BY <1>8
  <2>2. \A s \in SUBSET S : s # {} => f[s] = c[p[s]] + f[s \ {p[s]}]
    BY <1>3, <1>8
  <2> QED
    BY <1>4, <2>1, <2>2 DEF Adds
<1>11. f[S] = d[S]
  <2> HIDE DEF S
  <2>1. IsFiniteSet(S)
    BY DEF S
  <2> QED
    BY <1>9, <1>10, <2>1, OneSum
<1> QED
  BY <1>1, <1>5, <1>11

-----------------------------------------------------------------------------
(* Rows in the order of their time and file                                *)

Dated(g) ==
    /\ IsFiniteSet(g) /\ \A r \in g : r.at \in Nat /\ r.file \in Nat
    /\ \A r, s \in g : r.file = s.file => r = s

LEMMA DatedSubset ==
  ASSUME NEW g, Dated(g), NEW h, h \subseteq g PROVE Dated(h)
BY FS_Subset DEF Dated

LEMMA LaterOrders ==
  ASSUME NEW g, Dated(g)
  PROVE  /\ \A a \in g : ~Later(a, a)
         /\ \A a, b, c \in g : Later(a, b) /\ Later(b, c) => Later(a, c)
         /\ \A a, b \in g : a # b => Later(a, b) \/ Later(b, a)
         /\ \A a, b \in g : Later(a, b) => ~Later(b, a)
BY DEF Dated, Later

Behind(g, r) == Cardinality({s \in g : Later(r, s)})

LEMMA BehindIsOnes ==
  ASSUME NEW g, Dated(g), NEW a \in g, NEW b \in g, Behind(g, a) = Behind(g, b)
  PROVE  a = b
<1>1. ASSUME NEW x \in g, NEW y \in g, Later(x, y) PROVE Behind(g, x) # Behind(g, y)
  <2> DEFINE X == {s \in g : Later(x, s)}
             Y == {s \in g : Later(y, s)}
  <2>1. Y \subseteq X
    BY <1>1, LaterOrders
  <2>2. y \in X /\ y \notin Y
    BY <1>1, LaterOrders
  <2>3. IsFiniteSet(X)
    BY FS_Subset DEF Dated
  <2>4. Behind(g, x) = Cardinality(X) /\ Behind(g, y) = Cardinality(Y)
    BY DEF Behind
  <2> HIDE DEF X, Y
  <2> QED
    BY <2>1, <2>2, <2>3, <2>4, FS_Subset
<1> QED
  BY <1>1, LaterOrders

LEMMA BehindIsAny ==
  ASSUME NEW g, Dated(g)
  PROVE  /\ Cardinality(g) \in Nat
         /\ \A r \in g : Behind(g, r) \in 0 .. Cardinality(g) - 1
         /\ \A k \in 0 .. Cardinality(g) - 1 : \E r \in g : Behind(g, r) = k
<1> DEFINE n == Cardinality(g)
           f == [r \in g |-> Behind(g, r)]
<1>1. n \in Nat /\ IsFiniteSet(g)
  BY FS_CardinalityType DEF Dated
<1>2. ASSUME NEW r \in g PROVE Behind(g, r) \in 0 .. n - 1
  <2> DEFINE B == {s \in g : Later(r, s)}
  <2>1. B \subseteq g /\ r \notin B /\ B # g
    BY LaterOrders
  <2>2. Behind(g, r) = Cardinality(B)
    BY DEF Behind
  <2> HIDE DEF B
  <2>3. Cardinality(B) <= n /\ Cardinality(B) # n /\ IsFiniteSet(B)
    BY <1>1, <2>1, FS_Subset
  <2>4. Cardinality(B) \in Nat
    BY <2>3, FS_CardinalityType
  <2> QED
    BY <1>1, <2>2, <2>3, <2>4
<1>3. f \in [g -> 0 .. n - 1] /\ \A a, b \in g : f[a] = f[b] => a = b
  BY <1>2, BehindIsOnes
<1>4. f \in Injection(g, 0 .. n - 1)
  BY <1>3 DEF Injection, IsInjective
<1>5. IsFiniteSet(0 .. n - 1) /\ Cardinality(0 .. n - 1) = n
  <2>1. 0 \in Int /\ n - 1 \in Int
    BY <1>1
  <2> HIDE DEF n
  <2> QED
    BY <1>1, <2>1, FS_Interval
<1>6. f \in Surjection(g, 0 .. n - 1)
  <2> HIDE DEF f
  <2> QED
    BY <1>4, <1>5, FS_Injection
<1> QED
  BY <1>1, <1>2, <1>6 DEF Surjection

LEMMA NewestIs ==
  ASSUME NEW g, Dated(g), g # {}
  PROVE  Newest(g) \in g /\ \A s \in g \ {Newest(g)} : Later(Newest(g), s)
<1> DEFINE n == Cardinality(g)
<1>1. n \in Nat /\ n # 0 /\ IsFiniteSet(g)
  BY BehindIsAny, FS_EmptySet DEF Dated
<1>2. PICK r \in g : Behind(g, r) = n - 1
  <2>1. n - 1 \in 0 .. n - 1
    BY <1>1
  <2> QED
    BY <2>1, BehindIsAny
<1>3. \A s \in g \ {r} : Later(r, s)
  <2> DEFINE B == {s \in g : Later(r, s)}
  <2>1. B \subseteq g \ {r} /\ Cardinality(B) = n - 1
    BY <1>2, LaterOrders DEF Behind
  <2>2. IsFiniteSet(g \ {r}) /\ Cardinality(g \ {r}) = n - 1
    BY <1>1, FS_RemoveElement
  <2>3. B = g \ {r}
    <3> HIDE DEF B
    <3> QED
      BY <2>1, <2>2, FS_Subset
  <2> QED
    BY <2>3
<1> QED
  BY <1>3 DEF Newest

LEMMA InOrderIs ==
  ASSUME NEW g, Dated(g)
  PROVE  /\ DOMAIN InOrder(g) = 1 .. Cardinality(g) /\ Cardinality(g) \in Nat
         /\ Len(InOrder(g)) = Cardinality(g)
         /\ \A n \in 1 .. Cardinality(g) :
               InOrder(g)[n] \in g /\ Behind(g, InOrder(g)[n]) = n - 1
<1> DEFINE N == Cardinality(g)
           s == InOrder(g)
<1>1. N \in Nat
  BY BehindIsAny
<1>2. s = [n \in 1 .. N |-> CHOOSE r \in g : Behind(g, r) = n - 1]
  BY DEF InOrder, Behind
<1>3. ASSUME NEW n \in 1 .. N PROVE s[n] \in g /\ Behind(g, s[n]) = n - 1
  <2>1. n - 1 \in 0 .. N - 1
    BY <1>1
  <2>2. \E r \in g : Behind(g, r) = n - 1
    BY <2>1, BehindIsAny
  <2>3. s[n] = CHOOSE r \in g : Behind(g, r) = n - 1
    BY <1>2
  <2> QED
    BY <2>2, <2>3
<1> HIDE DEF s
<1>4. s \in [1 .. N -> g]
  <2> HIDE DEF N
  <2> QED
    BY <1>2, <1>3
<1>5. Len(s) = N
  <2> HIDE DEF N
  <2> QED
    BY <1>1, <1>4, SeqDef
<1> QED
  BY <1>1, <1>2, <1>3, <1>5 DEF s

-----------------------------------------------------------------------------
(* Folding, and the failures of what is folded                             *)

Group(rows, i) == {s \in rows : s.id = i}

LEMMA FoldIs ==
  ASSUME NEW rows
  PROVE  /\ Fold(rows) = {[row |-> Newest(Group(rows, i)), files |-> {r.file : r \in Group(rows, i)}] :
                            i \in {r.id : r \in rows}}
         /\ Folded(rows) = {Newest(Group(rows, i)) : i \in {r.id : r \in rows}}
<1>1. Fold(rows) = {[row |-> Newest(Group(rows, i)), files |-> {r.file : r \in Group(rows, i)}] :
                      i \in {r.id : r \in rows}}
  BY DEF Fold, GroupBy, Group
<1>2. Folded(rows) = {Newest(Group(rows, i)) : i \in {r.id : r \in rows}}
  <2> DEFINE E(i) == [row |-> Newest(Group(rows, i)), files |-> {r.file : r \in Group(rows, i)}]
             I == {r.id : r \in rows}
  <2>1. Folded(rows) = {e.row : e \in {E(i) : i \in I}}
    BY <1>1 DEF Folded
  <2>2. \A i \in I : E(i).row = Newest(Group(rows, i))
    OBVIOUS
  <2> HIDE DEF E, I
  <2>3. {e.row : e \in {E(i) : i \in I}} = {E(i).row : i \in I}
    OBVIOUS
  <2>4. {E(i).row : i \in I} = {Newest(Group(rows, i)) : i \in I}
    BY <2>2
  <2> QED
    BY <2>1, <2>3, <2>4 DEF I
<1> QED
  BY <1>1, <1>2

\* One row for each id, the newest that has it.
LEMMA FoldedIs ==
  ASSUME NEW rows, Dated(rows)
  PROVE  /\ \A a \in Folded(rows) : a \in rows /\ a = Newest(Group(rows, a.id))
         /\ \A r \in rows : LET n == Newest(Group(rows, r.id))
                            IN  n \in Folded(rows) /\ n.id = r.id /\ ~Later(r, n)
         /\ \A a, b \in Folded(rows) : a.id = b.id => a = b
<1>1. ASSUME NEW r \in rows
      PROVE  LET n == Newest(Group(rows, r.id))
             IN  n \in Folded(rows) /\ n.id = r.id /\ ~Later(r, n) /\ n \in rows
  <2> DEFINE g == Group(rows, r.id)
             n == Newest(g)
  <2>1. g \subseteq rows /\ r \in g /\ \A s \in g : s.id = r.id
    BY DEF Group
  <2>2. n \in Folded(rows)
    BY FoldIs
  <2> HIDE DEF g
  <2>3. Dated(g) /\ g # {}
    BY <2>1, DatedSubset
  <2>4. n \in g /\ \A s \in g \ {n} : Later(n, s)
    BY <2>3, NewestIs
  <2>5. ~Later(r, n)
    BY <2>1, <2>3, <2>4, LaterOrders
  <2> QED
    BY <2>1, <2>2, <2>4, <2>5 DEF g
<1>2. ASSUME NEW a \in Folded(rows) PROVE a \in rows /\ a = Newest(Group(rows, a.id))
  <2>1. PICK r \in rows : a = Newest(Group(rows, r.id))
    BY FoldIs
  <2> QED
    BY <1>1, <2>1
<1> QED
  BY <1>1, <1>2

LEMMA FoldedCounts ==
  ASSUME NEW rows, Dated(rows)
  PROVE  IsFiniteSet(Folded(rows)) /\ Cardinality(Folded(rows)) = Cardinality({r.id : r \in rows})
<1> DEFINE I == {r.id : r \in rows}
           F == Folded(rows)
           f == [a \in F |-> a.id]
<1>1. IsFiniteSet(F)
  BY FoldedIs, FS_Subset DEF Dated
<1>2. f \in [F -> I] /\ (\A a, b \in F : f[a] = f[b] => a = b) /\ \A i \in I : \E a \in F : f[a] = i
  BY FoldedIs
<1>3. f \in Bijection(F, I)
  <2> HIDE DEF f, F, I
  <2> QED
    BY <1>2 DEF Bijection, Injection, Surjection, IsInjective
<1> HIDE DEF f, F, I
<1>4. Cardinality(F) = Cardinality(I)
  BY <1>1, <1>3, FS_Bijection DEF ExistsBijection
<1> QED
  BY <1>1, <1>4 DEF F, I

\* Rows of results.
Filled(rows) ==
    /\ Dated(rows)
    /\ \A r \in rows : Shaped(r.claims) /\ \A i \in DOMAIN r.claims : DOMAIN r.claims[i].checks \subseteq CheckKinds

EventOf(r, i, k) ==
    [row |-> r, index |-> i, check |-> k, statement |-> r.claims[i].statement,
     fingerprint |-> r.claims[i].fingerprint, status |-> r.claims[i].checks[k],
     tampered |-> Tampered(r)]

\* Where a row fails: claims and checks.
Failing(r) == {p \in (DOMAIN r.claims) \X CheckKinds : p[2] \in FailuresOf(r.claims[p[1]])}

LEMMA FailingIs ==
  ASSUME NEW rows, Filled(rows), NEW r \in rows
  PROVE  /\ \A i \in DOMAIN r.claims : \A k \in FailuresOf(r.claims[i]) : <<i, k>> \in Failing(r)
         /\ \A p \in Failing(r) : /\ p[1] \in DOMAIN r.claims /\ p[2] \in FailuresOf(r.claims[p[1]])
                                  /\ p = <<p[1], p[2]>>
         /\ Failing(r) = UNION {{<<i, k>> : k \in FailuresOf(r.claims[i])} : i \in DOMAIN r.claims}
<1>1. ASSUME NEW i \in DOMAIN r.claims, NEW k \in FailuresOf(r.claims[i]) PROVE <<i, k>> \in Failing(r)
  <2>1. k \in CheckKinds
    BY DEF Filled, FailuresOf
  <2> HIDE DEF CheckKinds, FailuresOf
  <2> QED
    BY <2>1 DEF Failing
<1>2. ASSUME NEW p \in Failing(r)
      PROVE  p[1] \in DOMAIN r.claims /\ p[2] \in FailuresOf(r.claims[p[1]]) /\ p = <<p[1], p[2]>>
  BY DEF Failing
<1> QED
  BY <1>1, <1>2

LEMMA EventsAre ==
  ASSUME NEW rows
  PROVE  FailureEvents(rows) = UNION {{EventOf(r, p[1], p[2]) : p \in Failing(r)} : r \in Folded(rows)}
BY DEF FailureEvents, EventOf, Failing

LEMMA EventIs ==
  ASSUME NEW rows, NEW e \in FailureEvents(rows)
  PROVE  /\ e.row \in Folded(rows) /\ <<e.index, e.check>> \in Failing(e.row)
         /\ e = EventOf(e.row, e.index, e.check)
<1>1. PICK r \in Folded(rows) : e \in {EventOf(r, p[1], p[2]) : p \in Failing(r)}
  BY EventsAre
<1>2. PICK p \in Failing(r) : e = EventOf(r, p[1], p[2])
  BY <1>1
<1>3. e.row = r /\ e.index = p[1] /\ e.check = p[2]
  BY <1>2 DEF EventOf
<1>4. p = <<p[1], p[2]>>
  BY DEF Failing
<1> QED
  BY <1>2, <1>3, <1>4

LEMMA IsEvent ==
  ASSUME NEW rows, NEW r \in Folded(rows), NEW i, NEW k, <<i, k>> \in Failing(r)
  PROVE  EventOf(r, i, k) \in FailureEvents(rows)
<1>1. PICK p \in Failing(r) : p = <<i, k>>
  OBVIOUS
<1>2. p[1] = i /\ p[2] = k
  BY <1>1
<1>3. EventOf(r, i, k) \in {EventOf(r, q[1], q[2]) : q \in Failing(r)}
  BY <1>2
<1> QED
  BY <1>3, EventsAre

LEMMA KindsFinite == IsFiniteSet(CheckKinds)
<1> DEFINE s == <<"citation", "number", "range", "date", "hash", "signature", "link",
                  "commit", "fileChanged", "diffContains", "schema", "version", "file",
                  "receipt", "artifact">>
           f == [n \in 1 .. 15 |-> s[n]]
<1>1. IsFiniteSet(1 .. 15)
  <2>1. PICK n \in Nat : n = 15
    OBVIOUS
  <2>2. IsFiniteSet(1 .. n)
    BY FS_Interval
  <2> QED
    BY <2>1, <2>2
<1>2. \A k \in CheckKinds : \E n \in 1 .. 15 : f[n] = k
  BY DEF CheckKinds
<1>3. \A n \in 1 .. 15 : f[n] \in CheckKinds
  BY DEF CheckKinds
<1> HIDE DEF f
<1>4. f \in Surjection(1 .. 15, CheckKinds)
  BY <1>2, <1>3 DEF Surjection, f
<1> QED
  BY <1>1, <1>4, FS_Surjection

LEMMA FailingFinite ==
  ASSUME NEW rows, Filled(rows), NEW r \in rows
  PROVE  IsFiniteSet(Failing(r))
<1>1. DOMAIN r.claims = 1 .. Len(r.claims) /\ Len(r.claims) \in Nat
  BY DEF Filled, Shaped
<1>2. IsFiniteSet(DOMAIN r.claims)
  BY <1>1, FS_Interval
<1>3. IsFiniteSet((DOMAIN r.claims) \X CheckKinds)
  BY <1>2, KindsFinite, FS_Product
<1>4. Failing(r) \subseteq (DOMAIN r.claims) \X CheckKinds
  BY DEF Failing
<1> QED
  BY <1>3, <1>4, FS_Subset

EventsIn(r) == {EventOf(r, p[1], p[2]) : p \in Failing(r)}

LEMMA EventsInCount ==
  ASSUME NEW rows, Filled(rows), NEW r \in rows
  PROVE  IsFiniteSet(EventsIn(r)) /\ Cardinality(EventsIn(r)) = Cardinality(Failing(r))
<1> DEFINE P == Failing(r)
           T == EventsIn(r)
           f == [p \in P |-> EventOf(r, p[1], p[2])]
<1>1. IsFiniteSet(P) /\ \A p \in P : p = <<p[1], p[2]>>
  BY FailingFinite, FailingIs
<1>2. \A p \in P : f[p].index = p[1] /\ f[p].check = p[2]
  BY DEF EventOf
<1>3. \A p, q \in P : f[p] = f[q] => p = q
  BY <1>1, <1>2
<1>4. f \in [P -> T] /\ \A t \in T : \E p \in P : f[p] = t
  BY DEF EventsIn
<1> HIDE DEF f, P, T
<1>5. f \in Bijection(P, T)
  BY <1>3, <1>4 DEF Bijection, Injection, Surjection, IsInjective
<1> QED
  BY <1>1, <1>5, FS_Bijection DEF ExistsBijection, P, T

LEMMA EventsCount ==
  ASSUME NEW rows, Filled(rows)
  PROVE  /\ IsFiniteSet(FailureEvents(rows))
         /\ Cardinality(FailureEvents(rows)) = SumFunction([r \in Folded(rows) |-> Cardinality(Failing(r))])
<1> DEFINE F == Folded(rows)
           c == [r \in F |-> Cardinality(Failing(r))]
           part == [r \in F |-> EventsIn(r)]
<1>1. IsFiniteSet(F) /\ F \subseteq rows
  BY FoldedIs, FoldedCounts DEF Filled
<1>2. \A r \in F : IsFiniteSet(part[r]) /\ c[r] = Cardinality(part[r])
  BY <1>1, EventsInCount
<1>3. \A x, y \in F : x # y => part[x] \cap part[y] = {}
  <2>1. \A x \in F : \A e \in part[x] : e.row = x
    BY DEF EventsIn, EventOf
  <2> HIDE DEF part
  <2> QED
    BY <2>1
<1>4. DOMAIN c = F
  OBVIOUS
<1>5. Union(part, F) = FailureEvents(rows)
  <2>1. FailureEvents(rows) = UNION {EventsIn(r) : r \in F}
    BY EventsAre DEF EventsIn
  <2>2. {part[r] : r \in F} = {EventsIn(r) : r \in F}
    OBVIOUS
  <2> HIDE DEF part
  <2> QED
    BY <2>1, <2>2 DEF Union
<1> HIDE DEF F, part
<1>6. SumFunction(c) = Cardinality(Union(part, F))
  <2>1. IsFiniteSet(DOMAIN c)
    BY <1>1, <1>4
  <2> HIDE DEF c
  <2>2. /\ \A x \in DOMAIN c : IsFiniteSet(part[x]) /\ c[x] = Cardinality(part[x])
        /\ \A x, y \in DOMAIN c : x # y => part[x] \cap part[y] = {}
    BY <1>2, <1>3, <1>4
  <2>3. SumFunction(c) = Cardinality(Union(part, DOMAIN c))
    BY <2>1, <2>2, SumCounts
  <2> QED
    BY <1>4, <2>3
<1>7. IsFiniteSet(Union(part, F))
  <2>1. \A r \in F : IsFiniteSet(part[r])
    BY <1>2
  <2> QED
    BY <1>1, <1>3, <2>1, PartsAdd
<1> QED
  BY <1>5, <1>6, <1>7 DEF F

\* buildSummary's counts by check are counts of the events.
LEMMA ChecksCount ==
  ASSUME NEW rows, Filled(rows)
  PROVE  SumFunction(Summary(rows).failures) = Cardinality(FailureEvents(rows))
<1> DEFINE E == FailureEvents(rows)
           K == {e.check : e \in E}
           c == [k \in K |-> Cardinality({e \in E : e.check = k})]
           part == [k \in K |-> {e \in E : e.check = k}]
<1>1. Summary(rows).failures = c
  BY DEF Summary
<1>2. IsFiniteSet(E)
  BY EventsCount
<1>3. IsFiniteSet(K)
  <2> DEFINE f == [e \in E |-> e.check]
  <2>1. f \in Surjection(E, K)
    BY DEF Surjection
  <2> HIDE DEF E, K, f
  <2> QED
    BY <1>2, <2>1, FS_Surjection
<1>4. \A k \in K : IsFiniteSet(part[k]) /\ c[k] = Cardinality(part[k])
  BY <1>2, FS_Subset
<1>5. \A x, y \in K : x # y => part[x] \cap part[y] = {}
  OBVIOUS
<1>6. DOMAIN c = K
  OBVIOUS
<1>7. Union(part, K) = E
  <2>1. \A k \in K : part[k] = {e \in E : e.check = k}
    OBVIOUS
  <2>2. \A e \in E : e.check \in K
    OBVIOUS
  <2> HIDE DEF part, K, E
  <2>3. Union(part, K) \subseteq E
    BY <2>1 DEF Union
  <2>4. ASSUME NEW e \in E PROVE e \in Union(part, K)
    <3>1. e \in part[e.check] /\ e.check \in K
      BY <2>1, <2>2
    <3> QED
      BY <3>1 DEF Union
  <2> QED
    BY <2>3, <2>4
<1> HIDE DEF c, part, K
<1>8. SumFunction(c) = Cardinality(Union(part, DOMAIN c))
  BY <1>3, <1>4, <1>5, <1>6, SumCounts
<1> QED
  BY <1>1, <1>6, <1>7, <1>8

-----------------------------------------------------------------------------
(* The rows of the receipts                                                *)

RowOf(x, f, now, repo) ==
    [file |-> f, id |-> x.body.receiptId, at |-> x.body.verifiedAt, verdict |-> x.body.verdict,
     surface |-> x.body.surface, input |-> x.body.input, commit |-> x.body.commit,
     claims |-> x.body.results, unreachable |-> x.body.unreachable,
     integrity |-> Replay(x, now, repo)]

LEMMA RowsAre ==
  ASSUME NEW dir, NEW now, NEW repo
  PROVE  Rows(dir, now, repo)
           = {RowOf(dir[f], f, now, repo) : f \in {f \in DOMAIN dir : IsReceipt(dir[f])}}
BY DEF Rows, RowOf

\* The receipts, or some of them.
Holding(dir) == DOMAIN dir = Outs /\ \A o \in Outs : IsReceipt(dir[o]) => dir[o] = receipts[o]

RowRight(r) ==
    LET x == receipts[r.file]
    IN  /\ r.file \in Outs /\ IsReceipt(x) /\ r = RowOf(x, r.file, Now, world.repo)
        /\ SealedRight(written[r.file]) /\ Kept(x, written[r.file])
        /\ r.id = x.body.receiptId /\ r.at = x.body.verifiedAt /\ r.verdict = x.body.verdict
        /\ r.input = x.body.input /\ r.claims = x.body.results
        /\ r.integrity = Replay(x, Now, world.repo)

LEMMA RowsAreRight ==
  ASSUME ReceiptsInv, NEW dir, Holding(dir), NEW r \in Dir(dir)
  PROVE  RowRight(r) /\ IsReceipt(dir[r.file])
<1>1. PICK f \in DOMAIN dir : IsReceipt(dir[f]) /\ r = RowOf(dir[f], f, Now, world.repo)
  BY RowsAre DEF Dir
<1>2. f \in Outs /\ dir[f] = receipts[f]
  BY <1>1 DEF Holding
<1>3. PICK x : x = receipts[f]
  OBVIOUS
<1>4. r = RowOf(x, f, Now, world.repo) /\ r.file = f
  BY <1>1, <1>2, <1>3 DEF RowOf
<1>5. /\ r.id = x.body.receiptId /\ r.at = x.body.verifiedAt /\ r.verdict = x.body.verdict
      /\ r.input = x.body.input /\ r.claims = x.body.results
      /\ r.integrity = Replay(x, Now, world.repo)
  BY <1>4 DEF RowOf
<1>6. IsReceipt(x) /\ SealedRight(written[f]) /\ Kept(x, written[f])
  BY <1>1, <1>2, <1>3 DEF ReceiptsInv
<1> QED
  BY <1>1, <1>2, <1>3, <1>4, <1>5, <1>6 DEF RowRight

LEMMA RowOfFile ==
  ASSUME NEW dir, Holding(dir), NEW o \in Outs, IsReceipt(dir[o])
  PROVE  \E r \in Dir(dir) : r.file = o /\ r = RowOf(receipts[o], o, Now, world.repo)
<1>1. RowOf(dir[o], o, Now, world.repo) \in Dir(dir)
  BY RowsAre DEF Dir, Holding
<1>2. RowOf(dir[o], o, Now, world.repo).file = o /\ dir[o] = receipts[o]
  BY DEF RowOf, Holding
<1> QED
  BY <1>1, <1>2

LEMMA RowsAreFilled ==
  ASSUME ProcInv, ReceiptsInv, NEW dir, Holding(dir)
  PROVE  Filled(Dir(dir))
<1> DEFINE rows == Dir(dir)
<1>1. \A r \in rows : RowRight(r)
  BY RowsAreRight
<1>2. \A r, s \in rows : r.file = s.file => r = s
  BY <1>1 DEF RowRight
<1>3. IsFiniteSet(rows)
  <2> DEFINE f == [r \in rows |-> r.file]
  <2>1. f \in [rows -> Outs] /\ \A r, s \in rows : f[r] = f[s] => r = s
    BY <1>1, <1>2 DEF RowRight
  <2> HIDE DEF f, rows
  <2>2. f \in Injection(rows, Outs)
    BY <2>1 DEF Injection, IsInjective
  <2> QED
    BY <2>2, EvidenceAssumption, FS_Injection
<1>4. ASSUME NEW r \in rows
      PROVE  /\ r.at \in Nat /\ r.file \in Nat
             /\ Shaped(r.claims) /\ \A i \in DOMAIN r.claims : DOMAIN r.claims[i].checks \subseteq CheckKinds
  <2> DEFINE x == receipts[r.file]
             w == written[r.file]
  <2>1. /\ r.file \in Outs /\ r.at = x.body.verifiedAt /\ r.claims = x.body.results
        /\ SealedRight(w) /\ Kept(x, w)
    BY <1>1 DEF RowRight
  <2>2. r.at = w.body.verifiedAt /\ (r.claims = w.body.results \/ r.claims = <<>>)
    BY <2>1 DEF Kept
  <2>3. w.body.verifiedAt \in Nat /\ ReadWhole(w.body.input, w.body.results)
    BY <2>1 DEF SealedRight, ProcInv
  <2> HIDE DEF x, w
  <2>4. /\ Shaped(w.body.results)
        /\ \A i \in DOMAIN w.body.results : DOMAIN w.body.results[i].checks \subseteq CheckKinds
    BY <2>3 DEF ReadWhole, ReadSoFar, Borne
  <2>5. Shaped(<<>>) /\ DOMAIN <<>> = {}
    BY DEF Shaped
  <2>6. r.file \in Nat
    BY <2>1, EvidenceAssumption
  <2> QED
    BY <2>2, <2>3, <2>4, <2>5, <2>6
<1> QED
  BY <1>2, <1>3, <1>4 DEF Filled, Dated

LEMMA DirHolds ==
  ASSUME ReceiptsInv
  PROVE  Holding(receipts) /\ \A o \in Outs : Holding([receipts EXCEPT ![o] = Null])
BY DEF ReceiptsInv, Holding, IsReceipt

\* The seal of a row holds just if nobody changed the receipt.
LEMMA TamperedIs ==
  ASSUME ReceiptsInv, NEW r, RowRight(r)
  PROVE  Tampered(r) <=> ~Untouched(r.file)
<1> DEFINE x == receipts[r.file]
<1>1. /\ r.file \in Outs /\ IsReceipt(x) /\ r.integrity = Replay(x, Now, world.repo)
  BY DEF RowRight
<1>2. ReplayExit(x, Now, world.repo) = 0 <=> Untouched(r.file)
  BY <1>1, ReplayTells DEF ReplayIsExact, OnDisk
<1>3. ReplayExit(x, Now, world.repo) = 0 <=>
         x.contentHash = x.body /\ x.body.receiptId = ReceiptId(x.body.input, x.body.verdict)
  BY <1>1, WhatReplaySays
<1> HIDE DEF x
<1>4. PICK p : p = Replay(x, Now, world.repo)
  OBVIOUS
<1>5. /\ p.contentHashOk <=> x.contentHash = x.body
      /\ p.receiptIdOk <=> x.body.receiptId = ReceiptId(x.body.input, x.body.verdict)
  BY <1>4 DEF Replay
<1>6. Tampered(r) <=> ~(p.contentHashOk /\ p.receiptIdOk)
  BY <1>1, <1>4 DEF Tampered
<1> QED
  BY <1>2, <1>3, <1>5, <1>6

-----------------------------------------------------------------------------
(* The counts                                                              *)

RowsHold(rows) == Filled(rows) /\ \A r \in rows : RowRight(r)

LEMMA DirsHold ==
  ASSUME ProcInv, ReceiptsInv, NEW dir, Holding(dir)
  PROVE  RowsHold(Dir(dir))
BY RowsAreFilled, RowsAreRight DEF RowsHold

LEMMA FoldCovers ==
  ASSUME NEW rows, Dated(rows), NEW r \in rows
  PROVE  \E e \in Fold(rows) : r.file \in e.files /\ ~Later(r, e.row)
<1> DEFINE n == Newest(Group(rows, r.id))
           fs == {s.file : s \in Group(rows, r.id)}
           e == [row |-> n, files |-> fs]
<1>1. e \in Fold(rows)
  BY FoldIs
<1>2. r.file \in fs
  BY DEF Group
<1>3. ~Later(r, n)
  BY FoldedIs
<1> HIDE DEF n, fs
<1> QED
  BY <1>1, <1>2, <1>3

LEMMA EventsPerRow ==
  ASSUME NEW rows, Filled(rows)
  PROVE  LET failedChecks(r) == UNION {{<<i, k>> : k \in FailuresOf(r.claims[i])} : i \in DOMAIN r.claims}
         IN  Cardinality(FailureEvents(rows))
               = SumFunction([r \in Folded(rows) |-> Cardinality(failedChecks(r))])
<1> DEFINE FC(r) == UNION {{<<i, k>> : k \in FailuresOf(r.claims[i])} : i \in DOMAIN r.claims}
<1>1. \A r \in Folded(rows) : FC(r) = Failing(r)
  BY FailingIs, FoldedIs DEF Filled
<1> HIDE DEF FC
<1>2. [r \in Folded(rows) |-> Cardinality(FC(r))] = [r \in Folded(rows) |-> Cardinality(Failing(r))]
  BY <1>1
<1>3. Cardinality(FailureEvents(rows)) = SumFunction([r \in Folded(rows) |-> Cardinality(FC(r))])
  BY <1>2, EventsCount
<1> QED
  BY <1>3 DEF FC

\* The index by check.
LEMMA IndexIs ==
  ASSUME NEW rows
  PROVE  IndexBy(rows, "check") = [k \in {e.check : e \in FailureEvents(rows)} |->
                                     {e \in FailureEvents(rows) : e.check = k}]
<1> DEFINE E == FailureEvents(rows)
           key(e) == IF "check" = "commit" THEN e.row.commit ELSE e["check"]
<1>1. \A e \in E : key(e) = e.check
  OBVIOUS
<1>2. IndexBy(rows, "check") = [k \in {key(e) : e \in E} |-> {e \in E : key(e) = k}]
  BY DEF IndexBy
<1> HIDE DEF E, key
<1>3. {key(e) : e \in E} = {e.check : e \in E}
  BY <1>1
<1>4. \A k : {e \in E : key(e) = k} = {e \in E : e.check = k}
  BY <1>1
<1> QED
  BY <1>2, <1>3, <1>4 DEF E

LEMMA ChecksAreIndexed ==
  ASSUME NEW rows
  PROVE  DOMAIN Summary(rows).failures = DOMAIN IndexBy(rows, "check")
<1>1. DOMAIN Summary(rows).failures = {e.check : e \in FailureEvents(rows)}
  BY DEF Summary
<1> QED
  BY <1>1, IndexIs

LEMMA FailedNameReasons ==
  ASSUME NEW rows, RowsHold(rows), NEW f \in FailedReceipts(rows), Untouched(f.row.file)
  PROVE  /\ f.affected # {}
         /\ \A k \in f.reasons : \E e \in IndexBy(rows, "check")[k] : e.row = f.row
<1>1. PICK r \in Folded(rows) : /\ r.verdict = "fail" /\ f.row = r
                                /\ f.reasons = UNION {FailuresOf(c) : c \in Range(r.claims)}
                                /\ f.affected = {i \in DOMAIN r.claims : FailuresOf(r.claims[i]) # {}}
  BY DEF FailedReceipts
<1>2. r \in rows /\ RowRight(r) /\ Filled(rows)
  BY FoldedIs DEF RowsHold, Filled
<1>3. f.affected # {}
  <2> DEFINE w == written[r.file]
  <2>1. /\ SealedRight(w) /\ r.verdict = w.body.verdict /\ r.claims = w.body.results
    BY <1>1, <1>2 DEF RowRight, Untouched
  <2>2. VerdictOfAll(r.claims) = "fail" /\ ReadWhole(w.body.input, r.claims)
    BY <1>1, <2>1 DEF SealedRight
  <2>3. PICK i \in DOMAIN r.claims : r.claims[i].verdict = "failed"
    BY <2>2 DEF VerdictOfAll
  <2>4. FailuresOf(r.claims[i]) # {}
    BY <2>2, <2>3 DEF ReadWhole, ReadSoFar, Borne
  <2> QED
    BY <1>1, <2>3, <2>4
<1>4. ASSUME NEW k \in f.reasons PROVE \E e \in IndexBy(rows, "check")[k] : e.row = f.row
  <2>1. PICK i \in DOMAIN r.claims : k \in FailuresOf(r.claims[i])
    BY <1>1 DEF Range
  <2>2. PICK e : e = EventOf(r, i, k)
    OBVIOUS
  <2>3. e \in FailureEvents(rows)
    BY <1>2, <2>1, <2>2, FailingIs, IsEvent
  <2>4. e.check = k /\ e.row = r
    BY <2>2 DEF EventOf
  <2>5. e \in IndexBy(rows, "check")[k]
    <3> DEFINE E == FailureEvents(rows)
               K == {d.check : d \in E}
    <3>1. e \in {d \in E : d.check = k} /\ k \in K
      BY <2>3, <2>4
    <3>2. IndexBy(rows, "check") = [l \in K |-> {d \in E : d.check = l}]
      BY IndexIs
    <3> HIDE DEF E, K
    <3> QED
      BY <3>1, <3>2
  <2> QED
    BY <1>1, <2>4, <2>5
<1> QED
  BY <1>3, <1>4

LEMMA SealedFilter ==
  ASSUME ReceiptsInv, NEW rows, RowsHold(rows), NEW e \in FailureEvents(rows)
  PROVE  Untouched(e.row.file) <=> e \in FilterFailures(FailureEvents(rows), Null, {}, Null, TRUE)
<1>1. e.row \in Folded(rows) /\ e.tampered = Tampered(e.row)
  <2>1. PICK d : d = EventOf(e.row, e.index, e.check)
    OBVIOUS
  <2>2. d.tampered = Tampered(e.row)
    BY <2>1 DEF EventOf
  <2> QED
    BY <2>1, <2>2, EventIs
<1>2. RowRight(e.row)
  BY <1>1, FoldedIs DEF RowsHold, Filled
<1>3. Tampered(e.row) <=> ~Untouched(e.row.file)
  BY <1>2, TamperedIs
<1>4. e \in FilterFailures(FailureEvents(rows), Null, {}, Null, TRUE) <=> ~e.tampered
  BY DEF FilterFailures
<1> QED
  BY <1>1, <1>3, <1>4

LEMMA FilterFilters ==
  ASSUME NEW events, NEW st, NEW sha \in DOMAIN Reports,
         NEW e \in FilterFailures(events, Null, {st}, sha, FALSE)
  PROVE  e.row.input = sha /\ e.status = st
BY ReportAssumption DEF FilterFailures

-----------------------------------------------------------------------------
(* The edges                                                               *)

\* An edge goes from a later row to an earlier one.
LEMMA EdgesAre ==
  ASSUME NEW rows, RowsHold(rows), NEW e \in ReceiptEdges(rows)
  PROVE  \E p, q \in Folded(rows) :
            /\ e.from = p.id /\ e.to = q.id /\ Later(p, q)
            /\ (e.type = "same_input" /\ e.tier = "verified") => p.integrity.inputMatch = TRUE
<1> DEFINE U == Folded(rows)
           pairs == {p \in U \X U : Later(p[1], p[2])}
           groups == GroupBy(U, LAMBDA r : r.input)
           tier(p) == IF p[1].integrity.inputMatch = TRUE /\ p[2].integrity.inputMatch = TRUE
                      THEN "verified" ELSE "reported"
           same == {[type |-> "same_input", from |-> p[1].id, to |-> p[2].id, tier |-> tier(p)] :
                      p \in {p \in pairs : p[1].input = p[2].input}}
           chain(g) == {[type |-> "reverifies", from |-> g[i + 1].id, to |-> g[i].id, tier |-> "reported"] :
                          i \in {i \in 1 .. Len(g) - 1 : g[i + 1].at > g[i].at}}
           commits == {[type |-> "same_commit", from |-> p[1].id, to |-> p[2].id, tier |-> "reported"] :
                         p \in {p \in pairs : p[1].commit # Null /\ p[1].commit = p[2].commit}}
<1>1. e \in same \/ (\E g \in groups : e \in chain(InOrder(g))) \/ e \in commits
  <2> DEFINE B == {InOrder(g) : g \in groups}
  <2>1. ReceiptEdges(rows) = (same \cup UNION {chain(h) : h \in B}) \cup commits
    BY DEF ReceiptEdges
  <2>2. \A h \in B : \E g \in groups : h = InOrder(g)
    OBVIOUS
  <2> HIDE DEF same, commits, groups, B
  <2>3. e \in same \/ e \in commits \/ \E h \in B : e \in chain(h)
    <3> DEFINE H == {chain(h) : h \in B}
    <3>1. ReceiptEdges(rows) = (same \cup UNION H) \cup commits
      BY <2>1
    <3>2. \A y \in H : \E h \in B : y = chain(h)
      OBVIOUS
    <3> HIDE DEF H, chain
    <3>3. e \in same \/ e \in commits \/ \E y \in H : e \in y
      BY <3>1
    <3> QED
      BY <3>2, <3>3
  <2> HIDE DEF chain
  <2> QED
    BY <2>2, <2>3
<1>2. CASE e \in same
  <2>1. PICK p \in pairs : e = [type |-> "same_input", from |-> p[1].id, to |-> p[2].id, tier |-> tier(p)]
    BY <1>2
  <2>2. /\ p[1] \in U /\ p[2] \in U /\ Later(p[1], p[2])
        /\ e.from = p[1].id /\ e.to = p[2].id /\ e.tier = tier(p)
    BY <2>1
  <2>3. tier(p) = "verified" => p[1].integrity.inputMatch = TRUE
    OBVIOUS
  <2> HIDE DEF tier, U
  <2> QED
    BY <2>2, <2>3 DEF U
<1>3. CASE \E g \in groups : e \in chain(InOrder(g))
  <2>1. PICK g \in groups : e \in chain(InOrder(g))
    BY <1>3
  <2>2. g \subseteq U /\ Dated(g) /\ \A r \in U : r.at \in Nat
    <3>1. g \subseteq U
      BY DEF GroupBy
    <3> HIDE DEF U
    <3> QED
      BY <3>1, FoldedIs, DatedSubset DEF RowsHold, Filled, Dated, U
  <2>3. PICK s : s = InOrder(g)
    OBVIOUS
  <2>4. PICK i \in 1 .. Len(s) - 1 : /\ s[i + 1].at > s[i].at
                                   /\ e = [type |-> "reverifies", from |-> s[i + 1].id, to |-> s[i].id,
                                           tier |-> "reported"]
    BY <2>1, <2>3
  <2> HIDE DEF U, groups
  <2>5. s[i] \in U /\ s[i + 1] \in U
    <3>1. Len(s) \in Nat /\ \A n \in 1 .. Len(s) : s[n] \in g
      BY <2>2, <2>3, InOrderIs
    <3>2. i \in 1 .. Len(s) /\ i + 1 \in 1 .. Len(s)
      BY <3>1
    <3> QED
      BY <2>2, <3>1, <3>2
  <2>6. e.from = s[i + 1].id /\ e.to = s[i].id /\ e.type = "reverifies" /\ Later(s[i + 1], s[i])
    BY <2>4 DEF Later
  <2> QED
    BY <2>5, <2>6 DEF U
<1>4. CASE e \in commits
  <2>1. PICK p \in pairs : e = [type |-> "same_commit", from |-> p[1].id, to |-> p[2].id, tier |-> "reported"]
    BY <1>4
  <2>2. /\ p[1] \in U /\ p[2] \in U /\ Later(p[1], p[2])
        /\ e.from = p[1].id /\ e.to = p[2].id /\ e.type = "same_commit"
    BY <2>1
  <2> HIDE DEF U
  <2> QED
    BY <2>2 DEF U
<1> QED
  BY <1>1, <1>2, <1>3, <1>4

\* ... whose input, when it was hashed again, is the report in its id.
LEMMA RehashedIs ==
  ASSUME ProcInv, NEW r, RowRight(r), r.integrity.inputMatch = TRUE
  PROVE  r.id[1] = Now
<1> DEFINE x == receipts[r.file]
           w == written[r.file]
<1>1. /\ SealedRight(w) /\ Kept(x, w) /\ r.id = x.body.receiptId
      /\ r.integrity = Replay(x, Now, world.repo)
  BY DEF RowRight
<1>2. Now \in DOMAIN Reports /\ Now # Null /\ Now # "elsewhere"
  BY ReportAssumption DEF ProcInv, Now
<1> HIDE DEF x, w, Now
<1>3. x.body.input = Now
  <2>1. PICK p : p = Replay(x, Now, world.repo)
    OBVIOUS
  <2>2. p.inputMatch = IF Now = Null THEN Null ELSE x.body.input = Now
    BY <2>1 DEF Replay
  <2>3. p.inputMatch = TRUE
    BY <1>1, <2>1
  <2> QED
    BY <1>2, <2>2, <2>3
<1>4. x.body.input = w.body.input /\ x.body.receiptId = ReceiptId(w.body.input, w.body.verdict)
  BY <1>1, <1>2, <1>3 DEF Kept, SealedRight
<1>5. r.id = <<Now, w.body.verdict>>
  BY <1>1, <1>3, <1>4 DEF ReceiptId
<1> QED
  BY <1>5

LEMMA EdgesClaimLittle ==
  ASSUME ProcInv, NEW rows, RowsHold(rows)
  PROVE  /\ \A e \in ReceiptEdges(rows) :
               e.from # e.to /\ (e.type = "same_input" /\ e.tier = "verified" => e.from[1] = Now)
         /\ \A e, f \in ReceiptEdges(rows) : <<e.from, e.to>> # <<f.to, f.from>>
<1> DEFINE E == ReceiptEdges(rows)
           U == Folded(rows)
<1>1. Dated(rows) /\ U \subseteq rows /\ \A a, b \in U : a.id = b.id => a = b
  BY FoldedIs DEF RowsHold, Filled
<1>2. \A a, b \in U : Later(a, b) => ~Later(b, a)
  <2> HIDE DEF U
  <2> QED
    BY <1>1, LaterOrders
<1>3. \A e \in E : \E p, q \in U :
         /\ e.from = p.id /\ e.to = q.id /\ Later(p, q)
         /\ (e.type = "same_input" /\ e.tier = "verified") => p.integrity.inputMatch = TRUE
  BY EdgesAre
<1>4. \A r \in U : r.integrity.inputMatch = TRUE => r.id[1] = Now
  <2> HIDE DEF U
  <2> QED
    BY <1>1, RehashedIs DEF RowsHold
<1> HIDE DEF E, U
<1>5. ASSUME NEW e \in E PROVE e.from # e.to /\ (e.type = "same_input" /\ e.tier = "verified" => e.from[1] = Now)
  BY <1>1, <1>2, <1>3, <1>4
<1>6. ASSUME NEW e \in E, NEW f \in E PROVE <<e.from, e.to>> # <<f.to, f.from>>
  <2>1. PICK p, q \in U : e.from = p.id /\ e.to = q.id /\ Later(p, q)
    BY <1>3
  <2>2. PICK r, s \in U : f.from = r.id /\ f.to = s.id /\ Later(r, s)
    BY <1>3
  <2> SUFFICES ASSUME e.from = f.to, e.to = f.from PROVE FALSE
    OBVIOUS
  <2>3. p = s /\ q = r
    BY <1>1, <2>1, <2>2
  <2> QED
    BY <1>2, <2>1, <2>2, <2>3
<1> QED
  BY <1>5, <1>6 DEF E

LEMMA CountsDoAddUp ==
  ASSUME ProcInv, ReceiptsInv, NEW rows, RowsHold(rows)
  PROVE  CountsAddUp(rows)
<1> DEFINE E == FailureEvents(rows)
           s == Summary(rows)
           FC(r) == UNION {{<<i, k>> : k \in FailuresOf(r.claims[i])} : i \in DOMAIN r.claims}
           edges == ReceiptEdges(rows)
<1>1. Filled(rows) /\ Dated(rows)
  BY DEF RowsHold, Filled
<1>2. s.total = Cardinality({r.id : r \in rows})
  <2>1. s.total = Cardinality(Folded(rows))
    BY DEF Summary
  <2> QED
    BY <1>1, <2>1, FoldedCounts
<1>3. \A r \in rows : \E e \in Fold(rows) : r.file \in e.files /\ ~Later(r, e.row)
  BY <1>1, FoldCovers
<1>4. Cardinality(E) = SumFunction([r \in Folded(rows) |-> Cardinality(FC(r))])
  BY <1>1, EventsPerRow
<1>5. SumFunction(s.failures) = Cardinality(E) /\ DOMAIN s.failures = DOMAIN IndexBy(rows, "check")
  BY <1>1, ChecksCount, ChecksAreIndexed
<1>6. \A f \in FailedReceipts(rows) :
         Untouched(f.row.file) =>
            f.affected # {} /\ \A k \in f.reasons : \E e \in IndexBy(rows, "check")[k] : e.row = f.row
  BY FailedNameReasons
<1>7. \A e \in E : Untouched(e.row.file) <=> e \in FilterFailures(E, Null, {}, Null, TRUE)
  BY SealedFilter
<1>8. \A st \in Failures, sha \in DOMAIN Reports :
         \A e \in FilterFailures(E, Null, {st}, sha, FALSE) : e.row.input = sha /\ e.status = st
  BY FilterFilters
<1>9. /\ \A e \in edges : e.from # e.to /\ (e.type = "same_input" /\ e.tier = "verified" => e.from[1] = Now)
      /\ \A e, f \in edges : {e.type, f.type} = {"reverifies"} => <<e.from, e.to>> # <<f.to, f.from>>
  BY EdgesClaimLittle
<1>10. CountsAddUp(rows) <=>
         /\ s.total = Cardinality({r.id : r \in rows})
         /\ \A r \in rows : \E e \in Fold(rows) : r.file \in e.files /\ ~Later(r, e.row)
         /\ Cardinality(E) = SumFunction([r \in Folded(rows) |-> Cardinality(FC(r))])
         /\ SumFunction(s.failures) = Cardinality(E)
         /\ DOMAIN s.failures = DOMAIN IndexBy(rows, "check")
         /\ \A f \in FailedReceipts(rows) :
               Untouched(f.row.file) =>
                  /\ f.affected # {}
                  /\ \A k \in f.reasons : \E e \in IndexBy(rows, "check")[k] : e.row = f.row
         /\ \A e \in E : Untouched(e.row.file) <=> e \in FilterFailures(E, Null, {}, Null, TRUE)
         /\ \A st \in Failures, sha \in DOMAIN Reports :
               \A e \in FilterFailures(E, Null, {st}, sha, FALSE) : e.row.input = sha /\ e.status = st
         /\ \A e \in edges : /\ e.from # e.to
                             /\ e.type = "same_input" /\ e.tier = "verified" => e.from[1] = Now
         /\ \A e, f \in edges : {e.type, f.type} = {"reverifies"} => <<e.from, e.to>> # <<f.to, f.from>>
  BY Zenon DEF CountsAddUp
<1> HIDE DEF E, s, FC, edges
<1> QED
  BY <1>2, <1>3, <1>4, <1>5, <1>6, <1>7, <1>8, <1>9, <1>10

-----------------------------------------------------------------------------
(* Comparing directories                                                   *)

Keys(rows, match) == {FailureKey(e, match) : e \in FailureEvents(rows)}

\* A comparison of all receipts, whatever their seals.
Diff(base, head, match) == GraphDiff(base, head, FALSE, match)
Fails(base, head, match) == DiffExit(base, head, FALSE, match) = 1

LEMMA DiffIs ==
  ASSUME NEW base, NEW head, NEW match
  PROVE  LET d == Diff(base, head, match)
             b == ByKey(FailureEvents(base), match)
             h == ByKey(FailureEvents(head), match)
         IN  /\ d.new = Keys(head, match) \ Keys(base, match)
             /\ d.resolved = Keys(base, match) \ Keys(head, match)
             /\ d.changed = {k \in Keys(base, match) \cap Keys(head, match) : b[k].status # h[k].status}
             /\ DOMAIN b = Keys(base, match) /\ DOMAIN h = Keys(head, match)
<1> DEFINE b == ByKey(FailureEvents(base), match)
           h == ByKey(FailureEvents(head), match)
           d == Diff(base, head, match)
<1>1. DOMAIN b = Keys(base, match) /\ DOMAIN h = Keys(head, match)
  BY DEF ByKey, Keys
<1>2. \A rows : {e \in FailureEvents(rows) : FALSE => ~e.tampered} = FailureEvents(rows)
  OBVIOUS
<1>3. /\ d.new = DOMAIN h \ DOMAIN b /\ d.resolved = DOMAIN b \ DOMAIN h
      /\ d.changed = {k \in DOMAIN b \cap DOMAIN h : b[k].status # h[k].status}
  BY <1>2 DEF GraphDiff, Diff
<1> HIDE DEF b, h, d
<1> QED
  BY <1>1, <1>3 DEF b, h, d

LEMMA FailsIs ==
  ASSUME NEW base, NEW head, NEW match, Fails(base, head, match)
  PROVE  Diff(base, head, match).new # {}
<1>1. DiffExit(base, head, FALSE, match) = IF Diff(base, head, match).new # {} THEN 1 ELSE 0
  BY Zenon DEF DiffExit, Diff
<1>2. DiffExit(base, head, FALSE, match) = 1
  BY Zenon DEF Fails
<1>3. PICK x : x = DiffExit(base, head, FALSE, match)
  OBVIOUS
<1>4. x = 1 /\ x = IF Diff(base, head, match).new # {} THEN 1 ELSE 0
  BY <1>1, <1>2, <1>3, Zenon
<1> QED
  BY <1>4

\* Rows of one id fold the same wherever the rows of that id are the same.
LEMMA SameGroupSameRow ==
  ASSUME NEW g, NEW h, Filled(g), Filled(h), NEW e \in FailureEvents(g), Group(g, e.row.id) = Group(h, e.row.id)
  PROVE  e \in FailureEvents(h)
<1>1. PICK a \in Folded(g) : a = e.row /\ <<e.index, e.check>> \in Failing(a) /\ e = EventOf(a, e.index, e.check)
  BY EventIs
<1>2. a \in g /\ a = Newest(Group(g, a.id))
  BY <1>1, FoldedIs DEF Filled
<1>3. a \in Group(g, a.id)
  BY <1>2 DEF Group
<1>4. a \in h
  BY <1>1, <1>3 DEF Group
<1>5. a \in Folded(h)
  <2>1. Newest(Group(h, a.id)) \in Folded(h)
    BY <1>4, FoldedIs DEF Filled
  <2> QED
    BY <1>1, <1>2, <2>1
<1> QED
  BY <1>1, <1>5, IsEvent

LEMMA OneMoreReceipt ==
  ASSUME ProcInv, ReceiptsInv, NEW o \in OnDisk, NEW i, i # receipts[o].body.receiptId
  PROVE  Group(Dir([receipts EXCEPT ![o] = Null]), i) = Group(Dir(receipts), i)
<1> DEFINE less == [receipts EXCEPT ![o] = Null]
<1>1. o \in Outs /\ IsReceipt(receipts[o]) /\ DOMAIN receipts = Outs /\ DOMAIN less = Outs
  BY DEF OnDisk, ReceiptsInv
<1>2. \A f \in Outs : f # o => less[f] = receipts[f]
  BY <1>1
<1>3. ~IsReceipt(less[o])
  BY <1>1 DEF IsReceipt
<1> HIDE DEF less
<1>4. \A dir : DOMAIN dir = Outs =>
         Dir(dir) = {RowOf(dir[f], f, Now, world.repo) : f \in {f \in Outs : IsReceipt(dir[f])}}
  BY RowsAre DEF Dir
<1>5. Dir(less) = {RowOf(receipts[f], f, Now, world.repo) : f \in {f \in Outs \ {o} : IsReceipt(receipts[f])}}
  BY <1>1, <1>2, <1>3, <1>4
<1>6. Dir(receipts) = Dir(less) \cup {RowOf(receipts[o], o, Now, world.repo)}
  BY <1>1, <1>4, <1>5
<1>7. RowOf(receipts[o], o, Now, world.repo).id # i
  BY DEF RowOf
<1> QED
  BY <1>6, <1>7 DEF Group, less

LEMMA OwnIdsResolve ==
  ASSUME ProcInv, ReceiptsInv PROVE OnlyOwnIdResolves
<1> SUFFICES ASSUME NEW o \in OnDisk
             PROVE  LET before == Dir([receipts EXCEPT ![o] = Null])
                        after == FailureEvents(Dir(receipts))
                    IN  /\ \A e \in FailureEvents(before) :
                              FailureKey(e, "fingerprint")
                                    \in Diff(before, Dir(receipts), "fingerprint").resolved
                                 => e.row.id = receipts[o].body.receiptId
                        /\ Fails(before, Dir(receipts), "statement") =>
                              \E e \in after : e.row.id = receipts[o].body.receiptId
  BY Zenon DEF OnlyOwnIdResolves, Diff, Fails
<1> DEFINE before == Dir([receipts EXCEPT ![o] = Null])
           now == Dir(receipts)
           id == receipts[o].body.receiptId
<1>1. Filled(before) /\ Filled(now)
  <2>1. o \in Outs
    BY DEF OnDisk
  <2> QED
    BY <2>1, DirHolds, RowsAreFilled
<1>2. \A i : i # id => Group(before, i) = Group(now, i)
  BY OneMoreReceipt
<1> HIDE DEF before, now, id
<1>3. \A e \in FailureEvents(before) : e.row.id # id => e \in FailureEvents(now)
  BY <1>1, <1>2, SameGroupSameRow
<1>4. \A e \in FailureEvents(now) : e.row.id # id => e \in FailureEvents(before)
  BY <1>1, <1>2, SameGroupSameRow
<1>5. ASSUME NEW e \in FailureEvents(before),
             FailureKey(e, "fingerprint") \in Diff(before, now, "fingerprint").resolved
      PROVE  e.row.id = id
  <2>1. FailureKey(e, "fingerprint") \notin Keys(now, "fingerprint")
    BY <1>5, DiffIs
  <2>2. e \notin FailureEvents(now)
    BY <2>1 DEF Keys
  <2> QED
    BY <1>3, <2>2
<1>6. ASSUME Fails(before, now, "statement")
      PROVE  \E e \in FailureEvents(now) : e.row.id = id
  <2>1. Diff(before, now, "statement").new # {}
    BY <1>6, FailsIs
  <2>2. PICK k \in Keys(now, "statement") : k \notin Keys(before, "statement")
    BY <2>1, DiffIs
  <2>3. PICK e \in FailureEvents(now) : k = FailureKey(e, "statement")
    BY <2>2 DEF Keys
  <2>4. e \notin FailureEvents(before)
    BY <2>2, <2>3 DEF Keys
  <2> QED
    BY <1>4, <2>3, <2>4
<1> QED
  BY <1>5, <1>6 DEF before, now, id

-----------------------------------------------------------------------------
(* The history of a claim                                                  *)

LEMMA GreatestIs ==
  ASSUME NEW N \in Nat, NEW P, P \subseteq 1 .. N, P # {}
  PROVE  \E m \in P : \A j \in P : j <= m
<1> DEFINE T == {n \in Nat : N - n \in P}
<1>1. T # {}
  <2>1. PICK p \in P : TRUE
    OBVIOUS
  <2>2. N - p \in Nat /\ N - (N - p) = p
    BY <2>1
  <2> QED
    BY <2>1, <2>2
<1>2. PICK x \in T : \A y \in T : x <= y
  <2>1. T \in SUBSET Nat
    OBVIOUS
  <2> HIDE DEF T
  <2> QED
    BY <1>1, <2>1, LeastNatural
<1>3. ASSUME NEW j \in P PROVE j <= N - x
  <2>1. N - j \in Nat /\ N - (N - j) = j
    OBVIOUS
  <2>2. x <= N - j
    BY <1>2, <2>1
  <2> QED
    BY <1>2, <2>2
<1> QED
  BY <1>2, <1>3

\* The claims of a row that have this fingerprint and fail this check.
At(r, fp, c) == {i \in DOMAIN r.claims : r.claims[i].fingerprint = fp /\ c \in FailuresOf(r.claims[i])}

\* Its failed checks under this fingerprint.
StateKeys(r, fp) == {<<fp, c>> : c \in {c \in CheckKinds : At(r, fp, c) # {}}}

LEMMA LastAt ==
  ASSUME NEW rows, Filled(rows), NEW r \in rows, NEW fp, NEW c, At(r, fp, c) # {}
  PROVE  \E m \in At(r, fp, c) : m \in Nat /\ \A j \in At(r, fp, c) : j \in Nat /\ j <= m
<1>1. DOMAIN r.claims = 1 .. Len(r.claims) /\ Len(r.claims) \in Nat
  BY DEF Filled, Shaped
<1>2. At(r, fp, c) \subseteq 1 .. Len(r.claims)
  BY <1>1 DEF At
<1>3. \E m \in At(r, fp, c) : \A j \in At(r, fp, c) : j <= m
  BY <1>1, <1>2, GreatestIs
<1> QED
  BY <1>2, <1>3

LEMMA StateShows ==
  ASSUME NEW rows, Filled(rows), NEW r \in rows, NEW fp
  PROVE  /\ DOMAIN FailState(r, fp) = StateKeys(r, fp)
         /\ \A c \in CheckKinds : \A m \in At(r, fp, c) :
               (\A j \in At(r, fp, c) : j <= m)
                  => FailState(r, fp)[<<fp, c>>].status = r.claims[m].checks[c]
<1> DEFINE with == {i \in DOMAIN r.claims : r.claims[i].fingerprint = fp}
           cs == UNION {FailuresOf(r.claims[i]) : i \in with}
           last(c) == CHOOSE i \in with : /\ c \in FailuresOf(r.claims[i])
                                          /\ \A j \in with : c \in FailuresOf(r.claims[j]) => j <= i
           D == {<<fp, c>> : c \in cs}
           val(k) == [status |-> r.claims[last(k[2])].checks[k[2]],
                      evidence |-> r.claims[last(k[2])].evidence[k[2]]]
<1>1. FailState(r, fp) = [k \in D |-> val(k)]
  BY DEF FailState
<1>2. cs = {c \in CheckKinds : At(r, fp, c) # {}}
  <2>1. \A i \in DOMAIN r.claims : FailuresOf(r.claims[i]) \subseteq CheckKinds
    BY DEF Filled, FailuresOf
  <2> HIDE DEF CheckKinds
  <2> QED
    BY <2>1 DEF At
<1>3. ASSUME NEW c \in CheckKinds, NEW m \in At(r, fp, c), \A j \in At(r, fp, c) : j <= m
      PROVE  last(c) = m
  <2>1. \A i \in with : c \in FailuresOf(r.claims[i]) <=> i \in At(r, fp, c)
    BY DEF At
  <2>2. m \in with /\ At(r, fp, c) \subseteq 1 .. Len(r.claims) /\ Len(r.claims) \in Nat
    BY DEF At, Filled, Shaped
  <2> HIDE DEF with
  <2>3. \A i \in with : (c \in FailuresOf(r.claims[i]) /\ \A j \in with : c \in FailuresOf(r.claims[j]) => j <= i)
                          => i = m
    <3> SUFFICES ASSUME NEW i \in with, i \in At(r, fp, c), \A j \in At(r, fp, c) : j \in with => j <= i
                 PROVE  i = m
      BY <2>1
    <3>1. m <= i /\ i <= m
      BY <1>3, <2>2
    <3> QED
      BY <2>2, <3>1
  <2>4. c \in FailuresOf(r.claims[m]) /\ \A j \in with : c \in FailuresOf(r.claims[j]) => j <= m
    BY <1>3, <2>1, <2>2
  <2> QED
    BY <2>2, <2>3, <2>4
<1>4. ASSUME NEW c \in CheckKinds, NEW m \in At(r, fp, c), \A j \in At(r, fp, c) : j <= m
      PROVE  FailState(r, fp)[<<fp, c>>].status = r.claims[m].checks[c]
  <2>1. last(c) = m
    BY <1>3, <1>4
  <2>2. <<fp, c>> \in D
    <3>1. c \in cs
      BY <1>2, <1>4
    <3> QED
      BY <3>1
  <2>3. FailState(r, fp)[<<fp, c>>] = val(<<fp, c>>)
    <3> HIDE DEF D, val
    <3> QED
      BY <1>1, <2>2
  <2>4. val(<<fp, c>>).status = r.claims[last(c)].checks[c]
    OBVIOUS
  <2> QED
    BY <2>1, <2>3, <2>4
<1>5. DOMAIN FailState(r, fp) = D
  <2> HIDE DEF D, val
  <2> QED
    BY <1>1
<1>6. D = StateKeys(r, fp)
  <2> HIDE DEF cs
  <2> QED
    BY <1>2 DEF StateKeys
<1> QED
  BY <1>4, <1>5, <1>6

\* A directory with one receipt in it.
LEMMA OneRow ==
  ASSUME NEW rows, Filled(rows), NEW r \in rows
  PROVE  Filled({r}) /\ Folded({r}) = {r} /\ \A e \in FailureEvents({r}) : e.row = r
<1>1. Dated({r})
  BY DatedSubset DEF Filled
<1>2. Filled({r})
  BY <1>1 DEF Filled
<1>3. Folded({r}) = {r}
  BY <1>1, FoldedIs
<1> QED
  BY <1>2, <1>3, EventIs

LEMMA KeyIs ==
  ASSUME NEW r, NEW i, NEW c
  PROVE  /\ FailureKey(EventOf(r, i, c), "fingerprint") = <<r.claims[i].fingerprint, c>>
         /\ EventOf(r, i, c).row = r /\ EventOf(r, i, c).index = i /\ EventOf(r, i, c).check = c
         /\ EventOf(r, i, c).status = r.claims[i].checks[c]
<1>1. PICK e : e = EventOf(r, i, c)
  OBVIOUS
<1>2. /\ e.row = r /\ e.index = i /\ e.check = c /\ e.status = r.claims[i].checks[c]
      /\ e.fingerprint = r.claims[i].fingerprint
  BY <1>1 DEF EventOf
<1>3. FailureKey(e, "fingerprint") = <<e.fingerprint, e.check>>
  BY DEF FailureKey
<1> QED
  BY <1>1, <1>2, <1>3

\* Its events of one key are those of the claims with that fingerprint.
LEMMA OneRowsEvents ==
  ASSUME NEW rows, Filled(rows), NEW r \in rows, NEW fp, NEW c
  PROVE  {e \in FailureEvents({r}) : FailureKey(e, "fingerprint") = <<fp, c>>}
            = {EventOf(r, i, c) : i \in At(r, fp, c)}
<1> DEFINE E == FailureEvents({r})
<1>1. ASSUME NEW i \in At(r, fp, c)
      PROVE  EventOf(r, i, c) \in E /\ FailureKey(EventOf(r, i, c), "fingerprint") = <<fp, c>>
  <2>1. i \in DOMAIN r.claims /\ r.claims[i].fingerprint = fp /\ c \in FailuresOf(r.claims[i])
    BY DEF At
  <2>2. <<i, c>> \in Failing(r)
    BY <2>1, FailingIs
  <2>3. r \in Folded({r})
    BY OneRow
  <2> QED
    BY <2>1, <2>2, <2>3, IsEvent, KeyIs
<1>2. ASSUME NEW e \in E, FailureKey(e, "fingerprint") = <<fp, c>>
      PROVE  \E i \in At(r, fp, c) : e = EventOf(r, i, c)
  <2>1. e.row = r /\ <<e.index, e.check>> \in Failing(r) /\ e = EventOf(r, e.index, e.check)
    BY EventIs, OneRow
  <2>2. e.index \in DOMAIN r.claims /\ e.check \in FailuresOf(r.claims[e.index])
    BY <2>1 DEF Failing
  <2>3. r.claims[e.index].fingerprint = fp /\ e.check = c
    BY <1>2, <2>1, KeyIs
  <2>4. e.index \in At(r, fp, c)
    BY <2>2, <2>3 DEF At
  <2> QED
    BY <2>1, <2>3, <2>4
<1> HIDE DEF E
<1> QED
  BY <1>1, <1>2 DEF E

LEMMA OneRowsKeys ==
  ASSUME NEW rows, Filled(rows), NEW r \in rows, NEW fp
  PROVE  {k \in Keys({r}, "fingerprint") : k[1] = fp} = StateKeys(r, fp)
<1> DEFINE K == Keys({r}, "fingerprint")
<1>1. ASSUME NEW k \in K, k[1] = fp PROVE \E c \in CheckKinds : At(r, fp, c) # {} /\ k = <<fp, c>>
  <2>1. PICK e \in FailureEvents({r}) : k = FailureKey(e, "fingerprint")
    BY DEF Keys
  <2>2. e.row = r /\ <<e.index, e.check>> \in Failing(r) /\ e = EventOf(r, e.index, e.check)
    BY EventIs, OneRow
  <2>3. k = <<r.claims[e.index].fingerprint, e.check>>
    BY <2>1, <2>2, KeyIs
  <2>4. e.index \in DOMAIN r.claims /\ e.check \in CheckKinds /\ e.check \in FailuresOf(r.claims[e.index])
    <3> HIDE DEF CheckKinds
    <3> QED
      BY <2>2 DEF Failing
  <2>5. r.claims[e.index].fingerprint = fp
    BY <1>1, <2>3
  <2>6. e.index \in At(r, fp, e.check)
    BY <2>4, <2>5 DEF At
  <2> QED
    BY <2>3, <2>4, <2>5, <2>6
<1>2. ASSUME NEW c \in CheckKinds, At(r, fp, c) # {} PROVE <<fp, c>> \in K
  <2>1. PICK i \in At(r, fp, c) : TRUE
    BY <1>2
  <2>2. EventOf(r, i, c) \in {EventOf(r, j, c) : j \in At(r, fp, c)}
    BY <2>1
  <2>3. PICK e \in FailureEvents({r}) : FailureKey(e, "fingerprint") = <<fp, c>>
    BY <2>2, OneRowsEvents
  <2> QED
    BY <2>3 DEF Keys
<1> HIDE DEF K, CheckKinds
<1> QED
  BY <1>1, <1>2 DEF K, StateKeys

\* Of several, a Map keeps the last claim's.
LEMMA OneRowsStatus ==
  ASSUME NEW rows, Filled(rows), NEW r \in rows, NEW fp, NEW c, NEW m \in At(r, fp, c),
         \A j \in At(r, fp, c) : j <= m
  PROVE  ByKey(FailureEvents({r}), "fingerprint")[<<fp, c>>].status = r.claims[m].checks[c]
<1> DEFINE E == FailureEvents({r})
           K == {FailureKey(e, "fingerprint") : e \in E}
           es(k) == {e \in E : FailureKey(e, "fingerprint") = k}
           kept(k) == CHOOSE e \in es(k) : \A d \in es(k) \ {e} : EventLater(e, d)
           last == EventOf(r, m, c)
<1>1. ByKey(E, "fingerprint") = [k \in K |-> kept(k)]
  BY DEF ByKey
<1>2. es(<<fp, c>>) = {EventOf(r, i, c) : i \in At(r, fp, c)}
  BY OneRowsEvents
<1>3. /\ last \in es(<<fp, c>>) /\ last \in E /\ FailureKey(last, "fingerprint") = <<fp, c>>
      /\ last.status = r.claims[m].checks[c] /\ <<fp, c>> \in K
  <2>1. last \in es(<<fp, c>>)
    BY <1>2
  <2>2. last \in E /\ FailureKey(last, "fingerprint") = <<fp, c>>
    BY <2>1
  <2>3. <<fp, c>> \in K
    <3> HIDE DEF E, last
    <3> QED
      BY <2>2
  <2>4. last.status = r.claims[m].checks[c]
    BY KeyIs
  <2> QED
    BY <2>1, <2>2, <2>3, <2>4
<1>4. At(r, fp, c) \subseteq Nat
  <2>1. DOMAIN r.claims = 1 .. Len(r.claims) /\ Len(r.claims) \in Nat
    BY DEF Filled, Shaped
  <2> QED
    BY <2>1 DEF At
<1>5. ~Later(r, r)
  BY LaterOrders DEF Filled
<1> HIDE DEF last
<1>6. \A d \in es(<<fp, c>>) \ {last} : EventLater(last, d)
  <2> SUFFICES ASSUME NEW i \in At(r, fp, c), EventOf(r, i, c) # last PROVE EventLater(last, EventOf(r, i, c))
    BY <1>2
  <2>1. i # m
    BY DEF last
  <2>2. i < m
    BY <1>4, <2>1
  <2>3. last.row = r /\ last.index = m /\ EventOf(r, i, c).row = r /\ EventOf(r, i, c).index = i
    BY KeyIs DEF last
  <2> QED
    BY <2>2, <2>3 DEF EventLater
<1>7. \A e \in es(<<fp, c>>) : (\A d \in es(<<fp, c>>) \ {e} : EventLater(e, d)) => e = last
  <2> SUFFICES ASSUME NEW i \in At(r, fp, c), EventOf(r, i, c) # last, EventLater(EventOf(r, i, c), last)
               PROVE  FALSE
    BY <1>2, <1>3
  <2>1. last.row = r /\ last.index = m /\ EventOf(r, i, c).row = r /\ EventOf(r, i, c).index = i
    BY KeyIs DEF last
  <2>2. i > m
    BY <1>5, <2>1 DEF EventLater
  <2> QED
    BY <1>4, <2>2
<1>8. kept(<<fp, c>>) = last
  <2> HIDE DEF es
  <2> QED
    BY <1>3, <1>6, <1>7
<1>9. ByKey(E, "fingerprint")[<<fp, c>>] = kept(<<fp, c>>)
  <2> HIDE DEF K, kept, E
  <2> QED
    BY <1>1, <1>3
<1> QED
  BY <1>3, <1>8, <1>9

\* So a directory with one receipt fails as a history says the receipt does.
LEMMA StateIsKept ==
  ASSUME NEW rows, Filled(rows), NEW r \in rows, NEW fp
  PROVE  LET s == FailState(r, fp)
             b == ByKey(FailureEvents({r}), "fingerprint")
         IN  /\ DOMAIN s = {k \in Keys({r}, "fingerprint") : k[1] = fp}
             /\ \A k \in DOMAIN s : s[k].status = b[k].status
<1> DEFINE s == FailState(r, fp)
           b == ByKey(FailureEvents({r}), "fingerprint")
<1>1. /\ DOMAIN s = {k \in Keys({r}, "fingerprint") : k[1] = fp}
      /\ DOMAIN s = StateKeys(r, fp)
  BY OneRowsKeys, StateShows
<1>2. ASSUME NEW k \in DOMAIN s PROVE s[k].status = b[k].status
  <2>1. PICK c \in CheckKinds : k = <<fp, c>> /\ At(r, fp, c) # {}
    <3> HIDE DEF s
    <3> QED
      BY <1>1 DEF StateKeys
  <2>2. PICK m \in At(r, fp, c) : m \in Nat /\ \A j \in At(r, fp, c) : j \in Nat /\ j <= m
    BY <2>1, LastAt
  <2>3. s[<<fp, c>>].status = r.claims[m].checks[c]
    BY <2>2, StateShows
  <2>4. b[<<fp, c>>].status = r.claims[m].checks[c]
    <3>1. \A j \in At(r, fp, c) : j <= m
      BY <2>2
    <3> HIDE DEF s
    <3> QED
      BY <3>1, OneRowsStatus, SMTT(40)
  <2> QED
    BY <2>1, <2>3, <2>4
<1> QED
  BY <1>1, <1>2

LEMMA LengthIs ==
  ASSUME NEW N \in Nat, NEW f, f = [n \in 1 .. N |-> f[n]]
  PROVE  Len(f) = N
<1>1. PICK S : S = {f[n] : n \in 1 .. N}
  OBVIOUS
<1>2. f \in [1 .. N -> S]
  BY <1>1
<1> QED
  BY <1>2, SeqDef

\* The receipts a claim is in.
Claiming(rows, fp) == {r \in rows : \E i \in DOMAIN r.claims : r.claims[i].fingerprint = fp}

\* What two neighbours of a history say.
LEMMA HistoryShows ==
  ASSUME NEW rows, Filled(rows), NEW fp, NEW n \in 2 .. Len(History(rows, fp))
  PROVE  \E p, q \in rows :
            LET h == History(rows, fp)
                was == FailState(p, fp)
                is == FailState(q, fp)
            IN  /\ h[n - 1].row = p /\ h[n].row = q
                /\ h[n].changes.new = DOMAIN is \ DOMAIN was
                /\ h[n].changes.resolved = DOMAIN was \ DOMAIN is
                /\ h[n].changes.changed = {k \in DOMAIN was \cap DOMAIN is : was[k].status # is[k].status}
<1> DEFINE line == InOrder(Claiming(rows, fp))
           was(m) == FailState(line[m - 1], fp)
           is(m) == FailState(line[m], fp)
           both(m) == DOMAIN was(m) \cap DOMAIN is(m)
           changes(m) == [new |-> DOMAIN is(m) \ DOMAIN was(m),
                          resolved |-> DOMAIN was(m) \ DOMAIN is(m),
                          changed |-> {k \in both(m) : was(m)[k].status # is(m)[k].status},
                          evidence |-> {k \in both(m) : /\ was(m)[k].status = is(m)[k].status
                                                        /\ was(m)[k].evidence # is(m)[k].evidence}]
           step(m) == [row |-> line[m], changes |-> IF m = 1 THEN Null ELSE changes(m)]
           h == History(rows, fp)
           N == Cardinality(Claiming(rows, fp))
<1>1. h = [m \in DOMAIN line |-> step(m)]
  BY DEF History, Claiming
<1>2. Dated(Claiming(rows, fp)) /\ Claiming(rows, fp) \subseteq rows
  <2>1. Claiming(rows, fp) \subseteq rows
    BY DEF Claiming
  <2> QED
    BY <2>1, DatedSubset DEF Filled
<1>3. /\ DOMAIN line = 1 .. N /\ N \in Nat
      /\ \A m \in 1 .. N : line[m] \in rows
  BY <1>2, InOrderIs
<1>4. \A m : step(m).row = line[m] /\ (m # 1 => step(m).changes = changes(m))
  OBVIOUS
<1>5. \A m : /\ changes(m).new = DOMAIN is(m) \ DOMAIN was(m)
             /\ changes(m).resolved = DOMAIN was(m) \ DOMAIN is(m)
             /\ changes(m).changed = {k \in DOMAIN was(m) \cap DOMAIN is(m) : was(m)[k].status # is(m)[k].status}
  OBVIOUS
<1>6. PICK p, q : p = line[n - 1] /\ q = line[n]
  OBVIOUS
<1>7. was(n) = FailState(p, fp) /\ is(n) = FailState(q, fp)
  BY <1>6
<1> HIDE DEF line, step, changes, was, is, N, h
<1>8. Len(h) = N
  <2>1. h = [m \in 1 .. N |-> h[m]]
    BY <1>1, <1>3
  <2> QED
    BY <1>3, <2>1, LengthIs
<1>9. n - 1 \in 1 .. N /\ n \in 1 .. N /\ n # 1
  <2>1. n \in 2 .. N
    BY <1>8 DEF h
  <2> QED
    BY <1>3, <2>1
<1>10. h[n - 1] = step(n - 1) /\ h[n] = step(n)
  BY <1>1, <1>3, <1>9
<1>11. /\ p \in rows /\ q \in rows /\ h[n - 1].row = p /\ h[n].row = q /\ h[n].changes = changes(n)
  BY <1>3, <1>4, <1>6, <1>9, <1>10
<1> QED
  BY <1>5, <1>7, <1>11 DEF h

LEMMA HistoryAndDiff ==
  ASSUME NEW rows, Filled(rows), NEW fp, NEW n \in 2 .. Len(History(rows, fp))
  PROVE  LET h == History(rows, fp)
             d == Diff({h[n - 1].row}, {h[n].row}, "fingerprint")
             mine(S) == {k \in S : k[1] = fp}
         IN  /\ h[n].changes.new = mine(d.new)
             /\ h[n].changes.resolved = mine(d.resolved)
             /\ h[n].changes.changed = mine(d.changed)
<1> DEFINE h == History(rows, fp)
           K(r) == Keys({r}, "fingerprint")
           b(r) == ByKey(FailureEvents({r}), "fingerprint")
<1>1. PICK p, q \in rows :
         /\ h[n - 1].row = p /\ h[n].row = q
         /\ h[n].changes.new = DOMAIN FailState(q, fp) \ DOMAIN FailState(p, fp)
         /\ h[n].changes.resolved = DOMAIN FailState(p, fp) \ DOMAIN FailState(q, fp)
         /\ h[n].changes.changed = {k \in DOMAIN FailState(p, fp) \cap DOMAIN FailState(q, fp) :
                                       FailState(p, fp)[k].status # FailState(q, fp)[k].status}
  BY HistoryShows
<1>2. PICK d : d = Diff({p}, {q}, "fingerprint")
  OBVIOUS
<1>3. /\ d.new = K(q) \ K(p) /\ d.resolved = K(p) \ K(q)
      /\ d.changed = {k \in K(p) \cap K(q) : b(p)[k].status # b(q)[k].status}
  BY <1>2, DiffIs
<1>4. ASSUME NEW r \in rows
      PROVE  /\ DOMAIN FailState(r, fp) = {k \in K(r) : k[1] = fp}
             /\ \A k \in DOMAIN FailState(r, fp) : FailState(r, fp)[k].status = b(r)[k].status
  BY StateIsKept
<1> HIDE DEF h, K, b
<1>5. PICK s, t, x, y : /\ s = FailState(p, fp) /\ t = FailState(q, fp) /\ x = b(p) /\ y = b(q)
  OBVIOUS
<1>6. /\ DOMAIN s = {k \in K(p) : k[1] = fp} /\ DOMAIN t = {k \in K(q) : k[1] = fp}
      /\ \A k \in DOMAIN s : s[k].status = x[k].status
      /\ \A k \in DOMAIN t : t[k].status = y[k].status
  BY <1>4, <1>5
<1>7. /\ DOMAIN t \ DOMAIN s = {k \in K(q) \ K(p) : k[1] = fp}
      /\ DOMAIN s \ DOMAIN t = {k \in K(p) \ K(q) : k[1] = fp}
  BY <1>6
<1>8. {k \in DOMAIN s \cap DOMAIN t : s[k].status # t[k].status}
         = {k \in {k \in K(p) \cap K(q) : x[k].status # y[k].status} : k[1] = fp}
  BY <1>6
<1>9. /\ h[n].changes.new = {k \in d.new : k[1] = fp}
      /\ h[n].changes.resolved = {k \in d.resolved : k[1] = fp}
      /\ h[n].changes.changed = {k \in d.changed : k[1] = fp}
  BY <1>1, <1>3, <1>5, <1>7, <1>8
<1>10. d = Diff({h[n - 1].row}, {h[n].row}, "fingerprint")
  BY <1>1, <1>2
<1> QED
  BY <1>9, <1>10 DEF h

LEMMA HistoriesMatch ==
  ASSUME NEW rows, Filled(rows) PROVE HistoryMatchesDiff(rows)
<1>1. \A fp, n : n \in 2 .. Len(History(rows, fp)) =>
         LET h == History(rows, fp)
             d == Diff({h[n - 1].row}, {h[n].row}, "fingerprint")
             mine(S) == {k \in S : k[1] = fp}
         IN  /\ h[n].changes.new = mine(d.new)
             /\ h[n].changes.resolved = mine(d.resolved)
             /\ h[n].changes.changed = mine(d.changed)
  BY HistoryAndDiff
<1> QED
  BY <1>1, Zenon DEF HistoryMatchesDiff, Diff

\* Whatever verifiers, editors and deaths leave in the directory, the graph
\* commands tell one story of it: the counts add up, copies of a receipt count
\* once, no edge claims more than was looked at, a history says of two
\* neighbours what a comparison of the two says, and a receipt more makes no
\* failure of another id disappear (buildSummary, buildFailures, buildIndexes,
\* buildHistory, buildGraphDiff, buildGraph).
THEOREM GraphHoldsTogether == Spec => []GraphAddsUp
<1>1. ASSUME EvidenceInv PROVE GraphAddsUp
  <2>1. ProcInv /\ ReceiptsInv
    BY <1>1 DEF EvidenceInv
  <2>2. RowsHold(Dir(receipts)) /\ Filled(Dir(receipts))
    BY <2>1, DirHolds, DirsHold DEF RowsHold
  <2>3. CountsAddUp(Dir(receipts))
    BY <2>1, <2>2, CountsDoAddUp
  <2>4. HistoryMatchesDiff(Dir(receipts))
    BY <2>2, HistoriesMatch
  <2>5. OnlyOwnIdResolves
    BY <2>1, OwnIdsResolve
  <2> QED
    BY <2>3, <2>4, <2>5 DEF GraphAddsUp
<1> QED
  BY <1>1, EvidenceInvariant, PTL

-----------------------------------------------------------------------------
(* The checks                                                              *)

\* Versions that can be read.
Places == {v \in Nat \X Nat \X Nat : v # Null}

\* The order of versions.
LEMMA BeforeOrders ==
  ASSUME NEW a \in Nat \X Nat \X Nat, NEW b \in Nat \X Nat \X Nat
  PROVE  /\ a = b <=> a[1] = b[1] /\ a[2] = b[2] /\ a[3] = b[3]
         /\ ~Before(a, b) <=> a = b \/ Before(b, a)
         /\ ~(Before(a, b) /\ Before(b, a)) /\ ~Before(a, a)
BY DEF Before

\* The leftmost place that is not 0, the last one if there is none.
Lead(b) == IF b[1] # 0 THEN 1 ELSE IF b[2] # 0 THEN 2 ELSE 3

LEMMA LeadIs ==
  ASSUME NEW b \in Nat \X Nat \X Nat
  PROVE  LET nonzero == {i \in 1 .. 3 : b[i] # 0}
         IN  Lead(b) = IF nonzero = {} THEN 3 ELSE CHOOSE i \in nonzero : \A j \in nonzero : i <= j
<1> DEFINE nonzero == {i \in 1 .. 3 : b[i] # 0}
<1>1. nonzero = {} => Lead(b) = 3
  BY DEF Lead
<1>2. ASSUME nonzero # {} PROVE Lead(b) = CHOOSE i \in nonzero : \A j \in nonzero : i <= j
  <2>1. Lead(b) \in nonzero /\ \A j \in nonzero : Lead(b) <= j
    BY <1>2 DEF Lead
  <2>2. \A i \in nonzero : (\A j \in nonzero : i <= j) => i = Lead(b)
    BY <2>1
  <2> HIDE DEF nonzero
  <2> QED
    BY <2>1, <2>2
<1> HIDE DEF nonzero
<1> QED
  BY <1>1, <1>2 DEF nonzero

LEMMA CaretIs ==
  ASSUME NEW a \in Nat \X Nat \X Nat, NEW b \in Nat \X Nat \X Nat
  PROVE  (~Before(a, b) /\ Before(a, CaretUpper(b)))
            <=> (a = b \/ Before(b, a)) /\ \A i \in 1 .. Lead(b) : a[i] = b[i]
<1>1. CASE b[1] # 0
  <2>1. CaretUpper(b) = <<b[1] + 1, 0, 0>> /\ Lead(b) = 1
    BY <1>1 DEF CaretUpper, Lead
  <2> QED
    BY <2>1 DEF Before
<1>2. CASE b[1] = 0 /\ b[2] # 0
  <2>1. CaretUpper(b) = <<0, b[2] + 1, 0>> /\ Lead(b) = 2
    BY <1>2 DEF CaretUpper, Lead
  <2> QED
    BY <1>2, <2>1 DEF Before
<1>3. CASE b[1] = 0 /\ b[2] = 0
  <2>1. CaretUpper(b) = <<0, 0, b[3] + 1>> /\ Lead(b) = 3
    BY <1>3 DEF CaretUpper, Lead
  <2> QED
    BY <1>3, <2>1 DEF Before
<1> QED
  BY <1>1, <1>2, <1>3

LEMMA TildeIs ==
  ASSUME NEW a \in Nat \X Nat \X Nat, NEW b \in Nat \X Nat \X Nat
  PROVE  (~Before(a, b) /\ Before(a, <<b[1], b[2] + 1, 0>>))
            <=> (a = b \/ Before(b, a)) /\ \A i \in 1 .. 2 : a[i] = b[i]
BY DEF Before

\* Whether a version is one a range allows is decided as npm's words say, for
\* every version and every range that can be read: nothing is taken for an
\* upgrade beyond the leftmost place that is not 0 (satisfiesSemver).
THEOREM RangesMeanWhatTheySay ==
  ASSUME NEW a \in Places, NEW range, range.base \in Places,
         range.op \in {"", ">=", ">", "<=", "<", "~", "^"}
  PROVE  SemverSatisfies(a, range) <=> Allows(range, a)
<1> DEFINE b == range.base
           newer == a = b \/ Before(b, a)
           same(k) == \A i \in 1 .. k : a[i] = b[i]
<1>1. /\ a \in Nat \X Nat \X Nat /\ b \in Nat \X Nat \X Nat /\ a # Null /\ b # Null
      /\ range.op # "compound"
  BY DEF Places
<1>2. SemverSatisfies(a, range) <=>
         CASE range.op = "" -> a = b
           [] range.op = ">=" -> ~Before(a, b)
           [] range.op = ">" -> Before(b, a)
           [] range.op = "<=" -> ~Before(b, a)
           [] range.op = "<" -> Before(a, b)
           [] range.op = "~" -> ~Before(a, b) /\ Before(a, <<b[1], b[2] + 1, 0>>)
           [] range.op = "^" -> ~Before(a, b) /\ Before(a, CaretUpper(b))
  BY <1>1 DEF SemverSatisfies
<1>3. Allows(range, a) <=>
         CASE range.op = "" -> a = b
           [] range.op = ">=" -> newer
           [] range.op = ">" -> newer /\ a # b
           [] range.op = "<=" -> ~newer \/ a = b
           [] range.op = "<" -> ~newer
           [] range.op = "~" -> newer /\ same(2)
           [] range.op = "^" -> newer /\ same(Lead(b))
  BY <1>1, LeadIs DEF Allows
<1> HIDE DEF b
<1>4. newer <=> ~Before(a, b)
  BY <1>1, BeforeOrders
<1>5. newer /\ a # b <=> Before(b, a)
  BY <1>1, BeforeOrders
<1>6. ~newer \/ a = b <=> ~Before(b, a)
  BY <1>1, BeforeOrders
<1>7. (~Before(a, b) /\ Before(a, <<b[1], b[2] + 1, 0>>)) <=> newer /\ same(2)
  BY <1>1, TildeIs
<1>8. (~Before(a, b) /\ Before(a, CaretUpper(b))) <=> newer /\ same(Lead(b))
  BY <1>1, CaretIs
<1> HIDE DEF newer, same
<1> QED
  BY <1>2, <1>3, <1>4, <1>5, <1>6, <1>7, <1>8

-----------------------------------------------------------------------------
(* What a check comes to, and what that means                              *)

\* A status says what is so, where there is something to go by, and nothing else.
Tells(status, decidable, so) ==
    /\ status \in Failures <=> decidable /\ ~so
    /\ status = "verified" <=> decidable /\ so

LEMMA CitationTells ==
  ASSUME NEW quote, NEW src
  PROVE  Tells(CitationStatus(quote, src), src # Null /\ quote # Blank, quote \in src.says)
BY DEF Tells, CitationStatus, Failures

\* Without a tolerance, near is equal.
LEMMA CloseIsEqual ==
  ASSUME NEW x \in Fraction, NEW y \in Fraction
  PROVE  Close(x, y, Whole(0), FALSE) <=> Equal(y, x)
<1>1. PICK a \in Int, b \in Nat : b # 0 /\ x = <<a, b>>
  BY DEF Fraction
<1>2. PICK m \in Int, n \in Nat : n # 0 /\ y = <<m, n>>
  BY DEF Fraction
<1>3. Add(x, Neg(Whole(0))) = x /\ Add(x, Whole(0)) = x
  BY <1>1 DEF Add, Neg, Whole
<1>4. Close(x, y, Whole(0), FALSE) <=> Leq(x, y) /\ Leq(y, x)
  BY <1>3 DEF Close
<1>5. a * n \in Int /\ m * b \in Int
  BY <1>1, <1>2
<1>6. (Leq(x, y) <=> a * n <= m * b) /\ (Leq(y, x) <=> m * b <= a * n) /\ (Equal(y, x) <=> m * b = a * n)
  BY <1>1, <1>2 DEF Leq, Equal
<1>7. \A i, j \in Int : i <= j /\ j <= i <=> j = i
  OBVIOUS
<1> QED
  BY <1>4, <1>5, <1>6, <1>7

\* A quotient of two fractions.
LEMMA RatioRight ==
  ASSUME NEW x \in Fraction, NEW y \in Fraction, NEW v \in Fraction, y[1] # 0
  PROVE  /\ Mul(x, Inv(y)) \in Fraction
         /\ Equal(v, Mul(x, Inv(y))) <=> Equal(Mul(v, y), x)
<1>1. PICK a \in Int, b \in Nat : b # 0 /\ x = <<a, b>>
  BY DEF Fraction
<1>2. PICK m \in Int, n \in Nat : n # 0 /\ m # 0 /\ y = <<m, n>>
  BY DEF Fraction
<1>3. PICK p \in Int, q \in Nat : q # 0 /\ v = <<p, q>>
  BY DEF Fraction
<1>4. Mul(v, y) = <<p * m, q * n>>
  BY <1>2, <1>3 DEF Mul
<1>5. CASE m > 0
  <2>1. Mul(x, Inv(y)) = <<a * n, b * m>>
    BY <1>1, <1>2, <1>5 DEF Mul, Inv
  <2>2. a * n \in Int /\ b * m \in Nat /\ b * m # 0
    BY <1>1, <1>2, <1>5
  <2>3. p * (b * m) = (a * n) * q <=> (p * m) * b = a * (q * n)
    BY <1>1, <1>2, <1>3
  <2> QED
    BY <1>1, <1>3, <1>4, <2>1, <2>2, <2>3 DEF Equal, Fraction
<1>6. CASE m < 0
  <2>1. Mul(x, Inv(y)) = <<a * (-n), b * (-m)>>
    BY <1>1, <1>2, <1>6 DEF Mul, Inv
  <2>2. a * (-n) \in Int /\ b * (-m) \in Nat /\ b * (-m) # 0
    BY <1>1, <1>2, <1>6
  <2>3. p * (b * (-m)) = (a * (-n)) * q <=> (p * m) * b = a * (q * n)
    BY <1>1, <1>2, <1>3
  <2> QED
    BY <1>1, <1>3, <1>4, <2>1, <2>2, <2>3 DEF Equal, Fraction
<1> QED
  BY <1>2, <1>5, <1>6

LEMMA FloorRight ==
  ASSUME NEW a \in Int, NEW b \in Nat, b # 0, NEW f \in Int
  PROVE  f = a \div b <=> f * b <= a /\ a < (f + 1) * b
<1>1. a \div b \in Int /\ (a \div b) * b <= a /\ a < (a \div b) * b + b
  OBVIOUS
<1>2. ASSUME NEW g \in Int, NEW h \in Int, g * b <= a, a < (h + 1) * b PROVE g <= h
  <2>1. g * b < (h + 1) * b
    BY <1>2
  <2> QED
    BY <2>1
<1> QED
  BY <1>1, <1>2

LEMMA ScaledEqual ==
  ASSUME NEW i \in Int, NEW j \in Int, NEW k \in Nat, k # 0
  PROVE  (i * k <= j * k <=> i <= j) /\ (i * k < j * k <=> i < j) /\ (i * k = j * k <=> i = j)
OBVIOUS

\* A whole number within one of a fraction.
LEMMA WholeNear ==
  ASSUME NEW a \in Int, NEW b \in Nat, b # 0, NEW p \in Int, NEW q \in Nat, q # 0
  PROVE  (a \div b) * q = p <=> p % q = 0 /\ p * b <= a * q /\ a * q < (p + q) * b
<1> DEFINE f == a \div b
           g == p \div q
<1>1. f \in Int /\ g \in Int /\ p % q \in Int /\ p = g * q + (p % q) /\ 0 <= p % q /\ p % q < q
  OBVIOUS
<1> HIDE DEF f, g
<1>2. \A h \in Int : h = f <=> h * b <= a /\ a < (h + 1) * b
  BY FloorRight DEF f
<1>3. ASSUME p % q = 0
      PROVE  /\ p * b <= a * q <=> g * b <= a
             /\ a * q < (p + q) * b <=> a < (g + 1) * b
             /\ f * q = p <=> f = g
  <2>1. p = g * q
    BY <1>1, <1>3
  <2>2. p * b = (g * b) * q /\ (p + q) * b = ((g + 1) * b) * q /\ g * b \in Int /\ (g + 1) * b \in Int
    BY <1>1, <2>1
  <2> QED
    BY <1>1, <2>1, <2>2, ScaledEqual
<1>4. ASSUME f * q = p PROVE p % q = 0
  <2>1. p % q = (f - g) * q
    BY <1>1, <1>4
  <2>2. f - g = 0
    BY <1>1, <2>1
  <2> QED
    BY <1>1, <2>1, <2>2
<1> QED
  BY <1>1, <1>2, <1>3, <1>4 DEF f

\* A number and its opposite are whole together.
LEMMA WholeNegated ==
  ASSUME NEW p \in Int, NEW q \in Nat, q # 0
  PROVE  p % q = 0 <=> (-p) % q = 0
<1>1. ASSUME NEW i \in Int, NEW j \in Int, i = -j, i % q = 0 PROVE j % q = 0
  <2> DEFINE g == i \div q
             h == j \div q
             r == j % q
  <2>1. g \in Int /\ h \in Int /\ r \in Int /\ i = g * q /\ j = h * q + r /\ 0 <= r /\ r < q
    BY <1>1
  <2> HIDE DEF g, h, r
  <2>2. r = (-(g + h)) * q
    <3>1. r = -(g * q) - h * q
      BY <1>1, <2>1
    <3> QED
      BY <2>1, <3>1
  <2>3. -(g + h) = 0
    <3>1. \A k \in Int : 0 <= k * q /\ k * q < q => k = 0
      OBVIOUS
    <3> QED
      BY <2>1, <2>2, <3>1
  <2>4. r = 0
    BY <2>1, <2>2, <2>3
  <2> QED
    BY <2>4 DEF r
<1>2. -p \in Int /\ -(-p) = p
  OBVIOUS
<1> QED
  BY <1>1, <1>2

LEMMA RoundedRight ==
  ASSUME NEW x \in Fraction, NEW v \in Fraction
  PROVE  LET whole == v[1] % v[2] = 0
             between(i, j) == Leq(i, j) /\ ~Equal(i, j)
         IN  /\ Equal(Floor(x), v) <=> whole /\ Leq(v, x) /\ between(x, Add(v, Whole(1)))
             /\ Equal(Neg(Floor(Neg(x))), v) <=> whole /\ Leq(x, v) /\ between(Add(v, Whole(-1)), x)
             /\ Equal(Floor(Add(x, <<1, 2>>)), v) <=>
                   whole /\ Leq(Add(v, <<-1, 2>>), x) /\ between(x, Add(v, <<1, 2>>))
<1>1. PICK a \in Int, b \in Nat : b # 0 /\ x = <<a, b>>
  BY DEF Fraction
<1>2. PICK p \in Int, q \in Nat : q # 0 /\ v = <<p, q>>
  BY DEF Fraction
<1>3. /\ Floor(x) = <<a \div b, 1>> /\ Neg(Floor(Neg(x))) = <<-((-a) \div b), 1>>
      /\ Floor(Add(x, <<1, 2>>)) = <<(a * 2 + b) \div (b * 2), 1>>
  BY <1>1 DEF Floor, Neg, Add, Whole
<1>4. \A i, j \in Int : i <= j /\ i # j <=> i < j
  OBVIOUS
<1>5. Equal(Floor(x), v) <=> p % q = 0 /\ Leq(v, x) /\ Leq(x, Add(v, Whole(1))) /\ ~Equal(x, Add(v, Whole(1)))
  <2>1. /\ Equal(Floor(x), v) <=> (a \div b) * q = p
        /\ Leq(v, x) <=> p * b <= a * q
        /\ Leq(x, Add(v, Whole(1))) <=> a * q <= (p + q) * b
        /\ Equal(x, Add(v, Whole(1))) <=> a * q = (p + q) * b
    BY <1>1, <1>2, <1>3 DEF Equal, Leq, Add, Whole
  <2>2. (a \div b) * q = p <=> p % q = 0 /\ p * b <= a * q /\ a * q < (p + q) * b
    BY <1>1, <1>2, WholeNear
  <2>3. a * q < (p + q) * b <=> a * q <= (p + q) * b /\ a * q # (p + q) * b
    BY <1>1, <1>2, <1>4
  <2> QED
    BY <2>1, <2>2, <2>3
<1>6. Equal(Neg(Floor(Neg(x))), v) <=>
         p % q = 0 /\ Leq(x, v) /\ Leq(Add(v, Whole(-1)), x) /\ ~Equal(Add(v, Whole(-1)), x)
  <2>1. /\ Equal(Neg(Floor(Neg(x))), v) <=> ((-a) \div b) * q = -p
        /\ Leq(x, v) <=> (-p) * b <= (-a) * q
        /\ Leq(Add(v, Whole(-1)), x) <=> (-a) * q <= (-p + q) * b
        /\ Equal(Add(v, Whole(-1)), x) <=> (-a) * q = (-p + q) * b
    BY <1>1, <1>2, <1>3 DEF Equal, Leq, Add, Whole
  <2>2. ((-a) \div b) * q = -p <=> (-p) % q = 0 /\ (-p) * b <= (-a) * q /\ (-a) * q < (-p + q) * b
    <3>1. -a \in Int /\ -p \in Int
      BY <1>1, <1>2
    <3> QED
      BY <1>1, <1>2, <3>1, WholeNear
  <2>3. (-a) * q < (-p + q) * b <=> (-a) * q <= (-p + q) * b /\ (-a) * q # (-p + q) * b
    <3>1. (-a) * q \in Int /\ (-p + q) * b \in Int
      BY <1>1, <1>2
    <3> QED
      BY <1>4, <3>1
  <2>4. p % q = 0 <=> (-p) % q = 0
    BY <1>2, WholeNegated
  <2> QED
    BY <2>1, <2>2, <2>3, <2>4
<1>7. Equal(Floor(Add(x, <<1, 2>>)), v) <=>
         /\ p % q = 0 /\ Leq(Add(v, <<-1, 2>>), x)
         /\ Leq(x, Add(v, <<1, 2>>)) /\ ~Equal(x, Add(v, <<1, 2>>))
  <2> DEFINE i == a * 2 + b
             k == b * 2
  <2>1. i \in Int /\ k \in Nat /\ k # 0
    BY <1>1
  <2>2. /\ Equal(Floor(Add(x, <<1, 2>>)), v) <=> (i \div k) * q = p
        /\ Leq(Add(v, <<-1, 2>>), x) <=> p * k <= i * q
        /\ Leq(x, Add(v, <<1, 2>>)) <=> i * q <= (p + q) * k
        /\ Equal(x, Add(v, <<1, 2>>)) <=> i * q = (p + q) * k
    BY <1>1, <1>2, <1>3 DEF Equal, Leq, Add, Whole
  <2> HIDE DEF i, k
  <2>3. (i \div k) * q = p <=> p % q = 0 /\ p * k <= i * q /\ i * q < (p + q) * k
    BY <1>2, <2>1, WholeNear
  <2>4. i * q < (p + q) * k <=> i * q <= (p + q) * k /\ i * q # (p + q) * k
    <3>1. i * q \in Int /\ (p + q) * k \in Int
      BY <1>2, <2>1
    <3> QED
      BY <1>4, <3>1
  <2> QED
    BY <2>2, <2>3, <2>4
<1> QED
  BY <1>2, <1>5, <1>6, <1>7

LEMMA AbsRight ==
  ASSUME NEW x \in Fraction, NEW v \in Fraction
  PROVE  /\ AbsOf(x) \in Fraction
         /\ Equal(AbsOf(x), v) <=> v[1] >= 0 /\ v[1] * v[1] * x[2] * x[2] = x[1] * x[1] * v[2] * v[2]
<1>1. PICK a \in Int, b \in Nat : b # 0 /\ x = <<a, b>>
  BY DEF Fraction
<1>2. PICK p \in Int, q \in Nat : q # 0 /\ v = <<p, q>>
  BY DEF Fraction
<1>3. PICK n \in Nat : n = (IF a < 0 THEN -a ELSE a) /\ AbsOf(x) = <<n, b>>
  BY <1>1 DEF AbsOf, Neg
<1>4. \A i \in Int, j \in Nat : i = j <=> i >= 0 /\ i * i = j * j
  OBVIOUS
<1>5. Equal(AbsOf(x), v) <=> p * b = n * q
  BY <1>1, <1>2, <1>3 DEF Equal
<1>6. p * b \in Int /\ n * q \in Nat /\ (p * b >= 0 <=> p >= 0)
  BY <1>1, <1>2
<1>7. p * p * b * b = (p * b) * (p * b) /\ a * a * q * q = (n * q) * (n * q)
  BY <1>1, <1>2, <1>3
<1> QED
  BY <1>1, <1>2, <1>3, <1>4, <1>5, <1>6, <1>7 DEF Fraction

\* That i, or its opposite, is so many times u.
Multiple(i, u) == \E k \in Nat : k * u = i \/ k * u = -i

\* The remainder of a division of naturals, in any unit.
LEMMA RemainderIs ==
  ASSUME NEW A \in Nat, NEW Z \in Nat, Z # 0, NEW q \in Nat, q # 0, NEW P \in Int
  PROVE  (A % Z) * q = P <=>
            0 <= P /\ P < Z * q /\ Multiple(A * q - P, Z * q)
<1> DEFINE d == A \div Z
           r == A % Z
<1>1. d \in Nat /\ r \in Nat /\ A = d * Z + r /\ r < Z
  OBVIOUS
<1> HIDE DEF d, r
<1>2. ASSUME r * q = P
      PROVE  0 <= P /\ P < Z * q /\ d * (Z * q) = A * q - P
  <2>1. A * q = d * (Z * q) + r * q
    BY <1>1
  <2>2. 0 <= r * q /\ r * q < Z * q
    BY <1>1
  <2> QED
    BY <1>1, <1>2, <2>1, <2>2
<1>3. ASSUME 0 <= P, P < Z * q, NEW k \in Nat, k * (Z * q) = A * q - P \/ k * (Z * q) = -(A * q - P)
      PROVE  r * q = P
  <2>1. \A i \in Int, u \in Nat : u # 0 /\ -u < i * u /\ i * u < u => i = 0
    OBVIOUS
  <2> DEFINE u == Z * q
             e == r * q
  <2>2. u \in Nat /\ u # 0 /\ e \in Nat /\ e < u /\ A * q = d * u + e
    BY <1>1
  <2> HIDE DEF u, e
  <2>3. CASE k * u = A * q - P
    <3>1. (d - k) * u = P - e
      <4>1. (d - k) * u = d * u - k * u
        BY <1>1, <2>2
      <4>2. d * u \in Int /\ k * u \in Int
        BY <1>1, <2>2
      <4> QED
        BY <2>2, <2>3, <4>1, <4>2
    <3>2. d - k = 0
      BY <1>1, <1>3, <2>1, <2>2, <3>1 DEF u
    <3> QED
      BY <2>2, <3>1, <3>2 DEF e
  <2>4. CASE k * u = P - A * q
    <3>1. (d + k) * u = P - e
      <4>1. (d + k) * u = d * u + k * u
        BY <1>1, <2>2
      <4>2. d * u \in Int /\ k * u \in Int
        BY <1>1, <2>2
      <4> QED
        BY <2>2, <2>4, <4>1, <4>2
    <3>2. d + k = 0
      BY <1>1, <1>3, <2>1, <2>2, <3>1 DEF u
    <3> QED
      BY <2>2, <3>1, <3>2 DEF e
  <2>5. -(A * q - P) = P - A * q
    BY <2>2
  <2> QED
    BY <1>3, <2>3, <2>4, <2>5 DEF u
<1> QED
  BY <1>1, <1>2, <1>3 DEF r, Multiple

LEMMA ModRight ==
  ASSUME NEW x \in Fraction, NEW y \in Fraction, NEW v \in Fraction, y[1] # 0
  PROVE  LET times(k) == \E m \in 0 .. k[1] * y[2] : Equal(Mul(Whole(m), AbsOf(y)), k)
             between(i, j) == Leq(i, j) /\ ~Equal(i, j)
         IN  Equal(Remainder(x, y), v) <=>
                /\ times(AbsOf(Add(x, Neg(v)))) /\ between(AbsOf(v), AbsOf(y))
                /\ v[1] = 0 \/ (v[1] > 0 <=> x[1] > 0)
<1>1. PICK a \in Int, b \in Nat : b # 0 /\ x = <<a, b>>
  BY DEF Fraction
<1>2. PICK p \in Int, q \in Nat : q # 0 /\ v = <<p, q>>
  BY DEF Fraction
<1>3. PICK m \in Int, n \in Nat : n # 0 /\ y = <<m, n>> /\ m # 0
  BY DEF Fraction
<1> DEFINE between(i, j) == Leq(i, j) /\ ~Equal(i, j)
           mag(i) == IF i < 0 THEN -i ELSE i
           A == mag(a) * n
           Z == mag(m) * b
           D == a * q + (-p) * b
           P == p * (b * n)
           U == Z * q
<1>4. /\ \A i \in Int : mag(i) \in Nat /\ (i # 0 => mag(i) # 0)
      /\ AbsOf(x) = <<mag(a), b>> /\ AbsOf(y) = <<mag(m), n>> /\ AbsOf(v) = <<mag(p), q>>
  BY <1>1, <1>2, <1>3 DEF AbsOf, Neg
<1>5. A \in Nat /\ Z \in Nat /\ Z # 0 /\ D \in Int /\ P \in Int /\ U \in Nat /\ U # 0
  BY <1>1, <1>2, <1>3, <1>4
<1>6. AbsOf(Add(x, Neg(v))) = <<mag(D), b * q>>
  BY <1>1, <1>2 DEF AbsOf, Neg, Add
<1>7. Equal(Remainder(x, y), v) <=> (A % Z) * q = (IF a < 0 THEN -P ELSE P)
  <2> DEFINE d == A \div (b * mag(m))
             R == A - d * Z
  <2>1. b * mag(m) = Z /\ d \in Int /\ R \in Int /\ A % Z = R
    <3>1. b * mag(m) = Z
      BY <1>1, <1>3, <1>4
    <3>2. \A i, j \in Nat : j # 0 => i \div j \in Int /\ i % j = i - (i \div j) * j
      OBVIOUS
    <3> HIDE DEF A, Z
    <3>3. d = A \div Z
      BY <3>1
    <3>4. A \div Z \in Int /\ A % Z = A - (A \div Z) * Z
      BY <1>5, <3>2
    <3> HIDE DEF d
    <3> QED
      BY <1>5, <3>1, <3>3, <3>4
  <2>2. Remainder(x, y) = <<IF a < 0 THEN -(mag(a) * (1 * n) + (-(d * mag(m))) * b)
                                     ELSE mag(a) * (1 * n) + (-(d * mag(m))) * b, b * (1 * n)>>
    <3>1. ~(mag(m) < 0)
      BY <1>3, <1>4
    <3>2. Inv(AbsOf(y)) = <<n, mag(m)>>
      BY <1>4, <3>1 DEF Inv
    <3>3. Floor(Mul(AbsOf(x), Inv(AbsOf(y)))) = <<d, 1>>
      BY <1>4, <3>2 DEF Floor, Mul, Whole
    <3> HIDE DEF d, mag
    <3> QED
      BY <1>1, <1>4, <3>3 DEF Remainder, Add, Neg, Mul
  <2>3. mag(a) * (1 * n) + (-(d * mag(m))) * b = R
    <3> HIDE DEF d
    <3>1. mag(a) \in Int /\ mag(m) \in Int
      BY <1>1, <1>3, <1>4
    <3> HIDE DEF mag
    <3> QED
      BY <1>1, <1>3, <2>1, <3>1
  <2> HIDE DEF R, P, A, Z, d, mag
  <2>4. Remainder(x, y) = <<IF a < 0 THEN -R ELSE R, b * (1 * n)>>
    BY <2>2, <2>3
  <2>5. Equal(Remainder(x, y), v) <=> (IF a < 0 THEN -R ELSE R) * q = P
    <3>1. p * (b * (1 * n)) = P
      BY <1>1, <1>2, <1>3 DEF P
    <3> QED
      BY <1>2, <2>4, <3>1 DEF Equal
  <2>6. (-R) * q = -(R * q) /\ R * q \in Int
    BY <1>2, <2>1
  <2> QED
    BY <1>5, <2>1, <2>5, <2>6
<1>8. between(AbsOf(v), AbsOf(y)) <=> mag(P) < U
  <2>1. mag(p) * n < mag(m) * q <=> (mag(p) * n) * b < (mag(m) * q) * b
    <3>1. mag(p) * n \in Int /\ mag(m) * q \in Int
      BY <1>2, <1>3, <1>4
    <3> HIDE DEF mag
    <3> QED
      BY <1>1, <3>1
  <2>2. mag(P) = (mag(p) * n) * b
    <3>1. CASE p < 0
      <4>1. P < 0
        BY <1>1, <1>2, <1>3, <3>1
      <4> QED
        BY <1>1, <1>2, <1>3, <3>1, <4>1
    <3>2. CASE ~(p < 0)
      <4>1. ~(P < 0)
        BY <1>1, <1>2, <1>3, <3>2
      <4> QED
        BY <1>1, <1>2, <1>3, <3>2, <4>1
    <3> QED
      BY <3>1, <3>2
  <2>3. (mag(m) * q) * b = U
    <3>1. mag(m) \in Int
      BY <1>3, <1>4
    <3> HIDE DEF mag
    <3> QED
      BY <1>1, <1>2, <3>1
  <2>4. between(AbsOf(v), AbsOf(y)) <=> mag(p) * n < mag(m) * q
    <3>1. mag(p) * n \in Int /\ mag(m) * q \in Int
      BY <1>2, <1>3, <1>4
    <3> HIDE DEF mag
    <3> QED
      BY <1>4, <3>1 DEF Leq, Equal
  <2> QED
    BY <2>1, <2>2, <2>3, <2>4
<1>9. (\E i \in 0 .. (AbsOf(Add(x, Neg(v))))[1] * y[2] :
          Equal(Mul(Whole(i), AbsOf(y)), AbsOf(Add(x, Neg(v)))))
      <=> \E i \in Nat : i * U = mag(a * (n * q) - P)
  <2>1. mag(D) * n = mag(a * (n * q) - P) /\ mag(D) * n \in Nat
    <3>1. D * n = a * (n * q) - P
      BY <1>1, <1>2, <1>3
    <3>2. mag(D * n) = mag(D) * n /\ mag(D) * n \in Nat
      <4> HIDE DEF D, P, A, Z, U
      <4>1. D < 0 <=> D * n < 0
        BY <1>3, <1>5
      <4> QED
        BY <1>3, <1>5, <4>1
    <3> QED
      BY <3>1, <3>2
  <2>2. ASSUME NEW i \in Nat
        PROVE  Equal(Mul(Whole(i), AbsOf(y)), AbsOf(Add(x, Neg(v)))) <=> i * U = mag(D) * n
    <3>1. mag(m) \in Int /\ mag(D) \in Int
      BY <1>3, <1>4, <1>5
    <3>2. (i * mag(m)) * (b * q) = i * U
      <4> HIDE DEF mag, D
      <4> QED
        BY <1>1, <1>2, <3>1
    <3> HIDE DEF mag, D, U, Z, P, A
    <3>3. mag(D) * (1 * n) = mag(D) * n
      BY <1>3, <3>1
    <3> QED
      BY <1>4, <1>6, <3>2, <3>3 DEF Equal, Mul, Whole
  <2>3. ASSUME NEW i \in Nat, i * U = mag(D) * n PROVE i \in 0 .. mag(D) * n
    <3> HIDE DEF mag, D, U
    <3>1. i <= i * U
      BY <1>5
    <3> QED
      BY <2>1, <2>3, <3>1
  <2>4. (AbsOf(Add(x, Neg(v))))[1] * y[2] = mag(D) * n
    BY <1>3, <1>6
  <2> HIDE DEF mag, D, U, Z, P, A
  <2> QED
    BY <2>1, <2>2, <2>3, <2>4
<1> DEFINE Q == IF a < 0 THEN -P ELSE P
<1>10. (A % Z) * q = Q <=> 0 <= Q /\ Q < U /\ Multiple(A * q - Q, U)
  <2>1. A \in Nat /\ Z \in Nat /\ Z # 0 /\ q \in Nat /\ q # 0 /\ Q \in Int
    BY <1>2, <1>5
  <2> HIDE DEF A, Z, Q
  <2> QED
    BY <2>1, RemainderIs
<1>11. (p = 0 <=> P = 0) /\ (p > 0 <=> P > 0)
  BY <1>1, <1>2, <1>3
<1>12. A * q = mag(a * (n * q)) /\ a * (n * q) \in Int /\ (a = 0 => a * (n * q) = 0)
  <2>1. a * (n * q) < 0 <=> a < 0
    BY <1>1, <1>2, <1>3
  <2> QED
    BY <1>1, <1>2, <1>3, <2>1
<1>13. a * (n * q) < 0 <=> a < 0
  BY <1>1, <1>2, <1>3
<1> DEFINE T == a * (n * q)
           fits == Multiple(T - P, U)
<1>14. (A % Z) * q = Q <=> fits /\ mag(P) < U /\ (P = 0 \/ (P > 0 <=> a > 0))
  <2>1. T \in Int /\ A * q = mag(T) /\ (T < 0 <=> a < 0) /\ (a = 0 => T = 0)
    BY <1>12, <1>13
  <2>2. Multiple(-(T - P), U) <=> fits
    <3>1. T - P \in Int
      BY <1>5, <2>1
    <3> HIDE DEF T, P, U
    <3> QED
      BY <3>1 DEF Multiple
  <2>3. ASSUME fits, a = 0 PROVE \E k \in Nat : k * U = mag(P)
    <3>1. T - P = -P
      BY <1>5, <2>1, <2>3
    <3> HIDE DEF T, P, U
    <3>2. PICK k \in Nat : k * U = -P \/ k * U = -(-P)
      BY <2>3, <3>1 DEF Multiple
    <3>3. k * U \in Nat
      BY <1>5
    <3> QED
      BY <1>5, <3>2, <3>3
  <2> HIDE DEF T, P, U, A, Z, fits
  <2>5. CASE a < 0
    <3>1. Q = -P /\ A * q = -T
      BY <2>1, <2>5
    <3>2. Multiple(A * q - Q, U) <=> fits
      <4>1. A * q - Q = -(T - P)
        BY <1>5, <2>1, <3>1
      <4> QED
        BY <2>2, <4>1
    <3> QED
      BY <1>1, <1>5, <1>10, <2>5, <3>1, <3>2
  <2>6. CASE a > 0
    <3>1. Q = P /\ A * q = T
      BY <1>1, <2>1, <2>6
    <3>2. Multiple(A * q - Q, U) <=> fits
      BY <3>1 DEF fits
    <3> QED
      BY <1>1, <1>5, <1>10, <2>6, <3>1, <3>2
  <2>7. CASE a = 0
    <3>1. \A i \in Nat : i * U < U => i * U = 0
      BY <1>5
    <3>2. Q = P /\ A * q = T
      BY <1>1, <2>1, <2>7
    <3>3. Multiple(A * q - Q, U) <=> fits
      BY <3>2 DEF fits
    <3>4. fits /\ mag(P) < U => P = 0
      BY <1>5, <2>3, <2>7, <3>1
    <3>5. (A % Z) * q = Q <=> 0 <= P /\ P < U /\ fits
      BY <1>10, <3>2, <3>3
    <3>6. 0 <= P /\ P < U => mag(P) < U
      BY <1>5
    <3>7. P = 0 => 0 <= P /\ P < U
      BY <1>5
    <3> QED
      BY <1>5, <2>7, <3>4, <3>5, <3>6, <3>7
  <2> QED
    BY <1>1, <2>5, <2>6, <2>7
<1>15. fits <=> \E k \in Nat : k * U = mag(T - P)
  <2>1. T - P \in Int
    BY <1>5, <1>12
  <2>2. \A k \in Nat : k * U \in Nat
    BY <1>5
  <2> HIDE DEF T, P, U
  <2> QED
    BY <2>1, <2>2 DEF Multiple
<1> HIDE DEF mag, A, Z, D, P, U, Q, fits
<1> QED
  BY <1>1, <1>2, <1>7, <1>8, <1>9, <1>11, <1>14, <1>15 DEF Q

LEMMA EqualEither ==
  ASSUME NEW r \in Fraction, NEW v \in Fraction
  PROVE  Equal(v, r) <=> Equal(r, v)
BY DEF Equal, Fraction

\* What comes of two operands is a fraction again.
LEMMA FractionsClosed ==
  ASSUME NEW x \in Fraction, NEW y \in Fraction
  PROVE  /\ Add(x, y) \in Fraction /\ Neg(x) \in Fraction /\ Mul(x, y) \in Fraction
         /\ Floor(x) \in Fraction /\ AbsOf(x) \in Fraction
         /\ y[1] # 0 => Inv(y) \in Fraction
         /\ \A n \in Int : Whole(n) \in Fraction
<1>1. PICK a \in Int, b \in Nat : b # 0 /\ x = <<a, b>>
  BY DEF Fraction
<1>2. PICK p \in Int, q \in Nat : q # 0 /\ y = <<p, q>>
  BY DEF Fraction
<1>3. \A i \in Int, j \in Nat : j # 0 => <<i, j>> \in Fraction
  BY DEF Fraction
<1>4. a * q + p * b \in Int /\ a * p \in Int /\ b * q \in Nat /\ b * q # 0 /\ a \div b \in Int /\ -a \in Int
  BY <1>1, <1>2
<1>5. Add(x, y) \in Fraction
  BY <1>1, <1>2, <1>3, <1>4 DEF Add
<1>6. Neg(x) \in Fraction
  BY <1>1, <1>3, <1>4 DEF Neg
<1>7. Mul(x, y) \in Fraction
  BY <1>1, <1>2, <1>3, <1>4 DEF Mul
<1>8. Floor(x) \in Fraction
  BY <1>1, <1>3, <1>4 DEF Floor, Whole
<1>9. y[1] # 0 => Inv(y) \in Fraction
  <2>1. CASE p < 0
    <3>1. -q \in Int /\ -p \in Nat /\ -p # 0
      BY <1>2, <2>1
    <3> QED
      BY <1>2, <1>3, <2>1, <3>1 DEF Inv
  <2>2. CASE p > 0
    <3>1. p \in Nat /\ p # 0 /\ ~(p < 0)
      BY <2>2
    <3> QED
      BY <1>2, <1>3, <3>1 DEF Inv
  <2> QED
    BY <1>2, <2>1, <2>2
<1>10. \A n \in Int : Whole(n) \in Fraction
  BY <1>3 DEF Whole
<1> QED
  BY <1>5, <1>6, <1>7, <1>8, <1>9, <1>10 DEF AbsOf

LEMMA PercentRight ==
  ASSUME NEW x \in Fraction, NEW y \in Fraction, NEW v \in Fraction, y[1] # 0
  PROVE  Equal(v, Mul(Whole(100), Mul(x, Inv(y)))) <=> Equal(Mul(v, y), Mul(Whole(100), x))
<1>1. Mul(Whole(100), Mul(x, Inv(y))) = Mul(Mul(Whole(100), x), Inv(y))
  <2>1. PICK a \in Int, b \in Nat : x = <<a, b>>
    BY DEF Fraction
  <2>2. PICK i \in Int, j \in Nat : Inv(y) = <<i, j>>
    <3>1. Inv(y) \in Fraction
      BY FractionsClosed
    <3> QED
      BY <3>1 DEF Fraction
  <2>3. 100 * (a * i) = (100 * a) * i /\ 1 * (b * j) = (1 * b) * j
    BY <2>1, <2>2
  <2> QED
    BY <2>1, <2>2, <2>3 DEF Mul, Whole
<1>2. Mul(Whole(100), x) \in Fraction
  <2>1. Whole(100) \in Fraction
    BY DEF Fraction, Whole
  <2> QED
    BY <2>1, FractionsClosed
<1> QED
  BY <1>1, <1>2, RatioRight

LEMMA NothingComesOfIt ==
  ASSUME NEW op \in Binary \ {"pow"}, NEW xs, Len(xs) \in Nat, ~(Len(xs) > 1) \/ xs[2][1] = 0
  PROVE  Recompute(op, xs) = Null
<1>1. Len(xs) < 2 \/ xs[2][1] = 0
  OBVIOUS
<1> QED
  BY <1>1 DEF Recompute

\* The operations that fold no list: what is recomputed is what is meant, for
\* every operand, positive or negative (recompute, numbersClose).
THEOREM StraightRight ==
  ASSUME NEW op \in NumberOps \ OverLists, NEW xs \in Seq(Fraction), NEW v \in Fraction, xs # <<>>,
         op \in Binary => Len(xs) > 1 /\ xs[2][1] # 0
  PROVE  /\ Recompute(op, xs) \in Fraction
         /\ Close(v, Recompute(op, xs), Whole(0), op = "stddev") <=> IsResult(op, xs, v)
<1> DEFINE x == xs[1]
           y == xs[2]
           r == Recompute(op, xs)
<1>1. x \in Fraction /\ Len(xs) \in Nat
  BY EmptySeq, LenProperties
<1>2. op \in Binary => y \in Fraction /\ y[1] # 0
  OBVIOUS
<1>3. op \in {"ratio", "percent", "count", "abs", "mod", "floor", "ceil", "round"}
  BY DEF NumberOps, OverLists
<1> HIDE DEF x, y, r
<1>4. SUFFICES r \in Fraction /\ (Equal(v, r) <=> IsResult(op, xs, v))
  <2>1. (op = "stddev") = FALSE
    BY <1>3
  <2>2. r \in Fraction => (Close(v, r, Whole(0), FALSE) <=> Equal(r, v))
    BY CloseIsEqual
  <2>3. r \in Fraction => (Equal(r, v) <=> Equal(v, r))
    BY EqualEither
  <2> QED
    BY <1>4, <2>1, <2>2, <2>3 DEF r
<1>5. r \in Fraction => (Equal(v, r) <=> Equal(r, v))
  BY EqualEither
<1>6. CASE op = "ratio"
  <2>1. r = Mul(x, Inv(y)) /\ (IsResult(op, xs, v) <=> Equal(Mul(v, y), x))
    BY <1>6 DEF Recompute, Binary, IsResult, r, x, y
  <2> QED
    BY <1>1, <1>2, <1>6, <2>1, RatioRight DEF Binary
<1>7. CASE op = "percent"
  <2>1. r = Mul(Whole(100), Mul(x, Inv(y))) /\ (IsResult(op, xs, v) <=> Equal(Mul(v, y), Mul(Whole(100), x)))
    BY <1>7 DEF Recompute, Binary, IsResult, r, x, y
  <2>2. r \in Fraction
    <3>1. y \in Fraction /\ y[1] # 0
      BY <1>2, <1>7 DEF Binary
    <3>2. Inv(y) \in Fraction /\ Whole(100) \in Fraction
      BY <3>1, FractionsClosed
    <3>3. Mul(x, Inv(y)) \in Fraction
      BY <1>1, <3>2, FractionsClosed
    <3> QED
      BY <2>1, <3>2, <3>3, FractionsClosed
  <2> QED
    BY <1>1, <1>2, <1>7, <2>1, <2>2, PercentRight DEF Binary
<1>8. CASE op = "count"
  <2>1. r = Whole(Len(xs)) /\ (IsResult(op, xs, v) <=> Equal(v, Whole(Len(xs))))
    BY <1>8 DEF Recompute, Binary, IsResult, r
  <2>2. Whole(Len(xs)) \in Fraction
    BY <1>1 DEF Whole, Fraction
  <2> QED
    BY <2>1, <2>2
<1>9. CASE op = "abs"
  <2>1. r = AbsOf(x) /\ (IsResult(op, xs, v) <=>
                            v[1] >= 0 /\ v[1] * v[1] * x[2] * x[2] = x[1] * x[1] * v[2] * v[2])
    BY <1>9 DEF Recompute, Binary, IsResult, r, x
  <2> QED
    BY <1>1, <1>5, <2>1, AbsRight
<1>10. CASE op = "mod"
  <2>1. /\ r = Remainder(x, y)
        /\ IsResult(op, xs, v) <=>
              LET times(k) == \E m \in 0 .. k[1] * y[2] : Equal(Mul(Whole(m), AbsOf(y)), k)
                  between(i, j) == Leq(i, j) /\ ~Equal(i, j)
              IN  /\ times(AbsOf(Add(x, Neg(v)))) /\ between(AbsOf(v), AbsOf(y))
                  /\ v[1] = 0 \/ (v[1] > 0 <=> x[1] > 0)
    BY <1>10 DEF Recompute, Binary, IsResult, r, x, y
  <2>2. y \in Fraction /\ y[1] # 0
    BY <1>2, <1>10 DEF Binary
  <2>3. r \in Fraction
    <3>1. AbsOf(x) \in Fraction /\ AbsOf(y) \in Fraction /\ (AbsOf(y))[1] # 0
      <4>1. AbsOf(x) \in Fraction /\ AbsOf(y) \in Fraction
        BY <1>1, <2>2, FractionsClosed
      <4>2. y[1] \in Int
        BY <2>2 DEF Fraction
      <4>3. (Neg(y))[1] = -y[1]
        BY DEF Neg
      <4> QED
        BY <2>2, <4>1, <4>2, <4>3 DEF AbsOf
    <3>2. Inv(AbsOf(y)) \in Fraction
      BY <3>1, FractionsClosed
    <3>3. Mul(AbsOf(x), Inv(AbsOf(y))) \in Fraction
      BY <3>1, <3>2, FractionsClosed
    <3> DEFINE d == Floor(Mul(AbsOf(x), Inv(AbsOf(y))))
               e == Add(AbsOf(x), Neg(Mul(d, AbsOf(y))))
    <3>4. d \in Fraction
      BY <3>3, FractionsClosed
    <3>5. Mul(d, AbsOf(y)) \in Fraction
      BY <3>1, <3>4, FractionsClosed
    <3>6. Neg(Mul(d, AbsOf(y))) \in Fraction
      BY <3>5, FractionsClosed
    <3>7. e \in Fraction
      BY <3>1, <3>6, FractionsClosed
    <3>8. r = IF x[1] < 0 THEN Neg(e) ELSE e
      BY <2>1 DEF Remainder
    <3> HIDE DEF d, e
    <3> QED
      BY <3>7, <3>8, FractionsClosed
  <2> QED
    BY <1>1, <1>5, <2>1, <2>2, <2>3, ModRight
<1>11. CASE op = "floor"
  <2>1. r = Floor(x) /\ (IsResult(op, xs, v) <=>
                            /\ v[1] % v[2] = 0 /\ Leq(v, x)
                            /\ Leq(x, Add(v, Whole(1))) /\ ~Equal(x, Add(v, Whole(1))))
    BY <1>11 DEF Recompute, Binary, IsResult, r, x
  <2> QED
    BY <1>1, <1>5, <2>1, RoundedRight, FractionsClosed
<1>12. CASE op = "ceil"
  <2>1. r = Neg(Floor(Neg(x))) /\ (IsResult(op, xs, v) <=>
                            /\ v[1] % v[2] = 0 /\ Leq(x, v)
                            /\ Leq(Add(v, Whole(-1)), x) /\ ~Equal(Add(v, Whole(-1)), x))
    BY <1>12 DEF Recompute, Binary, IsResult, r, x
  <2>2. r \in Fraction
    BY <1>1, <2>1, FractionsClosed
  <2> QED
    BY <1>1, <1>5, <2>1, <2>2, RoundedRight
<1>13. CASE op = "round"
  <2>1. r = Floor(Add(x, <<1, 2>>)) /\ (IsResult(op, xs, v) <=>
                            /\ v[1] % v[2] = 0 /\ Leq(Add(v, <<-1, 2>>), x)
                            /\ Leq(x, Add(v, <<1, 2>>)) /\ ~Equal(x, Add(v, <<1, 2>>)))
    BY <1>13 DEF Recompute, Binary, IsResult, r, x
  <2>2. <<1, 2>> \in Fraction
    BY DEF Fraction
  <2>3. r \in Fraction
    BY <1>1, <2>1, <2>2, FractionsClosed
  <2> QED
    BY <1>1, <1>5, <2>1, <2>3, RoundedRight
<1> QED
  BY <1>3, <1>6, <1>7, <1>8, <1>9, <1>10, <1>11, <1>12, <1>13

LEMMA RangeTells ==
  ASSUME NEW v, NEW min, NEW max, min # Null \/ max # Null
  PROVE  Tells(RangeStatus(v, min, max), v # Null,
               (min # Null => Leq(min, v)) /\ (max # Null => Leq(v, max)))
BY DEF Tells, RangeStatus, Failures

LEMMA DaysAre ==
  ASSUME NEW t, IsText(t)
  PROVE  DatesInText(t) = Days(t.dates)
<1>1. \A d \in t.dates : /\ d.form \in {"iso", "mdy", "dmy", "unknown"} /\ d.day # Null
                         /\ d.form # "unknown" => Canonical(d) = d.day
                         /\ d.form = "unknown" => Canonical(d) = Null
  BY DEF IsText, Canonical
<1> QED
  BY <1>1 DEF DatesInText, Days

LEMMA DateTells ==
  ASSUME NEW date, NEW src, src # Null => IsText(src), date # Null,
         date.form \in {"iso", "mdy", "dmy", "unknown"}, date.day # Null
  PROVE  Tells(DateStatus(date, src), src # Null /\ date.form # "unknown" /\ Days(src.dates) # {},
               date.day \in Days(src.dates))
<1>1. src # Null => DatesInText(src) = Days(src.dates)
  BY DaysAre
<1>2. Canonical(date) = IF date.form = "unknown" THEN Null ELSE date.day
  BY DEF Canonical
<1> QED
  BY <1>1, <1>2 DEF Tells, DateStatus, Failures

LEMMA HashTells ==
  ASSUME NEW stated, NEW content, NEW algo, stated # Null
  PROVE  Tells(HashStatus(stated, content, algo), content # Null /\ algo \in StrongHashAlgos,
               stated = <<algo, content>>)
BY DEF Tells, HashStatus, Failures, Digest

LEMMA SignatureTells ==
  ASSUME NEW content, NEW signature, NEW key
  PROVE  Tells(SignatureStatus(content, signature, key),
               content # Null /\ signature # Null /\ key # Null /\ key.readable,
               signature = [by |-> key, over |-> content])
BY DEF Tells, SignatureStatus, Failures

LEMMA ThereTells ==
  ASSUME NEW x, NEW exists \in BOOLEAN, x # Null
  PROVE  /\ Tells(CommitStatus(x, exists), TRUE, exists) /\ Tells(FileStatus(x, exists), TRUE, exists)
         /\ CommitStatus(x, Null) = "no-basis" /\ FileStatus(x, Null) = "no-basis"
<1>1. exists # Null
  BY FactsAssumption
<1> QED
  BY <1>1 DEF Tells, CommitStatus, FileStatus, Failures

LEMMA ChangeTells ==
  ASSUME NEW x, NEW s, x # Null, s # Null
  PROVE  /\ Tells(FileChangedStatus(x, s), TRUE, x \in s)
         /\ Tells(DiffContainsStatus(x, s), TRUE, x # Blank /\ x \in s)
         /\ FileChangedStatus(x, Null) = "no-basis" /\ DiffContainsStatus(x, Null) = "no-basis"
BY DEF Tells, FileChangedStatus, DiffContainsStatus, Failures

LEMMA ReceiptTells ==
  ASSUME ReceiptsInv, NEW o \in Outs, NEW id, id # Null
  PROVE  Tells(ReceiptStatus(id, ResolveReceiptFacts(receipts[o])), receipts[o] # Other,
               IsReceipt(receipts[o]) /\ Untouched(o) /\ receipts[o].body.receiptId = id)
<1> DEFINE x == receipts[o]
           w == written[o]
           facts == ResolveReceiptFacts(x)
           status == ReceiptStatus(id, facts)
<1>1. CASE x \in {Null, Torn}
  <2>1. facts = [found |-> FALSE, actualReceiptId |-> Null] /\ x # Other
    BY <1>1, FactsAssumption DEF ResolveReceiptFacts
  <2>2. facts # Null /\ ~facts.found /\ ~IsReceipt(x)
    BY <1>1, <2>1, FactsAssumption DEF IsReceipt
  <2> HIDE DEF facts
  <2>3. status = "mismatch"
    BY <2>2 DEF ReceiptStatus
  <2> HIDE DEF status
  <2> QED
    BY <2>1, <2>2, <2>3 DEF Tells, Failures, status, facts
<1>2. CASE x = Other
  <2>1. facts = [found |-> TRUE, isVerificationReceipt |-> FALSE, actualReceiptId |-> Null]
    BY <1>2, FactsAssumption DEF ResolveReceiptFacts
  <2>2. facts # Null /\ facts.found /\ ~facts.isVerificationReceipt
    BY <2>1, FactsAssumption
  <2> HIDE DEF facts
  <2>3. status = "no-basis"
    BY <2>2 DEF ReceiptStatus
  <2> HIDE DEF status
  <2> QED
    BY <1>2, <2>3 DEF Tells, Failures, status, facts
<1>3. CASE IsReceipt(x)
  <2>1. SealedRight(w) /\ Kept(x, w) /\ x \notin {Null, Torn} /\ x # Other
    BY <1>3 DEF ReceiptsInv, IsReceipt
  <2>2. /\ Replay(x, Null, Null).contentHashOk = (x.contentHash = x.body)
        /\ Replay(x, Null, Null).receiptIdOk = (x.body.receiptId = ReceiptId(x.body.input, x.body.verdict))
    BY DEF Replay
  <2> DEFINE sealed == x.contentHash = x.body
             named == x.body.receiptId = ReceiptId(x.body.input, x.body.verdict)
  <2>3. facts = [found |-> TRUE, isVerificationReceipt |-> TRUE, actualReceiptId |-> x.body.receiptId,
                 contentHashOk |-> sealed, receiptIdOk |-> named]
    BY <2>1, <2>2 DEF ResolveReceiptFacts
  <2>4. x.body.receiptId \in (DOMAIN Reports) \X {"pass", "fail"}
    BY <2>1 DEF SealedRight, Kept, ReceiptId, VerdictOfAll, ReadWhole, ReadSoFar
  <2>5. sealed /\ named <=> Untouched(o)
    <3>1. ReplayExit(x, Now, world.repo) = 0 <=> sealed /\ named
      BY <1>3, WhatReplaySays
    <3>2. o \in OnDisk
      BY <1>3 DEF OnDisk
    <3> QED
      BY <3>1, <3>2, ReplayTells DEF ReplayIsExact
  <2> HIDE DEF sealed, named
  <2>6. facts # Null
    <3>1. facts \in [found : {TRUE}, isVerificationReceipt : {TRUE},
                     actualReceiptId : (DOMAIN Reports) \X {"pass", "fail"},
                     contentHashOk : BOOLEAN, receiptIdOk : BOOLEAN]
      BY <2>3, <2>4 DEF sealed, named
    <3> QED
      BY <3>1, FactsAssumption
  <2>7. /\ facts.found /\ facts.isVerificationReceipt /\ facts.actualReceiptId = x.body.receiptId
        /\ facts.contentHashOk = sealed /\ facts.receiptIdOk = named
    BY <2>3
  <2> HIDE DEF facts
  <2>8. status = IF x.body.receiptId # id THEN "mismatch" ELSE IF ~(sealed /\ named) THEN "mismatch" ELSE "verified"
    BY <2>6, <2>7 DEF ReceiptStatus
  <2> HIDE DEF status
  <2> QED
    BY <1>3, <2>1, <2>5, <2>8 DEF Tells, Failures, status, facts
<1> QED
  BY <1>1, <1>2, <1>3 DEF IsReceipt

\* What is asked of a file: any of its size and its hash.
LEMMA ArtifactTells ==
  ASSUME NEW c, IsClaim(c), NEW t \in Contents \cup {Null},
         {"artifactMinBytes", "artifactMaxBytes", "artifactSha256"} \cap DOMAIN c # {},
         NEW a, \A f \in {"artifactMinBytes", "artifactMaxBytes", "artifactSha256"} :
                   (Has(a, f) <=> Has(c, f)) /\ (Has(c, f) => a[f] = c[f])
  PROVE  Tells(ArtifactStatus(a, ResolveArtifactFacts(t, Has(c, "artifactSha256"))), TRUE,
               /\ t # Null
               /\ Has(c, "artifactMinBytes") => t.size >= c.artifactMinBytes
               /\ Has(c, "artifactMaxBytes") => t.size <= c.artifactMaxBytes
               /\ Has(c, "artifactSha256") => t = c.artifactSha256)
<1> DEFINE sha == Has(c, "artifactSha256")
           facts == ResolveArtifactFacts(t, sha)
           status == ArtifactStatus(a, facts)
           min == Field(a, "artifactMinBytes")
           max == Field(a, "artifactMaxBytes")
           hash == Field(a, "artifactSha256")
<1>1. /\ min = IF Has(c, "artifactMinBytes") THEN c.artifactMinBytes ELSE Null
      /\ max = IF Has(c, "artifactMaxBytes") THEN c.artifactMaxBytes ELSE Null
      /\ hash = IF Has(c, "artifactSha256") THEN c.artifactSha256 ELSE Null
  BY DEF Field
<1>2. /\ Has(c, "artifactMinBytes") => c.artifactMinBytes # Null /\ c.artifactMinBytes \in Int
      /\ Has(c, "artifactMaxBytes") => c.artifactMaxBytes # Null /\ c.artifactMaxBytes \in Int
      /\ Has(c, "artifactSha256") => c.artifactSha256 # Null
      /\ Has(c, "artifactMinBytes") \/ Has(c, "artifactMaxBytes") \/ Has(c, "artifactSha256")
  BY DEF IsClaim, Has
<1>3. status = IF facts = Null THEN "no-basis"
               ELSE IF ~facts.exists THEN "not-found"
               ELSE IF min # Null /\ facts.sizeBytes < min THEN "mismatch"
               ELSE IF max # Null /\ facts.sizeBytes > max THEN "mismatch"
               ELSE IF hash # Null /\ facts.sha256 = Null THEN "no-basis"
               ELSE IF hash # Null /\ facts.sha256 # hash THEN "mismatch"
               ELSE "verified"
  BY <1>1, <1>2 DEF ArtifactStatus
<1>4. CASE t = Null
  <2>1. facts = [exists |-> FALSE]
    BY <1>4 DEF ResolveArtifactFacts
  <2>2. facts # Null /\ ~facts.exists
    BY <2>1, FactsAssumption
  <2> HIDE DEF facts, min, max, hash, status
  <2>3. status = "not-found"
    BY <1>3, <2>2
  <2> QED
    BY <1>4, <2>3 DEF Tells, Failures, status, facts
<1>5. CASE t # Null
  <2>1. PICK u \in Contents \cup {Null} : u = IF sha THEN t ELSE Null
    OBVIOUS
  <2>2. t.size \in Nat
    BY <1>5, ClaimAssumption DEF IsText
  <2>3. facts = [exists |-> TRUE, sizeBytes |-> t.size, sha256 |-> u]
    BY <1>5, <2>1 DEF ResolveArtifactFacts
  <2>4. facts # Null /\ facts.exists /\ facts.sizeBytes = t.size /\ facts.sha256 = IF sha THEN t ELSE Null
    <3>1. facts \in [exists : {TRUE}, sizeBytes : Nat, sha256 : Contents \cup {Null}]
      <4> DEFINE n == t.size
      <4>1. n \in Nat /\ u \in Contents \cup {Null} /\ facts = [exists |-> TRUE, sizeBytes |-> n, sha256 |-> u]
        BY <2>1, <2>2, <2>3
      <4> HIDE DEF n, facts
      <4>2. [exists |-> TRUE, sizeBytes |-> n, sha256 |-> u]
              \in [exists : {TRUE}, sizeBytes : Nat, sha256 : Contents \cup {Null}]
        BY <4>1
      <4> QED
        BY <4>1, <4>2 DEF Before
    <3>2. facts # Null
      BY <3>1, FactsAssumption
    <3> QED
      BY <2>1, <2>3, <3>2
  <2> HIDE DEF facts, min, max, hash, status
  <2>5. status = IF min # Null /\ t.size < min THEN "mismatch"
                 ELSE IF max # Null /\ t.size > max THEN "mismatch"
                 ELSE IF hash # Null /\ t # hash THEN "mismatch"
                 ELSE "verified"
    BY <1>1, <1>2, <1>3, <1>5, <2>4
  <2>6. /\ (min # Null /\ t.size < min) <=> Has(c, "artifactMinBytes") /\ ~(t.size >= c.artifactMinBytes)
        /\ (max # Null /\ t.size > max) <=> Has(c, "artifactMaxBytes") /\ ~(t.size <= c.artifactMaxBytes)
        /\ (hash # Null /\ t # hash) <=> sha /\ t # c.artifactSha256
    BY <1>1, <1>2, <2>2
  <2> QED
    BY <1>5, <2>5, <2>6 DEF Tells, Failures, status, facts
<1> QED
  BY <1>4, <1>5

\* Whether the range the file gives a package allows the version a claim states.
LEMMA VersionTells ==
  ASSUME NEW claimed, claimed # Null, claimed.base = Null \/ claimed.base \in Version, NEW pkg, pkg # Null,
         NEW deps, deps # Null => \A p \in DOMAIN deps : /\ deps[p] # Null /\ deps[p].op \in Ranges
                                                         /\ deps[p].base = Null \/ deps[p].base \in Version
  PROVE  LET is == deps[pkg]
         IN  Tells(VersionStatus(pkg, claimed, deps),
                   /\ deps # Null /\ pkg \in DOMAIN deps
                   /\ (Readable(is) /\ claimed.base # Null) \/ is.text = claimed.text,
                   ~Readable(is) \/ claimed.base = Null \/ Allows(is, claimed.base))
<1> DEFINE is == deps[pkg]
           fits == SemverSatisfies(claimed.base, is)
           status == VersionStatus(pkg, claimed, deps)
<1>1. CASE deps = Null
  <2>1. status = "no-basis"
    BY <1>1 DEF VersionStatus
  <2> HIDE DEF status
  <2> QED
    BY <1>1, <2>1 DEF Tells, Failures, status
<1>2. CASE deps # Null /\ pkg \notin DOMAIN deps
  <2>1. status = "no-basis"
    BY <1>2 DEF VersionStatus
  <2> HIDE DEF status
  <2> QED
    BY <1>2, <2>1 DEF Tells, Failures, status
<1>3. CASE deps # Null /\ pkg \in DOMAIN deps
  <2>1. is.op \in Ranges /\ (is.base = Null \/ is.base \in Version)
    BY <1>3
  <2>2. status = IF fits = Null THEN (IF claimed.text = is.text THEN "verified" ELSE "no-basis")
                 ELSE IF fits THEN "verified" ELSE "mismatch"
    BY <1>3 DEF VersionStatus
  <2>3. CASE ~Readable(is) \/ claimed.base = Null
    <3>1. fits = Null
      BY <2>3 DEF SemverSatisfies, Readable
    <3>2. status = IF claimed.text = is.text THEN "verified" ELSE "no-basis"
      BY <2>2, <3>1
    <3> HIDE DEF status
    <3> QED
      BY <1>3, <2>3, <3>2 DEF Tells, Failures, status
  <2>4. CASE Readable(is) /\ claimed.base # Null
    <3>1. /\ is.base \in Places /\ claimed.base \in Places
          /\ is.op \in {"", ">=", ">", "<=", "<", "~", "^"}
      BY <2>1, <2>4 DEF Readable, Places, Version, Ranges
    <3>2. fits <=> Allows(is, claimed.base)
      BY <3>1, RangesMeanWhatTheySay
    <3>3. fits \in BOOLEAN
      <4>1. fits = CASE is.op = "" -> claimed.base = is.base
                     [] is.op = ">=" -> ~Before(claimed.base, is.base)
                     [] is.op = ">" -> Before(is.base, claimed.base)
                     [] is.op = "<=" -> ~Before(is.base, claimed.base)
                     [] is.op = "<" -> Before(claimed.base, is.base)
                     [] is.op = "~" -> /\ ~Before(claimed.base, is.base)
                                       /\ Before(claimed.base, <<is.base[1], is.base[2] + 1, 0>>)
                     [] is.op = "^" -> /\ ~Before(claimed.base, is.base)
                                       /\ Before(claimed.base, CaretUpper(is.base))
        BY <2>4 DEF SemverSatisfies, Readable
      <4> HIDE DEF fits, is
      <4>2. CASE is.op \in {"", "<"}
        BY <4>1, <4>2 DEF Before
      <4>5. CASE is.op = ">="
        BY <4>1, <4>5
      <4>6. CASE is.op = ">"
        BY <4>1, <4>6 DEF Before
      <4>7. CASE is.op = "<="
        BY <4>1, <4>7
      <4>3. CASE is.op = "~"
        BY <4>1, <4>3
      <4>4. CASE is.op = "^"
        BY <4>1, <4>4
      <4> QED
        BY <3>1, <4>2, <4>3, <4>4, <4>5, <4>6, <4>7
    <3>4. fits # Null
      BY <3>3, FactsAssumption
    <3>5. status = IF fits THEN "verified" ELSE "mismatch"
      BY <2>2, <3>4
    <3> HIDE DEF status, fits
    <3> QED
      BY <1>3, <2>4, <3>2, <3>5 DEF Tells, Failures, status
  <2> QED
    BY <2>3, <2>4
<1> QED
  BY <1>1, <1>2, <1>3

LEMMA NumberTells ==
  ASSUME NEW c, NEW a, NEW src, src # Null => IsText(src),
         \A f \in {"statedValue", "op", "operands", "eps"} : (Has(a, f) <=> Has(c, f)) /\ (Has(c, f) => a[f] = c[f]),
         Has(c, "statedValue"), ~Has(c, "eps"), c.statedValue = Null \/ c.statedValue \in Fraction,
         (c.statedValue # Null /\ Own(c)) =>
            /\ Defined(c) <=> Recompute(c.op, c.operands) # Null
            /\ Defined(c) => (Close(c.statedValue, Recompute(c.op, c.operands), Whole(0), c.op = "stddev")
                                <=> IsResult(c.op, c.operands, c.statedValue))
  PROVE  Tells(NumberStatus(a, src),
               c.statedValue # Null /\ IF Own(c) THEN Defined(c) ELSE src # Null /\ src.numbers # {},
               IF Own(c) THEN IsResult(c.op, c.operands, c.statedValue)
               ELSE \E n \in src.numbers : Equal(n, c.statedValue))
<1> DEFINE x == c.statedValue
           is == Recompute(c.op, c.operands)
           status == NumberStatus(a, src)
           right == IsResult(c.op, c.operands, x)
<1>1. Own(c) => Field(a, "op") = c.op /\ Has(a, "operands") /\ a.operands = c.operands /\ a.op = c.op
  BY FactsAssumption DEF Own, Field, Has
<1>2. Own(c) <=> Field(a, "op") \in NumberOps /\ Has(a, "operands") /\ a.operands # <<>>
  BY DEF Own, Field
<1>3. a.statedValue = x /\ ~Has(a, "eps")
  OBVIOUS
<1>4. CASE x = Null
  <2>1. status = "no-basis"
    BY <1>3, <1>4 DEF NumberStatus
  <2> HIDE DEF status
  <2> QED
    BY <1>4, <2>1 DEF Tells, Failures, status
<1>5. CASE x # Null /\ Own(c)
  <2>1. status = IF is = Null THEN "no-basis"
                 ELSE IF Close(x, is, Whole(0), c.op = "stddev") THEN "verified" ELSE "mismatch"
    BY <1>1, <1>2, <1>3, <1>5 DEF NumberStatus
  <2>2. (Defined(c) <=> is # Null) /\ (Defined(c) => (Close(x, is, Whole(0), c.op = "stddev") <=> right))
    BY <1>5
  <2> HIDE DEF status, is, right
  <2> QED
    BY <1>5, <2>1, <2>2 DEF Tells, Failures, status, right
<1>6. CASE x # Null /\ ~Own(c)
  <2>1. status = IF src = Null THEN "no-basis" ELSE IF src.numbers = {} THEN "no-basis"
                 ELSE IF \E n \in src.numbers : Close(x, n, Whole(0), FALSE) THEN "verified" ELSE "mismatch"
    BY <1>2, <1>3, <1>6 DEF NumberStatus
  <2>2. src # Null => ((\E n \in src.numbers : Close(x, n, Whole(0), FALSE)) <=> \E n \in src.numbers : Equal(n, x))
    BY <1>6, CloseIsEqual DEF IsText
  <2> HIDE DEF status
  <2> QED
    BY <1>6, <2>1, <2>2 DEF Tells, Failures, status
<1> QED
  BY <1>4, <1>5, <1>6

-----------------------------------------------------------------------------
(* What a claim is given                                                   *)

Looked == {"commitExists", "changedFiles", "diffText", "dependencyMap", "fileExists",
           "receiptFacts", "artifactFacts", "link", "content"}

\* The fields a claim keeps of its own, and those that are looked up for it.
LEMMA InputIs ==
  ASSUME NEW surface, NEW c, NEW w, NEW dir, IsClaim(c)
  PROVE  LET a == Assembled(surface, c, w, dir)
             commit == Field(c, "statedCommit")
         IN  /\ \A f \in DOMAIN c \ (Looked \cup {"statedMin", "statedMax"}) : Has(a, f) /\ a[f] = c[f]
             /\ surface # "council" => \A f \in DOMAIN c \ Looked : Has(a, f) /\ a[f] = c[f]
             /\ surface = "council" => ~Has(a, "statedMin") /\ ~Has(a, "statedMax")
             /\ DOMAIN a \subseteq DOMAIN c \cup Looked
             /\ a.commitExists = ResolveCommitExists(commit, w)
             /\ a.changedFiles = OfCommit(commit, w, ChangedBy[commit])
             /\ a.diffText = IF Has(c, "statedChangedFile")
                             THEN OfCommit(commit, w, DiffOf[c.statedCommit][c.statedChangedFile]) ELSE Null
             /\ a.dependencyMap = IF Has(c, "dependencyFile") /\ w.files[c.dependencyFile] # Null
                                  THEN w.files[c.dependencyFile].deps ELSE Null
             /\ a.fileExists = IF Has(c, "statedFile") THEN w.files[c.statedFile] # Null ELSE Null
             /\ a.receiptFacts = IF Has(c, "receiptFile") THEN ResolveReceiptFacts(dir[c.receiptFile]) ELSE Null
             /\ a.artifactFacts = IF Has(c, "statedArtifact")
                                  THEN ResolveArtifactFacts(w.files[c.statedArtifact], Has(c, "artifactSha256"))
                                  ELSE Null
             /\ Has(a, "link") <=> IF surface = "council" THEN Has(c, "sourceUrl") ELSE IsLink(c)
             /\ Has(a, "link") => a.link = c.sourceUrl
             /\ Field(a, "content") = IF surface = "council" THEN Field(c, "content") ELSE ResolveContent(c, w)
<1> DEFINE r == ResearchInput(c, w, dir)
           k == CouncilInput(c, w, dir)
<1>1. /\ "link" \notin DOMAIN c /\ (Has(c, "content") => c.content # Null)
      /\ IsLink(c) => Has(c, "sourceUrl")
  BY DEF IsClaim, Has, IsLink, Field
<1>2. /\ DOMAIN r = (DOMAIN c \cup {"commitExists", "changedFiles", "diffText", "dependencyMap",
                                    "fileExists", "receiptFacts", "artifactFacts"})
                      \cup (IF IsLink(c) THEN {"link"} ELSE {})
                      \cup (IF ResolveContent(c, w) # Null THEN {"content"} ELSE {})
      /\ \A f \in DOMAIN c \ Looked : r[f] = c[f]
      /\ r.commitExists = ResolveCommitExists(Field(c, "statedCommit"), w)
      /\ r.changedFiles = OfCommit(Field(c, "statedCommit"), w, ChangedBy[Field(c, "statedCommit")])
      /\ r.diffText = IF Has(c, "statedChangedFile")
                      THEN OfCommit(Field(c, "statedCommit"), w, DiffOf[c.statedCommit][c.statedChangedFile]) ELSE Null
      /\ r.dependencyMap = IF Has(c, "dependencyFile") /\ w.files[c.dependencyFile] # Null
                           THEN w.files[c.dependencyFile].deps ELSE Null
      /\ r.fileExists = IF Has(c, "statedFile") THEN w.files[c.statedFile] # Null ELSE Null
      /\ r.receiptFacts = IF Has(c, "receiptFile") THEN ResolveReceiptFacts(dir[c.receiptFile]) ELSE Null
      /\ r.artifactFacts = IF Has(c, "statedArtifact")
                           THEN ResolveArtifactFacts(w.files[c.statedArtifact], Has(c, "artifactSha256"))
                           ELSE Null
      /\ "link" \in DOMAIN r => r.link = c.sourceUrl
      /\ "content" \in DOMAIN r => r.content = ResolveContent(c, w)
  BY DEF ResearchInput, Looked
<1>3. /\ "link" \in DOMAIN r <=> IsLink(c)
      /\ Field(r, "content") = ResolveContent(c, w)
      /\ Has(c, "content") => r.content = c.content
  <2>1. Has(c, "content") => ResolveContent(c, w) = c.content
    BY DEF ResolveContent
  <2>2. "content" \in DOMAIN r <=> ResolveContent(c, w) # Null
    BY <1>1, <1>2, <2>1 DEF Has
  <2> HIDE DEF r
  <2> QED
    BY <1>1, <1>2, <2>1, <2>2 DEF Field, Has
<1> HIDE DEF r
<1>4. /\ DOMAIN k = ((DOMAIN r \ {"statedMin", "statedMax"}) \ (IF Has(c, "content") THEN {} ELSE {"content"}))
                      \cup (IF Has(c, "sourceUrl") THEN {"link"} ELSE {})
      /\ \A f \in DOMAIN k : k[f] = IF f = "link" THEN c.sourceUrl ELSE r[f]
  BY DEF CouncilInput, r
<1>5. CASE surface # "council"
  <2>1. Assembled(surface, c, w, dir) = r
    BY <1>5 DEF Assembled, r
  <2> HIDE DEF k
  <2> QED
    BY <1>1, <1>2, <1>3, <1>5, <2>1 DEF Has, Looked
<1> HIDE DEF k
<1>6. CASE surface = "council"
  <2>1. Assembled(surface, c, w, dir) = k
    BY <1>6 DEF Assembled, k
  <2>2. Field(k, "content") = Field(c, "content")
    BY <1>2, <1>3, <1>4 DEF Field, Has
  <2> QED
    BY <1>1, <1>2, <1>3, <1>4, <1>6, <2>1, <2>2 DEF Has, Looked
<1> QED
  BY <1>5, <1>6

LEMMA TextsAre ==
  ASSUME world \in Versions, NEW p \in Paths
  PROVE  world.files[p] \in Contents \cup {Null}
BY EvidenceAssumption

\* Which checks a claim is put to is what its surface asks.
LEMMA AskedIs ==
  ASSUME NEW surface, NEW c, NEW w, NEW dir, IsClaim(c)
  PROVE  {k \in CheckKinds : Applies(k, Assembled(surface, c, w, dir))} = Asked(c, surface)
<1> DEFINE a == Assembled(surface, c, w, dir)
<1>1. /\ \A f \in DOMAIN c \ (Looked \cup {"statedMin", "statedMax"}) : Has(a, f)
      /\ surface # "council" => \A f \in DOMAIN c \ Looked : Has(a, f)
      /\ surface = "council" => ~Has(a, "statedMin") /\ ~Has(a, "statedMax")
      /\ DOMAIN a \subseteq DOMAIN c \cup Looked
      /\ Has(a, "link") <=> IF surface = "council" THEN Has(c, "sourceUrl") ELSE IsLink(c)
  BY InputIs
<1> HIDE DEF a
<1>2. \A f : f \notin Looked \cup {"statedMin", "statedMax"} => (Has(a, f) <=> Has(c, f))
  BY <1>1 DEF Has
<1>3. surface # "council" => \A f : f \notin Looked => (Has(a, f) <=> Has(c, f))
  BY <1>1 DEF Has
<1>4. \A k \in CheckKinds \ {"link", "range"} : Applies(k, a) <=> Applies(k, c)
  BY <1>2 DEF Applies, CheckKinds, Looked
<1>5. Applies("range", a) <=> Applies("range", c) /\ surface # "council"
  BY <1>1, <1>2, <1>3 DEF Applies, Looked
<1>6. Applies("link", a) <=>
         Field(c, "sourceUrl") \notin {Null} \cup (IF surface = "council" THEN {} ELSE {"empty"})
  <2>1. Applies("link", a) <=> Has(a, "link")
    BY DEF Applies
  <2>2. Has(c, "sourceUrl") => c.sourceUrl # Null
    BY DEF IsClaim, Has
  <2> QED
    BY <1>1, <2>1, <2>2 DEF IsLink, Field
<1>7. ASSUME NEW k \in CheckKinds PROVE Applies(k, a) <=> k \in Asked(c, surface)
  <2>1. CASE k = "link"
    BY <1>6, <2>1 DEF Asked
  <2>2. CASE k = "range"
    BY <1>5, <2>2 DEF Asked
  <2>3. CASE k \notin {"link", "range"}
    BY <1>4, <2>3 DEF Asked
  <2> QED
    BY <2>1, <2>2, <2>3
<1>8. Asked(c, surface) \subseteq CheckKinds
  BY DEF Asked, CheckKinds
<1> QED
  BY <1>7, <1>8 DEF a

\* Each check a claim is put to tells what the claim's words mean of the world,
\* where there is something to go by.
LEMMA ChecksTell ==
  ASSUME RecomputedRight, ReceiptsInv, world \in Versions, NEW raw \in DOMAIN Reports,
         NEW i \in 1 .. Len(Reports[raw].claims), NEW src, src # Null => IsText(src)
  PROVE  LET c == Reports[raw].claims[i]
             surface == Reports[raw].surface
             a == Assembled(surface, c, world, receipts)
         IN  \A kind \in Asked(c, surface) :
                /\ kind # "link" => Tells(Run(kind, a, src), Decidable(kind, c, src, surface),
                                          True(kind, c, src, surface))
                /\ kind = "link" => (Run(kind, a, src) \in Failures <=> Decidable(kind, c, src, surface))
<1> DEFINE c == Reports[raw].claims[i]
           surface == Reports[raw].surface
           a == Assembled(surface, c, world, receipts)
           commit == Field(c, "statedCommit")
           content == Field(a, "content")
           told(kind) == Tells(Run(kind, a, src), Decidable(kind, c, src, surface), True(kind, c, src, surface))
<1>1. IsClaim(c) /\ surface \in {"research", "council"}
  BY ClaimAssumption, ReportAssumption
<1>2. /\ ~Has(c, "eps")
      /\ (Has(c, "schemaData") /\ Has(c, "schemaDef")) =>
            (c.conforms <=> SchemaMismatches(c.schemaData, c.schemaDef) = {})
      /\ (Has(c, "statedValue") /\ c.statedValue # Null /\ Own(c)) =>
            /\ Defined(c) <=> Recompute(c.op, c.operands) # Null
            /\ Defined(c) => (Close(c.statedValue, Recompute(c.op, c.operands), Whole(0), c.op = "stddev")
                                <=> IsResult(c.op, c.operands, c.statedValue))
  <2>1. /\ ~Has(c, "eps")
        /\ (Has(c, "schemaData") /\ Has(c, "schemaDef")) =>
              (c.conforms <=> SchemaMismatches(c.schemaData, c.schemaDef) = {})
        /\ (Has(c, "statedValue") /\ c.statedValue # Null /\ Own(c) /\ c.op \in OverLists) =>
              /\ Defined(c) <=> Recompute(c.op, c.operands) # Null
              /\ Defined(c) => (Close(c.statedValue, Recompute(c.op, c.operands), Whole(0), c.op = "stddev")
                                  <=> IsResult(c.op, c.operands, c.statedValue))
    BY DEF RecomputedRight
  <2> HIDE DEF c, surface
  <2>2. ASSUME Has(c, "statedValue"), c.statedValue # Null, Own(c), c.op \notin OverLists
        PROVE  /\ Defined(c) <=> Recompute(c.op, c.operands) # Null
               /\ Defined(c) => (Close(c.statedValue, Recompute(c.op, c.operands), Whole(0), c.op = "stddev")
                                  <=> IsResult(c.op, c.operands, c.statedValue))
    <3>1. c.statedValue \in Fraction
      BY <1>1, <2>2 DEF IsClaim
    <3>2. c.operands \in Seq(Fraction) /\ c.operands # <<>>
      BY <1>1, <2>2 DEF IsClaim, Own
    <3>3. c.op \in NumberOps \ OverLists /\ Field(c, "op") = c.op
      BY <2>2, FactsAssumption DEF Own, Field
    <3>4. c.op # "pow"
      BY <2>2 DEF OverLists
    <3>5. Defined(c) <=> (c.op \in Binary => Len(c.operands) > 1 /\ c.operands[2][1] # 0)
      BY <3>3, <3>4 DEF Defined
    <3>6. ASSUME ~Defined(c) PROVE Recompute(c.op, c.operands) = Null
      <4>1. c.op \in Binary \ {"pow"} /\ (~(Len(c.operands) > 1) \/ c.operands[2][1] = 0)
        BY <3>4, <3>5, <3>6
      <4>2. Len(c.operands) \in Nat
        BY <3>2
      <4> QED
        BY <4>1, <4>2, NothingComesOfIt
    <3>7. ASSUME Defined(c)
          PROVE  /\ Recompute(c.op, c.operands) \in Fraction
                 /\ Close(c.statedValue, Recompute(c.op, c.operands), Whole(0), c.op = "stddev")
                       <=> IsResult(c.op, c.operands, c.statedValue)
      BY <3>1, <3>2, <3>3, <3>5, <3>7, StraightRight
    <3> QED
      BY <3>6, <3>7, FactsAssumption
  <2> QED
    BY <2>1, <2>2
<1> HIDE DEF c, surface
<1>3. /\ \A f \in DOMAIN c \ (Looked \cup {"statedMin", "statedMax"}) : Has(a, f) /\ a[f] = c[f]
      /\ surface # "council" => \A f \in DOMAIN c \ Looked : Has(a, f) /\ a[f] = c[f]
      /\ DOMAIN a \subseteq DOMAIN c \cup Looked
      /\ a.commitExists = ResolveCommitExists(commit, world)
      /\ a.changedFiles = OfCommit(commit, world, ChangedBy[commit])
      /\ a.diffText = IF Has(c, "statedChangedFile")
                      THEN OfCommit(commit, world, DiffOf[c.statedCommit][c.statedChangedFile]) ELSE Null
      /\ a.dependencyMap = IF Has(c, "dependencyFile") /\ world.files[c.dependencyFile] # Null
                           THEN world.files[c.dependencyFile].deps ELSE Null
      /\ a.fileExists = IF Has(c, "statedFile") THEN world.files[c.statedFile] # Null ELSE Null
      /\ a.receiptFacts = IF Has(c, "receiptFile") THEN ResolveReceiptFacts(receipts[c.receiptFile]) ELSE Null
      /\ a.artifactFacts = IF Has(c, "statedArtifact")
                           THEN ResolveArtifactFacts(world.files[c.statedArtifact], Has(c, "artifactSha256"))
                           ELSE Null
      /\ Has(a, "link") <=> IF surface = "council" THEN Has(c, "sourceUrl") ELSE IsLink(c)
      /\ Has(a, "link") => a.link = c.sourceUrl
      /\ content = IF surface = "council" THEN Field(c, "content") ELSE ResolveContent(c, world)
  BY <1>1, InputIs
<1>4. content = ContentOf(c, surface)
  BY <1>1, <1>3 DEF ContentOf, ResolveContent, Field
<1> HIDE DEF a, content
<1>5. \A f : f \notin Looked \cup {"statedMin", "statedMax"} =>
         /\ Has(a, f) <=> Has(c, f)
         /\ Has(c, f) => a[f] = c[f]
         /\ Field(a, f) = Field(c, f)
  <2>1. \A f : f \notin Looked \cup {"statedMin", "statedMax"} =>
           /\ Has(a, f) <=> Has(c, f)
           /\ Has(c, f) => a[f] = c[f]
    BY <1>3 DEF Has
  <2> QED
    BY <2>1 DEF Field
<1>6. {k \in CheckKinds : Applies(k, a)} = Asked(c, surface)
  BY <1>1, AskedIs DEF a
<1>7. \A f \in DOMAIN c : f = "statedValue" \/ c[f] # Null
  BY <1>1 DEF IsClaim
<1>8. ASSUME "citation" \in Asked(c, surface) PROVE told("citation")
  <2>1. Has(c, "quotedText") /\ a.quotedText = c.quotedText
    BY <1>5, <1>6, <1>8 DEF Applies, Looked
  <2> QED
    BY <2>1, CitationTells DEF Run, Decidable, True
<1>9. ASSUME "hash" \in Asked(c, surface) PROVE told("hash")
  <2>1. Has(c, "statedHash") /\ a.statedHash = c.statedHash /\ c.statedHash # Null
    BY <1>5, <1>6, <1>7, <1>9 DEF Applies, Looked, Has
  <2>2. (IF Has(a, "algo") THEN a.algo ELSE "sha256") = AlgoOf(c)
    BY <1>5 DEF AlgoOf, Looked
  <2>3. Run("hash", a, src) = HashStatus(c.statedHash, ContentOf(c, surface), AlgoOf(c))
    BY <1>4, <2>1, <2>2 DEF Run, content
  <2>4. /\ Decidable("hash", c, src, surface) <=> ContentOf(c, surface) # Null /\ AlgoOf(c) \in StrongHashAlgos
        /\ True("hash", c, src, surface) <=> c.statedHash = <<AlgoOf(c), ContentOf(c, surface)>>
    BY DEF Decidable, True
  <2> QED
    BY <2>1, <2>3, <2>4, HashTells DEF Tells
<1>10. ASSUME "signature" \in Asked(c, surface) PROVE told("signature")
  <2>1. Field(a, "signature") = Field(c, "signature") /\ Field(a, "publicKey") = Field(c, "publicKey")
    BY <1>5 DEF Looked
  <2>2. Run("signature", a, src) = SignatureStatus(ContentOf(c, surface), Field(c, "signature"), Field(c, "publicKey"))
    BY <1>4, <2>1 DEF Run, content
  <2>3. /\ Field(c, "signature") # Null <=> Has(c, "signature")
        /\ Field(c, "publicKey") # Null <=> Has(c, "publicKey")
        /\ Has(c, "signature") => Field(c, "signature") = c.signature
        /\ Has(c, "publicKey") => Field(c, "publicKey") = c.publicKey
    BY <1>7 DEF Field, Has
  <2>4. /\ Decidable("signature", c, src, surface) <=>
              ContentOf(c, surface) # Null /\ Has(c, "signature") /\ Has(c, "publicKey") /\ c.publicKey.readable
        /\ True("signature", c, src, surface) <=> c.signature = [by |-> c.publicKey, over |-> ContentOf(c, surface)]
    BY DEF Decidable, True
  <2> QED
    BY <2>2, <2>3, <2>4, SignatureTells DEF Tells
<1>11. ASSUME "number" \in Asked(c, surface) PROVE told("number")
  <2>1. Has(c, "statedValue")
    BY <1>5, <1>6, <1>11 DEF Applies, Looked
  <2>2. c.statedValue = Null \/ c.statedValue \in Fraction
    BY <1>1, <2>1 DEF IsClaim
  <2>3. \A f \in {"statedValue", "op", "operands", "eps"} : (Has(a, f) <=> Has(c, f)) /\ (Has(c, f) => a[f] = c[f])
    BY <1>5 DEF Looked
  <2>4. Tells(NumberStatus(a, src),
              c.statedValue # Null /\ IF Own(c) THEN Defined(c) ELSE src # Null /\ src.numbers # {},
              IF Own(c) THEN IsResult(c.op, c.operands, c.statedValue)
              ELSE \E n \in src.numbers : Equal(n, c.statedValue))
    BY <1>2, <2>1, <2>2, <2>3, NumberTells
  <2>5. Run("number", a, src) = NumberStatus(a, src)
    BY DEF Run
  <2>6. /\ Decidable("number", c, src, surface) <=>
              c.statedValue # Null /\ IF Own(c) THEN Defined(c) ELSE src # Null /\ src.numbers # {}
        /\ True("number", c, src, surface) <=> IF Own(c) THEN IsResult(c.op, c.operands, c.statedValue)
                                               ELSE \E n \in src.numbers : Equal(n, c.statedValue)
    BY DEF Decidable, True
  <2> QED
    BY <2>4, <2>5, <2>6 DEF Tells
<1>12. ASSUME "range" \in Asked(c, surface) PROVE told("range")
  <2>1. surface # "council" /\ Has(a, "statedValue") /\ (Has(a, "statedMin") \/ Has(a, "statedMax"))
    BY <1>6, <1>12 DEF Asked, Applies
  <2>2. /\ Has(c, "statedValue") /\ a.statedValue = c.statedValue
        /\ Field(a, "statedMin") = Field(c, "statedMin") /\ Field(a, "statedMax") = Field(c, "statedMax")
        /\ Has(c, "statedMin") \/ Has(c, "statedMax")
    BY <1>3, <2>1 DEF Looked, Has, Field
  <2>3. /\ Field(c, "statedMin") # Null <=> Has(c, "statedMin")
        /\ Field(c, "statedMax") # Null <=> Has(c, "statedMax")
        /\ Has(c, "statedMin") => Field(c, "statedMin") = c.statedMin
        /\ Has(c, "statedMax") => Field(c, "statedMax") = c.statedMax
    BY <1>7 DEF Field, Has
  <2>4. Run("range", a, src) = RangeStatus(c.statedValue, Field(c, "statedMin"), Field(c, "statedMax"))
    BY <2>2 DEF Run
  <2>5. /\ Decidable("range", c, src, surface) <=> c.statedValue # Null
        /\ True("range", c, src, surface) <=> /\ Has(c, "statedMin") => Leq(c.statedMin, c.statedValue)
                                              /\ Has(c, "statedMax") => Leq(c.statedValue, c.statedMax)
    BY DEF Decidable, True, Within
  <2> QED
    BY <2>2, <2>3, <2>4, <2>5, RangeTells DEF Tells
<1>13. ASSUME "date" \in Asked(c, surface) PROVE told("date")
  <2>1. Has(c, "statedDate") /\ a.statedDate = c.statedDate /\ c.statedDate # Null
    BY <1>5, <1>6, <1>7, <1>13 DEF Applies, Looked, Has
  <2>2. c.statedDate.form \in {"iso", "mdy", "dmy", "unknown"} /\ c.statedDate.day # Null
    BY <1>1, <2>1 DEF IsClaim
  <2>3. Run("date", a, src) = DateStatus(c.statedDate, src)
    BY <2>1 DEF Run
  <2>4. /\ Decidable("date", c, src, surface) <=>
              src # Null /\ c.statedDate.form # "unknown" /\ Days(src.dates) # {}
        /\ True("date", c, src, surface) <=> c.statedDate.day \in Days(src.dates)
    BY DEF Decidable, True
  <2> QED
    BY <2>1, <2>2, <2>3, <2>4, DateTells DEF Tells
<1>14. ASSUME "commit" \in Asked(c, surface) PROVE told("commit")
  <2>1. Has(c, "statedCommit") /\ a.statedCommit = c.statedCommit /\ c.statedCommit # Null
    BY <1>5, <1>6, <1>7, <1>14 DEF Applies, Looked, Has
  <2>2. Run("commit", a, src) = CommitStatus(c.statedCommit, ResolveCommitExists(c.statedCommit, world))
    BY <1>3, <2>1 DEF Run, Field, commit
  <2>3. /\ Decidable("commit", c, src, surface) <=> Known(c.statedCommit)
        /\ True("commit", c, src, surface) <=> c.statedCommit \in world.repo
    BY DEF Decidable, True
  <2>4. ResolveCommitExists(c.statedCommit, world)
           = IF Known(c.statedCommit) THEN c.statedCommit \in world.repo ELSE Null
    BY DEF ResolveCommitExists, Known
  <2>5. CASE Known(c.statedCommit)
    <3> DEFINE exists == c.statedCommit \in world.repo
    <3>1. exists \in BOOLEAN /\ ResolveCommitExists(c.statedCommit, world) = exists
      BY <2>4, <2>5
    <3> HIDE DEF exists
    <3>2. Tells(CommitStatus(c.statedCommit, exists), TRUE, exists)
      BY <2>1, <3>1, ThereTells
    <3> QED
      BY <2>2, <2>3, <2>5, <3>1, <3>2 DEF Tells, exists
  <2>6. CASE ~Known(c.statedCommit)
    <3>1. Run("commit", a, src) = "no-basis"
      BY <2>1, <2>2, <2>4, <2>6, ThereTells
    <3> QED
      BY <2>3, <2>6, <3>1 DEF Tells, Failures
  <2> QED
    BY <2>5, <2>6
<1>15. ASSUME NEW commit_, commit_ # Null, NEW what
      PROVE  OfCommit(commit_, world, what) = IF Known(commit_) /\ commit_ \in world.repo THEN what ELSE Null
  BY FactsAssumption DEF OfCommit, ResolveCommitExists, Known
<1>16. /\ commit # Null => Has(c, "statedCommit") /\ commit = c.statedCommit
       /\ ~Known(Null) /\ \A what : OfCommit(Null, world, what) = Null
  BY FactsAssumption DEF Field, Known, OfCommit, ResolveCommitExists
<1>17. ASSUME "fileChanged" \in Asked(c, surface) PROVE told("fileChanged")
  <2>1. Has(c, "statedChangedFile") /\ a.statedChangedFile = c.statedChangedFile /\ c.statedChangedFile # Null
    BY <1>5, <1>6, <1>7, <1>17 DEF Applies, Looked, Has
  <2>2. Run("fileChanged", a, src) = FileChangedStatus(c.statedChangedFile, OfCommit(commit, world, ChangedBy[commit]))
    BY <1>3, <2>1 DEF Run
  <2>3. /\ Decidable("fileChanged", c, src, surface) <=> Known(commit) /\ commit \in world.repo
        /\ True("fileChanged", c, src, surface) <=> c.statedChangedFile \in ChangedBy[c.statedCommit]
    BY <1>16, <2>1 DEF Decidable, True, commit
  <2> HIDE DEF commit
  <2>4. CASE Known(commit) /\ commit \in world.repo
    <3>1. commit = c.statedCommit /\ commit # Null /\ commit \in Commits
      BY <1>16, <2>4 DEF Known
    <3>2. OfCommit(commit, world, ChangedBy[commit]) = ChangedBy[commit] /\ ChangedBy[commit] # Null
      BY <1>15, <2>4, <3>1, ClaimAssumption
    <3> QED
      BY <2>1, <2>2, <2>3, <2>4, <3>1, <3>2, ChangeTells DEF Tells
  <2>5. CASE ~(Known(commit) /\ commit \in world.repo)
    <3>1. OfCommit(commit, world, ChangedBy[commit]) = Null
      BY <1>15, <1>16, <2>5
    <3>2. Run("fileChanged", a, src) = "no-basis"
      BY <2>2, <3>1 DEF FileChangedStatus
    <3> QED
      BY <2>3, <2>5, <3>2 DEF Tells, Failures
  <2> QED
    BY <2>4, <2>5
<1>18. ASSUME "file" \in Asked(c, surface) PROVE told("file")
  <2>1. Has(c, "statedFile") /\ a.statedFile = c.statedFile /\ c.statedFile # Null
    BY <1>5, <1>6, <1>7, <1>18 DEF Applies, Looked, Has
  <2> DEFINE exists == world.files[c.statedFile] # Null
  <2>2. Run("file", a, src) = FileStatus(c.statedFile, exists)
    BY <1>3, <2>1 DEF Run
  <2>3. exists \in BOOLEAN
    OBVIOUS
  <2>4. Decidable("file", c, src, surface) /\ (True("file", c, src, surface) <=> exists)
    BY DEF Decidable, True, There
  <2> HIDE DEF exists
  <2>5. Tells(FileStatus(c.statedFile, exists), TRUE, exists)
    BY <2>1, <2>3, ThereTells
  <2> QED
    BY <2>2, <2>4, <2>5 DEF Tells
<1>19. ASSUME "schema" \in Asked(c, surface) PROVE told("schema")
  <2>1. /\ Has(c, "schemaData") /\ Has(c, "schemaDef")
        /\ a.schemaData = c.schemaData /\ a.schemaDef = c.schemaDef
    BY <1>5, <1>6, <1>19 DEF Applies, Looked
  <2>2. Run("schema", a, src) = IF SchemaMismatches(c.schemaData, c.schemaDef) = {} THEN "verified" ELSE "mismatch"
    BY <2>1 DEF Run, SchemaStatus
  <2>3. Decidable("schema", c, src, surface) /\ (True("schema", c, src, surface) <=> c.conforms)
    BY DEF Decidable, True
  <2> QED
    BY <1>2, <2>1, <2>2, <2>3 DEF Tells, Failures
<1>20. ASSUME "receipt" \in Asked(c, surface) PROVE told("receipt")
  <2>1. Has(c, "statedReceiptId") /\ a.statedReceiptId = c.statedReceiptId /\ c.statedReceiptId # Null
    BY <1>5, <1>6, <1>7, <1>20 DEF Applies, Looked, Has
  <2>2. Run("receipt", a, src) = ReceiptStatus(c.statedReceiptId, a.receiptFacts)
    BY <2>1 DEF Run
  <2>3. /\ Decidable("receipt", c, src, surface) <=> Has(c, "receiptFile") /\ receipts[c.receiptFile] # Other
        /\ True("receipt", c, src, surface) <=> /\ IsReceipt(receipts[c.receiptFile]) /\ Untouched(c.receiptFile)
                                                /\ receipts[c.receiptFile].body.receiptId = c.statedReceiptId
    BY DEF Decidable, True, Cited, Untouched
  <2>4. CASE Has(c, "receiptFile")
    <3>1. c.receiptFile \in Outs /\ a.receiptFacts = ResolveReceiptFacts(receipts[c.receiptFile])
      BY <1>1, <1>3, <2>4 DEF IsClaim
    <3> QED
      BY <2>1, <2>2, <2>3, <2>4, <3>1, ReceiptTells DEF Tells
  <2>5. CASE ~Has(c, "receiptFile")
    <3>1. Run("receipt", a, src) = "no-basis"
      BY <1>3, <2>2, <2>5 DEF ReceiptStatus
    <3> QED
      BY <2>3, <2>5, <3>1 DEF Tells, Failures
  <2> QED
    BY <2>4, <2>5
<1>21. ASSUME "artifact" \in Asked(c, surface) PROVE told("artifact")
  <2>1. Has(c, "statedArtifact")
    BY <1>5, <1>6, <1>21 DEF Applies, Looked
  <2> DEFINE t == world.files[c.statedArtifact]
             asked == {"artifactMinBytes", "artifactMaxBytes", "artifactSha256"}
  <2>2. t \in Contents \cup {Null}
    BY <1>1, <2>1, TextsAre DEF IsClaim, Has
  <2>3. Run("artifact", a, src) = ArtifactStatus(a, ResolveArtifactFacts(t, Has(c, "artifactSha256")))
    BY <1>3, <2>1 DEF Run
  <2>4. /\ Decidable("artifact", c, src, surface) <=> asked \cap DOMAIN c # {}
        /\ True("artifact", c, src, surface) <=>
              /\ t # Null
              /\ Has(c, "artifactMinBytes") => t.size >= c.artifactMinBytes
              /\ Has(c, "artifactMaxBytes") => t.size <= c.artifactMaxBytes
              /\ Has(c, "artifactSha256") => t = c.artifactSha256
    BY DEF Decidable, True, There, Fits
  <2>5. \A f \in asked : (Has(a, f) <=> Has(c, f)) /\ (Has(c, f) => a[f] = c[f])
    BY <1>5 DEF Looked
  <2> HIDE DEF t
  <2>6. CASE asked \cap DOMAIN c # {}
    BY <1>1, <2>2, <2>3, <2>4, <2>5, <2>6, ArtifactTells DEF Tells
  <2>7. CASE asked \cap DOMAIN c = {}
    <3>1. \A f \in asked : Field(a, f) = Null
      BY <2>5, <2>7 DEF Field, Has
    <3>2. Run("artifact", a, src) = "no-basis"
      BY <2>3, <3>1 DEF ArtifactStatus
    <3> QED
      BY <2>4, <2>7, <3>2 DEF Tells, Failures
  <2> QED
    BY <2>6, <2>7
<1>22. ASSUME "link" \in Asked(c, surface)
       PROVE  Run("link", a, src) \in Failures <=> Decidable("link", c, src, surface)
  <2>1. a.link = c.sourceUrl
    BY <1>3, <1>6, <1>22 DEF Applies
  <2>2. Run("link", a, src) = IF c.sourceUrl \in {"http", "https"} THEN "valid" ELSE "invalid"
    BY <2>1 DEF Run, LinkStatus
  <2>3. Decidable("link", c, src, surface) <=> c.sourceUrl \notin {"http", "https"}
    BY DEF Decidable
  <2> QED
    BY <2>2, <2>3 DEF Failures
<1>23. ASSUME "diffContains" \in Asked(c, surface) PROVE told("diffContains")
  <2> DEFINE diff == DiffOf[c.statedCommit][c.statedChangedFile]
             known == Known(commit) /\ commit \in world.repo /\ Has(c, "statedChangedFile")
  <2>1. Has(c, "statedDiffText") /\ a.statedDiffText = c.statedDiffText /\ c.statedDiffText # Null
    BY <1>5, <1>6, <1>7, <1>23 DEF Applies, Looked, Has
  <2>2. Run("diffContains", a, src) = DiffContainsStatus(c.statedDiffText, a.diffText)
    BY <2>1 DEF Run
  <2>3. /\ Decidable("diffContains", c, src, surface) <=> known
        /\ True("diffContains", c, src, surface) <=> c.statedDiffText # Blank /\ c.statedDiffText \in diff
    <3>1. Decidable("diffContains", c, src, surface) <=> known
      BY <1>16 DEF Decidable, commit
    <3>2. True("diffContains", c, src, surface) <=> c.statedDiffText # Blank /\ c.statedDiffText \in diff
      BY DEF True
    <3> QED
      BY <3>1, <3>2
  <2> HIDE DEF commit, diff
  <2>4. a.diffText = IF Has(c, "statedChangedFile") THEN OfCommit(commit, world, diff) ELSE Null
    BY <1>3 DEF diff, commit
  <2>5. CASE known
    <3>1. commit # Null /\ commit \in Commits
      BY <1>16, <2>5 DEF Known
    <3>2. diff # Null
      BY <1>1, <2>5, <3>1 DEF IsClaim, commit, diff
    <3>3. a.diffText = diff
      BY <1>15, <2>4, <2>5, <3>1
    <3> QED
      BY <2>1, <2>2, <2>3, <2>5, <3>2, <3>3, ChangeTells DEF Tells
  <2>6. CASE ~known
    <3>1. a.diffText = Null
      BY <1>15, <1>16, <2>4, <2>6
    <3>2. Run("diffContains", a, src) = "no-basis"
      BY <2>2, <3>1 DEF DiffContainsStatus
    <3> QED
      BY <2>3, <2>6, <3>2 DEF Tells, Failures
  <2> QED
    BY <2>5, <2>6
<1>24. ASSUME "version" \in Asked(c, surface) PROVE told("version")
  <2> DEFINE deps == a.dependencyMap
             pkg == c.statedPackage
             claimed == c.statedPackageVersion
             is == deps[pkg]
             stated == Has(c, "statedPackageVersion")
  <2>1. Has(c, "statedPackage") /\ a.statedPackage = pkg /\ pkg # Null
    BY <1>5, <1>6, <1>7, <1>24 DEF Applies, Looked, Has
  <2>2. /\ Run("version", a, src) = VersionStatus(pkg, Field(a, "statedPackageVersion"), deps)
        /\ Field(a, "statedPackageVersion") = IF stated THEN claimed ELSE Null
    BY <1>5, <2>1 DEF Run, Field, Looked
  <2>3. deps # Null => \A p \in DOMAIN deps : /\ deps[p] # Null /\ deps[p].op \in Ranges
                                              /\ deps[p].base = Null \/ deps[p].base \in Version
    <3>1. SUFFICES ASSUME deps # Null
                   PROVE  \A p \in DOMAIN deps : /\ deps[p] # Null /\ deps[p].op \in Ranges
                                                 /\ deps[p].base = Null \/ deps[p].base \in Version
      OBVIOUS
    <3>2. Has(c, "dependencyFile") /\ There(c.dependencyFile) /\ deps = world.files[c.dependencyFile].deps
      BY <1>3, <3>1 DEF There
    <3>3. world.files[c.dependencyFile] \in Contents
      BY <1>1, <3>2, TextsAre DEF IsClaim, Has, There
    <3>4. IsText(world.files[c.dependencyFile])
      BY <3>3, ClaimAssumption
    <3> HIDE DEF deps
    <3> QED
      BY <3>1, <3>2, <3>4 DEF IsText
  <2>4. DependencyOf(c) = IF deps # Null /\ pkg \in DOMAIN deps THEN is ELSE Null
    BY <1>3 DEF DependencyOf, There
  <2> HIDE DEF deps
  <2>5. DependencyOf(c) # Null <=> deps # Null /\ pkg \in DOMAIN deps
    BY <2>3, <2>4
  <2>6. /\ Decidable("version", c, src, surface) <=>
              /\ deps # Null /\ pkg \in DOMAIN deps /\ stated
              /\ (Readable(is) /\ claimed.base # Null) \/ is.text = claimed.text
        /\ Decidable("version", c, src, surface) =>
              (True("version", c, src, surface) <=> ~Readable(is) \/ claimed.base = Null \/ Allows(is, claimed.base))
    BY <2>4, <2>5 DEF Decidable, True
  <2>7. CASE stated
    <3>1. claimed # Null /\ (claimed.base = Null \/ claimed.base \in Version)
      BY <1>1, <1>7, <2>7 DEF IsClaim, Has
    <3>2. Tells(VersionStatus(pkg, claimed, deps),
                /\ deps # Null /\ pkg \in DOMAIN deps
                /\ (Readable(is) /\ claimed.base # Null) \/ is.text = claimed.text,
                ~Readable(is) \/ claimed.base = Null \/ Allows(is, claimed.base))
      BY <2>1, <2>3, <3>1, VersionTells
    <3> QED
      BY <2>2, <2>6, <2>7, <3>2 DEF Tells
  <2>8. CASE ~stated
    <3>1. Run("version", a, src) = "no-basis"
      BY <2>2, <2>8 DEF VersionStatus
    <3> QED
      BY <2>6, <2>8, <3>1 DEF Tells, Failures
  <2> QED
    BY <2>7, <2>8
<1>25. Asked(c, surface) \subseteq CheckKinds
  BY <1>6
<1>26. ASSUME NEW kind \in Asked(c, surface), kind # "link" PROVE told(kind)
  BY <1>8, <1>9, <1>10, <1>11, <1>12, <1>13, <1>14, <1>17, <1>18, <1>19, <1>20, <1>21, <1>23, <1>24,
     <1>25, <1>26 DEF CheckKinds
<1> QED
  BY <1>22, <1>26 DEF c, surface, a

\* The verdict that comes of the checks.
LEMMA VerdictIs ==
  ASSUME NEW a, NEW src, NEW asked, asked = {k \in CheckKinds : Applies(k, a)},
         NEW decided, decided \subseteq asked, NEW refuted, refuted \subseteq decided,
         \A k \in asked : Run(k, a, src) \in Failures <=> k \in refuted,
         \A k \in asked \ {"link"} : Run(k, a, src) = "verified" <=> k \in decided \ refuted,
         "link" \in decided => "link" \in refuted
  PROVE  VerdictOf(EvaluateClaim(a, src)) =
            IF refuted # {} THEN "failed" ELSE IF decided # {} THEN "verified" ELSE "advisory"
<1> DEFINE ev == EvaluateClaim(a, src)
           results == [k \in {k \in CheckKinds : Applies(k, a)} |-> Run(k, a, src)]
           bad == {k \in DOMAIN results : results[k] \in Failures}
           good == {k \in DOMAIN results : Positive(k) /\ results[k] = "verified"}
<1>1. (ev.failed <=> bad # {}) /\ (ev.verified <=> bad = {} /\ good # {})
  BY DEF EvaluateClaim
<1>2. DOMAIN results = asked /\ \A k \in asked : results[k] = Run(k, a, src)
  OBVIOUS
<1> HIDE DEF results, ev
<1>3. bad = refuted
  BY <1>2
<1>4. good = (decided \ refuted) \ {"link"}
  BY <1>2 DEF Positive
<1> HIDE DEF bad, good
<1> QED
  BY <1>1, <1>3, <1>4 DEF VerdictOf, ev

-----------------------------------------------------------------------------
(* A verifier grades                                                       *)

\* A verifier holds nothing, or what the page held when it looked.
SourceRight(p) ==
    \/ p = Idle
    \/ p.source = <<>>
    \/ Len(p.source) = 1 /\ p.source[1] \in Contents \cup {Null}

SourceInv == world \in Versions /\ \A v \in Verifiers : SourceRight(proc[v])

LEMMA SourceInit ==
  ASSUME Init PROVE SourceInv
BY EvidenceAssumption DEF Init, SourceInv, SourceRight

LEMMA SourceStep ==
  ASSUME ProcInv, SourceInv, [Next]_vars PROVE SourceInv'
<1>1. ASSUME NEW v \in Verifiers, NEW p, Becomes(v, p), world' = world, SourceRight(p)
      PROVE  SourceInv'
  <2>1. proc'[v] = p /\ \A u \in Verifiers : u # v => proc'[u] = proc[u]
    BY <1>1 DEF ProcInv, Becomes
  <2>2. \A u \in Verifiers : SourceRight(proc[u])
    BY DEF SourceInv
  <2>3. \A u \in Verifiers : SourceRight(proc'[u])
    BY <1>1, <2>1, <2>2
  <2> QED
    BY <1>1, <2>3 DEF SourceInv
<1>2. CASE WorldChanges \/ InputChanges \/ (\E o \in Outs : ReceiptChanges(o)) \/ UNCHANGED vars
  BY <1>2 DEF WorldChanges, InputChanges, ReceiptChanges, vars, SourceInv
<1>3. ASSUME NEW v \in Verifiers, NEW o \in Outs, NEW fetch \in BOOLEAN, Starts(v, o, fetch)
      PROVE  SourceInv'
  <2>1. Becomes(v, Verifier("claims", input, o, fetch, <<>>, 0, <<>>, Null)) /\ world' = world
    BY <1>3 DEF Starts, Verifier
  <2>2. SourceRight(Verifier("claims", input, o, fetch, <<>>, 0, <<>>, Null))
    BY DEF Verifier, SourceRight
  <2> QED
    BY <1>1, <2>1, <2>2
<1>4. ASSUME NEW v \in Verifiers, Seals(v) \/ Dies(v) PROVE SourceInv'
  <2>1. Becomes(v, Idle) /\ world' = world /\ SourceRight(Idle)
    BY <1>4 DEF Seals, Dies, Writes, SourceRight
  <2> QED
    BY <1>1, <2>1
<1>5. ASSUME NEW v \in Verifiers, Fetches(v) PROVE SourceInv'
  <2> DEFINE p == proc[v]
             n == p.unreachable + (IF world.page = Null THEN 1 ELSE 0)
             q == Verifier(p.at, p.raw, p.out, p.fetch, <<world.page>>, n, p.results, p.prev)
  <2>1. Verifying(p)
    BY <1>5, GoingVerifies DEF Fetches
  <2>2. [p EXCEPT !.source = <<world.page>>, !.unreachable = n] = q
    BY <2>1, SourceUnreachableChange
  <2>3. Becomes(v, [p EXCEPT !.source = <<world.page>>, !.unreachable = n]) /\ world' = world
    BY <1>5 DEF Fetches
  <2>4. q.source = <<world.page>> /\ world.page \in Contents \cup {Null}
    BY EvidenceAssumption DEF Verifier, SourceInv
  <2> HIDE DEF q
  <2>5. SourceRight(q)
    BY <2>4 DEF SourceRight
  <2> QED
    BY <1>1, <2>2, <2>3, <2>5
<1>6. ASSUME NEW v \in Verifiers, Grades(v) PROVE SourceInv'
  <2> DEFINE p == proc[v]
  <2>1. Verifying(p)
    BY <1>6, GoingVerifies DEF Grades
  <2>2. PICK s : Becomes(v, [p EXCEPT !.source = <<>>, !.results = s]) /\ world' = world
    BY <1>6 DEF Grades
  <2>3. [p EXCEPT !.source = <<>>, !.results = s] = Verifier(p.at, p.raw, p.out, p.fetch, <<>>, p.unreachable, s, p.prev)
    BY <2>1, SourceResultsChange
  <2>4. SourceRight([p EXCEPT !.source = <<>>, !.results = s])
    BY <2>3 DEF Verifier, SourceRight
  <2> QED
    BY <1>1, <2>2, <2>4
<1>7. ASSUME NEW v \in Verifiers, ReadsLog(v) \/ AppendsLog(v) \/ Truncates(v) PROVE SourceInv'
  <2> DEFINE p == proc[v]
  <2>1. Verifying(p)
    BY <1>7, GoingVerifies DEF ReadsLog, AppendsLog, Truncates
  <2>2. SourceRight(p) /\ p # Idle
    BY <1>7 DEF SourceInv, ReadsLog, AppendsLog, Truncates, Idle
  <2>3. PICK at, prev : /\ \/ Becomes(v, [p EXCEPT !.at = at, !.prev = prev])
                           \/ Becomes(v, [p EXCEPT !.at = at])
                        /\ world' = world
    BY <1>7 DEF ReadsLog, AppendsLog, Truncates
  <2>4. /\ [p EXCEPT !.at = at, !.prev = prev].source = p.source
        /\ [p EXCEPT !.at = at].source = p.source
    BY <2>1, AtChanges, AtPrevChange DEF Verifier
  <2>5. SourceRight([p EXCEPT !.at = at, !.prev = prev]) /\ SourceRight([p EXCEPT !.at = at])
    BY <2>2, <2>4 DEF SourceRight
  <2> HIDE DEF p
  <2> QED
    BY <1>1, <2>3, <2>5
<1> QED
  BY <1>2, <1>3, <1>4, <1>5, <1>6, <1>7 DEF Next

LEMMA SourceIsText ==
  ASSUME SourceInv, NEW v \in Verifiers, proc[v] # Idle, Live(v) => proc[v].source # <<>>, IsClaim(Claim(v)),
         SourceOf(v) # Null
  PROVE  IsText(SourceOf(v))
<1>1. CASE Live(v)
  BY <1>1, ClaimAssumption DEF SourceInv, SourceRight, SourceOf
<1>2. CASE ~Live(v)
  <2>1. SourceOf(v) = ResolveSource(Claim(v), world)
    BY <1>2 DEF SourceOf
  <2>2. SourceOf(v) \in Contents
    BY <2>1, TextsAre DEF ResolveSource, IsClaim, SourceInv, Has
  <2> QED
    BY <2>2, ClaimAssumption
<1> QED
  BY <1>1, <1>2

\* What one claim is graded as.
LEMMA GradeIs ==
  ASSUME RecomputedRight, ProcInv, ReceiptsInv, SourceInv, NEW v \in Verifiers, Grades(v)
  PROVE  LET c == Claim(v)
             of == Raw(v).surface
             src == SourceOf(v)
             decided == {k \in Asked(c, of) : Decidable(k, c, src, of)}
             refuted == \E k \in decided : ~True(k, c, src, of)
         IN  VerdictOf(EvaluateClaim(Assembled(of, c, world, receipts), src)) =
                IF refuted THEN "failed" ELSE IF decided # {} THEN "verified" ELSE "advisory"
<1> DEFINE raw == proc[v].raw
           i == Len(proc[v].results) + 1
           c == Claim(v)
           of == Raw(v).surface
           src == SourceOf(v)
           a == Assembled(of, c, world, receipts)
           decided == {k \in Asked(c, of) : Decidable(k, c, src, of)}
           against == {k \in decided : ~True(k, c, src, of)}
<1>1. Verifying(proc[v]) /\ proc[v] # Idle /\ ~Graded(v) /\ (Live(v) => proc[v].source # <<>>)
  BY GoingVerifies DEF Grades, Idle
<1>2. raw \in DOMAIN Reports /\ i \in 1 .. Len(Reports[raw].claims)
  <2>1. /\ raw \in DOMAIN Reports /\ Len(proc[v].results) \in Nat
        /\ Len(proc[v].results) <= Len(Reports[raw].claims)
    BY <1>1 DEF Verifying, ReadSoFar, Shaped
  <2>2. Len(Reports[raw].claims) \in Nat /\ Len(proc[v].results) # Len(Reports[raw].claims)
    BY <1>1, <2>1, ReportAssumption DEF Graded, Raw
  <2> QED
    BY <2>1, <2>2
<1>3. c = Reports[raw].claims[i] /\ of = Reports[raw].surface
  BY DEF Claim, Raw
<1>4. IsClaim(c)
  BY <1>2, <1>3, ClaimAssumption
<1>5. src # Null => IsText(src)
  BY <1>1, <1>4, SourceIsText
<1>6. world \in Versions
  BY DEF SourceInv
<1> HIDE DEF raw, i, c, of, src
<1>7. \A k \in Asked(c, of) :
         /\ k # "link" => Tells(Run(k, a, src), Decidable(k, c, src, of), True(k, c, src, of))
         /\ k = "link" => (Run(k, a, src) \in Failures <=> Decidable(k, c, src, of))
  BY <1>2, <1>3, <1>5, <1>6, ChecksTell
<1>8. Asked(c, of) = {k \in CheckKinds : Applies(k, a)}
  BY <1>4, AskedIs
<1>9. ~True("link", c, src, of)
  BY DEF True
<1> HIDE DEF a
<1>10. /\ \A k \in Asked(c, of) : Run(k, a, src) \in Failures <=> k \in against
       /\ \A k \in Asked(c, of) \ {"link"} : Run(k, a, src) = "verified" <=> k \in decided \ against
       /\ "link" \in decided => "link" \in against
  BY <1>7, <1>9 DEF Tells
<1>11. decided \subseteq Asked(c, of) /\ against \subseteq decided
  OBVIOUS
<1>12. (\E k \in decided : ~True(k, c, src, of)) <=> against # {}
  OBVIOUS
<1> HIDE DEF decided, against
<1> DEFINE asked == Asked(c, of)
<1> HIDE DEF asked
<1>13. /\ asked = {k \in CheckKinds : Applies(k, a)} /\ decided \subseteq asked /\ against \subseteq decided
       /\ \A k \in asked : Run(k, a, src) \in Failures <=> k \in against
       /\ \A k \in asked \ {"link"} : Run(k, a, src) = "verified" <=> k \in decided \ against
       /\ "link" \in decided => "link" \in against
  BY <1>8, <1>10, <1>11 DEF asked
<1>14. VerdictOf(EvaluateClaim(a, src)) =
          IF against # {} THEN "failed" ELSE IF decided # {} THEN "verified" ELSE "advisory"
  BY <1>13, VerdictIs
<1> QED
  BY <1>12, <1>14 DEF a, c, of, src, decided

\* A claim is done only by being graded, and the verdict recorded is the one
\* it was graded.
LEMMA GradedIs ==
  ASSUME ProcInv, [Next]_vars, NEW v \in Verifiers, Going(v), proc'[v].at = "claims",
         Len(proc'[v].results) > Len(proc[v].results)
  PROVE  /\ Grades(v)
         /\ Last(proc'[v].results).verdict =
               VerdictOf(EvaluateClaim(Assembled(Raw(v).surface, Claim(v), world, receipts), SourceOf(v)))
<1> DEFINE p == proc[v]
<1>1. Verifying(p) /\ Len(p.results) \in Nat
  BY GoingVerifies DEF Going, Verifying, ReadSoFar, Shaped
<1>2. proc'[v].results # p.results /\ proc'[v] # p
  BY <1>1
<1>3. Grades(v)
  <2>1. ASSUME NEW u \in Verifiers, NEW q, Becomes(u, q) PROVE u = v /\ proc'[v] = q
    BY <1>2, <2>1 DEF Becomes, ProcInv
  <2>2. ASSUME NEW q, Becomes(v, q) PROVE q # Idle /\ q.results # p.results
    <3>1. proc'[v] = q
      BY <2>1, <2>2
    <3> QED
      BY <1>2, <3>1 DEF Idle
  <2>3. ~(WorldChanges \/ InputChanges \/ (\E o \in Outs : ReceiptChanges(o)) \/ UNCHANGED vars)
    BY <1>2 DEF WorldChanges, InputChanges, ReceiptChanges, vars
  <2>4. ASSUME NEW u \in Verifiers, NEW o \in Outs, NEW fetch \in BOOLEAN, Starts(u, o, fetch) PROVE FALSE
    <3>1. u = v
      BY <2>1, <2>4 DEF Starts
    <3> QED
      BY <2>4, <3>1 DEF Starts
  <2>5. ASSUME NEW u \in Verifiers, Seals(u) \/ Dies(u) PROVE FALSE
    <3>1. Becomes(u, Idle)
      BY <2>5 DEF Seals, Dies, Writes
    <3>2. u = v
      BY <2>1, <3>1
    <3> QED
      BY <2>2, <3>1, <3>2
  <2>6. ASSUME NEW u \in Verifiers, Fetches(u) PROVE FALSE
    <3>1. PICK x, n : Becomes(u, [proc[u] EXCEPT !.source = x, !.unreachable = n])
      BY <2>6 DEF Fetches
    <3>2. u = v
      BY <2>1, <3>1
    <3>3. [p EXCEPT !.source = x, !.unreachable = n].results = p.results
      BY <1>1, SourceUnreachableChange DEF Verifier
    <3> QED
      BY <2>2, <3>1, <3>2, <3>3
  <2>7. ASSUME NEW u \in Verifiers, ReadsLog(u) \/ AppendsLog(u) \/ Truncates(u) PROVE FALSE
    <3>1. PICK x, y : \/ Becomes(u, [proc[u] EXCEPT !.at = x, !.prev = y])
                      \/ Becomes(u, [proc[u] EXCEPT !.at = x])
      BY <2>7 DEF ReadsLog, AppendsLog, Truncates
    <3>2. u = v
      BY <2>1, <3>1
    <3>3. /\ [p EXCEPT !.at = x, !.prev = y].results = p.results
          /\ [p EXCEPT !.at = x].results = p.results
      BY <1>1, AtChanges, AtPrevChange DEF Verifier
    <3> QED
      BY <2>2, <3>1, <3>2, <3>3
  <2>8. ASSUME NEW u \in Verifiers, Grades(u) PROVE u = v
    <3>1. PICK x : Becomes(u, x)
      BY <2>8 DEF Grades
    <3> QED
      BY <2>1, <3>1
  <2>9. PICK u \in Verifiers : Grades(u)
    BY <2>3, <2>4, <2>5, <2>6, <2>7 DEF Next
  <2> QED
    BY <2>8, <2>9
<1> DEFINE ev == EvaluateClaim(Assembled(Raw(v).surface, Claim(v), world, receipts), SourceOf(v))
           x == Result(Claim(v), ev, IF Live(v) THEN SourceOf(v) ELSE Null)
           s == Append(p.results, x)
<1>4. Becomes(v, [p EXCEPT !.source = <<>>, !.results = s])
  BY <1>3 DEF Grades
<1>5. x.verdict = VerdictOf(ev)
  BY DEF Result
<1> HIDE DEF x, ev
<1>6. proc'[v] = [p EXCEPT !.source = <<>>, !.results = s]
  BY <1>4 DEF Becomes, ProcInv
<1>7. proc'[v].results = s
  BY <1>1, <1>6, SourceResultsChange DEF Verifier
<1>8. Last(s) = x
  <2>1. Len(s) = Len(p.results) + 1 /\ s[Len(p.results) + 1] = x
    BY <1>1, ShapedAppends DEF Verifying, ReadSoFar
  <2> HIDE DEF s
  <2> QED
    BY <2>1 DEF Last
<1> QED
  BY <1>3, <1>5, <1>7, <1>8 DEF ev

\* A claim is failed only by something that is there to be looked up and says
\* otherwise, and verified only by something that bears it out while nothing
\* says otherwise, for every claim and every world, while others verify, edit
\* and die: granted that what is folded out of a list of operands is what its
\* operation means and a schema's walk finds what conforms (numberStatus .. evaluateClaim,
\* resolveFacts, gradeDecision).
THEOREM GradesAreTheWorlds == ASSUME RecomputedRight PROVE Spec => GradedByTheWorld
<1> DEFINE Act == \A v \in Verifiers :
                     (Going(v) /\ proc'[v].at = "claims" /\ Len(proc'[v].results) > Len(proc[v].results)) =>
                        LET c == Claim(v)
                            of == Raw(v).surface
                            src == SourceOf(v)
                            decided == {k \in Asked(c, of) : Decidable(k, c, src, of)}
                            refuted == \E k \in decided : ~True(k, c, src, of)
                        IN  Last(proc'[v].results).verdict =
                               IF refuted THEN "failed"
                               ELSE IF decided # {} THEN "verified" ELSE "advisory"
<1>1. Init => SourceInv
  BY SourceInit
<1>2. ProcInv /\ SourceInv /\ [Next]_vars => SourceInv'
  BY SourceStep
<1>3. EvidenceInv => ProcInv /\ ReceiptsInv
  BY DEF EvidenceInv
<1>4. ProcInv /\ ReceiptsInv /\ SourceInv /\ [Next]_vars => [Act]_vars
  <2> SUFFICES ASSUME ProcInv, ReceiptsInv, SourceInv, [Next]_vars PROVE Act
    OBVIOUS
  <2> QED
    BY GradedIs, GradeIs
<1> HIDE DEF Act
<1>5. GradedByTheWorld <=> [][Act]_vars
  BY DEF GradedByTheWorld, Act
<1> QED
  BY <1>1, <1>2, <1>3, <1>4, <1>5, EvidenceInvariant, PTL DEF Spec
=============================================================================
