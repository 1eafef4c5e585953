--------------------------- MODULE EvidenceProps ---------------------------
(***************************************************************************)
(* What verification promises, said of the world itself and not in the      *)
(* kernel's terms.                                                          *)
(***************************************************************************)
EXTENDS Evidence

-----------------------------------------------------------------------------
(* What it is for a claim to be borne out, or refuted                      *)

Sum(xs) == FoldLeft(Add, Whole(0), xs)
CountIn(xs, P(_)) == Whole(2 * Cardinality({i \in DOMAIN xs : P(xs[i])}))

\* That v is op of the operands xs, by what each operation means.
IsResult(op, xs, v) ==
    LET n == Whole(Len(xs))
        x == xs[1]
        y == xs[2]
        squares == Sum([i \in DOMAIN xs |-> Mul(xs[i], xs[i])])
        spread == Add(Mul(n, squares), Neg(Mul(Sum(xs), Sum(xs))))
        between(a, b) == Leq(a, b) /\ ~Equal(a, b)
        whole == v[1] % v[2] = 0
        times(k) == \E m \in 0 .. k[1] * y[2] : Equal(Mul(Whole(m), AbsOf(y)), k)
    IN  CASE op = "sum" -> Equal(v, Sum(xs))
          [] op = "mean" -> Equal(Mul(v, n), Sum(xs))
          [] op = "product" -> Equal(v, FoldRight(Mul, xs, Whole(1)))
          [] op = "diff" -> Equal(Add(v, Sum(xs)), Add(x, x))
          [] op = "ratio" -> Equal(Mul(v, y), x)
          [] op = "percent" -> Equal(Mul(v, y), Mul(Whole(100), x))
          [] op = "min" -> \E i \in DOMAIN xs : Equal(xs[i], v) /\ \A j \in DOMAIN xs : Leq(v, xs[j])
          [] op = "max" -> \E i \in DOMAIN xs : Equal(xs[i], v) /\ \A j \in DOMAIN xs : Leq(xs[j], v)
          [] op = "median" ->
                /\ Leq(n, CountIn(xs, LAMBDA e : Leq(e, v)))
                /\ Leq(n, CountIn(xs, LAMBDA e : Leq(v, e)))
                /\ \A a, b \in Range(xs) :
                      (Leq(a, v) /\ Leq(v, b) /\ ~\E e \in Range(xs) : between(a, e) /\ between(e, b))
                         => Equal(Add(v, v), Add(a, b)) \/ v \in {a, b}
          [] op = "count" -> Equal(v, n)
          [] op = "abs" -> v[1] >= 0 /\ v[1] * v[1] * x[2] * x[2] = x[1] * x[1] * v[2] * v[2]
          [] op = "pow" -> \E k \in 0 .. y[1] : Equal(y, Whole(k)) /\ Equal(v, <<x[1] ^ k, x[2] ^ k>>)
          [] op = "mod" -> /\ times(AbsOf(Add(x, Neg(v)))) /\ between(AbsOf(v), AbsOf(y))
                           /\ v[1] = 0 \/ (v[1] > 0 <=> x[1] > 0)
          [] op = "variance" -> Equal(Mul(Mul(n, n), v), spread)
          [] op = "stddev" -> v[1] >= 0 /\ Equal(Mul(Mul(n, n), Mul(v, v)), spread)
          [] op = "floor" -> whole /\ Leq(v, x) /\ between(x, Add(v, Whole(1)))
          [] op = "ceil" -> whole /\ Leq(x, v) /\ between(Add(v, Whole(-1)), x)
          [] op = "round" -> whole /\ Leq(Add(v, <<-1, 2>>), x) /\ between(x, Add(v, <<1, 2>>))

\* That a version is one the range allows, in npm's words: not older than the
\* base, and the same up to the leftmost place of it that is not 0 (^), up to
\* the minor place (~).
Allows(range, v) ==
    LET b == range.base
        newer == v = b \/ Before(b, v)
        nonzero == {i \in 1 .. 3 : b[i] # 0}
        lead == IF nonzero = {} THEN 3 ELSE CHOOSE i \in nonzero : \A j \in nonzero : i <= j
        same(k) == \A i \in 1 .. k : v[i] = b[i]
    IN  CASE range.op = "" -> v = b
          [] range.op = ">=" -> newer
          [] range.op = ">" -> newer /\ v # b
          [] range.op = "<=" -> ~newer \/ v = b
          [] range.op = "<" -> ~newer
          [] range.op = "~" -> newer /\ same(2)
          [] range.op = "^" -> newer /\ same(lead)

Readable(range) == range.base # Null /\ range.op # "compound"
There(path) == world.files[path] # Null
Own(c) == Field(c, "op") \in NumberOps /\ Has(c, "operands") /\ c.operands # <<>>
Defined(c) == /\ Field(c, "op") \in Binary => Len(c.operands) > 1
              /\ Field(c, "op") \in Binary \ {"pow"} => c.operands[2][1] # 0
Known(commit) == commit \in Commits /\ world.repo # Null
Within(c) == /\ Has(c, "statedMin") => Leq(c.statedMin, c.statedValue)
             /\ Has(c, "statedMax") => Leq(c.statedValue, c.statedMax)
DependencyOf(c) == IF Has(c, "dependencyFile") /\ There(c.dependencyFile)
                      /\ world.files[c.dependencyFile].deps # Null
                      /\ c.statedPackage \in DOMAIN world.files[c.dependencyFile].deps
                   THEN world.files[c.dependencyFile].deps[c.statedPackage] ELSE Null
Cited(c) == receipts[c.receiptFile]
Fits(c) == LET is == world.files[c.statedArtifact]
           IN  /\ Has(c, "artifactMinBytes") => is.size >= c.artifactMinBytes
               /\ Has(c, "artifactMaxBytes") => is.size <= c.artifactMaxBytes
               /\ Has(c, "artifactSha256") => is = c.artifactSha256
AlgoOf(c) == IF Has(c, "algo") THEN c.algo ELSE "sha256"
Days(dates) == {d.day : d \in {d \in dates : d.form # "unknown"}}
ContentOf(c, surface) == IF Has(c, "content") THEN c.content
                         ELSE IF surface = "research" /\ Has(c, "contentFile")
                         THEN world.files[c.contentFile] ELSE Null

\* Whether the check has something to go by: for each kind, what must be
\* readable, there, or stated.
Decidable(kind, c, src, surface) ==
    CASE kind = "citation" -> src # Null /\ c.quotedText # Blank
      [] kind = "number" -> c.statedValue # Null /\ IF Own(c) THEN Defined(c)
                                                    ELSE src # Null /\ src.numbers # {}
      [] kind = "range" -> c.statedValue # Null
      [] kind = "date" -> src # Null /\ c.statedDate.form # "unknown" /\ Days(src.dates) # {}
      [] kind = "hash" -> ContentOf(c, surface) # Null /\ AlgoOf(c) \in StrongHashAlgos
      [] kind = "signature" -> /\ ContentOf(c, surface) # Null
                               /\ Has(c, "signature") /\ Has(c, "publicKey") /\ c.publicKey.readable
      [] kind = "commit" -> Known(c.statedCommit)
      [] kind \in {"fileChanged", "diffContains"} ->
            /\ Known(Field(c, "statedCommit")) /\ c.statedCommit \in world.repo
            /\ Has(c, "statedChangedFile")
      [] kind = "version" -> /\ DependencyOf(c) # Null /\ Has(c, "statedPackageVersion")
                             /\ \/ Readable(DependencyOf(c)) /\ c.statedPackageVersion.base # Null
                                \/ DependencyOf(c).text = c.statedPackageVersion.text
      [] kind = "receipt" -> Has(c, "receiptFile") /\ Cited(c) # Other
      [] kind = "artifact" -> {"artifactMinBytes", "artifactMaxBytes", "artifactSha256"}
                                 \cap DOMAIN c # {}
      [] kind = "link" -> c.sourceUrl \notin {"http", "https"}
      [] kind \in {"file", "schema"} -> TRUE

\* What the claim says, looked up in the world as it is.
True(kind, c, src, surface) ==
    CASE kind = "citation" -> c.quotedText \in src.says
      [] kind = "number" -> IF Own(c) THEN IsResult(c.op, c.operands, c.statedValue)
                            ELSE \E n \in src.numbers : Equal(n, c.statedValue)
      [] kind = "range" -> Within(c)
      [] kind = "date" -> c.statedDate.day \in Days(src.dates)
      [] kind = "hash" -> c.statedHash = <<AlgoOf(c), ContentOf(c, surface)>>
      [] kind = "signature" -> c.signature = [by |-> c.publicKey, over |-> ContentOf(c, surface)]
      [] kind = "commit" -> c.statedCommit \in world.repo
      [] kind = "fileChanged" -> c.statedChangedFile \in ChangedBy[c.statedCommit]
      [] kind = "diffContains" -> /\ c.statedDiffText # Blank
                                 /\ c.statedDiffText \in DiffOf[c.statedCommit][c.statedChangedFile]
      [] kind = "version" -> \/ ~Readable(DependencyOf(c)) \/ c.statedPackageVersion.base = Null
                             \/ Allows(DependencyOf(c), c.statedPackageVersion.base)
      [] kind = "receipt" -> /\ IsReceipt(Cited(c)) /\ Cited(c) = written[c.receiptFile]
                             /\ Cited(c).body.receiptId = c.statedReceiptId
      [] kind = "artifact" -> There(c.statedArtifact) /\ Fits(c)
      [] kind = "link" -> FALSE
      [] kind = "file" -> There(c.statedFile)
      [] kind = "schema" -> c.conforms

\* What a surface asks of a claim: a council knows no bounds, and takes an
\* empty sourceUrl for a link.
Asked(c, surface) ==
    ({k \in CheckKinds \ {"link"} : Applies(k, c)}
        \ (IF surface = "council" THEN {"range"} ELSE {}))
    \cup (IF Field(c, "sourceUrl") \in {Null} \cup (IF surface = "council" THEN {} ELSE {"empty"})
          THEN {} ELSE {"link"})

\* The operations that go over a list of operands, or over the factors of a power.
OverLists == {"sum", "mean", "product", "diff", "min", "max", "median", "pow", "variance", "stddev"}

\* That the arithmetic over lists and the schema walk come to what they stand for,
\* on the claims of the reports, stated without a tolerance.
RecomputedRight ==
    \A r \in DOMAIN Reports : \A i \in 1 .. Len(Reports[r].claims) :
       LET c == Reports[r].claims[i]
           is == Recompute(c.op, c.operands)
       IN  /\ ~Has(c, "eps")
           /\ (Has(c, "schemaData") /\ Has(c, "schemaDef")) =>
                 (c.conforms <=> SchemaMismatches(c.schemaData, c.schemaDef) = {})
           /\ (Has(c, "statedValue") /\ c.statedValue # Null /\ Own(c) /\ c.op \in OverLists) =>
                 /\ Defined(c) <=> is # Null
                 /\ Defined(c) => (Close(c.statedValue, is, Whole(0), c.op = "stddev")
                                      <=> IsResult(c.op, c.operands, c.statedValue))

\* A claim is failed only by something that is there to be looked up and says
\* otherwise, and verified only by something that bears it out while nothing
\* says otherwise: what cannot be reached, read or recomputed accuses nobody
\* and vouches for nothing (numberStatus .. evaluateClaim, resolveFacts).
GradedByTheWorld ==
    [][\A v \in Verifiers :
          (Going(v) /\ proc'[v].at = "claims" /\ Len(proc'[v].results) > Len(proc[v].results)) =>
             LET c == Claim(v)
                 of == Raw(v).surface
                 src == SourceOf(v)
                 decided == {k \in Asked(c, of) : Decidable(k, c, src, of)}
                 refuted == \E k \in decided : ~True(k, c, src, of)
             IN  Last(proc'[v].results).verdict =
                    IF refuted THEN "failed"
                    ELSE IF decided # {} THEN "verified" ELSE "advisory"]_vars

-----------------------------------------------------------------------------
(* Receipts                                                                *)

Now == input
OnDisk == {o \in Outs : IsReceipt(receipts[o])}
Untouched(o) == receipts[o] = written[o]

\* Whatever happens to the report and its sources meanwhile, a receipt is
\* about the report it names: one result for each of its claims, in order,
\* and the text sealed with a result is the text that result was decided by
\* (runResearchVerify reads the report once and each page once), so that the
\* page which replay --fetch calls unchanged would decide it the same way.
SealSaysWhatWasRead ==
    \A o \in OnDisk :
       Untouched(o) =>
          LET r == receipts[o].body
              c(i) == Reports[r.input].claims[i]
          IN  /\ Len(r.results) = Len(Reports[r.input].claims)
              /\ \A i \in DOMAIN r.results :
                    /\ r.results[i].statement = c(i).statement
                    /\ (r.results[i].fetched # Null /\ Has(c(i), "quotedText")) =>
                          (r.results[i].checks["citation"] = "verified"
                              <=> c(i).quotedText \in r.results[i].fetched.says \ {Blank})
              /\ \A i \in DOMAIN SourceDrift(receipts[o], world.page) :
                    (/\ SourceDrift(receipts[o], world.page)[i] = "same"
                     /\ Has(c(i), "quotedText")) =>
                       CitationStatus(c(i).quotedText, world.page) = r.results[i].checks["citation"]

\* replay says intact of exactly the receipts that are as their verifier
\* completed them, whatever became of the input, the commit or the sources.
\* And a receipt that the gate lets through and replay finds intact has no
\* failed claim in it: half a receipt is never a pass.
ReplayIsExact ==
    \A o \in Outs :
       LET intact == ReplayExit(receipts[o], Now, world.repo) = 0
       IN  /\ o \in OnDisk => (intact <=> Untouched(o))
           /\ (GateDecision(receipts[o]) = "allow" /\ intact) =>
                 \A i \in DOMAIN receipts[o].body.results :
                    receipts[o].body.results[i].verdict # "failed"

\* Two neighbouring lines of the decision log that do not chain had a torn
\* line or a second council between them; one council at a time leaves a chain.
LogBreakHasCause ==
    \A k \in 2 .. Len(log) :
       (log[k].whole /\ log[k].prev # log[k - 1]) =>
          ~log[k - 1].whole \/ ~log[k - 1].alone \/ ~log[k].alone

-----------------------------------------------------------------------------
(* The graph                                                               *)

Dir(d) == Rows(d, Now, world.repo)

\* Copies of one receipt count once, and nothing is lost by it: every file
\* stands behind one row, every failed check of a row is one event, a receipt
\* that says fail names what failed and is found under each of its reasons, the
\* sealed filter lets through what a verifier wrote and nothing else, and the
\* edges never claim more than was looked at (buildSummary .. buildGraph).
CountsAddUp(rows) ==
    LET events == FailureEvents(rows)
        s == Summary(rows)
        failedChecks(r) == UNION {{<<i, k>> : k \in FailuresOf(r.claims[i])} : i \in DOMAIN r.claims}
        edges == ReceiptEdges(rows)
    IN  /\ s.total = Cardinality({r.id : r \in rows})
        /\ \A r \in rows : \E e \in Fold(rows) : r.file \in e.files /\ ~Later(r, e.row)
        /\ Cardinality(events) = SumFunction([r \in Folded(rows) |-> Cardinality(failedChecks(r))])
        /\ SumFunction(s.failures) = Cardinality(events)
        /\ DOMAIN s.failures = DOMAIN IndexBy(rows, "check")
        /\ \A f \in FailedReceipts(rows) :
              Untouched(f.row.file) =>
                 /\ f.affected # {}
                 /\ \A k \in f.reasons : \E e \in IndexBy(rows, "check")[k] : e.row = f.row
        /\ \A e \in events : Untouched(e.row.file) <=> e \in FilterFailures(events, Null, {}, Null, TRUE)
        /\ \A st \in Failures, sha \in DOMAIN Reports :
              \A e \in FilterFailures(events, Null, {st}, sha, FALSE) : e.row.input = sha /\ e.status = st
        /\ \A e \in edges : /\ e.from # e.to
                            /\ e.type = "same_input" /\ e.tier = "verified" => e.from[1] = Now
        /\ \A e, f \in edges : {e.type, f.type} = {"reverifies"} => <<e.from, e.to>> # <<f.to, f.from>>

\* What buildHistory reports between two neighbouring receipts of a claim is
\* what buildGraphDiff reports between directories that hold one of them each.
HistoryMatchesDiff(rows) ==
    \A fp \in UNION {{r.claims[i].fingerprint : i \in DOMAIN r.claims} : r \in rows} :
       LET h == History(rows, fp)
       IN  \A n \in 2 .. Len(h) :
              LET d == GraphDiff({h[n - 1].row}, {h[n].row}, FALSE, "fingerprint")
                  mine(S) == {k \in S : k[1] = fp}
              IN  /\ h[n].changes.new = mine(d.new)
                  /\ h[n].changes.resolved = mine(d.resolved)
                  /\ h[n].changes.changed = mine(d.changed)

\* A receipt more in a directory makes failures of the others disappear only if
\* it has their receipt's id: a later pass resolves nothing. And it fails the
\* comparison only by a failure of its own, never by what it folds together.
OnlyOwnIdResolves ==
    \A o \in OnDisk :
       LET before == Dir([receipts EXCEPT ![o] = Null])
           after == FailureEvents(Dir(receipts))
       IN  /\ \A e \in FailureEvents(before) :
                 FailureKey(e, "fingerprint")
                       \in GraphDiff(before, Dir(receipts), FALSE, "fingerprint").resolved
                    => e.row.id = receipts[o].body.receiptId
           /\ DiffExit(before, Dir(receipts), FALSE, "statement") = 1 =>
                 \E e \in after : e.row.id = receipts[o].body.receiptId

\* Summary, failures, edges, history and diff of any directory of receipts tell
\* one story.
GraphAddsUp ==
    CountsAddUp(Dir(receipts)) /\ HistoryMatchesDiff(Dir(receipts)) /\ OnlyOwnIdResolves
=============================================================================
