--------------------------- MODULE EvidenceKernel ---------------------------
(***************************************************************************)
(* evidencekernel.ts: what a claim's own evidence comes to, decided without *)
(* a model and without IO.  A claim is a record that has only the fields    *)
(* the report gives it.  A text is what can be found in it: quotations,     *)
(* numbers, dates, dependencies.  A number is a fraction <<n, d>>, d > 0;   *)
(* a hash is what it is the hash of.                                        *)
(***************************************************************************)
EXTENDS Integers, Sequences, FiniteSets, SequencesExt

CONSTANTS Null,        \* null, undefined, NaN: nothing to go by
          Blank        \* a quotation of white space only

Has(c, f) == f \in DOMAIN c
Field(c, f) == IF Has(c, f) THEN c[f] ELSE Null

Failures == {"not-found", "mismatch", "invalid"}

-----------------------------------------------------------------------------
(* Citations and numbers                                                   *)

CitationStatus(quote, source) ==
    IF source = Null \/ quote = Blank THEN "no-source"
    ELSE IF quote \in source.says THEN "verified" ELSE "not-found"

Whole(n) == <<n, 1>>
Add(a, b) == <<a[1] * b[2] + b[1] * a[2], a[2] * b[2]>>
Neg(a) == <<-a[1], a[2]>>
Mul(a, b) == <<a[1] * b[1], a[2] * b[2]>>
Inv(a) == IF a[1] < 0 THEN <<-a[2], -a[1]>> ELSE <<a[2], a[1]>>
Leq(a, b) == a[1] * b[2] <= b[1] * a[2]
Equal(a, b) == a[1] * b[2] = b[1] * a[2]
AbsOf(a) == IF a[1] < 0 THEN Neg(a) ELSE a
Floor(a) == Whole(a[1] \div a[2])

Total(xs) == FoldLeft(Add, Whole(0), xs)
MeanOf(xs) == Mul(Total(xs), <<1, Len(xs)>>)
Squared(a) == Mul(a, a)
VarianceOf(xs) ==
    MeanOf([i \in DOMAIN xs |-> Squared(Add(xs[i], Neg(MeanOf(xs))))])

MedianOf(xs) ==
    LET s == SortSeq(xs, LAMBDA a, b : Leq(a, b) /\ ~Equal(a, b))
        m == Len(s) \div 2
    IN  IF Len(s) % 2 = 1 THEN s[m + 1] ELSE Mul(Add(s[m], s[m + 1]), <<1, 2>>)

\* x % y of JavaScript: the remainder has the sign of x.
Remainder(x, y) ==
    LET q == Floor(Mul(AbsOf(x), Inv(AbsOf(y))))
        r == Add(AbsOf(x), Neg(Mul(q, AbsOf(y))))
    IN  IF x[1] < 0 THEN Neg(r) ELSE r

NumberOps == {"sum", "mean", "product", "diff", "ratio", "percent", "min", "max",
              "median", "count", "abs", "pow", "mod", "variance", "stddev",
              "floor", "ceil", "round"}
Binary == {"ratio", "percent", "mod", "pow"}

\* recompute, Null where the operands do not do.  stddev is left squared, and
\* the second operand of pow is a natural number.
Recompute(op, xs) ==
    IF \/ xs = <<>> \/ (op \in Binary /\ Len(xs) < 2)
       \/ (op \in Binary \ {"pow"} /\ xs[2][1] = 0)
    THEN Null
    ELSE CASE op = "sum" -> Total(xs)
           [] op = "mean" -> MeanOf(xs)
           [] op = "product" -> FoldLeft(Mul, Whole(1), xs)
           [] op = "diff" -> FoldLeft(LAMBDA a, b : Add(a, Neg(b)), xs[1], Tail(xs))
           [] op = "ratio" -> Mul(xs[1], Inv(xs[2]))
           [] op = "percent" -> Mul(Whole(100), Mul(xs[1], Inv(xs[2])))
           [] op = "min" -> FoldLeft(LAMBDA a, b : IF Leq(a, b) THEN a ELSE b, xs[1], xs)
           [] op = "max" -> FoldLeft(LAMBDA a, b : IF Leq(a, b) THEN b ELSE a, xs[1], xs)
           [] op = "median" -> MedianOf(xs)
           [] op = "count" -> Whole(Len(xs))
           [] op = "abs" -> AbsOf(xs[1])
           [] op = "pow" -> FoldLeft(Mul, Whole(1), [i \in 1 .. xs[2][1] |-> xs[1]])
           [] op = "mod" -> Remainder(xs[1], xs[2])
           [] op \in {"variance", "stddev"} -> VarianceOf(xs)
           [] op = "floor" -> Floor(xs[1])
           [] op = "ceil" -> Neg(Floor(Neg(xs[1])))
           [] op = "round" -> Floor(Add(xs[1], <<1, 2>>))

\* numbersClose; against a square when r is one.
Close(stated, r, eps, squared) ==
    LET low == Add(stated, Neg(eps))
        high == Add(stated, eps)
    IN  IF squared
        THEN high[1] >= 0 /\ Leq(r, Squared(high)) /\ (low[1] <= 0 \/ Leq(Squared(low), r))
        ELSE Leq(low, r) /\ Leq(r, high)

\* numberStatus: the claim's own operands come before the source.
NumberStatus(c, source) ==
    LET eps == IF Has(c, "eps") /\ c.eps[1] >= 0 THEN c.eps ELSE Whole(0)
        op == Field(c, "op")
        own == op \in NumberOps /\ Has(c, "operands") /\ c.operands # <<>>
        r == Recompute(op, c.operands)
        near(n) == Close(c.statedValue, n, eps, FALSE)
    IN  IF c.statedValue = Null THEN "no-basis"
        ELSE IF own /\ r = Null THEN "no-basis"
        ELSE IF own THEN (IF Close(c.statedValue, r, eps, op = "stddev") THEN "verified"
                          ELSE "mismatch")
        ELSE IF source = Null THEN "no-basis"
        ELSE IF source.numbers = {} THEN "no-basis"
        ELSE IF \E n \in source.numbers : near(n) THEN "verified" ELSE "mismatch"

RangeStatus(v, min, max) ==
    IF v = Null \/ (min = Null /\ max = Null) THEN "no-basis"
    ELSE IF min # Null /\ ~Leq(min, v) THEN "mismatch"
    ELSE IF max # Null /\ ~Leq(v, max) THEN "mismatch"
    ELSE "verified"

-----------------------------------------------------------------------------
(* Dates, links, hashes, signatures                                        *)

\* canonicalizeDate: three notations of a day are read, any other is not.
Canonical(date) == IF date.form \in {"iso", "mdy", "dmy"} THEN date.day ELSE Null
DatesInText(text) == {Canonical(d) : d \in text.dates} \ {Null}

DateStatus(date, source) ==
    IF date = Null \/ source = Null THEN "no-basis"
    ELSE IF Canonical(date) = Null \/ DatesInText(source) = {} THEN "no-basis"
    ELSE IF Canonical(date) \in DatesInText(source) THEN "verified"
    ELSE "mismatch"

\* linkStatus of a URL, of which only the scheme counts.
LinkStatus(url) == IF url \in {"http", "https"} THEN "valid" ELSE "invalid"

StrongHashAlgos == {"sha256", "sha384", "sha512"}
Digest(algo, content) == <<algo, content>>

HashStatus(stated, content, algo) ==
    IF stated = Null \/ content = Null THEN "no-basis"
    ELSE IF algo \notin StrongHashAlgos THEN "no-basis"
    ELSE IF stated = Digest(algo, content) THEN "verified"
    ELSE "mismatch"

\* A signature says by which key, over which content; a key may be unreadable.
SignatureStatus(content, signature, key) ==
    IF content = Null \/ signature = Null \/ key = Null THEN "no-basis"
    ELSE IF ~key.readable THEN "no-basis"
    ELSE IF signature = [by |-> key, over |-> content] THEN "verified"
    ELSE "invalid"

-----------------------------------------------------------------------------
(* Facts the caller has looked up; Null is "could not ask"                 *)

\* Mutant: what could not be asked counts as refuted.
CommitAssumedGone(commit, exists) ==
    IF commit = Null THEN "no-basis" ELSE IF exists = TRUE THEN "verified" ELSE "mismatch"

CommitStatus(commit, exists) ==
    IF commit = Null \/ exists = Null THEN "no-basis"
    ELSE IF exists THEN "verified"
    ELSE "mismatch"

FileChangedStatus(file, changed) ==
    IF file = Null \/ changed = Null THEN "no-basis"
    ELSE IF file \in changed THEN "verified"
    ELSE "not-found"

DiffContainsStatus(quote, diff) ==
    IF quote = Null \/ diff = Null THEN "no-basis"
    ELSE IF quote \in diff /\ quote # Blank THEN "verified"
    ELSE "not-found"

FileStatus(file, exists) ==
    IF file = Null \/ exists = Null THEN "no-basis"
    ELSE IF exists THEN "verified"
    ELSE "not-found"

\* receiptStatus: a receipt that is not there is a wrong citation, one of
\* another kind is not judged.  A stated id is the id it is a prefix of.
ReceiptStatus(id, facts) ==
    IF id = Null \/ facts = Null THEN "no-basis"
    ELSE IF ~facts.found THEN "mismatch"
    ELSE IF ~facts.isVerificationReceipt THEN "no-basis"
    ELSE IF facts.actualReceiptId # id THEN "mismatch"
    ELSE IF ~(facts.contentHashOk /\ facts.receiptIdOk) THEN "mismatch"
    ELSE "verified"

\* artifactStatus: without a constraint there is nothing to judge.
ArtifactStatus(c, facts) ==
    LET min == Field(c, "artifactMinBytes")
        max == Field(c, "artifactMaxBytes")
        sha == Field(c, "artifactSha256")
    IN  IF min = Null /\ max = Null /\ sha = Null THEN "no-basis"
        ELSE IF facts = Null THEN "no-basis"
        ELSE IF ~facts.exists THEN "not-found"
        ELSE IF min # Null /\ facts.sizeBytes < min THEN "mismatch"
        ELSE IF max # Null /\ facts.sizeBytes > max THEN "mismatch"
        ELSE IF sha # Null /\ facts.sha256 = Null THEN "no-basis"
        ELSE IF sha # Null /\ facts.sha256 # sha THEN "mismatch"
        ELSE "verified"

-----------------------------------------------------------------------------
(* Schemas and versions                                                    *)

\* schemaWalk, as the set of what it finds.  Data and schema are functions from
\* paths to nodes; a path is a sequence of steps <<"key", name>> and <<"item", n>>,
\* and a schema has one part for all items.  The walk goes into what both have,
\* under a type that is stated and right; a wrong type ends it.
AnyItem == <<"item", 0>>
SchemaMismatches(data, schema) ==
    LET place(p) == [i \in DOMAIN p |-> IF p[i][1] = "item" THEN AnyItem ELSE p[i]]
        part(p) == schema[place(p)]
        opened(p) == Field(part(p), "type") = data[p].type
        walked == {p \in DOMAIN data : /\ place(p) \in DOMAIN schema
                                       /\ \A k \in 0 .. Len(p) - 1 : opened(SubSeq(p, 1, k))}
        held == {p \in walked : Has(part(p), "type") => opened(p)}
        below(p, key) == Append(p, <<"key", key>>)
        needs(p) == IF Field(part(p), "type") = "object" /\ Has(part(p), "required")
                    THEN part(p).required ELSE {}
    IN  {<<p, "type">> : p \in walked \ held}
        \cup {<<p, "enum">> : p \in {p \in held : Has(part(p), "enum") /\ data[p] \notin part(p).enum}}
        \cup (UNION {{<<below(p, key), "required">> : key \in {key \in needs(p) : below(p, key) \notin DOMAIN data}} :
                        p \in held})

SchemaStatus(data, schema) ==
    IF SchemaMismatches(data, schema) = {} THEN "verified" ELSE "mismatch"

\* A version is <<major, minor, patch>>, missing places 0, or Null when
\* parseSemver does not read it; a range is an operator and a version.
Before(a, b) == \/ a[1] < b[1]
                \/ a[1] = b[1] /\ a[2] < b[2]
                \/ a[1] = b[1] /\ a[2] = b[2] /\ a[3] < b[3]

\* The first version ^base excludes: the leftmost place that is not 0 counts.
CaretUpper(base) ==
    IF base[1] > 0 THEN <<base[1] + 1, 0, 0>>
    ELSE IF base[2] > 0 THEN <<0, base[2] + 1, 0>>
    ELSE <<0, 0, base[3] + 1>>

SemverSatisfies(v, range) ==
    LET base == range.base
    IN  IF v = Null \/ base = Null \/ range.op = "compound" THEN Null
        ELSE CASE range.op = "" -> v = base
               [] range.op = ">=" -> ~Before(v, base)
               [] range.op = ">" -> Before(base, v)
               [] range.op = "<=" -> ~Before(base, v)
               [] range.op = "<" -> Before(v, base)
               [] range.op = "~" -> ~Before(v, base) /\ Before(v, <<base[1], base[2] + 1, 0>>)
               [] range.op = "^" -> ~Before(v, base) /\ Before(v, CaretUpper(base))

\* versionStatus; where the range cannot be judged, the same text will do.
VersionStatus(pkg, claimed, deps) ==
    LET fits == SemverSatisfies(claimed.base, deps[pkg])
    IN  IF claimed = Null \/ deps = Null THEN "no-basis"
        ELSE IF pkg \notin DOMAIN deps THEN "no-basis"
        ELSE IF fits = Null THEN (IF claimed.text = deps[pkg].text THEN "verified" ELSE "no-basis")
        ELSE IF fits THEN "verified" ELSE "mismatch"

-----------------------------------------------------------------------------
(* The registry and a whole claim                                          *)

CheckKinds == {"citation", "number", "range", "date", "hash", "signature", "link",
               "commit", "fileChanged", "diffContains", "schema", "version", "file",
               "receipt", "artifact"}
Positive(kind) == kind # "link"
GradeOf(kind) == CASE kind \in {"number", "hash", "signature"} -> "A"
                   [] kind = "link" -> "C"
                   [] OTHER -> "B"

\* Which checks a claim asks for.
Applies(kind, c) ==
    CASE kind = "citation" -> Has(c, "quotedText")
      [] kind = "number" -> Has(c, "statedValue")
      [] kind = "range" -> Has(c, "statedValue") /\ (Has(c, "statedMin") \/ Has(c, "statedMax"))
      [] kind = "date" -> Has(c, "statedDate")
      [] kind = "hash" -> Has(c, "statedHash")
      [] kind = "signature" -> Has(c, "signature") \/ Has(c, "publicKey")
      [] kind = "link" -> Has(c, "link")
      [] kind = "commit" -> Has(c, "statedCommit")
      [] kind = "fileChanged" -> Has(c, "statedChangedFile")
      [] kind = "diffContains" -> Has(c, "statedDiffText")
      [] kind = "schema" -> Has(c, "schemaData") /\ Has(c, "schemaDef")
      [] kind = "version" -> Has(c, "statedPackage")
      [] kind = "file" -> Has(c, "statedFile")
      [] kind = "receipt" -> Has(c, "statedReceiptId")
      [] kind = "artifact" -> Has(c, "statedArtifact")

\* CHECK_REGISTRY's run: the fields each check is given.
Run(kind, c, source) ==
    CASE kind = "citation" -> CitationStatus(c.quotedText, source)
      [] kind = "number" -> NumberStatus(c, source)
      [] kind = "range" -> RangeStatus(c.statedValue, Field(c, "statedMin"), Field(c, "statedMax"))
      [] kind = "date" -> DateStatus(c.statedDate, source)
      [] kind = "hash" -> HashStatus(c.statedHash, Field(c, "content"),
                                     IF Has(c, "algo") THEN c.algo ELSE "sha256")
      [] kind = "signature" -> SignatureStatus(Field(c, "content"), Field(c, "signature"),
                                               Field(c, "publicKey"))
      [] kind = "link" -> LinkStatus(c.link)
      [] kind = "commit" -> CommitStatus(c.statedCommit, c.commitExists)
      [] kind = "fileChanged" -> FileChangedStatus(c.statedChangedFile, c.changedFiles)
      [] kind = "diffContains" -> DiffContainsStatus(c.statedDiffText, c.diffText)
      [] kind = "schema" -> SchemaStatus(c.schemaData, c.schemaDef)
      [] kind = "version" -> VersionStatus(c.statedPackage, Field(c, "statedPackageVersion"),
                                           c.dependencyMap)
      [] kind = "file" -> FileStatus(c.statedFile, c.fileExists)
      [] kind = "receipt" -> ReceiptStatus(c.statedReceiptId, c.receiptFacts)
      [] kind = "artifact" -> ArtifactStatus(c, c.artifactFacts)

\* evidenceFor: what was expected and what was there, for a failed check.
EvidenceOf(kind, c, source) ==
    CASE kind = "number" ->
            <<c.statedValue, IF Field(c, "op") \in NumberOps /\ Has(c, "operands")
                             THEN Recompute(c.op, c.operands) ELSE source.numbers>>
      [] kind = "range" -> <<c.statedValue, Field(c, "statedMin"), Field(c, "statedMax")>>
      [] kind = "date" -> <<c.statedDate, DatesInText(source)>>
      [] kind = "hash" -> <<c.statedHash, c.content>>
      [] kind = "fileChanged" -> <<c.statedChangedFile, c.changedFiles>>
      [] kind = "schema" -> <<SchemaMismatches(c.schemaData, c.schemaDef)>>
      [] kind = "version" -> <<c.statedPackageVersion, c.dependencyMap[c.statedPackage]>>
      [] kind = "artifact" -> <<c.artifactFacts>>
      [] kind = "receipt" -> <<c.statedReceiptId, c.receiptFacts.actualReceiptId>>
      [] OTHER -> <<kind>>

\* evaluateClaim.  A failure of any check outweighs every success.
EvaluateClaim(c, source) ==
    LET results == [k \in {k \in CheckKinds : Applies(k, c)} |-> Run(k, c, source)]
        bad == {k \in DOMAIN results : results[k] \in Failures}
        good == {k \in DOMAIN results : Positive(k) /\ results[k] = "verified"}
    IN  [results |-> results,
         evidence |-> [k \in bad |-> EvidenceOf(k, c, source)],
         failed |-> bad # {},
         verified |-> bad = {} /\ good # {},
         abstain |-> bad = {} /\ good = {},
         grade |-> IF good = {} THEN "none"
                   ELSE IF \E k \in good : GradeOf(k) = "A" THEN "A" ELSE "B"]

\* The verdict a report or a council records for a claim.
VerdictOf(ev) == IF ev.failed THEN "failed" ELSE IF ev.verified THEN "verified" ELSE "advisory"

\* claimFingerprintV1: the wording, the source's URL, the checks that ran.
Fingerprint(statement, url, ev) == <<statement, url, DOMAIN ev.results>>
=============================================================================
