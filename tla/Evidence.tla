------------------------------ MODULE Evidence ------------------------------
(***************************************************************************)
(* research.ts, council.ts, gitfacts.ts and vreceipt.ts at work: verifier   *)
(* processes read a report once, look each claim's evidence up in a world   *)
(* that goes on changing, and seal what they found in a receipt file; a     *)
(* council also appends to the decision log.  Nothing is locked.  Reading a *)
(* file is atomic; a receipt is written over in two steps.                  *)
(***************************************************************************)
EXTENDS EvidenceGraph

CONSTANTS Verifiers,  \* processes
          Reports,    \* the reports there are, by name: [surface, claims, commit]
          Paths,      \* files that claims name
          Contents,   \* what such a file or a page may hold
          Commits, ChangedBy, DiffOf,    \* history of the repository
          Outs,       \* receipt files, numbered
          Versions,   \* [files, page, repo] the world may take ...
          Origins,    \* ... and those it may start from
          MaxRuns, MaxEdits, MaxClock    \* bounds

ASSUME EvidenceAssumption ==
    /\ Origins \subseteq Versions
    /\ Outs \subseteq Nat /\ IsFiniteSet(Outs) /\ MaxRuns \in Nat /\ MaxEdits \in Nat
    /\ \A w \in Versions : /\ w.files \in [Paths -> Contents \cup {Null}]
                           /\ w.page \in Contents \cup {Null}
                           /\ w.repo = Null \/ w.repo \subseteq Commits

\* A report is a list of claims, under a name of its own: the name of a text
\* that is no report ("elsewhere") is not one.
ASSUME ReportAssumption ==
    /\ Null \notin DOMAIN Reports /\ "elsewhere" \notin DOMAIN Reports
    /\ \A r \in DOMAIN Reports : /\ Reports[r].surface \in {"research", "council"}
                                /\ Len(Reports[r].claims) \in Nat

\* What a text and a claim are made of.  A number is a fraction, a version three
\* numbers; a claim has no field without something in it but a value that is no
\* number, and names files that the world knows.
Fraction == Int \X (Nat \ {0})
Version == Nat \X Nat \X Nat
Ranges == {"", ">=", ">", "<=", "<", "~", "^", "compound"}

IsText(t) ==
    /\ t # Null /\ t.numbers \subseteq Fraction /\ t.size \in Nat
    /\ \A d \in t.dates : d.form \in {"iso", "mdy", "dmy", "unknown"} /\ d.day # Null
    /\ \/ t.deps = Null
       \/ \A p \in DOMAIN t.deps : LET is == t.deps[p]
                                   IN  /\ is # Null /\ is.op \in Ranges
                                       /\ is.base = Null \/ is.base \in Version

IsClaim(c) ==
    /\ "link" \notin DOMAIN c /\ \A f \in DOMAIN c : f = "statedValue" \/ c[f] # Null
    /\ \A f \in DOMAIN c \cap {"sourceFile", "contentFile", "statedFile", "dependencyFile",
                            "statedArtifact"} : c[f] \in Paths
    /\ Has(c, "receiptFile") => c.receiptFile \in Outs
    /\ Has(c, "sourceText") => c.sourceText \in Contents
    /\ Has(c, "statedValue") => c.statedValue = Null \/ c.statedValue \in Fraction
    /\ Has(c, "operands") => c.operands \in Seq(Fraction)
    /\ Has(c, "statedDate") => /\ c.statedDate.form \in {"iso", "mdy", "dmy", "unknown"}
                               /\ c.statedDate.day # Null
    /\ \A f \in DOMAIN c \cap {"artifactMinBytes", "artifactMaxBytes"} : c[f] \in Int
    /\ (Field(c, "statedCommit") \in Commits /\ Has(c, "statedChangedFile")) =>
          DiffOf[c.statedCommit][c.statedChangedFile] # Null
    /\ Has(c, "statedPackageVersion") =>
          c.statedPackageVersion.base = Null \/ c.statedPackageVersion.base \in Version

ASSUME ClaimAssumption ==
    /\ \A t \in Contents : IsText(t)
    /\ \A x \in Commits : ChangedBy[x] # Null
    /\ \A r \in DOMAIN Reports : \A i \in 1 .. Len(Reports[r].claims) : IsClaim(Reports[r].claims[i])

VARIABLES world,     \* what the claims are about: files, page, repository
          input,     \* the report now in the input file
          receipts,  \* the receipt files
          log,       \* the decision log
          proc,      \* the verifiers
          clock, runs, edits,
          written    \* history: each file as a verifier last completed it

vars == <<world, input, receipts, log, proc, clock, runs, edits, written>>

Idle == [at |-> "idle"]
Going(v) == proc[v].at # "idle"
Raw(v) == Reports[proc[v].raw]
Claim(v) == Raw(v).claims[Len(proc[v].results) + 1]
Graded(v) == Len(proc[v].results) = Len(Raw(v).claims)
Becomes(v, p) == proc' = [proc EXCEPT ![v] = p]

-----------------------------------------------------------------------------
(* Looking things up                                                       *)

\* resolveSource: the text in the claim, else the file it names.
ResolveSource(c, w) ==
    IF Has(c, "sourceText") THEN c.sourceText
    ELSE IF Has(c, "sourceFile") THEN w.files[c.sourceFile]
    ELSE Null

ResolveContent(c, w) ==
    IF Has(c, "content") THEN c.content
    ELSE IF Has(c, "contentFile") THEN w.files[c.contentFile]
    ELSE Null

\* gitfacts.ts.  Null is "could not ask"; a hash git would not read is not
\* asked for, and nothing is known of a commit that is not there.
ResolveCommitExists(commit, w) ==
    IF commit \notin Commits \/ w.repo = Null THEN Null ELSE commit \in w.repo
OfCommit(commit, w, what) == IF ResolveCommitExists(commit, w) = TRUE THEN what ELSE Null

ResolveReceiptFacts(x) ==
    IF x \in {Null, Torn} THEN [found |-> FALSE, actualReceiptId |-> Null]
    ELSE IF x = Other
    THEN [found |-> TRUE, isVerificationReceipt |-> FALSE, actualReceiptId |-> Null]
    ELSE LET r == Replay(x, Null, Null)
         IN  [found |-> TRUE, isVerificationReceipt |-> TRUE, actualReceiptId |-> x.body.receiptId,
              contentHashOk |-> r.contentHashOk, receiptIdOk |-> r.receiptIdOk]

\* The hash is taken only where the claim states one.
ResolveArtifactFacts(content, needSha) ==
    IF content = Null THEN [exists |-> FALSE]
    ELSE [exists |-> TRUE, sizeBytes |-> content.size,
          sha256 |-> IF needSha THEN content ELSE Null]

\* What was found is not "could not ask".
ASSUME FactsAssumption ==
    /\ Null \notin BOOLEAN /\ Null \notin Commits /\ Null \notin NumberOps /\ Null \notin Fraction
    /\ Other # Null /\ Other # Torn
    /\ Null # [exists |-> FALSE]
    /\ Null \notin [exists : {TRUE}, sizeBytes : Nat, sha256 : Contents \cup {Null}]
    /\ Null # [found |-> FALSE, actualReceiptId |-> Null]
    /\ Null # [found |-> TRUE, isVerificationReceipt |-> FALSE, actualReceiptId |-> Null]
    /\ Null \notin [found : {TRUE}, isVerificationReceipt : {TRUE},
                    actualReceiptId : (DOMAIN Reports) \X {"pass", "fail"},
                    contentHashOk : BOOLEAN, receiptIdOk : BOOLEAN]

IsLink(c) == Field(c, "sourceUrl") \notin {Null, "empty"}

\* resolveFacts and buildEvalInput: the claim with what was looked up for it.
\* An empty sourceUrl is no link.
ResearchInput(c, w, dir) ==
    [f \in (DOMAIN c \cup {"commitExists", "changedFiles", "diffText", "dependencyMap",
                           "fileExists", "receiptFacts", "artifactFacts"})
           \cup (IF IsLink(c) THEN {"link"} ELSE {})
           \cup (IF ResolveContent(c, w) # Null THEN {"content"} ELSE {}) |->
        CASE f = "link" -> c.sourceUrl
          [] f = "content" -> ResolveContent(c, w)
          [] f = "commitExists" -> ResolveCommitExists(Field(c, "statedCommit"), w)
          [] f = "changedFiles" -> OfCommit(Field(c, "statedCommit"), w,
                                            ChangedBy[Field(c, "statedCommit")])
          [] f = "diffText" -> IF Has(c, "statedChangedFile")
                               THEN OfCommit(Field(c, "statedCommit"), w,
                                             DiffOf[c.statedCommit][c.statedChangedFile])
                               ELSE Null
          [] f = "dependencyMap" -> IF Has(c, "dependencyFile") /\ w.files[c.dependencyFile] # Null
                                    THEN w.files[c.dependencyFile].deps ELSE Null
          [] f = "fileExists" -> IF Has(c, "statedFile") THEN w.files[c.statedFile] # Null ELSE Null
          [] f = "receiptFacts" -> IF Has(c, "receiptFile")
                                   THEN ResolveReceiptFacts(dir[c.receiptFile]) ELSE Null
          [] f = "artifactFacts" -> IF Has(c, "statedArtifact")
                                    THEN ResolveArtifactFacts(w.files[c.statedArtifact],
                                                              Has(c, "artifactSha256"))
                                    ELSE Null
          [] OTHER -> c[f]]

\* gradeDecision's own assembly of the same: no bounds of a range, no
\* contentFile, and an empty sourceUrl is a link.
CouncilInput(c, w, dir) ==
    LET full == ResearchInput(c, w, dir)
        kept == (DOMAIN full \ {"statedMin", "statedMax"}) \ (IF Has(c, "content") THEN {} ELSE {"content"})
    IN  [f \in kept \cup (IF Has(c, "sourceUrl") THEN {"link"} ELSE {}) |->
            IF f = "link" THEN c.sourceUrl ELSE full[f]]

Assembled(surface, c, w, dir) ==
    IF surface = "council" THEN CouncilInput(c, w, dir) ELSE ResearchInput(c, w, dir)

\* What a report records of a claim; fetched is the text sealed with it.
Result(c, ev, fetched) ==
    [statement |-> c.statement, decision |-> Field(c, "decision"),
     fingerprint |-> Fingerprint(c.statement, Field(c, "sourceUrl"), ev),
     checks |-> ev.results, evidence |-> ev.evidence, verdict |-> VerdictOf(ev),
     fetched |-> fetched]

-----------------------------------------------------------------------------
(* A verifier                                                              *)

\* --fetch is an option of research, and one that changes nothing for a
\* report that names no page.
Starts(v, out, fetch) ==
    /\ ~Going(v) /\ runs < MaxRuns /\ runs' = runs + 1
    /\ fetch => /\ Reports[input].surface = "research"
                /\ \E i \in DOMAIN Reports[input].claims : IsLink(Reports[input].claims[i])
    /\ Becomes(v, [at |-> "claims", raw |-> input, out |-> out, fetch |-> fetch,
                   source |-> <<>>, unreachable |-> 0, results |-> <<>>, prev |-> Null])
    /\ UNCHANGED <<world, input, receipts, log, clock, edits, written>>

Live(v) == proc[v].fetch /\ IsLink(Claim(v))

\* fetchSource: an await of its own; source is <<>> until the text is there.
Fetches(v) ==
    /\ proc[v].at = "claims" /\ ~Graded(v) /\ Live(v) /\ proc[v].source = <<>>
    /\ Becomes(v, [proc[v] EXCEPT !.source = <<world.page>>,
                                  !.unreachable = @ + (IF world.page = Null THEN 1 ELSE 0)])
    /\ UNCHANGED <<world, input, receipts, log, clock, runs, edits, written>>

\* The source a claim is held against: what came back, or the local one.
SourceOf(v) == IF Live(v) THEN proc[v].source[1] ELSE ResolveSource(Claim(v), world)

\* resolveFacts, evaluateClaim, collected.push.
Grades(v) ==
    /\ proc[v].at = "claims" /\ ~Graded(v) /\ (Live(v) => proc[v].source # <<>>)
    /\ LET ev == EvaluateClaim(Assembled(Raw(v).surface, Claim(v), world, receipts), SourceOf(v))
       IN  Becomes(v, [proc[v] EXCEPT !.source = <<>>,
               !.results = Append(@, Result(Claim(v), ev, IF Live(v) THEN SourceOf(v) ELSE Null))])
    /\ UNCHANGED <<world, input, receipts, log, clock, runs, edits, written>>

\* gradeDecision: one failed claim leaves its decision ungrounded.
Grounding(results, d) ==
    LET mine == {i \in DOMAIN results : results[i].decision = d}
    IN  IF \E i \in mine : results[i].verdict = "failed" THEN "ungrounded"
        ELSE IF \E i \in mine : results[i].verdict = "verified" THEN "grounded"
        ELSE "unsupported"

Decided(results) == [d \in {results[i].decision : i \in DOMAIN results} |-> Grounding(results, d)]

\* appendDecisionLog reads the last line; one it cannot read leaves no hash.
ReadsLog(v) ==
    /\ proc[v].at = "claims" /\ Graded(v) /\ Raw(v).surface = "council"
    /\ Becomes(v, [proc[v] EXCEPT !.at = "log",
                                  !.prev = IF log = <<>> \/ ~Last(log).whole THEN Null ELSE Last(log)])
    /\ UNCHANGED <<world, input, receipts, log, clock, runs, edits, written>>

\* Mutant: the chain goes by the decisions alone.
AppendsUnchained(v) ==
    /\ proc[v].at = "log"
    /\ log' = Append(log, [whole |-> TRUE, prev |-> Null, raw |-> proc[v].raw,
                           decisions |-> Decided(proc[v].results), alone |-> TRUE])
    /\ Becomes(v, [proc[v] EXCEPT !.at = "seal"])
    /\ UNCHANGED <<world, input, receipts, clock, runs, edits, written>>

\* ... and appends a line that names it; alone is history: nobody else was
\* between the two.  After a torn line it is swallowed by that line.
AppendsLog(v) ==
    /\ proc[v].at = "log"
    /\ log' = IF log # <<>> /\ ~Last(log).whole /\ ~Last(log).ended
              THEN [log EXCEPT ![Len(log)].ended = TRUE]
              ELSE Append(log, [whole |-> TRUE, prev |-> proc[v].prev, raw |-> proc[v].raw,
                                decisions |-> Decided(proc[v].results),
                                alone |-> \A u \in Verifiers \ {v} : proc[u].at # "log"])
    /\ Becomes(v, [proc[v] EXCEPT !.at = "seal"])
    /\ UNCHANGED <<world, input, receipts, clock, runs, edits, written>>

\* The verdict of both commands: fail exactly when a claim failed.
VerdictOfAll(results) ==
    IF \E i \in DOMAIN results : results[i].verdict = "failed" THEN "fail" ELSE "pass"

\* writeFileSync: the old receipt goes (a council may keep no log) ...
Truncates(v) ==
    /\ proc[v].at = "seal" \/ (proc[v].at = "claims" /\ Graded(v))
    /\ receipts' = [receipts EXCEPT ![proc[v].out] = Torn]
    /\ Becomes(v, [proc[v] EXCEPT !.at = "write"])
    /\ UNCHANGED <<world, input, log, clock, runs, edits, written>>

\* tierProvenance: whether the commit the report gives itself exists.
Existed(commit) == IF commit = Null \/ world.repo = Null THEN Null ELSE commit \in world.repo

ReceiptOf(v, verdict, sha, t) ==
    Sealed([receiptId |-> ReceiptId(sha, verdict), surface |-> Raw(v).surface, verifiedAt |-> t,
            input |-> sha,
            commit |-> Raw(v).commit, existed |-> Existed(Raw(v).commit), results |-> proc[v].results,
            unreachable |-> proc[v].unreachable, verdict |-> verdict])

Writes(v, r) ==
    /\ receipts' = [receipts EXCEPT ![proc[v].out] = r]
    /\ written' = [written EXCEPT ![proc[v].out] = r]
    /\ Becomes(v, Idle)
    /\ UNCHANGED <<world, input, log, runs, edits>>

\* Mutant: the input file is read again for its hash.
SealsTheFileNow(v) ==
    /\ proc[v].at = "write"
    /\ \E t \in {clock, clock + 1} :
          /\ t <= MaxClock /\ clock' = t
          /\ Writes(v, ReceiptOf(v, VerdictOfAll(proc[v].results), input, t))

\* ... and the new one comes, about the text that was read at the start.
Seals(v) ==
    /\ proc[v].at = "write"
    /\ \E t \in {clock, clock + 1} :
          /\ t <= MaxClock /\ clock' = t
          /\ Writes(v, ReceiptOf(v, VerdictOfAll(proc[v].results), proc[v].raw, t))

\* Death at any point; in the middle of an append it leaves half a line.
Dies(v) ==
    /\ Going(v) /\ edits < MaxEdits /\ edits' = edits + 1
    /\ log' = IF proc[v].at = "log" THEN Append(log, [whole |-> FALSE, ended |-> FALSE]) ELSE log
    /\ Becomes(v, Idle)
    /\ UNCHANGED <<world, input, receipts, clock, runs, written>>

-----------------------------------------------------------------------------
(* Everybody else                                                          *)

Edit == edits < MaxEdits /\ edits' = edits + 1

\* The files, the page or the repository behind the claims change.
WorldChanges ==
    /\ Edit /\ world' \in Versions \ {world}
    /\ UNCHANGED <<input, receipts, log, proc, clock, runs, written>>

InputChanges ==
    /\ Edit /\ input' \in DOMAIN Reports \ {input}
    /\ UNCHANGED <<world, receipts, log, proc, clock, runs, written>>

\* Somebody changes one field of a receipt in its file.
ReceiptChanges(o) ==
    /\ Edit /\ IsReceipt(receipts[o])
    /\ \/ \E x \in {"PASS", "failed", "abstain"} :
             receipts' = [receipts EXCEPT ![o].body.verdict = x]
       \/ receipts' = [receipts EXCEPT ![o].body.results = <<>>]
       \/ receipts' = [receipts EXCEPT ![o].body.input = "elsewhere"]
    /\ UNCHANGED <<world, input, log, proc, clock, runs, written>>

Init ==
    /\ world \in Origins /\ input \in DOMAIN Reports
    /\ receipts = [o \in Outs |-> IF o = 1 THEN Other ELSE Null]
    /\ log = <<>> /\ proc = [v \in Verifiers |-> Idle]
    /\ clock = 0 /\ runs = 0 /\ edits = 0 /\ written = [o \in Outs |-> Null]

Next ==
    \/ WorldChanges \/ InputChanges
    \/ \E o \in Outs : ReceiptChanges(o)
    \/ \E v \in Verifiers :
          \/ \E o \in Outs, fetch \in BOOLEAN : Starts(v, o, fetch)
          \/ Fetches(v) \/ Grades(v) \/ ReadsLog(v) \/ AppendsLog(v)
          \/ Truncates(v) \/ Seals(v) \/ Dies(v)

Spec == Init /\ [][Next]_vars
=====
