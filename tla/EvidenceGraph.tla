--------------------------- MODULE EvidenceGraph ---------------------------
(***************************************************************************)
(* vreceipt.ts and graph.ts: the sealed Verification Receipt, what replay   *)
(* and gate make of one, and what the graph commands make of a directory of *)
(* them.  A hash is what it is the hash of; the hash of a report is the     *)
(* report's name.  Files are numbered in the order of their names.          *)
(***************************************************************************)
EXTENDS EvidenceKernel

CONSTANTS Torn,   \* a file with half a JSON text in it
          Other   \* a file with another JSON text in it

IsReceipt(x) == x \notin {Null, Torn, Other}

-----------------------------------------------------------------------------
(* vreceipt.ts                                                             *)

\* receiptId: the input, the tool's version (one here), the verdict; neither
\* the time nor the results.
ReceiptId(sha, verdict) == <<sha, verdict>>

\* Mutant: the results are left out of the seal.
SealWithoutResults(body) == [body |-> body, contentHash |-> [body EXCEPT !.results = <<>>]]

\* buildVerificationReceipt.
Sealed(body) == [body |-> body, contentHash |-> body]

\* replayVerificationReceipt, of what the input file and the repository hold.
Replay(r, now, repo) ==
    [contentHashOk |-> r.contentHash = r.body,
     receiptIdOk |-> r.body.receiptId = ReceiptId(r.body.input, r.body.verdict),
     inputMatch |-> IF now = Null THEN Null ELSE r.body.input = now,
     commitRecheck |-> IF r.body.commit = Null \/ repo = Null THEN Null
                       ELSE r.body.commit \in repo]

Intact(r, now, repo) == LET p == Replay(r, now, repo) IN p.contentHashOk /\ p.receiptIdOk

\* runReplayReceipt: exit code 2 for a file it cannot use, 1 for a broken
\* seal; a changed input or a vanished commit is only shown.
ReplayExit(x, now, repo) ==
    IF ~IsReceipt(x) THEN 2 ELSE IF Intact(x, now, repo) THEN 0 ELSE 1

\* ... and with --fetch, for each text sealed: whether the page still has it.
SourceDrift(r, page) ==
    [i \in {i \in DOMAIN r.body.results : r.body.results[i].fetched # Null} |->
        IF page = Null THEN "unreachable"
        ELSE IF r.body.results[i].fetched = page THEN "same" ELSE "changed"]

\* gateDecision and runGate: only pass and abstain go through, whatever their
\* case; a file that is no receipt is exit 2, which stops no hook.
Lower(verdict) == CASE verdict = "PASS" -> "pass" [] verdict = "FAIL" -> "fail" [] OTHER -> verdict
GateDecision(x) ==
    IF ~IsReceipt(x) THEN "error"
    ELSE IF Lower(x.body.verdict) \in {"pass", "abstain"} THEN "allow" ELSE "block"

-----------------------------------------------------------------------------
(* Rows of a directory, and their folding                                  *)

\* buildViewData: files that are no receipt are passed over.
Rows(dir, now, repo) ==
    {[file |-> f, id |-> dir[f].body.receiptId, at |-> dir[f].body.verifiedAt,
      verdict |-> dir[f].body.verdict, surface |-> dir[f].body.surface,
      input |-> dir[f].body.input, commit |-> dir[f].body.commit,
      claims |-> dir[f].body.results, unreachable |-> dir[f].body.unreachable,
      integrity |-> Replay(dir[f], now, repo)] :
        f \in {f \in DOMAIN dir : IsReceipt(dir[f])}}

Tampered(r) == ~(r.integrity.contentHashOk /\ r.integrity.receiptIdOk)

\* By the time a receipt gives itself, then by file name.
Later(a, b) == a.at > b.at \/ (a.at = b.at /\ a.file > b.file)
Newest(rows) == CHOOSE r \in rows : \A s \in rows \ {r} : Later(r, s)
InOrder(rows) ==
    [n \in 1 .. Cardinality(rows) |->
        CHOOSE r \in rows : Cardinality({s \in rows : Later(r, s)}) = n - 1]
GroupBy(rows, key(_)) == {{r \in rows : key(r) = k} : k \in {key(r) : r \in rows}}

\* Mutant: one row for an input.
FoldByInput(rows) ==
    {[row |-> Newest(g), files |-> {r.file : r \in g}] : g \in GroupBy(rows, LAMBDA r : r.input)}

\* foldByReceipt: one row for an id, the newest, and the files it stands for.
Fold(rows) ==
    {[row |-> Newest(g), files |-> {r.file : r \in g}] : g \in GroupBy(rows, LAMBDA r : r.id)}
Folded(rows) == {e.row : e \in Fold(rows)}

-----------------------------------------------------------------------------
(* Failures                                                                *)

\* enrichClaims: the failed checks of one claim, with their evidence.
FailuresOf(claim) == {k \in DOMAIN claim.checks : claim.checks[k] \in Failures}

\* buildFailureEvents: claim x failed check, over the folded rows.
FailureEvents(rows) ==
    UNION {{[row |-> r, index |-> p[1], check |-> p[2],
             statement |-> r.claims[p[1]].statement,
             fingerprint |-> r.claims[p[1]].fingerprint,
             status |-> r.claims[p[1]].checks[p[2]], tampered |-> Tampered(r)] :
              p \in {p \in (DOMAIN r.claims) \X CheckKinds : p[2] \in FailuresOf(r.claims[p[1]])}} :
           r \in Folded(rows)}

\* buildSummary and buildSubjects: counts over the folded rows.
Summary(rows) ==
    LET folded == Folded(rows)
        count(P(_)) == Cardinality({r \in folded : P(r)})
    IN  [total |-> Cardinality(folded), fileCount |-> Cardinality(rows),
         pass |-> count(LAMBDA r : r.verdict = "pass"),
         fail |-> count(LAMBDA r : r.verdict = "fail"),
         drift |-> count(LAMBDA r : r.integrity.inputMatch = FALSE
                                    \/ r.integrity.commitRecheck = FALSE),
         sealFailed |-> count(Tampered),
         ungrounded |-> count(LAMBDA r : r.surface = "council" /\ r.verdict = "fail"),
         unreachable |-> FoldSet(LAMBDA r, n : n + r.unreachable, 0, folded),
         failures |-> [k \in {e.check : e \in FailureEvents(rows)} |->
                         Cardinality({e \in FailureEvents(rows) : e.check = k})]]

\* buildFailures: the failed receipts, with what failed in them and where.
FailedReceipts(rows) ==
    {[row |-> r, reasons |-> UNION {FailuresOf(c) : c \in Range(r.claims)},
      affected |-> {i \in DOMAIN r.claims : FailuresOf(r.claims[i]) # {}}] :
        r \in {r \in Folded(rows) : r.verdict = "fail"}}

\* buildIndexes: the failure events by one of their fields.
IndexBy(rows, by) ==
    LET events == FailureEvents(rows)
        key(e) == IF by = "commit" THEN e.row.commit ELSE e[by]
    IN  [k \in {key(e) : e \in events} |-> {e \in events : key(e) = k}]

\* filterFailureEvents: by check, status, input, and sealed receipts only.
FilterFailures(events, check, statuses, input, sealed) ==
    {e \in events : /\ check = Null \/ e.check = check
                    /\ statuses = {} \/ e.status \in statuses
                    /\ input = Null \/ e.row.input = input
                    /\ sealed => ~e.tampered}

-----------------------------------------------------------------------------
(* graph diff                                                              *)

FailureKey(e, match) ==
    IF match = "fingerprint" THEN <<e.fingerprint, e.check>>
    ELSE <<e.row.input, e.statement, e.check>>

\* A Map filled in order: of two events with one key the later one stays.
EventLater(a, b) == Later(a.row, b.row) \/ (a.row = b.row /\ a.index > b.index)
ByKey(events, match) ==
    [k \in {FailureKey(e, match) : e \in events} |->
        LET es == {e \in events : FailureKey(e, match) = k}
        IN  CHOOSE e \in es : \A d \in es \ {e} : EventLater(e, d)]

LatestVerdictByInput(rows) ==
    [sha \in {r.input : r \in rows} |-> Newest({r \in rows : r.input = sha}).verdict]

\* buildGraphDiff, as sets of keys.
GraphDiff(base, head, sealed, match) ==
    LET only(rows) == IF sealed THEN {r \in rows : ~Tampered(r)} ELSE rows
        seen(rows) == ByKey({e \in FailureEvents(rows) : sealed => ~e.tampered}, match)
        b == seen(base)
        h == seen(head)
        both == DOMAIN b \cap DOMAIN h
        bv == LatestVerdictByInput(only(base))
        hv == LatestVerdictByInput(only(head))
    IN  [new |-> DOMAIN h \ DOMAIN b, resolved |-> DOMAIN b \ DOMAIN h,
         changed |-> {k \in both : b[k].status # h[k].status},
         persisting |-> {k \in both : b[k].status = h[k].status},
         verdicts |-> {sha \in DOMAIN bv \cap DOMAIN hv : bv[sha] # hv[sha]}]

\* The exit of runGraphDiff: new failures fail the comparison.
DiffExit(base, head, sealed, match) ==
    IF GraphDiff(base, head, sealed, match).new # {} THEN 1 ELSE 0

-----------------------------------------------------------------------------
(* graph history and the edges                                             *)

\* failState: the failed checks of a row's claims with this fingerprint.
FailState(r, fp) ==
    LET with == {i \in DOMAIN r.claims : r.claims[i].fingerprint = fp}
        last(c) == CHOOSE i \in with : /\ c \in FailuresOf(r.claims[i])
                                       /\ \A j \in with : c \in FailuresOf(r.claims[j]) => j <= i
    IN  [k \in {<<fp, c>> : c \in UNION {FailuresOf(r.claims[i]) : i \in with}} |->
            [status |-> r.claims[last(k[2])].checks[k[2]],
             evidence |-> r.claims[last(k[2])].evidence[k[2]]]]

\* buildHistory of a claim: the receipts it is in, and each one's changes
\* against the one before; files are not folded.
History(rows, fp) ==
    LET line == InOrder({r \in rows : \E i \in DOMAIN r.claims : r.claims[i].fingerprint = fp})
        was(n) == FailState(line[n - 1], fp)
        is(n) == FailState(line[n], fp)
        both(n) == DOMAIN was(n) \cap DOMAIN is(n)
    IN  [n \in DOMAIN line |->
            [row |-> line[n],
             changes |-> IF n = 1 THEN Null
                         ELSE [new |-> DOMAIN is(n) \ DOMAIN was(n),
                               resolved |-> DOMAIN was(n) \ DOMAIN is(n),
                               changed |-> {k \in both(n) : was(n)[k].status # is(n)[k].status},
                               evidence |-> {k \in both(n) : /\ was(n)[k].status = is(n)[k].status
                                                             /\ was(n)[k].evidence # is(n)[k].evidence}]]]

\* buildGraph: the edges between receipts; same_input is verified only where
\* both input files were hashed again.
ReceiptEdges(rows) ==
    LET uniq == Folded(rows)
        rehashed(r) == r.integrity.inputMatch = TRUE
        byInput == {InOrder(g) : g \in GroupBy(uniq, LAMBDA r : r.input)}
        pairs == {p \in uniq \X uniq : Later(p[1], p[2])}
    IN  {[type |-> "same_input", from |-> p[1].id, to |-> p[2].id,
          tier |-> IF rehashed(p[1]) /\ rehashed(p[2]) THEN "verified" ELSE "reported"] :
            p \in {p \in pairs : p[1].input = p[2].input}}
        \cup (UNION {{[type |-> "reverifies", from |-> g[i + 1].id, to |-> g[i].id,
                       tier |-> "reported"] :
                        i \in {i \in 1 .. Len(g) - 1 : g[i + 1].at > g[i].at}} : g \in byInput})
        \cup {[type |-> "same_commit", from |-> p[1].id, to |-> p[2].id, tier |-> "reported"] :
                 p \in {p \in pairs : p[1].commit # Null /\ p[1].commit = p[2].commit}}
=============================================================================
