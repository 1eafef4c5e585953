----------------------------- MODULE Completion -----------------------------
(***************************************************************************)
(* completion.ts and the part of shareproof.ts that meets it: `done` drops *)
(* pending-completion.json, Stop hooks turn the agent's final answer into  *)
(* the completion sidecar of the Work Receipt and close the pending mark,  *)
(* `share-proof` renders the handoff verdict and asks for a re-render.     *)
(* Every process keeps the copy of the pending mark it loaded and writes   *)
(* that copy back whole; nothing locks the file.  A file write is atomic,  *)
(* and may fail; a Stop hook may die.  upset remembers that processes      *)
(* overlapped or something failed.                                         *)
(***************************************************************************)
EXTENDS Naturals, Sequences, SequencesExt

CONSTANTS Works,      \* Work Receipt files
          Content,    \* what contentHash identifies of each of them
          OkWorks,    \* those whose own verdict is PASS
          Sessions,   \* agent sessions with an id
          NoSession,  \* a Stop payload without one
          Stops,      \* Stop hook processes
          MaxStops, MaxShares     \* bounds: runs of each

Answers == {"nofield", "empty", "true", "false", "unsure", "silent", "malformed"}
Results == {"verified", "mismatch", "abstain", "none"}
Statuses == {"unset", "EXTRACTED", "NO_EXPLICIT_CLAIMS", "DEGRADED"}
Handoffs == {"PASS", "FAIL", "PASS_WITH_WARNINGS", "INCOMPLETE", "PENDING"}
Bools == {"yes", "no"}

ASSUME CompletionAssumption ==
    /\ OkWorks \subseteq Works /\ NoSession \notin Sessions
    /\ \A v, w \in Works : Content[v] = Content[w] => (v \in OkWorks <=> w \in OkWorks)
    /\ MaxStops \in Nat /\ MaxShares \in Nat

VARIABLES pend,     \* pending-completion.json: {} or one mark
          sidecar,  \* of each work: {} or one Completion Verification Receipt
          html,     \* of each work: what the page rendered for it shows
          done,     \* the `done` process
          share,    \* the `share-proof` process
          stop,     \* each Stop hook: position, input, copy of the mark
          sealed,   \* the receipts `done` has written, in order
          stopsRun, shares,
          upset     \* history: a process ran beside another, died, or a write failed

files == <<pend, sidecar, html>>
vars == <<files, done, share, stop, sealed, stopsRun, shares, upset>>

\* PendingCompletion; born stands for createdAt, share is {} or the receipt
\* whose page waits for the final version.
Marks == [work : Works, status : {"pending", "finalized"}, born : Nat,
          session : Sessions \cup {NoSession}, share : SUBSET Works, error : Bools]

\* What the sidecar says; from is the session whose answer it judges.
Sidecars == [from : Sessions \cup {NoSession}, answer : Answers,
             result : Results, ext : Statuses]

\* A page: the handoff verdict, the answer whose claims it lists, and the
\* receipt ({} or one) it is about.
Pages == [says : Handoffs \cup {"none"}, of : Answers \cup {"none"},
          about : SUBSET Works]
NoPage == [says |-> "none", of |-> "none", about |-> {}]

NoCopy == {}
Idle == [at |-> "idle", copy |-> NoCopy, session |-> NoSession, answer |-> "empty"]

Init ==
    /\ pend = {} /\ sidecar = [w \in Works |-> {}]
    /\ html = [w \in Works |-> NoPage]
    /\ done = [at |-> "idle", work |-> {}, prev |-> {}]
    /\ share = [at |-> "idle", work |-> {}, copy |-> NoCopy, shown |-> NoPage]
    /\ stop = [s \in Stops |-> Idle]
    /\ sealed = <<>> /\ stopsRun = 0 /\ shares = 0 /\ upset = "no"

StopFree == \A s \in Stops : stop[s].at = "idle"
OthersFree == done.at = "idle" /\ share.at = "idle"
Quiet == StopFree /\ OthersFree

Starts == upset' = IF Quiet THEN upset ELSE "yes"
Fails == upset' = "yes"

-----------------------------------------------------------------------------
(* What an answer comes to                                                 *)

\* extractCompletionClaims: a malformed block is DEGRADED, not "no claims".
ExtractionOf(a) ==
    CASE a = "malformed" -> "DEGRADED"
      [] a = "silent" -> "NO_EXPLICIT_CLAIMS"
      [] OTHER -> "EXTRACTED"

\* verifyCompletionClaims and the summary: the worst status decides.
ResultOf(a) ==
    CASE a = "true" -> "verified" [] a = "false" -> "mismatch"
      [] a = "unsure" -> "abstain" [] OTHER -> "none"

\* Mutant: an answer without claims, or with unreadable ones, is no obstacle.
HandoffByResults(ok, comp) ==
    IF ~ok THEN "FAIL"
    ELSE IF comp = {} THEN "INCOMPLETE"
    ELSE LET c == CHOOSE c \in comp : TRUE
         IN  CASE c.result = "mismatch" -> "FAIL"
               [] c.result = "abstain" -> "PASS_WITH_WARNINGS"
               [] OTHER -> "PASS"

\* Mutant: the Work Receipt alone decides once an answer is there.
HandoffByWork(ok, comp) ==
    IF ~ok THEN "FAIL" ELSE IF comp = {} THEN "INCOMPLETE" ELSE "PASS"

\* computeHandoffVerdict, in the order of its tests.
Handoff(ok, comp) ==
    IF ~ok THEN "FAIL"
    ELSE IF comp = {} THEN "INCOMPLETE"
    ELSE LET c == CHOOSE c \in comp : TRUE
         IN  IF c.ext = "DEGRADED" THEN "INCOMPLETE"
             ELSE IF c.result = "mismatch" THEN "FAIL"
             ELSE IF c.ext = "NO_EXPLICIT_CLAIMS" \/ c.result = "abstain"
                  THEN "PASS_WITH_WARNINGS"
             ELSE "PASS"

\* completionExtras: no sidecar yet, and the mark is still waiting for one.
Shown(w, comp, mark) ==
    [says |-> IF comp = {} /\ \E m \in mark : m.status = "pending" /\ Content[m.work] = Content[w]
              THEN "PENDING" ELSE Handoff(w \in OkWorks, comp),
     of |-> IF comp = {} THEN "none" ELSE (CHOOSE c \in comp : TRUE).answer,
     about |-> {w}]
-----------------------------------------------------------------------------
(* done: writePendingCompletion                                            *)

DoneLoads(w) ==
    /\ done.at = "idle" /\ w \notin Range(sealed)
    /\ Starts
    /\ sealed' = Append(sealed, w)
    /\ done' = [at |-> "write", work |-> {w}, prev |-> pend]
    /\ UNCHANGED <<files, share, stop, stopsRun, shares>>

\* A receipt of the same content is waiting already: leave its mark, which
\* names the earlier file.  Otherwise a new mark.
DoneWrites ==
    /\ done.at = "write"
    /\ \E w \in done.work :
          pend' = IF \E m \in done.prev : m.status = "pending" /\ Content[m.work] = Content[w]
                  THEN pend
                  ELSE {[work |-> w, status |-> "pending", error |-> "no",
                         born |-> Len(sealed), session |-> NoSession, share |-> {}]}
    /\ done' = [at |-> "idle", work |-> {}, prev |-> {}]
    /\ UNCHANGED <<sidecar, html, share, stop, sealed, stopsRun, shares, upset>>

-----------------------------------------------------------------------------
(* share-proof: completionExtras, writeProof, recordShareRequest           *)

ShareReadsSidecar(w) ==
    /\ share.at = "idle" /\ w \in Range(sealed) /\ shares < MaxShares
    /\ Starts
    /\ shares' = shares + 1
    /\ share' = [at |-> "mark", work |-> {w}, copy |-> sidecar[w], shown |-> NoPage]
    /\ UNCHANGED <<files, done, stop, sealed, stopsRun>>

ShareReadsMark ==
    /\ share.at = "mark"
    /\ \E w \in share.work :
          share' = [share EXCEPT !.at = "html", !.copy = NoCopy,
                                 !.shown = Shown(w, share.copy, pend)]
    /\ UNCHANGED <<files, done, stop, sealed, stopsRun, shares, upset>>

ShareDone == share' = [at |-> "idle", work |-> {}, copy |-> NoCopy, shown |-> NoPage]

ShareWritesHtml ==
    /\ share.at = "html"
    /\ \E w \in share.work : html' = [html EXCEPT ![w] = share.shown]
    /\ IF share.shown.says = "PENDING"
       THEN share' = [share EXCEPT !.at = "request"] ELSE ShareDone
    /\ UNCHANGED <<pend, sidecar, done, stop, sealed, stopsRun, shares, upset>>

\* recordShareRequest loads the mark again ...
ShareLoadsRequest ==
    /\ share.at = "request"
    /\ IF \E m \in pend : m.status = "pending"
       THEN share' = [share EXCEPT !.at = "record", !.copy = pend] ELSE ShareDone
    /\ UNCHANGED <<files, done, stop, sealed, stopsRun, shares, upset>>

\* ... whatever receipt it waits for, and writes its copy back.
ShareRecords ==
    /\ share.at = "record"
    /\ \/ pend' = {[m EXCEPT !.share = share.work] : m \in share.copy} /\ upset' = upset
       \/ pend' = pend /\ Fails
    /\ ShareDone
    /\ UNCHANGED <<sidecar, html, done, stop, sealed, stopsRun, shares>>

-----------------------------------------------------------------------------
(* runCompletionStop                                                       *)

Mine(s) == CHOOSE m \in stop[s].copy : TRUE

StopMoves(s, l) == stop' = [stop EXCEPT ![s] = [@ EXCEPT !.at = l]]
StopExits(s) == stop' = [stop EXCEPT ![s] = Idle]

\* The process writes its copy of the mark back, changed to m.
Saves(m) == \/ pend' = {m} /\ upset' = upset
            \/ pend' = pend /\ Fails

\* recordStopError: the mark stays pending in this copy.
Erred(s) == [Mine(s) EXCEPT !.error = "yes"]

StopLoads(s) ==
    /\ stop[s].at = "idle" /\ stopsRun < MaxStops
    /\ Starts
    /\ stopsRun' = stopsRun + 1
    /\ \E m \in pend : m.status = "pending"
    /\ \E a \in Answers, n \in Sessions \cup {NoSession} :
          stop' = [stop EXCEPT ![s] = [at |-> "bind", copy |-> pend,
                                       session |-> n, answer |-> a]]
    /\ UNCHANGED <<files, done, share, sealed, shares>>

Ambiguous(s) == /\ Mine(s).session # NoSession /\ stop[s].session # NoSession
                /\ Mine(s).session # stop[s].session

\* Another session is bound in this copy: refuse.
StopAmbiguous(s) ==
    /\ stop[s].at = "bind" /\ Ambiguous(s)
    /\ Saves(Erred(s)) /\ StopExits(s)
    /\ UNCHANGED <<sidecar, html, done, share, sealed, stopsRun, shares>>

\* bindProviderSession: the first session to come is written into the mark.
StopBinds(s) ==
    /\ stop[s].at = "bind" /\ ~Ambiguous(s)
    /\ IF Mine(s).session # NoSession
       THEN StopMoves(s, "answer") /\ UNCHANGED <<pend, upset>>
       ELSE LET m == [Mine(s) EXCEPT !.session = stop[s].session]
            IN  /\ Saves(m)
                /\ stop' = [stop EXCEPT ![s] = [@ EXCEPT !.at = "answer", !.copy = {m}]]
    /\ UNCHANGED <<sidecar, html, done, share, sealed, stopsRun, shares>>

\* No final answer in the payload, or (Fails) the receipt or the local copy
\* of the answer cannot be read or written.
StopUnusable(s) ==
    /\ stop[s].at = "answer"
    /\ \/ stop[s].answer \in {"nofield", "empty"} /\ Saves(Erred(s))
       \/ pend' \in {pend, {Erred(s)}} /\ Fails
    /\ StopExits(s)
    /\ UNCHANGED <<sidecar, html, done, share, sealed, stopsRun, shares>>

\* writeVerificationReceipt: the sealed receipt, without extraction status.
StopSeals(s) ==
    /\ stop[s].at = "answer" /\ stop[s].answer \notin {"nofield", "empty"}
    /\ sidecar' = [sidecar EXCEPT ![Mine(s).work] =
            {[from |-> stop[s].session, answer |-> stop[s].answer,
              result |-> ResultOf(stop[s].answer), ext |-> "unset"]}]
    /\ StopMoves(s, "merge")
    /\ UNCHANGED <<pend, html, done, share, sealed, stopsRun, shares, upset>>

\* The sidecar is read back and the extraction status merged into it.
StopMerges(s) ==
    /\ stop[s].at = "merge"
    /\ sidecar' = [sidecar EXCEPT ![Mine(s).work] =
            {[c EXCEPT !.ext = ExtractionOf(stop[s].answer)] : c \in @}]
    /\ StopMoves(s, "finalize")
    /\ UNCHANGED <<pend, html, done, share, sealed, stopsRun, shares, upset>>

StopMergeFails(s) ==
    /\ stop[s].at = "merge"
    /\ pend' \in {pend, {Erred(s)}} /\ Fails
    /\ StopExits(s)
    /\ UNCHANGED <<sidecar, html, done, share, sealed, stopsRun, shares>>

\* Mutant: nothing is rendered again.
StopOnlyFinalizes(s) ==
    /\ stop[s].at = "finalize"
    /\ Saves([Mine(s) EXCEPT !.status = "finalized", !.error = "no"])
    /\ StopExits(s)
    /\ UNCHANGED <<sidecar, html, done, share, sealed, stopsRun, shares>>

\* finalizePending; a re-render follows if this copy asks for one.
StopFinalizes(s) ==
    /\ stop[s].at = "finalize"
    /\ Saves([Mine(s) EXCEPT !.status = "finalized", !.error = "no"])
    /\ IF Mine(s).share # {} THEN StopMoves(s, "render") ELSE StopExits(s)
    /\ UNCHANGED <<sidecar, html, done, share, sealed, stopsRun, shares>>

\* rerenderProofTo: the mark's receipt, to the recorded page; a failure is
\* swallowed.
StopRenders(s) ==
    /\ stop[s].at = "render"
    /\ \/ \E p \in Mine(s).share :
             html' = [html EXCEPT ![p] = Shown(Mine(s).work, sidecar[Mine(s).work], pend)]
          /\ upset' = upset
       \/ html' = html /\ Fails
    /\ StopExits(s)
    /\ UNCHANGED <<pend, sidecar, done, share, sealed, stopsRun, shares>>

StopDies(s) ==
    /\ stop[s].at # "idle"
    /\ StopExits(s) /\ Fails
    /\ UNCHANGED <<files, done, share, sealed, stopsRun, shares>>

-----------------------------------------------------------------------------
Next ==
    \/ \E w \in Works : DoneLoads(w) \/ ShareReadsSidecar(w)
    \/ DoneWrites
    \/ ShareReadsMark \/ ShareWritesHtml \/ ShareLoadsRequest \/ ShareRecords
    \/ \E s \in Stops :
          \/ StopLoads(s) \/ StopAmbiguous(s) \/ StopBinds(s) \/ StopUnusable(s)
          \/ StopSeals(s) \/ StopMerges(s) \/ StopMergeFails(s)
          \/ StopFinalizes(s) \/ StopRenders(s) \/ StopDies(s)

Spec == Init /\ [][Next]_vars

-----------------------------------------------------------------------------
AtMostOne(S) == \A a, b \in S : a = b

TypeOK ==
    /\ pend \subseteq Marks /\ AtMostOne(pend)
    /\ \A w \in Works : sidecar[w] \subseteq Sidecars /\ AtMostOne(sidecar[w])
    /\ html \in [Works -> Pages]
    /\ done.at \in {"idle", "write"} /\ done.work \subseteq Works /\ done.prev \subseteq Marks
    /\ share.at \in {"idle", "mark", "html", "request", "record"}
    /\ share.work \subseteq Works /\ share.copy \subseteq Marks \cup Sidecars
    /\ share.shown \in Pages
    /\ \A s \in Stops : /\ stop[s].at \in {"idle", "bind", "answer", "merge",
                                             "finalize", "render"}
                        /\ stop[s].copy \subseteq Marks
                        /\ stop[s].at # "idle" => stop[s].copy # {}
    /\ sealed \in Seq(Works) /\ stopsRun \in 0 .. MaxStops /\ shares \in 0 .. MaxShares
    /\ upset \in Bools

\* A page that lists a false claim never passes, whatever runs beside the
\* Stop hook and whatever write fails: "any MISMATCH gives FAIL".
MismatchNeverPasses ==
    \A w \in Works : html[w].of = "false" => html[w].says \in {"FAIL", "INCOMPLETE"}

\* A page passes only on an answer whose claims were all verified: nothing
\* collected, nothing claimed and nothing readable are never a silent PASS,
\* as long as nothing ran beside a Stop hook and nothing failed.
PassIsEarned ==
    upset = "no" => \A w \in Works : html[w].says = "PASS" => html[w].of = "true"

\* Once a mark is finalized and everything is still, the page asked for last
\* while it waited is final; if none was asked for, no page of a receipt sealed
\* since then says PENDING: again as long as nothing ran beside it and nothing
\* failed.  The mark names one page: an earlier one stays as it was.
PageBecomesFinal ==
    (upset = "no" /\ Quiet) =>
        \A m \in pend : m.status = "finalized" =>
            /\ \A w \in m.share : html[w].says # "PENDING"
            /\ m.share = {} => \A i \in m.born .. Len(sealed) : html[sealed[i]].says # "PENDING"
=============================================================================
