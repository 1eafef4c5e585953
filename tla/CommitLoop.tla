----------------------------- MODULE CommitLoop -----------------------------
(***************************************************************************)
(* From the working tree to the commit: done, receipt, commit-check,       *)
(* finish, next, prepare-commit and close-recon (done.ts, receipt.ts,      *)
(* commitcheck.ts, finish.ts, nextcmd.ts, preparecommit.ts, closerecon.ts) *)
(* with the verdict (verdict.ts) and the review of a receipt (approve.ts). *)
(*                                                                         *)
(* One command runs in the foreground; it runs git again and again, and    *)
(* the contract's checks in between, so the tree may change under it.  A   *)
(* receipt's seal (receiptHash) is the record of what it is computed from; *)
(* that record holds names and line counts, and no contents.  A file has   *)
(* one line, whatever its version.                                         *)
(***************************************************************************)
EXTENDS WorkTree

CONSTANTS Linked,         \* files within linked_test_paths
          Critical,       \* files of DEFAULT_CRITICAL_PATHS
          Forbidden,      \* files of the policy's forbidAlways
          NeedApproval,   \* files of the policy's requireApprovalFor
          RequireReceipt, \* the policy's requireReceipt
          Needed,         \* files without which the contract's check fails
          MaxRuns,        \* bound: commands that run
          MaxSteps        \* bound: commands and changes together

ASSUME LoopAssumption ==
    /\ Linked \subseteq Files /\ Critical \subseteq Files
    /\ Forbidden \subseteq Files /\ NeedApproval \subseteq Files
    /\ RequireReceipt \in BOOLEAN /\ Needed \subseteq Files
    /\ MaxRuns \in Nat /\ MaxSteps \in Nat

VARIABLES receipt,  \* the latest receipt in receipts/, if any, and its review
          cmd,      \* the command that runs
          screen,   \* what the last command printed, while it is news
          runs

loopVars == <<receipt, cmd, screen, runs>>
vars == <<treeVars, loopVars>>

Names == {"done", "receipt", "finish", "commit-check", "next",
          "prepare-commit", "close-recon"}
Gated == {"commit-check", "finish", "next"}

\* still, here and below: nothing that a command reads has changed since the
\* command was started.
Idle == [name |-> "none", step |-> "none", looks |-> <<>>, checks |-> TRUE,
         built |-> {}, still |-> TRUE]

Blank == [cmd |-> "none", says |-> "", match |-> TRUE, block |-> {},
          still |-> TRUE]

Init == TreeInit /\ receipt = {} /\ cmd = Idle /\ screen = Blank /\ runs = 0

Room == moves + runs < MaxSteps

-----------------------------------------------------------------------------
(* buildReceipt.                                                           *)

\* runCheck: the contract's command, run on the working tree.
ChecksPass == \A f \in Needed : work[f] # 0

\* The tracked files that `git diff HEAD --numstat` lists.
Differing == {f \in Files : Tip[f] # work[f] /\ ~(Tip[f] = 0 /\ index[f] = 0)}

\* v is what runVerify found before the checks ran; the rest is read after.
Seal(v) ==
    [facts |-> v, checks |-> ChecksPass, ok |-> v.ok /\ ChecksPass,
     changed |-> Cardinality(Differing),
     added |-> Cardinality({f \in Differing : work[f] # 0}),
     deleted |-> Cardinality({f \in Differing : Tip[f] # 0}),
     fresh |-> Cardinality(Untracked),
     critical |-> Full \intersect Critical, verdict |-> "none"]

\* Mutant: a stale baseline is no reason to doubt.
VerdictAnyhow(r) ==
    IF ~r.ok THEN "FAIL"
    ELSE IF r.critical \union (Full \intersect Forbidden) # {} THEN "WARN"
    ELSE "PASS"

\* sessionVerdict, with the baseline as it is found after the checks.
Verdict(r) ==
    IF ~r.ok THEN "FAIL"
    ELSE IF ~Applied THEN "INCOMPLETE"
    ELSE IF r.critical \union (Full \intersect Forbidden) # {} THEN "WARN"
    ELSE "PASS"

Judged(r) == [r EXCEPT !.verdict = Verdict(r)]

\* writeReceiptFile: the new file is the latest one, and nobody has seen it.
Writes(r) ==
    receipt' = {[seal |-> r, by |-> cmd.name, still |-> cmd.still,
                 review |-> "none"]}

-----------------------------------------------------------------------------
(* A command: it starts, looks, builds its receipt, and looks again.       *)

Starts(n) ==
    /\ cmd = Idle /\ runs < MaxRuns /\ Room
    /\ runs' = runs + 1
    /\ n = "next" => Applied /\ Look.ok /\ Look.touched # {}
    /\ cmd' = [Idle EXCEPT !.name = n, !.looks = <<Look>>,
                  !.step = IF n \in {"commit-check", "next"} THEN "again" ELSE "seal"]
    /\ screen' = Blank
    /\ UNCHANGED <<treeVars, receipt>>

Ends(says, match, block) ==
    /\ cmd' = Idle
    /\ runs' = runs
    /\ screen' = [cmd |-> cmd.name, says |-> says, match |-> match,
                  block |-> block, still |-> cmd.still]

\* runNext where there is nothing to seal or commit yet.
NextAtOnce ==
    /\ cmd = Idle /\ runs < MaxRuns /\ Room
    /\ runs' = runs + 1
    /\ ~Applied \/ ~Look.ok \/ Look.touched = {}
    /\ screen' = [Blank EXCEPT !.cmd = "next", !.says =
            IF session = {} THEN "begin"
            ELSE IF ~Applied THEN "reset"
            ELSE IF ~Look.ok THEN "explain"
            ELSE IF \E s \in session : s.kind = "implementation" THEN "reset"
            ELSE "close-recon"]
    /\ UNCHANGED <<treeVars, receipt, cmd>>

\* The verification at the start of buildReceipt, where another came before;
\* the checks were run in between.
LooksAgain ==
    /\ cmd.step = "again"
    /\ cmd' = [cmd EXCEPT !.step = "decide", !.checks = ChecksPass,
                  !.looks = Append(@, Look)]
    /\ UNCHANGED <<treeVars, receipt, screen, runs>>

-----------------------------------------------------------------------------
(* done and receipt.                                                       *)

DoneSeals ==
    /\ cmd.name = "done" /\ cmd.step = "seal"
    /\ LET r == Judged(Seal(cmd.looks[1])) IN
        /\ Writes(r)
        /\ Ends(r.verdict, TRUE, {})
    /\ UNCHANGED treeVars

ReceiptSeals ==
    /\ cmd.name = "receipt" /\ cmd.step = "seal"
    /\ Writes(Seal(cmd.looks[1]))
    /\ Ends("saved", TRUE, {})
    /\ UNCHANGED treeVars

-----------------------------------------------------------------------------
(* evaluateCommitCheck, in commit-check and finish, and the end of next.   *)

\* Mutant: a receipt for the same commit will do.
SameHead(fresh) == \E r \in receipt : r.seal.facts.head = fresh.facts.head

\* contentHash of the latest receipt and of the one built just now.
Matches(fresh) == \E r \in receipt : r.seal = fresh

Approved == \E r \in receipt : r.review = "approved"

GatesOK(v, fresh) ==
    /\ v.ok /\ cmd.checks
    /\ v.denied = {}
    /\ Full \intersect Forbidden = {}
    /\ RequireReceipt => Matches(fresh)
    /\ Full \intersect NeedApproval # {} => Approved

CommitCheckDecides ==
    /\ cmd.name = "commit-check" /\ cmd.step = "decide"
    /\ LET fresh == Seal(cmd.looks[2]) IN
        Ends(IF GatesOK(cmd.looks[1], fresh) THEN "OK" ELSE "blocked",
             Matches(fresh), {})
    /\ UNCHANGED <<treeVars, receipt>>

\* Where no audit pack was ever made it is asked for before prepare-commit.
NextDecides ==
    /\ cmd.name = "next" /\ cmd.step = "decide"
    /\ LET match == Matches(Seal(cmd.looks[2])) IN
        Ends(IF match THEN "prepare-commit" ELSE "done", match, {})
    /\ UNCHANGED <<treeVars, receipt>>

-----------------------------------------------------------------------------
(* finish: receipt, commit-check, commit block.                            *)

InScope(files) == IF Allowed = {} THEN files ELSE files \intersect Allowed
LinkedTests(files) == (files \ InScope(files)) \intersect Linked
TrueOutOfScope(files) == (files \ InScope(files)) \ Linked

FinishSeals ==
    /\ cmd.name = "finish" /\ cmd.step = "seal"
    /\ LET r == Seal(cmd.looks[1]) IN
        /\ Writes(r)
        /\ cmd' = [cmd EXCEPT !.step = "gate", !.built = {r}]
    /\ UNCHANGED <<treeVars, screen, runs>>

FinishLooks ==
    /\ cmd.step = "gate"
    /\ cmd' = [cmd EXCEPT !.step = "again", !.looks = <<Look>>]
    /\ UNCHANGED <<treeVars, receipt, screen, runs>>

FinishDecides ==
    /\ cmd.name = "finish" /\ cmd.step = "decide"
    /\ LET fresh == Seal(cmd.looks[2])
           block == UNION {InScope(r.facts.touched) : r \in cmd.built}
       IN  IF ~GatesOK(cmd.looks[1], fresh)
           THEN Ends("blocked", Matches(fresh), {})
           ELSE Ends(IF block = {} THEN "nothing" ELSE "block", Matches(fresh), block)
    /\ UNCHANGED <<treeVars, receipt>>

-----------------------------------------------------------------------------
(* prepare-commit and close-recon.                                         *)

\* Mutant: what is out of scope only leaves the block.
BlockedByDenied(r) == r.facts.denied # {} \/ r.facts.branch \notin Expected

Blocked(r) ==
    \/ r.facts.denied # {}
    \/ TrueOutOfScope(r.facts.touched) # {}
    \/ r.facts.branch \notin Expected

PrepareDecides ==
    /\ cmd.name = "prepare-commit" /\ cmd.step = "seal"
    /\ \E includeLinked \in BOOLEAN :
        LET r == Seal(cmd.looks[1])
            files == r.facts.touched
            block == InScope(files)
                       \union (IF includeLinked THEN LinkedTests(files) ELSE {})
        IN  IF Blocked(r) THEN Ends("blocked", TRUE, {})
            ELSE Ends(IF block = {} THEN "nothing" ELSE "block", TRUE, block)
    /\ UNCHANGED <<treeVars, receipt>>

Dirty(r) ==
    r.facts.touched \union r.facts.staged \union r.facts.untracked
        \union r.facts.denied \union r.facts.oos # {}

ReconRefuses ==
    /\ cmd.name = "close-recon" /\ cmd.step = "seal"
    /\ \/ \E s \in session : s.kind = "implementation"
       \/ Dirty(Seal(cmd.looks[1]))
    /\ Ends("refused", TRUE, {})
    /\ UNCHANGED <<treeVars, receipt>>

ReconCloses ==
    /\ cmd.name = "close-recon" /\ cmd.step = "seal"
    /\ \A s \in session : s.kind # "implementation"
    /\ ~Dirty(Seal(cmd.looks[1]))
    /\ receipt' = {[seal |-> Seal(cmd.looks[1]), by |-> "close-recon",
                    still |-> cmd.still /\ session = {}, review |-> "none"]}
    /\ session' = {}
    /\ Ends("closed", TRUE, {})
    /\ UNCHANGED <<work, index, hist, branch, moves>>

-----------------------------------------------------------------------------
(* The people around it.                                                   *)

\* A command that runs, and the latest receipt, now lag behind the tree; what
\* was printed is no longer news.
Outdates ==
    /\ cmd' = IF cmd = Idle THEN Idle ELSE [cmd EXCEPT !.still = FALSE]
    /\ receipt' = {[r EXCEPT !.still = FALSE] : r \in receipt}
    /\ screen' = Blank
    /\ runs' = runs

WorksOn == Room /\ Works /\ Outdates

Opens == cmd = Idle /\ (\E kind \in Kinds : Begin(kind)) /\ Outdates
Closes == cmd = Idle /\ Reset /\ Outdates

\* writeSidecar for approve, reject and note; a note keeps what was said.
Reviews ==
    /\ cmd = Idle /\ screen' = Blank
    /\ \E r \in receipt : \E say \in {"approved", "rejected", "note"} :
        receipt' = {[r EXCEPT !.review =
                        CASE say # "note" -> say
                          [] say = "note" /\ r.review = "none" -> "needs-review"
                          [] OTHER -> r.review]}
    /\ UNCHANGED <<treeVars, cmd, runs>>

\* What printCommitBlocks prints, as the shell runs it: git add refuses all of
\* its files if one is neither in the tree nor in the index.
Added(block) ==
    IF \E f \in block : work[f] = 0 /\ index[f] = 0 THEN index
    ELSE [f \in Files |-> IF f \in block THEN work[f] ELSE index[f]]

\* The commit takes the whole index, also what was staged before.
RunsBlock ==
    /\ Room /\ Moves
    /\ screen.block # {}
    /\ index' = Added(screen.block)
    /\ hist' = IF index' = Tip THEN hist
               ELSE Append(hist, [id |-> moves', tree |-> index'])
    /\ Outdates
    /\ UNCHANGED <<work, branch, session>>

Next ==
    \/ WorksOn \/ Opens \/ Closes \/ Reviews \/ RunsBlock
    \/ \E n \in Names : Starts(n)
    \/ NextAtOnce \/ LooksAgain
    \/ DoneSeals \/ ReceiptSeals
    \/ CommitCheckDecides \/ NextDecides
    \/ FinishSeals \/ FinishLooks \/ FinishDecides
    \/ PrepareDecides \/ ReconRefuses \/ ReconCloses

Spec == Init /\ [][Next]_vars

-----------------------------------------------------------------------------

\* Files that were clean when the baseline was taken, and changed since.
Changed(s) ==
    {f \in Files \ (s.unstaged \union s.staged \union s.untracked) :
        work[f] # s.base.tree[f]}

\* The receipts of done that say PASS, with or without warnings, while nothing
\* has changed since done was started.
Passed == {r \in receipt : r.by = "done" /\ r.still
                              /\ r.seal.verdict \in {"PASS", "WARN"}}

\* A PASS covers the whole session: however a change travelled between working
\* tree, index and commits, and whatever happened to the branch, the file is
\* listed, is in scope, and passed the checks; and a denied file is as in the
\* baseline, or its change was committed since and is in no other way visible
\* (done.ts, checks.ts, verdict.ts).
PassCovers ==
    \A r \in Passed : \E s \in session :
        /\ Changed(s) \subseteq r.seal.facts.touched
        /\ OutOfScope(Changed(s)) = {}
        /\ ChecksPass
        /\ \A f \in Changed(s) \intersect Denied : index[f] = work[f] /\ Tip[f] = work[f]

\* Where commit-check says OK and approval is called for, it is the state at
\* hand that was approved: the same files were changed, from the same commit,
\* when the receipt was sealed.  And the receipt of finish or receipt matches
\* for as long as nothing changes; in particular finish passes the gate it puts
\* to itself (commitcheck.ts, approve.ts, finish.ts).
GateIsRight ==
    /\ /\ screen.says = "OK" /\ screen.still
       /\ RequireReceipt /\ Full \intersect NeedApproval # {}
       => \E r \in receipt : r.review = "approved" /\ r.seal.facts = Look
    /\ screen.cmd \in Gated /\ screen.still =>
          \A r \in receipt : r.still /\ r.by # "done" => screen.match

\* A commit made as soon as a block is printed changes nothing denied, and what
\* it changes is in scope or, after prepare-commit, a linked test, or was staged
\* before the session, which the block does not undo (preparecommit.ts,
\* finish.ts).
BlockCommits ==
    [][ screen.block # {} /\ screen.still /\ Len(hist') > Len(hist) =>
          LET files == {f \in Files : Tip'[f] # Tip[f]}
              before == UNION {s.staged : s \in {o \in session : Applies(o)}}
          IN  /\ files \intersect Denied = {}
              /\ TrueOutOfScope(files) \subseteq before
              /\ screen.cmd = "finish" => OutOfScope(files) \subseteq before ]_vars

\* close-recon removes a baseline that applies only if no file that was clean
\* then has changed since, committed or not (closerecon.ts).
ReconIsClean ==
    [][ \A s \in session :
          cmd.name = "close-recon" /\ session' = {} /\ cmd.still /\ Applies(s)
            => Changed(s) = {} /\ CommittedSince(s.base.tree) = {} ]_vars
=============================================================================
