-------------------------- MODULE CommitLoopProofs --------------------------
(***************************************************************************)
(* The promises of CommitLoop for any files, versions, policies and paths, *)
(* any number of commands and changes: a PASS covers the session, the gate *)
(* is right, a commit of what was printed is in scope, and close-recon     *)
(* removes no baseline that still matters.                                 *)
(***************************************************************************)
EXTENDS CommitLoop, TLAPS

-----------------------------------------------------------------------------
(* The invariant                                                           *)

TreeInv ==
    /\ work \in Trees /\ index \in Trees /\ moves \in Nat
    /\ hist \in Seq([id : Nat, tree : Trees]) /\ hist # <<>>
    /\ \A s, t \in session : s = t

\* The one receipt that counts; as long as nothing changed it is of the state
\* at hand.
OfNow(r) == r.seal = IF r.by = "done" THEN Judged(Seal(Look)) ELSE Seal(Look)
ReceiptInv ==
    /\ \A r, q \in receipt : r = q
    /\ \A r \in receipt : /\ DOMAIN r = {"seal", "by", "still", "review"}
                          /\ r.still => OfNow(r)

\* What a command has looked at is the state at hand, as long as nothing
\* changed since it was started.
CmdInv ==
    /\ DOMAIN cmd = DOMAIN Idle
    /\ cmd.step = "again" => \E l : cmd.looks = <<l>>
    /\ cmd.still =>
          /\ cmd.step \in {"seal", "again", "decide"} => cmd.looks[1] = Look
          /\ cmd.step = "decide" => cmd.looks[2] = Look /\ (cmd.checks <=> ChecksPass)
          /\ \A r \in cmd.built : r.facts = Look

\* A block that is printed is of files that were touched, all of them in scope
\* or linked tests, and nothing denied is dirty.
BlockRight ==
    /\ screen.block \subseteq Look.touched /\ DeniedHits = {}
    /\ TrueOutOfScope(Look.touched) = {}
    /\ screen.cmd = "finish" => OutOfScope(Look.touched) = {}

\* While a command runs nothing is on the screen; what is on it is news.
ScreenInv ==
    /\ cmd # Idle => screen = Blank
    /\ GateIsRight
    /\ screen.block # {} /\ screen.still => BlockRight

LoopInv == TreeInv /\ ReceiptInv /\ CmdInv /\ ScreenInv

-----------------------------------------------------------------------------
(* What stays while the tree does                                          *)

\* What a verification finds depends on the repository and the baseline only.
LEMMA LookStays ==
    ASSUME UNCHANGED treeVars
    PROVE  /\ Look' = Look /\ Full' = Full /\ DeniedHits' = DeniedHits /\ Tip' = Tip
           /\ Applied' = Applied /\ ChecksPass' = ChecksPass /\ Differing' = Differing
           /\ Untracked' = Untracked
<1>1. /\ Applied' = Applied /\ Tip' = Tip /\ HeadCommit' = HeadCommit /\ Full' = Full
      /\ Staged' = Staged /\ Unstaged' = Unstaged /\ Untracked' = Untracked
  BY DEF treeVars, Applied, Applies, Tip, HeadCommit, Full, Staged, Untracked, Unstaged
<1>2. Old' = Old
  BY <1>1 DEF treeVars, Applied, Applies, Old
<1>3. Look' = Look
  BY <1>1, <1>2 DEF treeVars, Look, CommittedSince, DeniedHits, OutOfScope
<1> QED
  BY <1>1, <1>3 DEF treeVars, DeniedHits, ChecksPass, Differing

\* So does a receipt that is made of it.
LEMMA SealStays ==
    ASSUME UNCHANGED treeVars
    PROVE  /\ Seal(Look)' = Seal(Look) /\ Judged(Seal(Look))' = Judged(Seal(Look))
<1>1. Seal(Look)' = Seal(Look)
  <2>1. PICK v : v = Look
    OBVIOUS
  <2>2. v = Look'
    BY <2>1, LookStays
  <2>3. \A w : Seal(w)' = Seal(w)
    BY LookStays DEF Seal, treeVars
  <2>4. Seal(Look)' = Seal(v)'
    BY <2>2 DEF Seal
  <2> QED
    BY <2>1, <2>3, <2>4
<1>2. Verdict(Seal(Look))' = Verdict(Seal(Look))
  BY <1>1, LookStays DEF Verdict
<1> QED
  BY <1>1, <1>2 DEF Judged

\* A receipt and what was read stay of the state at hand.
LEMMA TreeStays ==
    ASSUME TreeInv, UNCHANGED treeVars
    PROVE  TreeInv' /\ \A r : OfNow(r)' = OfNow(r)
<1>1. TreeInv'
  BY DEF TreeInv, treeVars, Trees
<1>2. \A r : OfNow(r)' = OfNow(r)
  BY SealStays DEF OfNow
<1> QED
  BY <1>1, <1>2

\* An empty screen says nothing.
LEMMA BlankIsRight ==
    ASSUME screen' = Blank
    PROVE  ScreenInv'
<1>1. /\ Blank.says # "OK" /\ Blank.cmd \notin Gated /\ Blank.block = {}
  BY DEF Blank, Gated
<1> QED
  BY <1>1 DEF ScreenInv, GateIsRight

-----------------------------------------------------------------------------
(* The people around it                                                    *)

\* There is a commit, and it has a tree.
LEMMA TipIsTree ==
    ASSUME TreeInv
    PROVE  Tip \in Trees
<1> DEFINE S == [id : Nat, tree : Trees]
<1>1. hist \in Seq(S) /\ hist # <<>>
  BY DEF TreeInv
<1>2. \A c \in S : c.tree \in Trees
  OBVIOUS
<1> HIDE DEF S
<1>3. Len(hist) \in DOMAIN hist /\ hist[Len(hist)] \in S
  BY <1>1
<1> QED
  BY <1>2, <1>3 DEF Tip, HeadCommit

\* Changes in the repository.
LEMMA WorksKeepTree ==
    ASSUME TreeInv, Works
    PROVE  TreeInv'
<1> USE DEF TreeInv, Trees, Moves
<1>1. ASSUME NEW f \in Files, NEW v \in Versions \union {0}, Write(f, v) PROVE TreeInv'
  BY <1>1 DEF Write
<1>2. ASSUME NEW f \in Files, Stage(f) PROVE TreeInv'
  BY <1>2 DEF Stage
<1>3. Tip \in Trees
  BY TipIsTree
<1>4. ASSUME NEW f \in Files, Unstage(f) PROVE TreeInv'
  BY <1>3, <1>4 DEF Unstage
<1>5. CASE Commit
  BY <1>5 DEF Commit
<1>6. CASE Amend
  BY <1>6 DEF Amend
<1>7. CASE SwitchBranch
  BY <1>7 DEF SwitchBranch
<1> QED
  BY <1>1, <1>2, <1>4, <1>5, <1>6, <1>7 DEF Works

\* What is printed and run, and the baseline.
LEMMA OthersKeepTree ==
    ASSUME TreeInv, RunsBlock \/ Reset \/ \E kind \in Kinds : Begin(kind)
    PROVE  TreeInv'
<1>1. CASE RunsBlock
  <2>1. Added(screen.block) \in Trees
    BY DEF Added, TreeInv, Trees
  <2>2. index' \in Trees /\ UNCHANGED <<work, session>> /\ moves' \in Nat
    BY <1>1, <2>1 DEF RunsBlock, Moves, TreeInv
  <2>3. hist' \in Seq([id : Nat, tree : Trees]) /\ hist' # <<>>
    <3>1. hist' = IF index' = Tip THEN hist ELSE Append(hist, [id |-> moves', tree |-> index'])
      BY <1>1 DEF RunsBlock
    <3>2. [id |-> moves', tree |-> index'] \in [id : Nat, tree : Trees]
      BY <2>2
    <3> QED
      BY <3>1, <3>2 DEF TreeInv
  <2> QED
    BY <2>2, <2>3 DEF TreeInv, Trees
<1>2. CASE Reset
  BY <1>2 DEF Reset, TreeInv, Trees
<1>3. ASSUME NEW kind \in Kinds, Begin(kind) PROVE TreeInv'
  BY <1>3 DEF Begin, TreeInv, Trees
<1> QED
  BY <1>1, <1>2, <1>3

\* A change takes its news from the screen, and its claim to be of the state
\* at hand from the receipt and from a command that runs.
LEMMA OutdatesKeep ==
    ASSUME LoopInv, Outdates, TreeInv'
    PROVE  LoopInv'
<1>1. ScreenInv'
  BY BlankIsRight DEF Outdates
<1>2. ReceiptInv'
  <2>1. \A r, q \in receipt : r = q
    BY DEF LoopInv, ReceiptInv
  <2>2. ASSUME NEW r \in receipt'
        PROVE  DOMAIN r = {"seal", "by", "still", "review"} /\ r.still = FALSE
    <3>1. PICK q \in receipt : r = [q EXCEPT !.still = FALSE]
      BY DEF Outdates
    <3>2. DOMAIN q = {"seal", "by", "still", "review"}
      BY DEF LoopInv, ReceiptInv
    <3> QED
      BY <3>1, <3>2
  <2>3. \A r, q \in receipt' : r = q
    BY <2>1 DEF Outdates
  <2> QED
    BY <2>2, <2>3 DEF ReceiptInv
<1>3. CmdInv'
  <2>1. CASE cmd = Idle
    <3>1. cmd' = Idle
      BY <2>1 DEF Outdates
    <3> QED
      BY <3>1 DEF CmdInv, Idle
  <2>2. CASE cmd # Idle
    <3>1. cmd' = [cmd EXCEPT !.still = FALSE]
      BY <2>2 DEF Outdates
    <3>2. DOMAIN cmd = DOMAIN Idle /\ "still" \in DOMAIN cmd
      BY DEF LoopInv, CmdInv, Idle
    <3>3. /\ DOMAIN cmd' = DOMAIN Idle /\ cmd'.still = FALSE
          /\ cmd'.step = cmd.step /\ cmd'.looks = cmd.looks
      BY <3>1, <3>2 DEF Idle
    <3> QED
      BY <3>3 DEF LoopInv, CmdInv
  <2> QED
    BY <2>1, <2>2
<1> QED
  BY <1>1, <1>2, <1>3 DEF LoopInv

\* Approvals and notes say nothing of the state.
LEMMA ReviewsKeep ==
    ASSUME LoopInv, Reviews
    PROVE  LoopInv'
<1>1. UNCHANGED treeVars /\ cmd' = cmd /\ screen' = Blank
  BY DEF Reviews
<1>2. ScreenInv'
  BY <1>1, BlankIsRight
<1>0. PICK r \in receipt : \E word : receipt' = {[r EXCEPT !.review = word]}
  BY DEF Reviews
<1>3. PICK word : receipt' = {[r EXCEPT !.review = word]}
  BY <1>0
<1>4. DOMAIN r = {"seal", "by", "still", "review"} /\ (r.still => OfNow(r))
  BY DEF LoopInv, ReceiptInv
<1>5. ReceiptInv'
  <2> DEFINE q == [r EXCEPT !.review = word]
  <2>1. /\ DOMAIN q = DOMAIN r /\ q.seal = r.seal /\ q.by = r.by /\ q.still = r.still
    BY <1>4
  <2> HIDE DEF q
  <2>2. q.still => OfNow(q)
    BY <1>4, <2>1 DEF OfNow
  <2>3. q.still => OfNow(q)'
    BY <1>1, <2>2, TreeStays DEF LoopInv
  <2>4. receipt' = {q}
    BY <1>3 DEF q
  <2> QED
    BY <1>4, <2>1, <2>3, <2>4 DEF ReceiptInv
<1>6. CmdInv'
  BY <1>1, LookStays DEF LoopInv, CmdInv
<1> QED
  BY <1>1, <1>2, <1>5, <1>6, TreeStays DEF LoopInv

-----------------------------------------------------------------------------
(* The commands                                                            *)

\* Whether what was approved, or matches, or is printed is right, where a
\* command ends.
ApprovedNow == \E r \in receipt : r.review = "approved" /\ r.seal.facts = Look
CurrentReceipts == {r \in receipt : r.still /\ r.by # "done"}
BlockIsRight(name, block) ==
    /\ block \subseteq Look.touched /\ DeniedHits = {}
    /\ TrueOutOfScope(Look.touched) = {}
    /\ name = "finish" => OutOfScope(Look.touched) = {}

\* A command that ends, with the receipt it may have written.
LEMMA EndsKeep ==
    ASSUME LoopInv, UNCHANGED treeVars, ReceiptInv',
           NEW says, NEW match, NEW block, Ends(says, match, block),
           cmd.still /\ says = "OK" /\ RequireReceipt /\ Full \intersect NeedApproval # {}
              => ApprovedNow',
           cmd.still /\ cmd.name \in Gated /\ CurrentReceipts' # {} => match,
           cmd.still /\ block # {} => BlockIsRight(cmd.name, block)
    PROVE  LoopInv'
<1>1. cmd' = Idle
  BY DEF Ends
<1>2. CmdInv'
  BY <1>1 DEF CmdInv, Idle
<1>3. /\ screen'.cmd = cmd.name /\ screen'.says = says /\ (screen'.match <=> match)
      /\ screen'.block = block /\ (screen'.still <=> cmd.still)
  BY DEF Ends
<1>4. GateIsRight'
  <2>1. ASSUME screen'.says = "OK", screen'.still, RequireReceipt,
               Full' \intersect NeedApproval # {}
        PROVE  \E r \in receipt' : r.review = "approved" /\ r.seal.facts = Look'
    BY <1>3, <2>1, LookStays DEF ApprovedNow
  <2>2. ASSUME screen'.cmd \in Gated, screen'.still, NEW r \in receipt', r.still, r.by # "done"
        PROVE  screen'.match
    BY <1>3, <2>2 DEF CurrentReceipts
  <2> QED
    BY <2>1, <2>2 DEF GateIsRight
<1>5. ASSUME screen'.block # {}, screen'.still PROVE BlockRight'
  BY <1>3, <1>5, LookStays DEF BlockRight, BlockIsRight, TrueOutOfScope, InScope, OutOfScope
<1>6. ScreenInv'
  BY <1>1, <1>4, <1>5 DEF ScreenInv
<1> QED
  BY <1>2, <1>6, TreeStays DEF LoopInv

\* A receipt that a command writes.
LEMMA WritesKeep ==
    ASSUME UNCHANGED treeVars, TreeInv, NEW r, Writes(r),
           cmd.still => r = IF cmd.name = "done" THEN Judged(Seal(Look)) ELSE Seal(Look)
    PROVE  ReceiptInv'
<1>1. PICK q : /\ q = [seal |-> r, by |-> cmd.name, still |-> cmd.still, review |-> "none"]
              /\ receipt' = {q}
  BY DEF Writes
<1>2. DOMAIN q = {"seal", "by", "still", "review"} /\ (q.still => OfNow(q))
  BY <1>1 DEF OfNow
<1>3. q.still => OfNow(q)'
  BY <1>2, TreeStays
<1> QED
  BY <1>1, <1>2, <1>3 DEF ReceiptInv

\* Where it writes none the receipt is what it was.
LEMMA ReceiptFrame ==
    ASSUME LoopInv, UNCHANGED <<treeVars, receipt>>
    PROVE  ReceiptInv'
BY TreeStays DEF LoopInv, ReceiptInv

\* A command starts, with a first look.
LEMMA StartsKeep ==
    ASSUME LoopInv, \/ NextAtOnce \/ \E n \in Names : Starts(n)
    PROVE  LoopInv'
<1>1. CASE NextAtOnce
  <2>1. UNCHANGED <<treeVars, receipt, cmd>>
    BY <1>1 DEF NextAtOnce
  <2>2. CmdInv'
    BY <2>1, LookStays DEF LoopInv, CmdInv
  <2>3. \E word \in {"begin", "reset", "explain", "close-recon"} :
           screen' = [Blank EXCEPT !.cmd = "next", !.says = word]
    BY <1>1 DEF NextAtOnce
  <2>4. screen'.says # "OK" /\ screen'.match /\ screen'.block = {}
    BY <2>3 DEF Blank
  <2>5. ScreenInv'
    BY <1>1, <2>4 DEF ScreenInv, GateIsRight, NextAtOnce
  <2> QED
    BY <2>1, <2>2, <2>5, TreeStays, ReceiptFrame DEF LoopInv
<1>2. ASSUME NEW n \in Names, Starts(n) PROVE LoopInv'
  <2>1. /\ UNCHANGED <<treeVars, receipt>> /\ screen' = Blank
        /\ cmd' = [Idle EXCEPT !.name = n, !.looks = <<Look>>,
                      !.step = IF n \in {"commit-check", "next"} THEN "again" ELSE "seal"]
    BY <1>2 DEF Starts
  <2>2. /\ DOMAIN cmd' = DOMAIN Idle /\ cmd'.looks = <<Look>>
        /\ cmd'.step \in {"again", "seal"} /\ cmd'.built = {}
    BY <2>1 DEF Idle
  <2>3. CmdInv'
    BY <2>1, <2>2, LookStays DEF CmdInv
  <2> QED
    BY <2>1, <2>3, BlankIsRight, TreeStays, ReceiptFrame DEF LoopInv
<1> QED
  BY <1>1, <1>2

\* It looks again.
LEMMA LooksKeep ==
    ASSUME LoopInv, LooksAgain \/ FinishLooks
    PROVE  LoopInv'
<1>0. DOMAIN cmd = DOMAIN Idle
  BY DEF LoopInv, CmdInv
<1>1. CASE LooksAgain
  <2>1. /\ UNCHANGED <<treeVars, receipt, screen>> /\ cmd.step = "again"
        /\ cmd' = [cmd EXCEPT !.step = "decide", !.checks = ChecksPass, !.looks = Append(@, Look)]
    BY <1>1 DEF LooksAgain
  <2>2. PICK l : cmd.looks = <<l>>
    BY <2>1 DEF LoopInv, CmdInv
  <2>3. /\ DOMAIN cmd' = DOMAIN Idle /\ cmd'.step = "decide" /\ (cmd'.checks <=> ChecksPass)
        /\ cmd'.still = cmd.still /\ cmd'.built = cmd.built
        /\ cmd'.looks = Append(cmd.looks, Look)
    BY <1>0, <2>1 DEF Idle
  <2>4. cmd'.looks[1] = l /\ cmd'.looks[2] = Look /\ cmd.looks[1] = l
    BY <2>2, <2>3
  <2>5. CmdInv'
    BY <2>1, <2>3, <2>4, LookStays DEF LoopInv, CmdInv
  <2>6. screen' = Blank
    BY <2>1 DEF LoopInv, ScreenInv, Idle
  <2> QED
    BY <2>1, <2>5, <2>6, BlankIsRight, TreeStays, ReceiptFrame DEF LoopInv
<1>2. CASE FinishLooks
  <2>1. /\ UNCHANGED <<treeVars, receipt, screen>> /\ cmd.step = "gate"
        /\ cmd' = [cmd EXCEPT !.step = "again", !.looks = <<Look>>]
    BY <1>2 DEF FinishLooks
  <2>2. /\ DOMAIN cmd' = DOMAIN Idle /\ cmd'.step = "again" /\ cmd'.looks = <<Look>>
        /\ cmd'.still = cmd.still /\ cmd'.built = cmd.built
    BY <1>0, <2>1 DEF Idle
  <2>3. CmdInv'
    BY <2>1, <2>2, LookStays DEF LoopInv, CmdInv
  <2>4. screen' = Blank
    BY <2>1 DEF LoopInv, ScreenInv, Idle
  <2> QED
    BY <2>1, <2>3, <2>4, BlankIsRight, TreeStays, ReceiptFrame DEF LoopInv
<1> QED
  BY <1>1, <1>2

\* done and receipt write what they found.
LEMMA SealsKeep ==
    ASSUME LoopInv, DoneSeals \/ ReceiptSeals \/ FinishSeals
    PROVE  LoopInv'
<1>1. cmd.step = "seal" /\ UNCHANGED treeVars
  BY DEF DoneSeals, ReceiptSeals, FinishSeals
<1>2. cmd.still => cmd.looks[1] = Look
  BY <1>1 DEF LoopInv, CmdInv
<1>3. CASE DoneSeals
  <2>1. PICK r : r = Judged(Seal(cmd.looks[1]))
    OBVIOUS
  <2>2. Writes(r) /\ Ends(r.verdict, TRUE, {}) /\ cmd.name = "done"
    BY <1>3, <2>1 DEF DoneSeals
  <2>3. ReceiptInv'
    BY <1>1, <1>2, <2>1, <2>2, WritesKeep DEF LoopInv
  <2>4. r.verdict # "OK"
    BY <2>1 DEF Judged, Seal, Verdict
  <2> QED
    BY <1>1, <2>2, <2>3, <2>4, EndsKeep
<1>4. CASE ReceiptSeals
  <2>1. PICK r : r = Seal(cmd.looks[1])
    OBVIOUS
  <2>2. Writes(r) /\ Ends("saved", TRUE, {}) /\ cmd.name = "receipt"
    BY <1>4, <2>1 DEF ReceiptSeals
  <2>3. ReceiptInv'
    BY <1>1, <1>2, <2>1, <2>2, WritesKeep DEF LoopInv
  <2> QED
    BY <1>1, <2>2, <2>3, EndsKeep
<1>5. CASE FinishSeals
  <2>1. PICK r : r = Seal(cmd.looks[1])
    OBVIOUS
  <2>2. /\ Writes(r) /\ cmd.name = "finish" /\ screen' = screen
        /\ cmd' = [cmd EXCEPT !.step = "gate", !.built = {r}]
    BY <1>5, <2>1 DEF FinishSeals
  <2>3. ReceiptInv'
    BY <1>1, <1>2, <2>1, <2>2, WritesKeep DEF LoopInv
  <2>4. DOMAIN cmd = DOMAIN Idle
    BY DEF LoopInv, CmdInv
  <2>5. /\ DOMAIN cmd' = DOMAIN Idle /\ cmd'.step = "gate" /\ cmd'.built = {r}
        /\ cmd'.still = cmd.still
    BY <2>2, <2>4 DEF Idle
  <2>6. cmd.still => r.facts = Look
    BY <1>2, <2>1 DEF Seal
  <2>7. CmdInv'
    BY <1>1, <2>5, <2>6, LookStays DEF CmdInv
  <2>8. screen' = Blank
    BY <1>1, <2>2 DEF LoopInv, ScreenInv, Idle
  <2> QED
    BY <1>1, <2>3, <2>7, <2>8, BlankIsRight, TreeStays DEF LoopInv
<1> QED
  BY <1>3, <1>4, <1>5

\* The gate: what commit-check, next and finish decide.
LEMMA DecidesKeep ==
    ASSUME LoopInv, CommitCheckDecides \/ NextDecides \/ FinishDecides
    PROVE  LoopInv'
<1> DEFINE fresh == Seal(cmd.looks[2])
<1>1. cmd.step = "decide" /\ UNCHANGED <<treeVars, receipt>>
  BY DEF CommitCheckDecides, NextDecides, FinishDecides
<1>2. cmd.still => /\ cmd.looks[1] = Look /\ fresh = Seal(Look)
                   /\ \A r \in cmd.built : r.facts = Look
  BY <1>1 DEF LoopInv, CmdInv
<1>3. ReceiptInv' /\ ApprovedNow' = ApprovedNow /\ CurrentReceipts' = CurrentReceipts
  BY <1>1, ReceiptFrame, LookStays DEF ApprovedNow, CurrentReceipts
<1>4. cmd.still /\ CurrentReceipts # {} => Matches(fresh)
  BY <1>2 DEF CurrentReceipts, LoopInv, ReceiptInv, OfNow, Matches
<1>5. /\ GatesOK(cmd.looks[1], fresh) /\ cmd.still
      /\ RequireReceipt /\ Full \intersect NeedApproval # {}
      => ApprovedNow
  <2> SUFFICES ASSUME GatesOK(cmd.looks[1], fresh), cmd.still, RequireReceipt,
                      Full \intersect NeedApproval # {}
               PROVE  ApprovedNow
    OBVIOUS
  <2>1. Matches(fresh) /\ Approved
    BY DEF GatesOK
  <2>2. PICK r \in receipt : r.review = "approved"
    BY <2>1 DEF Approved
  <2>3. r.seal = fresh
    BY <2>1 DEF Matches, LoopInv, ReceiptInv
  <2>4. r.seal.facts = Look
    BY <1>2, <2>3 DEF Seal
  <2> QED
    BY <2>2, <2>4 DEF ApprovedNow
<1> HIDE DEF fresh
<1>6. CASE CommitCheckDecides
  <2>1. PICK says : /\ says = "OK" => GatesOK(cmd.looks[1], fresh)
                    /\ Ends(says, Matches(fresh), {})
    BY <1>6 DEF CommitCheckDecides, fresh
  <2> QED
    BY <1>1, <1>3, <1>4, <1>5, <2>1, EndsKeep
<1>7. CASE NextDecides
  <2>1. PICK says : says # "OK" /\ Ends(says, Matches(fresh), {})
    BY <1>7 DEF NextDecides, fresh
  <2> QED
    BY <1>1, <1>3, <1>4, <2>1, EndsKeep
<1>8. CASE FinishDecides
  <2>1. PICK says, block :
          /\ says # "OK" /\ Ends(says, Matches(fresh), block)
          /\ block # {} => /\ GatesOK(cmd.looks[1], fresh)
                           /\ block = UNION {InScope(r.facts.touched) : r \in cmd.built}
    BY <1>8 DEF FinishDecides, fresh
  <2>2. ASSUME cmd.still, block # {} PROVE BlockIsRight(cmd.name, block)
    <3>1. Look.ok /\ \A r \in cmd.built : r.facts = Look
      BY <1>2, <2>1, <2>2 DEF GatesOK
    <3>2. OutOfScope(Look.touched) = {} /\ DeniedHits = {}
      BY <3>1 DEF Look
    <3>3. TrueOutOfScope(Look.touched) = {}
      BY <3>2 DEF TrueOutOfScope, InScope, OutOfScope
    <3>4. block \subseteq Look.touched
      BY <2>1, <2>2, <3>1 DEF InScope
    <3> QED
      BY <3>2, <3>3, <3>4 DEF BlockIsRight
  <2> QED
    BY <1>1, <1>3, <1>4, <2>1, <2>2, EndsKeep
<1> QED
  BY <1>6, <1>7, <1>8

\* prepare-commit prints a block of what it saw, if nothing blocks it.
LEMMA PrepareKeeps ==
    ASSUME LoopInv, PrepareDecides
    PROVE  LoopInv'
<1>1. /\ cmd.step = "seal" /\ cmd.name = "prepare-commit" /\ UNCHANGED <<treeVars, receipt>>
  BY DEF PrepareDecides
<1>2. cmd.still => cmd.looks[1] = Look
  BY <1>1 DEF LoopInv, CmdInv
<1>3. PICK v : v = cmd.looks[1]
  OBVIOUS
<1>4. Seal(v).facts = v
  BY DEF Seal
<1>5. PICK says, block :
        /\ says # "OK" /\ Ends(says, TRUE, block)
        /\ block # {} => /\ ~Blocked(Seal(v))
                         /\ block \subseteq InScope(v.touched) \union LinkedTests(v.touched)
  <2>1. PICK includeLinked \in BOOLEAN :
          LET block == InScope(v.touched)
                         \union (IF includeLinked THEN LinkedTests(v.touched) ELSE {})
          IN  IF Blocked(Seal(v)) THEN Ends("blocked", TRUE, {})
              ELSE Ends(IF block = {} THEN "nothing" ELSE "block", TRUE, block)
    BY <1>3, <1>4 DEF PrepareDecides
  <2>2. CASE Blocked(Seal(v))
    BY <2>1, <2>2
  <2>3. CASE ~Blocked(Seal(v))
    BY <2>1, <2>3
  <2> QED
    BY <2>2, <2>3
<1>6. ASSUME cmd.still, block # {} PROVE BlockIsRight(cmd.name, block)
  <2>1. v = Look /\ Look.denied = DeniedHits
    BY <1>2, <1>3, <1>6 DEF Look
  <2>2. DeniedHits = {} /\ TrueOutOfScope(Look.touched) = {}
    BY <1>4, <1>5, <1>6, <2>1 DEF Blocked
  <2>3. block \subseteq Look.touched
    BY <1>5, <1>6, <2>1 DEF InScope, LinkedTests
  <2> QED
    BY <1>1, <2>2, <2>3 DEF BlockIsRight
<1> QED
  BY <1>1, <1>5, <1>6, ReceiptFrame, EndsKeep DEF Gated

\* close-recon refuses, or closes with a receipt of what it saw.
LEMMA ReconKeeps ==
    ASSUME LoopInv, ReconRefuses \/ ReconCloses
    PROVE  LoopInv'
<1>1. CASE ReconRefuses
  <2>1. UNCHANGED <<treeVars, receipt>> /\ Ends("refused", TRUE, {})
    BY <1>1 DEF ReconRefuses
  <2> QED
    BY <2>1, ReceiptFrame, EndsKeep
<1>2. CASE ReconCloses
  <2>1. /\ cmd.step = "seal" /\ session' = {} /\ Ends("closed", TRUE, {})
        /\ UNCHANGED <<work, index, hist, branch, moves>>
    BY <1>2 DEF ReconCloses
  <2>2. PICK r : r = Seal(cmd.looks[1])
    OBVIOUS
  <2>3. PICK q : /\ q = [seal |-> r, by |-> "close-recon",
                         still |-> cmd.still /\ session = {}, review |-> "none"]
                 /\ receipt' = {q}
    BY <1>2, <2>2 DEF ReconCloses
  <2>4. ASSUME q.still PROVE OfNow(q)'
    <3>1. cmd.still /\ session = {}
      BY <2>3, <2>4
    <3>2. UNCHANGED treeVars
      BY <2>1, <3>1 DEF treeVars
    <3>3. r = Seal(Look)
      BY <2>1, <2>2, <3>1 DEF LoopInv, CmdInv
    <3>4. OfNow(q)
      BY <2>3, <3>3 DEF OfNow
    <3> QED
      BY <3>2, <3>4, TreeStays DEF LoopInv
  <2>5. ReceiptInv'
    BY <2>3, <2>4 DEF ReceiptInv
  <2>6. CmdInv'
    BY <2>1 DEF Ends, CmdInv, Idle
  <2>7. /\ screen'.says # "OK" /\ screen'.match /\ screen'.block = {} /\ cmd' = Idle
    BY <2>1 DEF Ends
  <2>8. ScreenInv'
    BY <2>7 DEF ScreenInv, GateIsRight
  <2>9. TreeInv'
    BY <2>1 DEF LoopInv, TreeInv, Trees
  <2> QED
    BY <2>5, <2>6, <2>8, <2>9 DEF LoopInv
<1> QED
  BY <1>1, <1>2

\* Every step keeps the invariant.
LEMMA StepKeepsLoopInv ==
    ASSUME LoopInv, [Next]_vars
    PROVE  LoopInv'
<1>0. TreeInv
  BY DEF LoopInv
<1>1. CASE WorksOn
  BY <1>0, <1>1, WorksKeepTree, OutdatesKeep DEF WorksOn
<1>2. CASE Opens \/ Closes \/ RunsBlock
  BY <1>0, <1>2, OthersKeepTree, OutdatesKeep DEF Opens, Closes, RunsBlock
<1>3. CASE Reviews
  BY <1>3, ReviewsKeep
<1>4. CASE NextAtOnce \/ \E n \in Names : Starts(n)
  BY <1>4, StartsKeep
<1>5. CASE LooksAgain \/ FinishLooks
  BY <1>5, LooksKeep
<1>6. CASE DoneSeals \/ ReceiptSeals \/ FinishSeals
  BY <1>6, SealsKeep
<1>7. CASE CommitCheckDecides \/ NextDecides \/ FinishDecides
  BY <1>7, DecidesKeep
<1>8. CASE PrepareDecides \/ ReconRefuses \/ ReconCloses
  BY <1>8, PrepareKeeps, ReconKeeps
<1>9. CASE UNCHANGED vars
  <2>1. UNCHANGED <<treeVars, receipt, cmd, screen>>
    BY <1>9 DEF vars, loopVars
  <2>2. CmdInv'
    BY <2>1, LookStays DEF LoopInv, CmdInv
  <2>3. ScreenInv'
    BY <2>1, LookStays
       DEF LoopInv, ScreenInv, GateIsRight, BlockRight, TrueOutOfScope, InScope, OutOfScope
  <2> QED
    BY <2>1, <2>2, <2>3, ReceiptFrame, TreeStays DEF LoopInv
<1> QED
  BY <1>1, <1>2, <1>3, <1>4, <1>5, <1>6, <1>7, <1>8, <1>9 DEF Next

\* It holds in a repository of one commit.
LEMMA LoopBegins == Init => LoopInv
<1> SUFFICES ASSUME Init PROVE LoopInv
  OBVIOUS
<1>1. TreeInv
  BY WorkTreeAssumption DEF Init, TreeInit, TreeInv
<1>2. ReceiptInv /\ CmdInv
  BY DEF Init, ReceiptInv, CmdInv, Idle
<1>3. ScreenInv
  BY DEF Init, ScreenInv, GateIsRight, Blank, Gated
<1> QED
  BY <1>1, <1>2, <1>3 DEF LoopInv

-----------------------------------------------------------------------------
(* A PASS covers the session                                               *)

\* The baseline that applies is the one there is.
LEMMA TheBaseline ==
    ASSUME TreeInv, NEW s \in session, Applies(s)
    PROVE  Applied /\ Old = s
BY DEF TreeInv, Applied, Old

\* A file that was clean in the baseline and is not as it was then is in one
\* of the lists, whichever way its change went.
LEMMA ChangedIsTouched ==
    ASSUME Applied
    PROVE  /\ Old \in session /\ Applies(Old)
           /\ Changed(Old) \union CommittedSince(Old.base.tree) \subseteq Look.touched
<1>1. Look.touched = (Unstaged \ Old.unstaged) \union (Staged \ Old.staged)
                        \union (Untracked \ Old.untracked)
                        \union CommittedSince(Old.base.tree)
  BY DEF Look
<1>2. Old \in session /\ Applies(Old)
  BY DEF Applied, Old
<1> QED
  BY <1>1, <1>2 DEF Changed, Unstaged, Staged, Untracked, CommittedSince

\* A denied file that no list shows is the same in tree, index and commit.
LEMMA DeniedIsClean ==
    ASSUME DeniedHits = {}, NEW f \in Denied
    PROVE  index[f] = work[f] /\ Tip[f] = work[f]
BY WorkTreeAssumption DEF DeniedHits, Full, Unstaged, Staged, Untracked

\* What a PASS asks for.
LEMMA PassMeans ==
    ASSUME NEW r, r = Judged(Seal(Look)), r.verdict \in {"PASS", "WARN"}
    PROVE  Look.ok /\ ChecksPass /\ Applied /\ r.facts = Look
<1>1. r.verdict = Verdict(Seal(Look)) /\ r.facts = Look
  BY DEF Judged, Seal
<1>2. Seal(Look).ok <=> Look.ok /\ ChecksPass
  BY DEF Seal
<1> QED
  BY <1>1, <1>2 DEF Verdict

\* The receipt of done says PASS of nothing it has not seen: however a change
\* travelled between working tree, index and commits, it is listed, in scope
\* and checked (done.ts, checks.ts, verdict.ts).
THEOREM PassIsWhole == Spec => []PassCovers
<1>1. LoopInv => PassCovers
  <2> SUFFICES ASSUME LoopInv, NEW r \in Passed
               PROVE  \E s \in session :
                         /\ Changed(s) \subseteq r.seal.facts.touched
                         /\ OutOfScope(Changed(s)) = {}
                         /\ ChecksPass
                         /\ \A f \in Changed(s) \intersect Denied :
                               index[f] = work[f] /\ Tip[f] = work[f]
    BY DEF PassCovers
  <2>1. r.seal = Judged(Seal(Look)) /\ r.seal.verdict \in {"PASS", "WARN"}
    BY DEF Passed, LoopInv, ReceiptInv, OfNow
  <2>2. Look.ok /\ ChecksPass /\ Applied /\ r.seal.facts = Look
    BY <2>1, PassMeans
  <2>3. Old \in session /\ Changed(Old) \subseteq Look.touched
    BY <2>2, ChangedIsTouched
  <2>4. OutOfScope(Look.touched) = {} /\ DeniedHits = {}
    BY <2>2 DEF Look
  <2>5. OutOfScope(Changed(Old)) = {}
    BY <2>3, <2>4 DEF OutOfScope
  <2> QED
    BY <2>2, <2>3, <2>4, <2>5, DeniedIsClean
<1> QED
  BY <1>1, LoopBegins, StepKeepsLoopInv, PTL DEF Spec

\* commit-check says OK only of what was approved, and never of another state;
\* a receipt matches for as long as nothing changes (commitcheck.ts, approve.ts,
\* finish.ts).
THEOREM GateHolds == Spec => []GateIsRight
<1>1. LoopInv => GateIsRight
  BY DEF LoopInv, ScreenInv
<1> QED
  BY <1>1, LoopBegins, StepKeepsLoopInv, PTL DEF Spec

-----------------------------------------------------------------------------
(* The commit                                                              *)

\* What a commit changes, made with what was printed or with the index alone.
LEMMA CommitChanges ==
    ASSUME TreeInv, [Next]_vars, Len(hist') > Len(hist)
    PROVE  \A f \in Files : Tip'[f] # Tip[f]
              => f \in Staged \/ (f \in screen.block /\ f \in Full)
<1>1. Len(hist) \in Nat
  BY DEF TreeInv
<1>2. hist' # hist /\ Len(hist') # Len(hist)
  BY <1>1
<1>3. CASE RunsBlock
  <2>1. hist' = Append(hist, [id |-> moves', tree |-> index'])
        /\ index' = Added(screen.block)
    BY <1>2, <1>3 DEF RunsBlock
  <2>2. Tip' = index'
    BY <2>1 DEF Tip, HeadCommit, TreeInv
  <2>3. \A f \in Files : \/ index'[f] = index[f]
                         \/ f \in screen.block /\ index'[f] = work[f]
    BY <2>1 DEF Added
  <2> QED
    BY <2>2, <2>3 DEF Staged, Full, Unstaged, Untracked
<1>4. CASE WorksOn
  <2>1. Commit
    <3>1. ASSUME Amend PROVE FALSE
      BY <1>2, <3>1 DEF Amend, TreeInv
    <3> QED
      BY <1>2, <1>4, <3>1 DEF WorksOn, Works, Write, Stage, Unstage, SwitchBranch
  <2>2. hist' = Append(hist, [id |-> moves', tree |-> index])
    BY <2>1 DEF Commit
  <2>3. Tip' = index
    BY <2>2 DEF Tip, HeadCommit, TreeInv
  <2> QED
    BY <2>3 DEF Staged
<1>5. CASE Opens \/ Closes \/ Reviews \/ LooksAgain \/ NextAtOnce \/ \E n \in Names : Starts(n)
  BY <1>2, <1>5
     DEF Opens, Closes, Begin, Reset, Reviews, LooksAgain, NextAtOnce, Starts, treeVars
<1>6. CASE DoneSeals \/ ReceiptSeals \/ CommitCheckDecides \/ NextDecides \/ FinishSeals
           \/ FinishLooks \/ FinishDecides \/ PrepareDecides \/ ReconRefuses
  BY <1>2, <1>6
     DEF DoneSeals, ReceiptSeals, CommitCheckDecides, NextDecides, FinishSeals, FinishLooks,
         FinishDecides, PrepareDecides, ReconRefuses, treeVars
<1>7. CASE ReconCloses
  BY <1>2, <1>7 DEF ReconCloses
<1>8. CASE UNCHANGED vars
  BY <1>2, <1>8 DEF vars, treeVars
<1> QED
  BY <1>3, <1>4, <1>5, <1>6, <1>7, <1>8 DEF Next

\* A commit of what was printed, made at once, changes nothing denied, and
\* nothing out of scope but linked tests and what was staged before the session
\* (preparecommit.ts, finish.ts).
THEOREM CommitInScope == Spec => BlockCommits
<1>1. LoopInv /\ [Next]_vars
        => [ screen.block # {} /\ screen.still /\ Len(hist') > Len(hist) =>
               LET files == {f \in Files : Tip'[f] # Tip[f]}
                   before == UNION {s.staged : s \in {o \in session : Applies(o)}}
               IN  /\ files \intersect Denied = {}
                   /\ TrueOutOfScope(files) \subseteq before
                   /\ screen.cmd = "finish" => OutOfScope(files) \subseteq before ]_vars
  <2> SUFFICES ASSUME LoopInv, [Next]_vars, screen.block # {}, screen.still,
                      Len(hist') > Len(hist)
               PROVE  LET files == {f \in Files : Tip'[f] # Tip[f]}
                          before == UNION {s.staged : s \in {o \in session : Applies(o)}}
                      IN  /\ files \intersect Denied = {}
                          /\ TrueOutOfScope(files) \subseteq before
                          /\ screen.cmd = "finish" => OutOfScope(files) \subseteq before
    OBVIOUS
  <2> DEFINE files == {f \in Files : Tip'[f] # Tip[f]}
             before == UNION {s.staged : s \in {o \in session : Applies(o)}}
  <2>1. BlockRight
    BY DEF LoopInv, ScreenInv
  <2>2. \A f \in files : f \in Staged \/ (f \in screen.block /\ f \in Full)
    BY CommitChanges DEF LoopInv
  <2>3. files \intersect Denied = {}
    BY <2>1, <2>2 DEF BlockRight, DeniedHits, Full
  <2>4. Staged \subseteq Look.touched \union before
    <3>1. Staged \ Old.staged \subseteq Look.touched
      BY DEF Look
    <3>2. Old.staged \subseteq before
      <4>1. CASE Applied
        BY <4>1 DEF Applied, Old
      <4>2. CASE ~Applied
        BY <4>2 DEF Old
      <4> QED
        BY <4>1, <4>2
    <3> QED
      BY <3>1, <3>2
  <2>5. files \subseteq Look.touched \union before
    BY <2>1, <2>2, <2>4 DEF BlockRight
  <2> HIDE DEF files, before
  <2>6. TrueOutOfScope(files) \subseteq before
    BY <2>1, <2>5 DEF BlockRight, TrueOutOfScope, InScope
  <2>7. screen.cmd = "finish" => OutOfScope(files) \subseteq before
    BY <2>1, <2>5 DEF BlockRight, OutOfScope
  <2> QED
    BY <2>3, <2>6, <2>7 DEF files, before
<1> QED
  BY <1>1, LoopBegins, StepKeepsLoopInv, PTL DEF Spec, BlockCommits

\* close-recon closes no session in which something was changed, committed or
\* not (closerecon.ts).
THEOREM ReconLeavesNothing == Spec => ReconIsClean
<1>1. LoopInv /\ [Next]_vars
        => [ \A s \in session :
               cmd.name = "close-recon" /\ session' = {} /\ cmd.still /\ Applies(s)
                 => Changed(s) = {} /\ CommittedSince(s.base.tree) = {} ]_vars
  <2> SUFFICES ASSUME LoopInv, [Next]_vars, NEW s \in session, cmd.name = "close-recon",
                      session' = {}, cmd.still, Applies(s)
               PROVE  Changed(s) = {} /\ CommittedSince(s.base.tree) = {}
    OBVIOUS
  <2>1. cmd # Idle /\ session' # session
    BY DEF Idle
  <2>2. ReconCloses
    BY <2>1
       DEF Next, WorksOn, Works, Write, Stage, Unstage, Commit, Amend, SwitchBranch, Opens,
           Closes, Reviews, RunsBlock, LooksAgain, NextAtOnce, Starts, DoneSeals,
           ReceiptSeals, CommitCheckDecides, NextDecides, FinishSeals, FinishLooks,
           FinishDecides, PrepareDecides, ReconRefuses, vars, treeVars
  <2>3. cmd.looks[1] = Look /\ ~Dirty(Seal(cmd.looks[1]))
    BY <2>2 DEF ReconCloses, LoopInv, CmdInv
  <2>4. Look.touched = {}
    BY <2>3 DEF Dirty, Seal
  <2> QED
    BY <2>4, TheBaseline, ChangedIsTouched DEF LoopInv
<1> QED
  BY <1>1, LoopBegins, StepKeepsLoopInv, PTL DEF Spec, ReconIsClean
=============================================================================
