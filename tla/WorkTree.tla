------------------------------ MODULE WorkTree ------------------------------
(***************************************************************************)
(* What the work contract is measured against: the git state of one        *)
(* repository (git.ts), the baseline that begin and start save in          *)
(* session.json (start.ts), its validity (session.ts) and the verification *)
(* of the contract's scope against both (checks.ts).                       *)
(*                                                                         *)
(* A file has a version in the working tree, in the index and in every     *)
(* commit; 0 stands for a file that is not there.  Nothing is ignored by   *)
(* git and the tool's own output (agentguard.ts) is not among the files.   *)
(***************************************************************************)
EXTENDS Naturals, FiniteSets, Sequences

CONSTANTS Files,       \* paths in the repository
          Versions,    \* what a file may contain
          FirstTree,   \* the tree of the first commit
          Allowed,     \* files within allowed_paths; {}: no such list
          Denied,      \* files within denied_paths
          Main, Other, \* two branches, Other created while at work
          Expected,    \* branches the contract accepts
          MaxMoves     \* bound: changes made in the repository

Trees == [Files -> Versions \union {0}]

ASSUME WorkTreeAssumption ==
    /\ IsFiniteSet(Files) /\ Versions \subseteq Nat \ {0}
    /\ FirstTree \in Trees
    /\ Allowed \subseteq Files /\ Denied \subseteq Files
    /\ Main # Other /\ Expected \subseteq {Main, Other}
    /\ MaxMoves \in Nat

VARIABLES work,     \* the working tree
          index,    \* the index
          hist,     \* the commits up to HEAD
          branch,   \* the current branch
          session,  \* session.json: {}, or the baseline: commit, branch, kind
                    \* and what was dirty
          moves

treeVars == <<work, index, hist, branch, session, moves>>

Kinds == {"recon", "implementation"}

TreeInit ==
    /\ work = FirstTree /\ index = FirstTree
    /\ hist = <<[id |-> 0, tree |-> FirstTree]>>
    /\ branch = Main /\ session = {} /\ moves = 0

-----------------------------------------------------------------------------
(* What git reports.                                                       *)

HeadCommit == hist[Len(hist)]
Tip == HeadCommit.tree

Unstaged == {f \in Files : index[f] # 0 /\ work[f] # index[f]}
Staged == {f \in Files : index[f] # Tip[f]}
Untracked == {f \in Files : index[f] = 0 /\ work[f] # 0}

\* touchedFull: every file that is not clean, whatever the baseline.
Full == Unstaged \union Staged \union Untracked

\* committedSince: what differs between the baseline's commit and HEAD.
CommittedSince(tree) == {f \in Files : tree[f] # Tip[f]}

-----------------------------------------------------------------------------
(* The baseline.                                                           *)

\* resolveSession: the baseline applies on its own branch, and while HEAD
\* descends from its commit.
Applies(s) == s.branch = branch /\ \E i \in DOMAIN hist : hist[i].id = s.base.id
Applied == \E s \in session : Applies(s)

Snapshot(kind) ==
    [base |-> HeadCommit, branch |-> branch, kind |-> kind,
     unstaged |-> Unstaged, staged |-> Staged, untracked |-> Untracked]

\* startCore: refused where a denied file is dirty, or a baseline there.
Begin(kind) ==
    /\ Full \intersect Denied = {}
    /\ session = {}
    /\ session' = {Snapshot(kind)}
    /\ UNCHANGED <<work, index, hist, branch, moves>>

\* resetCore.
Reset ==
    /\ session # {}
    /\ session' = {}
    /\ UNCHANGED <<work, index, hist, branch, moves>>

-----------------------------------------------------------------------------
(* runVerify.  Scope is judged on what changed since the baseline, list by *)
(* list; denied files on the whole working tree.                           *)

DeniedHits == Full \intersect Denied

OutOfScope(files) == IF Allowed = {} THEN {} ELSE files \ Allowed

Old == IF Applied THEN CHOOSE s \in session : Applies(s)
       ELSE [unstaged |-> {}, staged |-> {}, untracked |-> {}]

Look ==
    LET staged == Staged \ Old.staged
        untracked == Untracked \ Old.untracked
        committed == IF Applied THEN CommittedSince(Old.base.tree) ELSE {}
        touched == (Unstaged \ Old.unstaged)
                       \union staged \union untracked \union committed
    IN  [head |-> HeadCommit.id, branch |-> branch, touched |-> touched,
         staged |-> staged, untracked |-> untracked,
         oos |-> OutOfScope(touched), denied |-> DeniedHits,
         ok |-> branch \in Expected /\ OutOfScope(touched) = {} /\ DeniedHits = {}]

-----------------------------------------------------------------------------
(* The developer and the agent.                                            *)

Moves == moves < MaxMoves /\ moves' = moves + 1

Write(f, v) ==
    /\ Moves
    /\ work[f] # v
    /\ work' = [work EXCEPT ![f] = v]
    /\ UNCHANGED <<index, hist, branch, session>>

Stage(f) ==
    /\ Moves
    /\ index[f] # work[f]
    /\ index' = [index EXCEPT ![f] = work[f]]
    /\ UNCHANGED <<work, hist, branch, session>>

Unstage(f) ==
    /\ Moves
    /\ index[f] # Tip[f]
    /\ index' = [index EXCEPT ![f] = Tip[f]]
    /\ UNCHANGED <<work, hist, branch, session>>

Commit ==
    /\ Moves
    /\ index # Tip
    /\ hist' = Append(hist, [id |-> moves', tree |-> index])
    /\ UNCHANGED <<work, index, branch, session>>

\* commit --amend, and the like: HEAD no longer descends from the old commit.
Amend ==
    /\ Moves
    /\ hist' = [hist EXCEPT ![Len(hist)] = [id |-> moves', tree |-> index]]
    /\ UNCHANGED <<work, index, branch, session>>

\* switch -c: a new branch at the same commit.
SwitchBranch ==
    /\ Moves
    /\ branch = Main
    /\ branch' = Other
    /\ UNCHANGED <<work, index, hist, session>>

Works ==
    \/ \E f \in Files : \E v \in Versions \union {0} : Write(f, v)
    \/ \E f \in Files : Stage(f)
    \/ \E f \in Files : Unstage(f)
    \/ Commit
    \/ Amend
    \/ SwitchBranch
=============================================================================
