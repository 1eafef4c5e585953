------------------------------- MODULE Ledger -------------------------------
(***************************************************************************)
(* ledger.ts: `done --ledger` and `audit-pack --ledger` chain one entry    *)
(* per receipt onto ledger.jsonl under ledger.lock; `ledger rebuild`       *)
(* replaces the file by a chain over the receipts on disk and takes no     *)
(* lock.  The lock is the serialised section of Mutex.  An entry's hash is *)
(* what it covers, that is, what every entry of its chain up to it says:   *)
(* equal content and equal predecessor give an equal hash.                 *)
(***************************************************************************)
EXTENDS HashChain

CONSTANTS Writers,      \* processes running done or audit-pack with --ledger
          NoWriter,     \* nobody holds ledger.lock
          Dead,         \* the holder of ledger.lock died
          Old,          \* bound: receipts of earlier work, which may be in the ledger
          MaxReceipts,  \* bound: receipts sealed
          MaxRebuilds,  \* bound: runs of `ledger rebuild`
          Torn,         \* an append may stop half way
          Crashes,      \* a writer may die anywhere
          Overlap       \* a rebuild may run while a writer does

Claims == {"unchecked", "matched"}   \* claimMatched: null, or a value

Hashes == Seq(Nat \X Claims)
Lines == [receipt : Nat, claim : Claims, prev : Hashes, hash : Hashes]

\* A line written before the ledger had a chain.
Legacy == [receipt |-> 0, claim |-> "unchecked", prev |-> <<>>, hash |-> <<>>]

ASSUME LedgerAssumption ==
    /\ Corrupt \notin Lines
    /\ NoWriter \notin Writers /\ Dead \notin Writers /\ NoWriter # Dead
    /\ {Old, MaxReceipts, MaxRebuilds} \subseteq Nat
    /\ {Torn, Crashes, Overlap} \subseteq BOOLEAN

VARIABLES ledger,    \* the lines of ledger.jsonl
          closed,    \* "no": the file does not end with a newline
          receipts,  \* receipts in .agent-guard/receipts, by time of sealing
          sealed,    \* number of receipts sealed
          holder,    \* who holds ledger.lock
          pc, job,   \* each writer: its position and its receipt
          prior,     \* the predecessor hash it read
          rebuild,   \* the rebuild: its position and the receipts it listed
          rebuilds,
          acked      \* receipts whose writer reported the entry

fileVars == <<ledger, closed>>
writerVars == <<pc, job, prior>>
vars == <<fileVars, receipts, sealed, holder, writerVars, rebuild, rebuilds, acked>>

NoJob == [receipt |-> 0, claim |-> "unchecked", kept |-> "no"]

Entry(receipt, claim, prev) ==
    [receipt |-> receipt, claim |-> claim, prev |-> prev,
     hash |-> Append(prev, <<receipt, claim>>)]

\* The receipts by time, chained; claim results are not known any more.
Rebuilt(list) ==
    LET nth(k) == CHOOSE r \in list : Cardinality({q \in list : q <= r}) = k
    IN  [k \in 1 .. Cardinality(list) |->
            Entry(nth(k), "unchecked", [i \in 1 .. k - 1 |-> <<nth(i), "unchecked">>])]

Init ==
    /\ receipts \in {1 .. k : k \in 0 .. Old} /\ sealed = Old
    /\ ledger \in {<<>>, <<Legacy>>, Rebuilt(receipts)} /\ closed = "yes"
    /\ holder = NoWriter
    /\ pc = [w \in Writers |-> "idle"]
    /\ job = [w \in Writers |-> NoJob]
    /\ prior = [w \in Writers |-> <<>>]
    /\ rebuild = [at |-> "idle", list |-> {}] /\ rebuilds = 0
    /\ acked = {}

-----------------------------------------------------------------------------
Goto(w, l) == pc' = [pc EXCEPT ![w] = l]

\* done writes its receipt into the receipts directory, audit-pack into a
\* directory of its own; then either goes for the ledger.
Seal(w) ==
    /\ pc[w] = "idle" /\ sealed < Old + MaxReceipts
    /\ Overlap \/ rebuild.at = "idle"
    /\ sealed' = sealed + 1
    /\ \E c \in Claims, kept \in {"yes", "no"} :
          /\ job' = [job EXCEPT ![w] = [receipt |-> sealed', claim |-> c, kept |-> kept]]
          /\ receipts' = IF kept = "yes" THEN receipts \cup {sealed'} ELSE receipts
    /\ Goto(w, "lock")
    /\ UNCHANGED <<fileVars, holder, prior, rebuild, rebuilds, acked>>

Lock(w) ==
    /\ pc[w] = "lock" /\ holder = NoWriter
    /\ holder' = w
    /\ Goto(w, "read")
    /\ UNCHANGED <<fileVars, receipts, sealed, job, prior, rebuild, rebuilds, acked>>

\* Mutant: a lock that cannot be had is taken as the entry's success.
LockThrowsReports(w) ==
    /\ pc[w] = "lock" /\ holder # NoWriter
    /\ acked' = acked \cup {job[w].receipt}
    /\ Goto(w, "idle")
    /\ UNCHANGED <<fileVars, receipts, sealed, holder, job, prior, rebuild, rebuilds>>

\* withFileLock throws: the command fails, the receipt stays without entry.
LockThrows(w) ==
    /\ pc[w] = "lock" /\ holder # NoWriter
    /\ Goto(w, "idle")
    /\ UNCHANGED <<fileVars, receipts, sealed, holder, job, prior, rebuild, rebuilds, acked>>

ReadPrior(w) ==
    /\ pc[w] = "read"
    /\ prior' = [prior EXCEPT ![w] = LastRecord(ledger, Legacy).hash]
    /\ Goto(w, "append")
    /\ UNCHANGED <<fileVars, receipts, sealed, holder, job, rebuild, rebuilds, acked>>

\* Mutant: the entry does not name its predecessor.
LineUnchained(w) == <<Entry(job[w].receipt, job[w].claim, <<>>)>>

Line(w) == <<Entry(job[w].receipt, job[w].claim, prior[w])>>

Append1(w) ==
    /\ pc[w] = "append"
    /\ ledger' = AppendLines(ledger, closed, Line(w))
    /\ closed' = "yes"
    /\ Goto(w, "unlock")
    /\ UNCHANGED <<receipts, sealed, holder, job, prior, rebuild, rebuilds, acked>>

\* The append stops inside the line, or before its newline.
PartialWrite(w) ==
    /\ \/ ledger' = AppendLines(ledger, closed, Cut(Line(w), 0))
       \/ ledger' = AppendLines(ledger, closed, Line(w))
    /\ closed' = "no"

\* It throws out of the section and out of the command.
AppendThrows(w) ==
    /\ Torn /\ pc[w] = "append"
    /\ PartialWrite(w)
    /\ holder' = NoWriter
    /\ Goto(w, "idle")
    /\ UNCHANGED <<receipts, sealed, job, prior, rebuild, rebuilds, acked>>

\* The section ends and the command reports the entry.
Report(w) ==
    /\ pc[w] = "unlock"
    /\ holder' = NoWriter
    /\ acked' = acked \cup {job[w].receipt}
    /\ Goto(w, "idle")
    /\ UNCHANGED <<fileVars, receipts, sealed, job, prior, rebuild, rebuilds>>

Crash(w) ==
    /\ Crashes /\ pc[w] # "idle"
    /\ holder' = IF holder = w THEN Dead ELSE holder
    /\ Goto(w, "idle")
    /\ UNCHANGED fileVars \/ (Torn /\ pc[w] = "append" /\ PartialWrite(w))
    /\ UNCHANGED <<receipts, sealed, job, prior, rebuild, rebuilds, acked>>

StealStale ==
    /\ holder = Dead
    /\ holder' = NoWriter
    /\ UNCHANGED <<fileVars, receipts, sealed, writerVars, rebuild, rebuilds, acked>>

-----------------------------------------------------------------------------
(* runLedgerRebuild                                                        *)

Idle == \A w \in Writers : pc[w] = "idle"

ListReceipts ==
    /\ rebuild.at = "idle" /\ rebuilds < MaxRebuilds
    /\ Overlap \/ Idle
    /\ rebuilds' = rebuilds + 1
    /\ rebuild' = [at |-> "replace", list |-> receipts]
    /\ UNCHANGED <<fileVars, receipts, sealed, holder, writerVars, acked>>

\* writeFileAtomic: a rename, so the old file disappears in one step.
Replace ==
    /\ rebuild.at = "replace"
    /\ ledger' = Rebuilt(rebuild.list) /\ closed' = "yes"
    /\ rebuild' = [at |-> "idle", list |-> {}]
    /\ UNCHANGED <<receipts, sealed, holder, writerVars, rebuilds, acked>>

-----------------------------------------------------------------------------
Writer(w) ==
    \/ Seal(w) \/ Lock(w) \/ LockThrows(w) \/ ReadPrior(w)
    \/ Append1(w) \/ AppendThrows(w) \/ Report(w) \/ Crash(w)

Next == (\E w \in Writers : Writer(w)) \/ StealStale \/ ListReceipts \/ Replace

Spec == Init /\ [][Next]_vars

-----------------------------------------------------------------------------

\* verifyLedgerChain: an entry that has a chained predecessor and does not
\* name it.
ChainProblem(i, j) ==
    /\ ledger[i].hash # <<>> /\ ledger[j].hash # <<>>
    /\ ledger[j].prev # ledger[i].hash

\* `ledger verify` finds no break that nobody made: writers, crashes, torn
\* appends and rebuilds leave the readable entries chained.
ChainIntact ==
    \A i, j \in DOMAIN ledger : Adjacent(ledger, i, j) => ~ChainProblem(i, j)

InLedger(r) == \E i \in DOMAIN ledger : IsRecord(ledger[i]) /\ ledger[i].receipt = r

\* A receipt that is in the receipts directory and whose entry was reported
\* stays in the ledger: if it cannot be read, a line that ledger verify counts
\* as corrupt accounts for it, and a rebuild that heals the line enters it.
ReportedStay ==
    (\A i \in DOMAIN ledger : ledger[i] # Corrupt)
        => \A r \in acked \cap receipts : InLedger(r)
=============================================================================
