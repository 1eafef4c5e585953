----------------------------- MODULE CaptureLog -----------------------------
(***************************************************************************)
(* capture.ts: the hook processes that chain their records onto            *)
(* capture.jsonl and keep its high-water mark capture.head.json, the       *)
(* `capture reset` that removes both, and the `capture verify` that reads  *)
(* both.  Hooks are separate processes; capture.lock is taken here as the  *)
(* serialised section of Mutex (FileLock says when it is one).  Reset and  *)
(* verify take no lock.                                                    *)
(***************************************************************************)
EXTENDS HashChain

CONSTANTS Hooks,       \* hook processes
          NoHook,      \* nobody holds capture.lock
          Dead,        \* the holder of capture.lock died
          MaxBatch,    \* bound: records one event is classified into
          MaxCalls,    \* bound: events delivered
          MaxResets,   \* bound: runs of `capture reset`
          MaxVerifies, \* bound: runs of `capture verify`
          Torn,        \* a write may stop half way (full disk, power)
          HeadFails,   \* writing capture.head.json may fail
          Crashes      \* a hook may die anywhere

Records == [op : {"action", "degraded"}, seq : Nat, hash : Nat \ {0}, prev : Nat]

ASSUME CaptureAssumption ==
    /\ Corrupt \notin Records
    /\ NoHook \notin Hooks /\ Dead \notin Hooks /\ NoHook # Dead
    /\ MaxBatch \in Nat \ {0} /\ MaxCalls \in Nat
    /\ MaxResets \in Nat /\ MaxVerifies \in Nat
    /\ {Torn, HeadFails, Crashes} \subseteq BOOLEAN

VARIABLES log,      \* the lines of capture.jsonl
          closed,   \* "no": the file does not end with a newline
          head,     \* capture.head.json: {} or one mark
          holder,   \* who holds capture.lock
          pc,       \* each hook's position in runCaptureIngest
          job,      \* what it appends: its event, or the degraded marker
          tail,     \* what its tailRecord returned
          calls,    \* events delivered so far
          outcome,  \* what its last event came to
          stamp,    \* the last hash used
          reset,    \* position of the `capture reset` process
          verify,   \* the `capture verify` process: position, findings, and the
                    \* last hash used when it read the log
          resets, verifies

hookVars == <<pc, job, tail, calls, outcome, stamp>>
fileVars == <<log, closed, head>>
otherVars == <<reset, verify, resets, verifies>>
vars == <<fileVars, holder, hookVars, otherVars>>

Heads == [count : Nat, lastSeq : Nat]
Tails == [lastSeq : Nat, lastHash : Nat, count : Nat]
Jobs == [op : {"action", "degraded"}, n : Nat \ {0}, verdict : {"none", "deny"}]
Outcomes == [trace : {"records", "marker", "none"}, verdict : {"none", "deny"},
             emitted : {"yes", "no"}]
NoTail == [lastSeq |-> 0, lastHash |-> NoHash, count |-> 0]
NoJob == [op |-> "action", n |-> 1, verdict |-> "none"]

Init ==
    /\ log = <<>> /\ closed = "yes" /\ head = {}
    /\ holder = NoHook
    /\ pc = [h \in Hooks |-> "idle"]
    /\ job = [h \in Hooks |-> NoJob]
    /\ tail = [h \in Hooks |-> NoTail]
    /\ calls = 0
    /\ outcome = [h \in Hooks |->
                    [trace |-> "records", verdict |-> "none", emitted |-> "no"]]
    /\ stamp = 0
    /\ reset = "idle" /\ resets = 0
    /\ verify = [at |-> "idle", lines |-> <<>>, since |-> 0, report |-> "none"] /\ verifies = 0

-----------------------------------------------------------------------------
(* runCaptureIngest and appendCapture                                      *)

Goto(h, l) == pc' = [pc EXCEPT ![h] = l]

\* What an event comes to: n classified records and the guard's verdict, or,
\* when it cannot be read or parsed, a degraded marker.
Events ==
    [op : {"action"}, n : 1 .. MaxBatch, verdict : {"none", "deny"}]
    \cup {[op |-> "degraded", n |-> 1, verdict |-> "none"]}

Deliver(h) ==
    /\ pc[h] = "idle" /\ calls < MaxCalls
    /\ calls' = calls + 1
    /\ \E j \in Events : job' = [job EXCEPT ![h] = j]
    /\ Goto(h, "lock")
    /\ UNCHANGED <<fileVars, holder, tail, outcome, stamp, otherVars>>

Lock(h) ==
    /\ pc[h] = "lock" /\ holder = NoHook
    /\ holder' = h
    /\ Goto(h, "tail")
    /\ UNCHANGED <<fileVars, job, tail, calls, outcome, stamp, otherVars>>

\* The process ends, its locals with it.
Gone(h) ==
    /\ job' = [job EXCEPT ![h] = NoJob]
    /\ tail' = [tail EXCEPT ![h] = NoTail]
    /\ Goto(h, "idle")

\* process.exit; the deny was printed if `emitted` says so.
Exit(h, trace, emitted) ==
    /\ outcome' = [outcome EXCEPT ![h] = [trace |-> trace,
                       verdict |-> job[h].verdict, emitted |-> emitted]]
    /\ Gone(h)

\* Mutant: the deny goes out although its records could not be written.
DegradeDenies(h) == Exit(h, "none", IF job[h].verdict = "deny" THEN "yes" ELSE "no")

\* appendCapture threw.  An event is replaced by a degraded marker; a marker
\* that cannot be written either is given up, and the process exits.
Degrade(h) ==
    IF job[h].op = "action"
    THEN /\ job' = [job EXCEPT ![h] = [op |-> "degraded", n |-> 1, verdict |-> @.verdict]]
         /\ Goto(h, "lock")
         /\ UNCHANGED <<outcome, tail>>
    ELSE Exit(h, "none", "no")

\* withFileLock throws: its retries may end before a living holder leaves,
\* and before a dead one's lock is stale.
LockThrows(h) ==
    /\ pc[h] = "lock" /\ holder # NoHook
    /\ Degrade(h)
    /\ UNCHANGED <<fileVars, holder, calls, stamp, otherVars>>

\* tailRecord: the last record that parses; count is the number of lines.
ReadTail(h) ==
    /\ pc[h] = "tail"
    /\ LET r == LastRecord(log, [seq |-> 0, hash |-> NoHash])
       IN  tail' = [tail EXCEPT ![h] = [lastSeq |-> r.seq, lastHash |-> r.hash,
                                        count |-> Len(log)]]
    /\ Goto(h, "append")
    /\ UNCHANGED <<fileVars, holder, job, calls, outcome, stamp, otherVars>>

\* Mutant: every record of a batch is chained to the tail.
NewRecordsFanned(h) ==
    [k \in 1 .. job[h].n |->
        [op |-> job[h].op, seq |-> tail[h].lastSeq + k, hash |-> stamp + k,
         prev |-> tail[h].lastHash]]

\* The records of hook h's job, chained from the tail it read.
NewRecords(h) ==
    [k \in 1 .. job[h].n |->
        [op |-> job[h].op, seq |-> tail[h].lastSeq + k, hash |-> stamp + k,
         prev |-> IF k = 1 THEN tail[h].lastHash ELSE stamp + k - 1]]

AppendRecords(h) ==
    /\ pc[h] = "append"
    /\ log' = AppendLines(log, closed, NewRecords(h))
    /\ closed' = "yes"
    /\ stamp' = stamp + job[h].n
    /\ Goto(h, "head")
    /\ UNCHANGED <<head, holder, job, tail, calls, outcome, otherVars>>

\* appendFileSync stops half way: k lines are whole, the next one is cut, or
\* only the last newline is missing.
PartialWrite(h) ==
    /\ \/ \E k \in 0 .. job[h].n - 1 :
             log' = AppendLines(log, closed, Cut(NewRecords(h), k))
       \/ log' = AppendLines(log, closed, NewRecords(h))
    /\ closed' = "no"
    /\ stamp' = stamp + job[h].n

\* It throws (a full disk); the finally clause unlocks first.
AppendThrows(h) ==
    /\ Torn /\ pc[h] = "append"
    /\ PartialWrite(h)
    /\ Goto(h, "failed")
    /\ UNCHANGED <<head, holder, job, tail, calls, outcome, otherVars>>

\* writeHead, after the append and inside the lock.
WriteHead(h) ==
    /\ pc[h] = "head"
    /\ head' = {[count |-> tail[h].count + job[h].n,
                 lastSeq |-> tail[h].lastSeq + job[h].n]}
    /\ Goto(h, "unlock")
    /\ UNCHANGED <<log, closed, holder, job, tail, calls, outcome, stamp, otherVars>>

\* Its failure is swallowed.
WriteHeadFails(h) ==
    /\ HeadFails /\ pc[h] = "head"
    /\ Goto(h, "unlock")
    /\ UNCHANGED <<fileVars, holder, job, tail, calls, outcome, stamp, otherVars>>

\* The section is over: an event's deny goes to the agent, a marker exits.
Finish(h) ==
    /\ pc[h] = "unlock"
    /\ holder' = NoHook
    /\ IF job[h].op = "action"
       THEN Exit(h, "records", IF job[h].verdict = "deny" THEN "yes" ELSE "no")
       ELSE Exit(h, "marker", "no")
    /\ UNCHANGED <<fileVars, calls, stamp, otherVars>>

Failed(h) ==
    /\ pc[h] = "failed"
    /\ holder' = NoHook
    /\ Degrade(h)
    /\ UNCHANGED <<fileVars, calls, stamp, otherVars>>

\* A hook is killed; its lock file stays, a write may be left unfinished.
Crash(h) ==
    /\ Crashes /\ pc[h] # "idle"
    /\ holder' = IF holder = h THEN Dead ELSE holder
    /\ Gone(h)
    /\ \/ UNCHANGED <<log, closed, stamp>>
       \/ Torn /\ pc[h] = "append" /\ PartialWrite(h)
    /\ UNCHANGED <<head, calls, outcome, otherVars>>

\* A later caller steals the dead hook's lock once it is stale.
StealStale ==
    /\ holder = Dead
    /\ holder' = NoHook
    /\ UNCHANGED <<fileVars, hookVars, otherVars>>

-----------------------------------------------------------------------------
(* clearCaptureLog: the log goes first, then the mark, without the lock    *)

RemoveLog ==
    /\ reset = "idle" /\ resets < MaxResets
    /\ resets' = resets + 1
    /\ log' = <<>> /\ closed' = "yes"
    /\ reset' = "head"
    /\ UNCHANGED <<head, holder, hookVars, verify, verifies>>

RemoveHead ==
    /\ reset = "head"
    /\ head' = {}
    /\ reset' = "idle"
    /\ UNCHANGED <<log, closed, holder, hookVars, verify, resets, verifies>>

-----------------------------------------------------------------------------
(* runCaptureVerify: reads the log, then the mark, without the lock        *)

\* Mutant: a mark that lags behind is an alarm too.
TruncationOrLag(records, mark) == mark.count # Len(records)

\* checkTruncation: the mark is ahead of the records.
Truncation(records, mark) ==
    LET lastSeq == IF records = <<>> THEN 0 ELSE Last(records).seq
    IN  mark.count > Len(records) \/ mark.lastSeq > lastSeq

VerifyReads ==
    /\ verify.at = "idle" /\ verifies < MaxVerifies
    /\ verifies' = verifies + 1
    /\ verify' = [at |-> "head", lines |-> Parsed(log), since |-> stamp, report |-> "none"]
    /\ UNCHANGED <<fileVars, holder, hookVars, reset, resets>>

VerifyCompares ==
    /\ verify.at = "head"
    /\ verify' = [at |-> "idle", lines |-> <<>>, since |-> 0, report |->
                    IF head = {} THEN "unavailable"
                    ELSE IF \E m \in head : Truncation(verify.lines, m)
                         THEN "truncation" ELSE "ok"]
    /\ UNCHANGED <<fileVars, holder, hookVars, reset, resets, verifies>>

-----------------------------------------------------------------------------
Hook(h) ==
    \/ Deliver(h) \/ Lock(h) \/ LockThrows(h)
    \/ ReadTail(h) \/ AppendRecords(h) \/ AppendThrows(h)
    \/ WriteHead(h) \/ WriteHeadFails(h) \/ Finish(h) \/ Failed(h) \/ Crash(h)

Next ==
    \/ \E h \in Hooks : Hook(h)
    \/ StealStale
    \/ RemoveLog \/ RemoveHead
    \/ VerifyReads \/ VerifyCompares

Spec == Init /\ [][Next]_vars

-----------------------------------------------------------------------------
TypeOK ==
    /\ log \in Seq(Records \cup {Corrupt}) /\ closed \in {"yes", "no"}
    /\ head \subseteq Heads /\ (\A m, n \in head : m = n)
    /\ holder \in Hooks \cup {NoHook, Dead}
    /\ pc \in [Hooks -> {"idle", "lock", "tail", "append", "head", "unlock", "failed"}]
    /\ job \in [Hooks -> Jobs] /\ tail \in [Hooks -> Tails]
    /\ calls \in 0 .. MaxCalls /\ outcome \in [Hooks -> Outcomes]
    /\ stamp \in Nat
    /\ reset \in {"idle", "head"} /\ resets \in 0 .. MaxResets
    /\ verify.at \in {"idle", "head"} /\ verifies \in 0 .. MaxVerifies
    /\ verify.report \in {"none", "ok", "truncation", "unavailable"}

\* verifyCaptureChain: a record that does not continue its predecessor.
ChainProblem(i, j) == log[j].prev # log[i].hash \/ log[j].seq # log[i].seq + 1

\* Whatever hooks run, die, lose their mark or stop half way in a write, and
\* whenever the log is reset under them, two neighbouring lines that parse
\* fit: `capture verify` finds a break in the chain at most where a line
\* that does not parse lies between.
ChainSound ==
    \A i \in 1 .. Len(log) - 1 :
       (IsRecord(log[i]) /\ IsRecord(log[i + 1])) => ~ChainProblem(i, i + 1)

\* Sequence numbers grow along the readable log, torn lines or not: what the
\* observation window of a session relies on.
SeqIncreasing ==
    \A i, j \in DOMAIN log : Adjacent(log, i, j) => log[i].seq < log[j].seq

InSection(h) == pc[h] \in {"tail", "append", "head", "unlock", "failed"}

\* Neither a torn line nor a reset so far.
Untouched == resets = 0 /\ \A i \in DOMAIN log : IsRecord(log[i])

\* A `capture verify` of an untouched log reports a truncated tail only if a
\* hook has appended between its read of the log and its read of the mark.
TruncationHasCause ==
    [][(verify.at = "head" /\ verify'.report = "truncation")
         => ~Untouched \/ stamp # verify.since]_vars

\* The deny that reaches the agent comes after its evidence: all records of
\* the denied event can be read from the log, if no write to it was torn.
EvidenceFirst ==
    [][\A h \in Hooks :
         (pc[h] # "idle" /\ pc'[h] = "idle" /\ outcome'[h].emitted = "yes"
                         /\ outcome' # outcome /\ Untouched)
           => \A k \in 1 .. job[h].n : \E i \in DOMAIN log :
                 log[i].op = "action" /\ log[i].seq = tail[h].lastSeq + k]_vars
=============================================================================
