------------------------------ MODULE FileLock ------------------------------
(***************************************************************************)
(* lock.ts, withFileLock: a lock file created with O_EXCL, retried with a  *)
(* backoff, stolen when its mtime is older than staleMs, removed by path   *)
(* in the finally clause.  Each system call is a step of its own: other    *)
(* processes run between an open, a stat and an rm.                        *)
(***************************************************************************)
EXTENDS Naturals

CONSTANTS Procs,     \* processes that lock the same path
          NoProc,    \* owner of no file
          Orphan,    \* owner of a file whose creator died
          Retries,   \* opts.retries (60 in the code)
          MaySlow,   \* a section may outlive staleMs
          MayCrash,  \* a process may die inside a call
          MayRefuse  \* openSync may fail for another reason than EEXIST

ASSUME LockAssumption ==
    /\ NoProc \notin Procs /\ Orphan \notin Procs /\ NoProc # Orphan
    /\ Retries \in Nat
    /\ {MaySlow, MayCrash, MayRefuse} \subseteq BOOLEAN

VARIABLES owner,     \* who created the lock file on disk; NoProc: no file
          age,       \* "old" once the file's age exceeds staleMs
          place,        \* where each process is in withFileLock
          tries,     \* i of the for loop, capped at Retries (only i >= retries is read)
          oldest     \* history: "old" once some lock file has been

lockVars == <<owner, age, place, tries, oldest>>

PCs == {"idle", "open", "stat", "steal", "sleep", "fn", "unlink"}

TypeOK ==
    /\ owner \in Procs \cup {NoProc, Orphan}
    /\ age \in {"new", "old"}
    /\ place \in [Procs -> PCs]
    /\ tries \in [Procs -> 0 .. Retries]
    /\ oldest \in {"new", "old"}

LockInit ==
    /\ owner = NoProc
    /\ age = "new"
    /\ place = [p \in Procs |-> "idle"]
    /\ tries = [p \in Procs |-> 0]
    /\ oldest = "new"

GoesTo(p, l) == place' = [place EXCEPT ![p] = l]

\* i++ of the for loop, taken by every way round it, the continues included.
NextTry(p) == tries' = [tries EXCEPT ![p] = IF @ < Retries THEN @ + 1 ELSE @]

Call(p) ==
    /\ place[p] = "idle"
    /\ tries' = [tries EXCEPT ![p] = 0]
    /\ GoesTo(p, "open")
    /\ UNCHANGED <<owner, age, oldest>>

\* Mutant: the flag is "w", the file of another process is taken over.
CreateOver(p) ==
    /\ place[p] = "open"
    /\ owner' = p /\ age' = "new"
    /\ GoesTo(p, "fn")
    /\ UNCHANGED <<tries, oldest>>

\* openSync(lockPath, "wx") succeeds.
Create(p) ==
    /\ place[p] = "open" /\ owner = NoProc
    /\ owner' = p /\ age' = "new"
    /\ GoesTo(p, "fn")
    /\ UNCHANGED <<tries, oldest>>

\* openSync throws: the file is there, or the system refuses (no directory, no
\* rights, no room).  The catch does not look at the errno.
OpenFails(p) ==
    /\ place[p] = "open" /\ (owner # NoProc \/ MayRefuse)
    /\ GoesTo(p, "stat")
    /\ UNCHANGED <<owner, age, tries, oldest>>

\* statSync throws: the file vanished, go round without looking at i.
StatGone(p) ==
    /\ place[p] = "stat" /\ owner = NoProc
    /\ NextTry(p) /\ GoesTo(p, "open")
    /\ UNCHANGED <<owner, age, oldest>>

\* Mutant: a stale lock is waited for.
StaleSleeps(p) ==
    /\ place[p] = "stat" /\ owner # NoProc /\ age = "old"
    /\ GoesTo(p, "sleep")
    /\ UNCHANGED <<owner, age, tries, oldest>>

StatStale(p) ==
    /\ place[p] = "stat" /\ owner # NoProc /\ age = "old"
    /\ GoesTo(p, "steal")
    /\ UNCHANGED <<owner, age, tries, oldest>>

\* A fresh lock and retries left: sleep, then go round.
StatHeld(p) ==
    /\ place[p] = "stat" /\ owner # NoProc /\ age = "new" /\ tries[p] < Retries
    /\ GoesTo(p, "sleep")
    /\ UNCHANGED <<owner, age, tries, oldest>>

\* Mutant: the finally clause also covers the throw.
ThrowUnlinks(p) ==
    /\ place[p] = "stat" /\ owner # NoProc /\ age = "new" /\ tries[p] >= Retries
    /\ GoesTo(p, "unlink")
    /\ UNCHANGED <<owner, age, tries, oldest>>

\* A fresh lock and no retries left: throw to the caller.
Throw(p) ==
    /\ place[p] = "stat" /\ owner # NoProc /\ age = "new" /\ tries[p] >= Retries
    /\ GoesTo(p, "idle")
    /\ UNCHANGED <<owner, age, tries, oldest>>

Wake(p) ==
    /\ place[p] = "sleep"
    /\ NextTry(p) /\ GoesTo(p, "open")
    /\ UNCHANGED <<owner, age, oldest>>

\* rmSync(lockPath, force): whatever file has that name now, also a fresh one.
Unlink == owner' = NoProc /\ age' = "new"

Steal(p) ==
    /\ place[p] = "steal"
    /\ Unlink
    /\ NextTry(p) /\ GoesTo(p, "open")
    /\ UNCHANGED oldest

\* fn returns or throws; the finally clause starts.
FnEnds(p) ==
    /\ place[p] = "fn"
    /\ GoesTo(p, "unlink")
    /\ UNCHANGED <<owner, age, tries, oldest>>

Release(p) ==
    /\ place[p] = "unlink"
    /\ Unlink
    /\ GoesTo(p, "idle")
    /\ UNCHANGED <<tries, oldest>>

\* The process dies (kill, power): its lock file stays.
Dies(p) ==
    /\ MayCrash /\ place[p] # "idle"
    /\ owner' = IF owner = p THEN Orphan ELSE owner
    /\ GoesTo(p, "idle")
    /\ UNCHANGED <<age, tries, oldest>>

\* staleMs pass since the file was created.
Age ==
    /\ owner # NoProc /\ age = "new"
    /\ owner = Orphan \/ MaySlow
    /\ age' = "old" /\ oldest' = "old"
    /\ UNCHANGED <<owner, place, tries>>

Step(p) ==
    \/ Create(p) \/ OpenFails(p)
    \/ StatGone(p) \/ StatStale(p) \/ StatHeld(p) \/ Throw(p)
    \/ Wake(p) \/ Steal(p) \/ FnEnds(p) \/ Release(p)

LockNext == Age \/ \E p \in Procs : Call(p) \/ Step(p) \/ Dies(p)

LockSpec == LockInit /\ [][LockNext]_lockVars

\* The scheduler runs every process, and the clock advances.
Fairness == WF_lockVars(Age) /\ \A p \in Procs : WF_lockVars(Step(p))

LockLiveSpec == LockSpec /\ Fairness

-----------------------------------------------------------------------------
Inside(p) == place[p] = "fn"

\* No two processes are in a section at once: what the header of lock.ts
\* promises the capture log, the ledger and the key file.
MutualExclusion == \A p, q \in Procs : Inside(p) /\ Inside(q) => p = q

\* While no lock file has ever been old enough to steal, sections exclude
\* each other and the file on disk is the one of the process inside: the
\* rm in the finally clause never removes a stranger's lock.
SafeUntilStale ==
    oldest = "new" =>
       /\ MutualExclusion
       /\ \A p \in Procs : place[p] \in {"fn", "unlink"} => owner = p

\* A caller that is turned back for ever without the retry count being asked:
\* both continues go round without it, and without a sleep.
TurnedBackForEver(p) == []<><<StatGone(p) \/ Steal(p)>>_lockVars

\* Every call ends, taking the lock or throwing, unless for ever it finds the
\* file vanished or stale.  And a dead process's lock does not block the next
\* caller for ever: once it is stale and somebody is trying, it goes (or the
\* one who tries dies too), however often others come and go.
CallEnds ==
    \A p \in Procs :
       /\ (place[p] = "open" ~> place[p] = "idle") \/ TurnedBackForEver(p)
       /\ (owner = Orphan /\ age = "old" /\ place[p] = "open")
             ~> (owner # Orphan \/ place[p] = "idle")

-----------------------------------------------------------------------------
\* The process inside, for the mapping to Mutex.
Holder == IF \E p \in Procs : Inside(p)
          THEN CHOOSE p \in Procs : Inside(p) ELSE NoProc

Promised == INSTANCE Mutex WITH holder <- Holder

\* Until some lock file is old enough to steal, withFileLock implements the
\* serialised section: what any process does, a crash included, is one entry
\* or one exit of Mutex, or nothing.
ImplementsMutex == Promised!Init /\ [][oldest' = "old" \/ Promised!Next]_Holder
=============================================================================
