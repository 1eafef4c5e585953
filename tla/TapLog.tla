------------------------------- MODULE TapLog -------------------------------
(***************************************************************************)
(* tap.ts: the log one mcp-tap process keeps of the frames it relays.  A   *)
(* frame becomes a record with the next number; equal neighbouring reads   *)
(* are merged (Coalescer); TapLog chains the records, queues their lines   *)
(* up to a limit and appends the queue asynchronously, one append at a     *)
(* time.  What it drops it counts, and confesses in a marker.  A later     *)
(* process with the same pid goes on with the same file.                   *)
(* JavaScript runs each callback to its end: one callback is one step.     *)
(***************************************************************************)
EXTENDS HashChain, Integers, FiniteSets

CONSTANTS QueueCap,    \* queueCap (1000 in the code)
          RepeatCap,   \* the coalescer's cap (1000 in the code)
          MaxFrames,   \* bound: frames observed
          MaxBoots,    \* bound: processes with this pid
          Fails,       \* an append may fail, with part of it written
          Crashes,     \* the process may be killed
          LateFrames   \* the child's output may be read after its exit event

Reads == {"read", "list"}       \* two kinds of record that may be merged
Kinds == Reads \cup {"call"}    \* one that may not
NoWindow == [kind |-> "none", first |-> 0, last |-> 0, repeat |-> 0]

\* A line of the file that parses: a record as it is written.
Written == [kind : Kinds \cup {"meta", "marker", "shutdown"}, first : Nat, last : Nat,
            repeat : Nat, hash : Nat, prev : Nat, boot : Nat, count : Nat]

ASSUME TapAssumption ==
    /\ Corrupt \notin Written
    /\ {QueueCap, RepeatCap} \subseteq Nat \ {0} /\ RepeatCap > 1
    /\ {MaxFrames, MaxBoots} \subseteq Nat
    /\ {Fails, Crashes, LateFrames} \subseteq BOOLEAN

VARIABLES tapFile, closed,  \* the lines on disk; "no": the last one is unfinished
          phase,         \* off, up, or ending: the child has exited
          mem,           \* the fields of TapLog
          window,        \* the coalescer's open window
          observed,      \* history: boot and number of each frame's record
          boots, stamp   \* boots so far, the last hash used

logVars == <<tapFile, closed, phase, mem, window, observed, boots, stamp>>

NoMem == [seq |-> -1, last |-> NoHash, pending |-> <<>>, inflight |-> <<>>, dropped |-> 0]

LogInit ==
    /\ tapFile = <<>> /\ closed = "yes" /\ phase = "off"
    /\ mem = NoMem /\ window = NoWindow /\ observed = {}
    /\ boots = 0 /\ stamp = 0

-----------------------------------------------------------------------------
(* TapLog: append, chainPush, kick                                         *)

\* kick: when nothing is being written, the whole queue is.
Kick(m) == IF m.inflight = <<>> THEN [m EXCEPT !.inflight = m.pending, !.pending = <<>>] ELSE m

\* A line of the file; boot stands for the bootId of the tapMeta before it,
\* count for N of the marker dropped:N.
Line(rec, hash, prev, count) ==
    [kind |-> rec.kind, first |-> rec.first, last |-> rec.last, repeat |-> rec.repeat,
     hash |-> hash, prev |-> prev, boot |-> boots, count |-> count]

\* Mutant: every line names the predecessor the process began with.
ChainPushStale(m, rec, hash, count) ==
    Kick([m EXCEPT !.pending = Append(@, Line(rec, hash, m.last, count))])

ChainPush(m, rec, hash, count) ==
    Kick([m EXCEPT !.pending = Append(@, Line(rec, hash, m.last, count)), !.last = hash])

Plain(kind, n) == [kind |-> kind, first |-> n, last |-> n, repeat |-> 1]

\* append: a full queue drops the record before it is chained; the first
\* record after a loss is preceded by the marker, whose number is newer.
AppendRec(s, rec) ==
    IF Len(s.m.pending) >= QueueCap
    THEN [m |-> [s.m EXCEPT !.dropped = @ + 1], stamp |-> s.stamp]
    ELSE IF s.m.dropped > 0
    THEN LET m1 == ChainPush([s.m EXCEPT !.seq = @ + 1, !.dropped = 0],
                             Plain("marker", s.m.seq + 1), s.stamp + 1, s.m.dropped)
         IN  [m |-> ChainPush(m1, rec, s.stamp + 2, 0), stamp |-> s.stamp + 2]
    ELSE [m |-> ChainPush(s.m, rec, s.stamp + 1, 0), stamp |-> s.stamp + 1]

\* At most two records leave the coalescer at a time.
Sink(m, recs) ==
    LET none == [m |-> m, stamp |-> stamp]
        one  == IF recs = <<>> THEN none ELSE AppendRec(none, recs[1])
    IN  IF Len(recs) = 2 THEN AppendRec(one, recs[2]) ELSE one

-----------------------------------------------------------------------------
(* Coalescer                                                               *)

Flushed(w) == IF w = NoWindow THEN <<>> ELSE <<w>>

\* Mutant: a repetition moves the end of the window and is not counted.
PushedUncounted(w, rec) ==
    IF rec.kind \notin Reads THEN [window |-> NoWindow, out |-> Append(Flushed(w), rec)]
    ELSE IF w.kind # rec.kind THEN [window |-> rec, out |-> Flushed(w)]
    ELSE LET grown == [w EXCEPT !.last = rec.last]
         IN  IF grown.repeat >= RepeatCap THEN [window |-> NoWindow, out |-> <<grown>>]
             ELSE [window |-> grown, out |-> <<>>]

\* push: what becomes of the open window, and what it gives to the log.
Pushed(w, rec) ==
    IF rec.kind \notin Reads THEN [window |-> NoWindow, out |-> Append(Flushed(w), rec)]
    ELSE IF w.kind # rec.kind THEN [window |-> rec, out |-> Flushed(w)]
    ELSE LET grown == [w EXCEPT !.repeat = @ + 1, !.last = rec.last]
         IN  IF grown.repeat >= RepeatCap THEN [window |-> NoWindow, out |-> <<grown>>]
             ELSE [window |-> grown, out |-> <<>>]

-----------------------------------------------------------------------------
\* A process starts on the file that has its pid: it goes on from the last
\* line that parses, and writes its tapMeta.
Boot ==
    /\ phase = "off" /\ boots < MaxBoots
    /\ boots' = boots + 1
    /\ LET tail == LastRecord(tapFile, [last |-> -1, hash |-> NoHash])
           meta == Plain("meta", tail.last + 1)
           line == [kind |-> "meta", first |-> meta.first, last |-> meta.last, repeat |-> 1,
                    hash |-> stamp + 1, prev |-> tail.hash, boot |-> boots', count |-> 0]
       IN  mem' = [seq |-> meta.last, last |-> line.hash, pending |-> <<>>,
                   inflight |-> <<line>>, dropped |-> 0]
    /\ stamp' = stamp + 1
    /\ phase' = "up"
    /\ UNCHANGED <<tapFile, closed, window, observed>>

\* A frame is read, on either side: its record takes the next number and
\* goes through the coalescer to the log.
Observe(kind) ==
    /\ phase = "up" \/ (LateFrames /\ phase = "ending")
    /\ Cardinality(observed) < MaxFrames
    /\ LET n == mem.seq + 1
           p == Pushed(window, Plain(kind, n))
           s == Sink([mem EXCEPT !.seq = n], p.out)
       IN  /\ window' = p.window
           /\ mem' = s.m /\ stamp' = s.stamp
           /\ observed' = observed \cup {<<boots, n>>}
    /\ UNCHANGED <<tapFile, closed, phase, boots>>

-----------------------------------------------------------------------------
(* The append under way                                                    *)

\* Its callback: the lines of a failed append count as dropped.
Done(m, lost) == Kick([m EXCEPT !.inflight = <<>>, !.dropped = @ + lost])

Disk == [file |-> tapFile, closed |-> closed]

\* All of the lines are appended to what is on disk.
Whole(d, lines) ==
    IF lines = <<>> THEN d ELSE [file |-> AppendLines(d.file, d.closed, lines), closed |-> "yes"]

\* What may be on disk of lines whose write did not come to its end.
Partly(lines) ==
    {Disk} \cup {[file |-> AppendLines(tapFile, closed, Cut(lines, k)), closed |-> "no"] :
                    k \in 0 .. Len(lines) - 1}

DiskBecomes(d) == tapFile' = d.file /\ closed' = d.closed

AppendDone ==
    /\ mem.inflight # <<>>
    /\ DiskBecomes(Whole(Disk, mem.inflight))
    /\ mem' = Done(mem, 0)
    /\ UNCHANGED <<phase, window, observed, boots, stamp>>

AppendFails ==
    /\ Fails /\ mem.inflight # <<>>
    /\ \E d \in Partly(mem.inflight) : DiskBecomes(d)
    /\ mem' = Done(mem, Len(mem.inflight))
    /\ UNCHANGED <<phase, window, observed, boots, stamp>>

-----------------------------------------------------------------------------
(* The end of the process                                                  *)

\* session.end() flushes the window, then the shutdown record is appended.
ChildExits ==
    /\ phase = "up"
    /\ LET e == Sink(mem, Flushed(window))
           n == e.m.seq + 1
           s == AppendRec([e EXCEPT !.m = [@ EXCEPT !.seq = n]], Plain("shutdown", n))
       IN  mem' = s.m /\ stamp' = s.stamp
    /\ window' = NoWindow
    /\ phase' = "ending"
    /\ UNCHANGED <<tapFile, closed, observed, boots>>

Gone == phase' = "off" /\ mem' = NoMem /\ window' = NoWindow

\* drain found nothing left.
ExitDrained ==
    /\ phase = "ending" /\ mem.inflight = <<>> /\ mem.pending = <<>>
    /\ Gone
    /\ UNCHANGED <<tapFile, closed, observed, boots, stamp>>

\* Mutant: the process waits for its log, without a deadline.
WaitsForLog ==
    /\ phase = "ending" /\ mem.inflight = <<>>
    /\ Gone
    /\ UNCHANGED <<tapFile, closed, observed, boots, stamp>>

\* drain gave up after its deadline.  flushSyncBestEffort appends the queue
\* while the append under way lands before it, after it, or not to its end.
ExitTimedOut ==
    /\ phase = "ending" /\ mem.inflight # <<>>
    /\ \/ DiskBecomes(Whole(Whole(Disk, mem.inflight), mem.pending))
       \/ DiskBecomes(Whole(Whole(Disk, mem.pending), mem.inflight))
       \/ \E d \in Partly(mem.inflight) : DiskBecomes(Whole(d, mem.pending))
    /\ Gone
    /\ UNCHANGED <<observed, boots, stamp>>

Crash ==
    /\ Crashes /\ phase # "off"
    /\ \E d \in Partly(mem.inflight) : DiskBecomes(d)
    /\ Gone
    /\ UNCHANGED <<observed, boots, stamp>>

-----------------------------------------------------------------------------
LogNext ==
    \/ Boot \/ (\E kind \in Kinds : Observe(kind))
    \/ AppendDone \/ AppendFails
    \/ ChildExits \/ ExitDrained \/ ExitTimedOut \/ Crash

LogSpec == LogInit /\ [][LogNext]_logVars

\* The deadline of drain is a timer; nothing is assumed of the disk.
LogLiveSpec == LogSpec /\ WF_logVars(ExitDrained) /\ WF_logVars(ExitTimedOut)

-----------------------------------------------------------------------------
(* verifyTapFile                                                           *)

Breaks == {j \in DOMAIN tapFile : \E i \in DOMAIN tapFile :
              Adjacent(tapFile, i, j) /\ tapFile[j].prev # tapFile[i].hash}

\* Mutant: a gap beside a marker counts as explained.
GapsUnexplained ==
    LET p == Parsed(tapFile)
    IN  {i \in DOMAIN p : /\ p[i].first # (IF i = 1 THEN -1 ELSE p[i - 1].last) + 1
                          /\ p[i].kind # "marker" /\ (i > 1 => p[i - 1].kind # "marker")}

Gaps == LET p == Parsed(tapFile)
        IN  {i \in DOMAIN p : p[i].first # (IF i = 1 THEN -1 ELSE p[i - 1].last) + 1}

\* Nothing is said against the file: no line is damaged, chain and numbers have
\* no gap.  (verifyTapFile also checks the arithmetic of repeat, and looks whether
\* the last record is a shutdown; nothing hinges on these.)
VerifiesClean ==
    /\ \A i \in DOMAIN tapFile : IsRecord(tapFile[i])
    /\ Breaks = {} /\ Gaps = {}

-----------------------------------------------------------------------------
OnDisk == {tapFile[i] : i \in {k \in DOMAIN tapFile : IsRecord(tapFile[k])}}
Kept == OnDisk \cup Range(mem.pending) \cup Range(mem.inflight)
Covers(line, b, n) == line.boot = b /\ line.kind # "marker" /\ line.first <= n /\ n <= line.last

\* A break of the chain is never a false alarm: the predecessor a line names
\* is not in the file before it, or a flush at exit overtook the line.
BreakHasCause ==
    \A i, j \in DOMAIN tapFile :
       (Adjacent(tapFile, i, j) /\ tapFile[j].prev # tapFile[i].hash)
          => \/ \A k \in DOMAIN tapFile : (k < j /\ IsRecord(tapFile[k])) => tapFile[k].hash # tapFile[j].prev
             \/ tapFile[i].hash > tapFile[j].hash

\* Merging loses nothing: a line stands for exactly the frames observed
\* between its first and its last number.
MergeLossless ==
    \A l \in Kept : l.kind \in Kinds =>
       l.repeat = Cardinality({n \in l.first .. l.last : <<l.boot, n>> \in observed})

\* No frame is lost in silence, and the queue never exceeds its limit by more
\* than the marker, however slow the disk.  As long as the process lives, a
\* frame that is neither kept nor in the open window has been confessed, or is
\* still counted to be; a torn append that spoils the confession itself shows
\* as a damaged line.  And in a file against which `tap verify` has nothing to
\* say, only the end of a process can be missing, and only of one that left no
\* shutdown record: what an absent shutdown confesses, which verify does not look
\* for except in the last line.
NothingSilent ==
    /\ Len(mem.pending) <= QueueCap + 1
    /\ phase # "off" =>
          \A f \in observed :
             \/ f[1] # boots
             \/ \E l \in Kept : Covers(l, boots, f[2])
             \/ window # NoWindow /\ window.first <= f[2] /\ f[2] <= window.last
             \/ mem.dropped > 0
             \/ \E l \in Kept : l.kind = "marker" /\ l.boot = boots
             \/ \E i \in DOMAIN tapFile : tapFile[i] = Corrupt
    /\ VerifiesClean =>
          \A f \in observed :
             (\E l \in OnDisk : l.boot = f[1] /\ (f[2] <= l.last \/ l.kind = "shutdown"))
                => \E l \in OnDisk : Covers(l, f[1], f[2])

\* The child's exit is passed on, whatever becomes of the log.
ExitEnds == phase = "ending" ~> phase = "off"
=============================================================================
