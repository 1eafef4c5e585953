------------------------------ MODULE TapWindow ------------------------------
(***************************************************************************)
(* begin.ts and tap.ts on top of SessionWindow: once session.json is       *)
(* written, begin notes for each tap log the number of its last record, in *)
(* a file of its own (cursor.json); the tap summary of a receipt counts    *)
(* the records that start beyond it.  mcp-tap goes on meanwhile: its       *)
(* records wait in an open merge window and in a queue before they reach   *)
(* the disk.  The log is that of one server and one process id; what the   *)
(* queue drops and how it is chained is in TapLog.                         *)
(***************************************************************************)
EXTENDS SessionWindow

CONSTANTS MaxTapped,    \* bound: calls that are tapped
          MaxBoots,     \* bound: processes on the log
          MaxRemovals   \* bound: removals of the log file

ASSUME TapWindowAssumption == {MaxTapped, MaxBoots, MaxRemovals} \subseteq Nat

VARIABLES tapped,   \* calls so far: each is known by its place in their order
          tap,      \* the process: number, open window, queue; {} when not running
          disk,     \* the records of the log, in order
          cursor,   \* cursor.json: {} or the last number begin saw
          due,      \* begins that have written session.json and no cursor yet
          boots, removals,
          old,      \* history: the calls on disk when this session's cursor was, or
                    \* was not, taken; {} until then
          reborn    \* history: a process started anew on a log that was removed

tapVars == <<tapped, tap, disk, cursor, due, boots, removals, old, reborn>>
everything == <<allVars, tapVars>>

TInit ==
    /\ WInit
    /\ tapped = 0 /\ tap = {} /\ disk = <<>> /\ cursor = {} /\ due = {}
    /\ boots = 0 /\ removals = 0 /\ old = {} /\ reborn = "no"

\* A record stands for the calls it counts, under the numbers first to last.
Calls(recs) == UNION {recs[i].calls : i \in DOMAIN recs}

\* tapTailRecord
TapTail == IF disk = <<>> THEN 0 ELSE Last(disk).last

TapBoot ==
    /\ tap = {} /\ boots < MaxBoots
    /\ tap' = {[seq |-> TapTail, open |-> <<>>, queue |-> <<>>]}
    /\ boots' = boots + 1
    /\ reborn' = IF disk = <<>> /\ removals > 0 THEN "yes" ELSE reborn
    /\ UNCHANGED <<allVars, tapped, disk, cursor, due, removals, old>>

\* A call takes the next number, and is merged with the one before it or not.
TapCall(merged) ==
    /\ tapped < MaxTapped
    /\ \E p \in tap :
          LET n == p.seq + 1
              rec == [first |-> n, last |-> n, calls |-> {tapped + 1}]
              more(o) == [o EXCEPT !.last = n, !.calls = @ \cup {tapped + 1}]
          IN  \/ /\ merged /\ p.open # <<>>
                 /\ tap' = {[p EXCEPT !.seq = n, !.open = <<more(p.open[1])>>]}
              \/ /\ ~merged
                 /\ tap' = {[seq |-> n, open |-> <<rec>>, queue |-> p.queue \o p.open]}
    /\ tapped' = tapped + 1
    /\ UNCHANGED <<allVars, disk, cursor, due, boots, removals, old, reborn>>

TapFlush ==
    /\ \E p \in tap : p.open # <<>> /\ tap' = {[p EXCEPT !.open = <<>>, !.queue = @ \o p.open]}
    /\ UNCHANGED <<allVars, tapped, disk, cursor, due, boots, removals, old, reborn>>

TapWrite ==
    /\ \E p \in tap : /\ p.queue # <<>>
                      /\ disk' = disk \o p.queue
                      /\ tap' = {[p EXCEPT !.queue = <<>>]}
    /\ UNCHANGED <<allVars, tapped, cursor, due, boots, removals, old, reborn>>

TapDies ==
    /\ tap # {} /\ tap' = {}
    /\ UNCHANGED <<allVars, tapped, disk, cursor, due, boots, removals, old, reborn>>

\* Somebody tidies up; a process that runs will write a new file.
TapRemoved ==
    /\ disk # <<>> /\ removals < MaxRemovals
    /\ disk' = <<>> /\ removals' = removals + 1
    /\ UNCHANGED <<allVars, tapped, tap, cursor, due, boots, old, reborn>>

-----------------------------------------------------------------------------
\* session.json is written: no cursor belongs to this session yet.
SessionWritten(b) ==
    /\ BeginWrites(b)
    /\ due' = due \cup {b} /\ old' = {}
    /\ UNCHANGED <<tapped, tap, disk, cursor, boots, removals, reborn>>

Seen(taken) == [calls |-> Calls(disk), taken |-> taken]

\* Mutant: the number the process has reached, not the one on disk.
TapCursorSnapshotAhead(b) ==
    /\ b \in due
    /\ cursor' = {IF tap = {} THEN TapTail ELSE (CHOOSE p \in tap : TRUE).seq}
    /\ old' = {Seen("yes")} /\ due' = due \ {b}
    /\ UNCHANGED <<allVars, tapped, tap, disk, boots, removals, reborn>>

TapCursorSnapshot(b) ==
    /\ b \in due
    /\ cursor' = {TapTail}
    /\ old' = {Seen("yes")} /\ due' = due \ {b}
    /\ UNCHANGED <<allVars, tapped, tap, disk, boots, removals, reborn>>

\* begin dies before it, or the snapshot fails: both are passed over.
NoSnapshot(b) ==
    /\ Crashes /\ b \in due /\ due' = due \ {b}
    /\ old' = {Seen("no")}
    /\ UNCHANGED <<allVars, tapped, tap, disk, cursor, boots, removals, reborn>>

TNext ==
    \/ Next /\ UNCHANGED <<windowVars, tapVars>>
    \/ DropSession /\ UNCHANGED tapVars
    \/ \E b \in Begins :
          \/ b \notin due /\ BeginChecks(b) /\ UNCHANGED tapVars
          \/ BeginSnapshots(b) /\ UNCHANGED tapVars
          \/ SessionWritten(b) \/ TapCursorSnapshot(b) \/ NoSnapshot(b)
          \/ BeginDies(b) /\ UNCHANGED tapVars
    \/ TapBoot \/ TapFlush \/ TapWrite \/ TapDies \/ TapRemoved
    \/ \E merged \in BOOLEAN : TapCall(merged)

TSpec == TInit /\ [][TNext]_everything

-----------------------------------------------------------------------------
CursorAt == IF cursor = {} THEN 0 ELSE CHOOSE c \in cursor : TRUE

\* buildTapSummary: the calls of the records that start beyond the cursor.
Summarised == UNION {disk[i].calls : i \in {k \in DOMAIN disk : disk[k].first > CursorAt}}

\* A tapped call that reaches the disk after begin looked is in the session's
\* summary, whatever was open or queued at that moment, whichever process
\* writes it and whether the log was removed under it; the same when begin
\* took no cursor and an older one is used.  A process with the same id that
\* starts anew on a removed log is the exception.  And what was on disk when
\* begin took the cursor is not counted for the new session.
TapWindowExact ==
    \A o \in old :
       /\ reborn = "no" => Calls(disk) \ o.calls \subseteq Summarised
       /\ o.taken = "yes" => Summarised \cap o.calls = {}
=============================================================================
