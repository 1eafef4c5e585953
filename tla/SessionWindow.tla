--------------------------- MODULE SessionWindow ---------------------------
(***************************************************************************)
(* start.ts, reset.ts and observation.ts on top of the capture log: begin  *)
(* and start save the log's current sequence number as the boundary of a   *)
(* new session, and what lies beyond it is what the session has observed.  *)
(* The boundary is read from the high-water mark without capture.lock, and *)
(* session.json is written without a lock of its own.                      *)
(***************************************************************************)
EXTENDS CaptureLog

CONSTANTS Begins,     \* processes running begin or start
          MaxBegins,  \* bound: how many of them run
          MaxDrops,   \* bound: runs of `agent-receipt reset`
          Alone       \* one begin at a time

ASSUME SessionAssumption ==
    MaxBegins \in Nat /\ MaxDrops \in Nat /\ Alone \in BOOLEAN

VARIABLES session,  \* session.json: {} or its boundary
          begin,    \* each begin: position, and the boundary it read
          begins, drops

windowVars == <<session, begin, begins, drops>>
allVars == <<vars, windowVars>>

\* session.json holds [boundary, since, level]. The last two are what the
\* properties remember of the moment the boundary was read: the last hash used
\* (what is appended later has a greater one), and whether the mark was level
\* with the log.
WInit ==
    /\ Init
    /\ session = {}
    /\ begin = [b \in Begins |-> [at |-> "idle", read |-> {}]]
    /\ begins = 0 /\ drops = 0

-----------------------------------------------------------------------------
TailSeq == LastRecord(log, [seq |-> 0, hash |-> NoHash]).seq

\* Mutant: the number after the last one used.
NextBoundary == 1 + IF head = {} THEN TailSeq ELSE (CHOOSE m \in head : TRUE).lastSeq

\* currentCaptureBoundary: the mark if there is one, else the log's tail.
CurrentBoundary ==
    IF head = {} THEN TailSeq ELSE (CHOOSE m \in head : TRUE).lastSeq

\* startCore goes on only where there is no session.json.
BeginChecks(b) ==
    /\ begin[b].at = "idle" /\ begins < MaxBegins
    /\ Alone => \A c \in Begins : begin[c].at = "idle"
    /\ session = {}
    /\ begins' = begins + 1
    /\ begin' = [begin EXCEPT ![b] = [at |-> "snapshot", read |-> {}]]
    /\ UNCHANGED <<vars, session, drops>>

BeginSnapshots(b) ==
    /\ begin[b].at = "snapshot"
    /\ begin' = [begin EXCEPT ![b] = [at |-> "write", read |->
            {[boundary |-> CurrentBoundary, since |-> stamp,
              level |-> IF \A m \in head : m.lastSeq = TailSeq THEN "yes" ELSE "no"]}]]
    /\ UNCHANGED <<vars, session, begins, drops>>

BeginWrites(b) ==
    /\ begin[b].at = "write"
    /\ session' = begin[b].read
    /\ begin' = [begin EXCEPT ![b] = [at |-> "idle", read |-> {}]]
    /\ UNCHANGED <<vars, begins, drops>>

BeginDies(b) ==
    /\ Crashes /\ begin[b].at # "idle"
    /\ begin' = [begin EXCEPT ![b] = [at |-> "idle", read |-> {}]]
    /\ UNCHANGED <<vars, session, begins, drops>>

\* resetCore: the next verify covers the whole tree.
DropSession ==
    /\ session # {} /\ drops < MaxDrops
    /\ session' = {}
    /\ drops' = drops + 1
    /\ UNCHANGED <<vars, begin, begins>>

WNext ==
    \/ Next /\ UNCHANGED windowVars
    \/ DropSession
    \/ \E b \in Begins :
          BeginChecks(b) \/ BeginSnapshots(b) \/ BeginWrites(b) \/ BeginDies(b)

WSpec == WInit /\ [][WNext]_allVars

-----------------------------------------------------------------------------
(* assessObservation, for a project whose hooks are wired                  *)

Readable == {i \in DOMAIN log : IsRecord(log[i])}

InWindow(r, boundary) == r.seq > boundary

Actions(boundary) ==
    {i \in Readable : log[i].op = "action" /\ InWindow(log[i], boundary)}

\* Mutant: any record will do.
AssessAll(boundary) ==
    IF \E i \in Readable : log[i].op = "degraded" THEN "degraded"
    ELSE IF Readable = {} THEN "silent" ELSE "observed"

\* loadObservationHealth hands it no chain problems and no truncation; the
\* degraded markers are counted over the whole log.
Assess(boundary) ==
    IF \E i \in Readable : log[i].op = "degraded" THEN "degraded"
    ELSE IF Actions(boundary) = {} THEN "silent" ELSE "observed"

-----------------------------------------------------------------------------
\* Everything recorded after begin read its boundary is in the session's
\* window, however many hooks were in their section then, died, or lost the
\* mark: a late record is never taken for an old one.  And when the mark was
\* level with the log as begin read it, nothing recorded before is in it.
WindowExact ==
    \A s \in session, i \in Readable :
       /\ log[i].hash > s.since => InWindow(log[i], s.boundary)
       /\ (s.level = "yes" /\ InWindow(log[i], s.boundary)) => log[i].hash > s.since

\* And the observation of such a session is called healthy only when one of
\* its own actions was recorded.
ObservedIsReal ==
    \A s \in session :
       (s.level = "yes" /\ Assess(s.boundary) = "observed")
          => \E i \in Readable : log[i].op = "action" /\ log[i].hash > s.since
=============================================================================
