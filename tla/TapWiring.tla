------------------------------ MODULE TapWiring ------------------------------
(***************************************************************************)
(* tap.ts: how servers come to be tapped.  `tap install --write` rewrites  *)
(* the clients' configuration files so that a server is started through    *)
(* mcp-tap, and keeps the originals in a sidecar file of its own;          *)
(* `tap uninstall --write` puts them back; the coverage of a receipt is    *)
(* computed from both.  The configuration files belong to the user and to  *)
(* the clients, which rewrite them at any time.                            *)
(*                                                                         *)
(* A command stands for command, arguments and names of the environment:   *)
(* what serverConfigHash is taken over.  Without --write nothing changes.  *)
(***************************************************************************)
EXTENDS Naturals, FiniteSets

CONSTANTS Slots,      \* pairs <<configuration file, server name>>
          Commands,   \* what a server may be started with
          None,       \* no command
          MaxRuns,    \* bound: install and uninstall, together
          MaxEdits,   \* bound: changes by the user or a client
          MayDie,     \* a run may die between its writes, or tear the sidecar
          MayMisread  \* a configuration may be unreadable when it is looked at

Config(s) == s[1]
Name(s) == s[2]
Configs == {Config(s) : s \in Slots}
Names == {Name(s) : s \in Slots}

ASSUME WiringAssumption ==
    /\ None \notin Commands \cup Configs
    /\ {MaxRuns, MaxEdits} \subseteq Nat /\ {MayDie, MayMisread} \subseteq BOOLEAN

\* An entry of mcpServers: none; "bare", which cannot be wrapped (a url, or no
\* command); plain; or wrapped, with the command behind the "--".
Entry(kind, cmd) == [kind |-> kind, cmd |-> cmd]
UserEntries == {Entry("absent", None), Entry("bare", None)} \cup {Entry("plain", c) : c \in Commands}
Wrapped(c) == Entry("wrapped", c)
Entries == UserEntries \cup {Wrapped(c) : c \in Commands}

VARIABLES file,      \* the configuration files, entry by entry
          side,      \* the sidecar wrapped.json
          run,       \* the install or uninstall under way
          runs, edits,
          covered,   \* history: slots of a finished install, not changed since
          marred     \* history: slots where a death, a torn write or an
                     \* unreadable file came between configuration and sidecar

wiringVars == <<file, side, run, runs, edits, covered, marred>>

Nothing == [s \in Slots |-> Entry("absent", None)]
Empty == [orig |-> [s \in Slots |-> None], excluded |-> {}, unwrapped |-> {}]

\* cs: the configurations asked for; todo: those still to visit, at: the one
\* that is read and not yet written; saw: those that were readable; mine, copy:
\* sidecar and entries in memory; stale: slots changed since they were read.
Idle == [pc |-> "idle", op |-> "install", cs |-> {}, todo |-> {}, at |-> None, saw |-> {},
         except |-> {}, mine |-> Empty, copy |-> Nothing, stale |-> {}]

WiringInit ==
    /\ file \in [Slots -> UserEntries]
    /\ side = Empty /\ run = Idle /\ runs = 0 /\ edits = 0
    /\ covered = {} /\ marred = {}

-----------------------------------------------------------------------------
(* Pure parts                                                              *)

In(c) == {s \in Slots : Config(s) = c}

\* What install makes of an entry, --except taken into account.
Wrap(s, e, except) ==
    IF e.kind = "plain" /\ Name(s) \notin except THEN Wrapped(e.cmd) ELSE e

\* What install notes in its copy m of the sidecar about configuration c with
\* entries e: originals (one per slot, the new one in the place of the old),
\* declared exclusions, servers that cannot be wrapped.
NoteInstall(m, c, e, except) ==
    LET new == {s \in In(c) : e[s].kind = "plain" /\ Name(s) \notin except}
    IN  [m EXCEPT !.orig = [s \in Slots |-> IF s \in new THEN e[s].cmd ELSE m.orig[s]],
                  !.excluded = @ \cup {s \in In(c) : e[s].kind = "plain" /\ Name(s) \in except},
                  !.unwrapped = @ \cup {s \in In(c) : e[s].kind = "bare"}]

Recorded(m) == {s \in Slots : m.orig[s] # None}

\* What uninstall makes of an entry: one that is not wrapped is left alone.
Restore(s, e, m) ==
    IF s \in Recorded(m) /\ e.kind = "wrapped" THEN Entry("plain", m.orig[s]) ELSE e

\* Mutant: every entry is dropped from the sidecar, not only the targets.
CleanAll(m, cs) == [m EXCEPT !.orig = [s \in Slots |-> None]]

\* The targets, entries of the configurations cs, leave the sidecar.
Clean(m, cs) ==
    [m EXCEPT !.orig = [s \in Slots |-> IF Config(s) \in cs THEN None ELSE m.orig[s]]]

-----------------------------------------------------------------------------
(* tap install --write and tap uninstall --write.  Each loads the sidecar  *)
(* once, then reads and writes one configuration file after the other, and *)
(* writes the whole sidecar last.                                          *)

\* All configurations, or the one named by --config; servers to --except.
StartInstall(cs, except) ==
    /\ run.pc = "idle" /\ runs < MaxRuns
    /\ run' = [Idle EXCEPT !.pc = "next", !.cs = cs, !.todo = cs,
                           !.except = except, !.mine = side]
    /\ runs' = runs + 1
    /\ UNCHANGED <<file, side, edits, covered, marred>>

\* Only configurations with a recorded server are visited; none: nothing to do.
StartUninstall(cs) ==
    /\ run.pc = "idle" /\ runs < MaxRuns
    /\ LET targets == {s \in Recorded(side) : Config(s) \in cs}
       IN  /\ targets # {}
           /\ run' = [Idle EXCEPT !.pc = "next", !.op = "uninstall", !.cs = cs,
                                  !.todo = {Config(s) : s \in targets}, !.mine = side]
    /\ runs' = runs + 1
    /\ UNCHANGED <<file, side, edits, covered, marred>>

\* A configuration is read and changed in memory; install notes what it does.
Read(c) ==
    /\ run.pc = "next" /\ c \in run.todo
    /\ LET new == [s \in Slots |->
                     IF Config(s) # c THEN Nothing[s]
                     ELSE IF run.op = "install" THEN Wrap(s, file[s], run.except)
                     ELSE Restore(s, file[s], run.mine)]
       IN  run' = [run EXCEPT !.pc = "write", !.at = c, !.saw = @ \cup {c}, !.copy = new,
                              !.mine = IF run.op = "install"
                                       THEN NoteInstall(@, c, file, run.except) ELSE @]
    /\ UNCHANGED <<file, side, runs, edits, covered, marred>>

\* It is missing or does not parse: it is passed over.
Misread(c) ==
    /\ MayMisread /\ run.pc = "next" /\ c \in run.todo
    /\ run' = [run EXCEPT !.todo = @ \ {c}]
    /\ marred' = marred \cup (IF run.op = "uninstall" THEN In(c) ELSE {})
    /\ UNCHANGED <<file, side, runs, edits, covered>>

\* The whole file is written, over what somebody else wrote meanwhile.
Write ==
    /\ run.pc = "write"
    /\ file' = [s \in Slots |-> IF Config(s) = run.at THEN run.copy[s] ELSE file[s]]
    /\ run' = [run EXCEPT !.pc = "next", !.todo = @ \ {run.at}, !.at = None, !.copy = Nothing]
    /\ UNCHANGED <<side, runs, edits, covered, marred>>

Save ==
    /\ run.pc = "next" /\ run.todo = {}
    /\ side' = IF run.op = "install" THEN run.mine ELSE Clean(run.mine, run.cs)
    /\ covered' = IF run.op = "install"
                  THEN covered \cup {s \in Slots : Config(s) \in run.saw /\ s \notin run.stale}
                  ELSE {s \in covered : Config(s) \notin run.cs}
    /\ run' = Idle
    /\ UNCHANGED <<file, runs, edits, marred>>

-----------------------------------------------------------------------------
(* What may come between                                                   *)

\* Servers whose wrapping is on disk and whose original is not.
Unsaved == {s \in Slots : /\ run.mine.orig[s] # side.orig[s]
                          /\ Config(s) \in run.saw \ {run.at}}

Die ==
    /\ MayDie /\ run.pc # "idle"
    /\ marred' = marred \cup Unsaved
    /\ run' = Idle
    /\ UNCHANGED <<file, side, runs, edits, covered>>

\* It dies within the write of the sidecar, which then reads as an empty one.
DieSaving ==
    /\ MayDie /\ run.pc = "next" /\ run.todo = {}
    /\ side' = Empty /\ marred' = Slots /\ covered' = {}
    /\ run' = Idle
    /\ UNCHANGED <<file, runs, edits>>

\* The user or a client changes an entry: to one of its own, or the command
\* behind the "--" of a wrapped one.
Edit(s, e) ==
    /\ edits < MaxEdits /\ e # file[s]
    /\ e.kind = "wrapped" => file[s].kind = "wrapped"
    /\ file' = [file EXCEPT ![s] = e]
    /\ edits' = edits + 1
    /\ covered' = covered \ {s}
    /\ marred' = IF e.kind = "wrapped" \/ run.at = Config(s) THEN marred ELSE marred \ {s}
    /\ run' = IF Config(s) \in run.saw THEN [run EXCEPT !.stale = @ \cup {s}] ELSE run
    /\ UNCHANGED <<side, runs>>

-----------------------------------------------------------------------------
Asked == {Configs} \cup {{c} : c \in Configs}

WiringNext ==
    \/ \E cs \in Asked : StartUninstall(cs) \/ \E except \in SUBSET Names : StartInstall(cs, except)
    \/ \E c \in Configs : Read(c) \/ Misread(c)
    \/ Write \/ Save \/ Die \/ DieSaving
    \/ \E s \in Slots, e \in Entries : Edit(s, e)

WiringSpec == WiringInit /\ [][WiringNext]_wiringVars

-----------------------------------------------------------------------------
(* Coverage: expected, excluded, unwrapped and configDrift of buildTapSummary *)

\* Mutant: a wrapped entry is taken for what it was when it was wrapped.
DriftedShallow(s) == s \in Recorded(side) /\ file[s].kind \in {"plain", "absent", "bare"}
                     /\ file[s].cmd # side.orig[s]

\* The entry is gone, or what it starts, unwrapped, is not what was recorded.
Drifted(s) == s \in Recorded(side) /\ file[s].cmd # side.orig[s]

Declared == Recorded(side) \cup side.excluded \cup side.unwrapped

-----------------------------------------------------------------------------

\* A wrapped server can be put back: its original is in the sidecar, whatever
\* installs, uninstalls and edits went before.  What can come in between is a
\* run that dies before the sidecar, a torn sidecar, or an uninstall to which
\* the configuration was unreadable: it drops the records all the same.  And no
\* server is passed over in silence: after an install every entry of the
\* configurations it could read is recorded as wrapped, excluded or unwrappable.
Restorable ==
    /\ run.pc = "idle" =>
          \A s \in Slots \ marred : file[s].kind = "wrapped" => s \in Recorded(side)
    /\ \A s \in covered \ marred : file[s].kind # "absent" => s \in Declared

\* Install and uninstall do not change what a server is started with.  The
\* exceptions: an edit is lost that was made between reading and writing its
\* file, and uninstall reverts an entry that coverage reports as drifted.
OnlyDriftReverts ==
    [][\A s \in Slots :
          (file'[s].cmd # file[s].cmd /\ edits' = edits)
             => s \in run.stale \/ (run.op = "uninstall" /\ Drifted(s))]_wiringVars
=============================================================================
