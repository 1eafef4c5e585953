----------------------------- MODULE GuardRules -----------------------------
(***************************************************************************)
(* policy.ts, guard.ts, agentguard.ts, hook-deny.ts, cursor-hook.ts and the *)
(* pure half of capture.ts: what a hook makes of a tool call, what the      *)
(* rules say of it, and what is computed from the records later.  A glob is *)
(* the set of paths it matches; a path is [dir, name, ext], dir Null outside*)
(* .agent-guard/.  A command is [net, dels, id, kind], as its text shows.   *)
(***************************************************************************)
EXTENDS Integers, Sequences, FiniteSets, SequencesExt

CONSTANTS Null,     \* absent
          Broken    \* a file that does not parse

-----------------------------------------------------------------------------
(* The envelope: who called, and what                                      *)

Has(p, f) == f \in DOMAIN p

\* Mutant: goes by the id of the session alone.
InferById(p) == IF Has(p, "conversation_id") /\ ~Has(p, "session_id") THEN "cursor" ELSE "claude"

\* inferHookVendor; an event is [case, phase].
InferHookVendor(p) ==
    IF \/ Has(p, "cursor_version")
       \/ Has(p, "event") /\ p.event.case = "lower" THEN "cursor"
    ELSE IF \/ Has(p, "transcript_path") /\ Has(p, "event") /\ p.event.phase = "pre"
            \/ Has(p, "permission_mode")
            \/ Has(p, "event") /\ p.event.phase \in {"pre", "post", "fail"}
            \/ Has(p, "session_id") /\ ~Has(p, "conversation_id") THEN "claude"
    ELSE IF Has(p, "conversation_id") THEN "cursor" ELSE "claude"

\* normalizeEnvelope; for Cursor after adaptCursorHookPayload, which knows the
\* tool by Cursor's name for it and drops a session_id.
SessionOf(p, vendor) ==
    IF Has(p, "session_id") /\ vendor # "cursor" THEN p.session_id
    ELSE IF Has(p, "sessionId") THEN p.sessionId
    ELSE IF Has(p, "conversation_id") THEN p.conversation_id ELSE Null
ToolOf(tool, vendor) == IF vendor = "cursor" /\ tool = "Shell" THEN "Bash" ELSE tool

Writers == {"Write", "Edit", "MultiEdit", "NotebookEdit"}
Readers == {"Read", "NotebookRead"}

\* classifyEvent: the operations of a call, as [op, path, hash, kind].  A
\* command that looks like a network call is that and nothing else, and one
\* that deletes is that; a command itself is kept as a fingerprint.
Op(op, path, hash, kind) == [op |-> op, path |-> path, hash |-> hash, kind |-> kind]
ClassifyEvent(tool, target) ==
    CASE tool \in Readers -> <<Op("read", target, Null, Null)>>
      [] tool \in Writers -> <<Op("write", target, Null, Null)>>
      [] tool = "Bash" ->
            IF target.net THEN <<Op("network", Null, Null, Null)>>
            ELSE IF target.dels # <<>>
            THEN [i \in DOMAIN target.dels |-> Op("delete", target.dels[i], Null, Null)]
            ELSE <<Op("command", Null, target.id, target.kind)>>
      [] tool \in {"WebFetch", "WebSearch"} -> <<Op("network", Null, Null, Null)>>
      [] tool \in {"Task", "mcp"} -> <<Op("command", Null, Null, Null)>>
      [] OTHER -> <<>>

-----------------------------------------------------------------------------
(* Rules                                                                   *)

\* loadPolicySafe and the contract's try: a broken file gives no rules, and
\* without a policy the mode is warn.
LoadPolicy(file) == IF file \in {Null, Broken} THEN Null ELSE file
DeniedPaths(file) == IF file \in {Null, Broken} THEN {} ELSE file
ForbidAlways(p) == IF p = Null THEN {} ELSE p.forbidAlways
Blocks(p) == p # Null /\ p.guard = "block"

None == [action |-> "none", rule |-> <<"none">>]
Verdict(p, rule) == [action |-> IF Blocks(p) THEN "deny" ELSE "warn", rule |-> rule]

\* evalGuard: the class of an action first, then the path of a change; the
\* contract's rules come before the policy's.
ActionClass(r) == CASE r.op = "network" -> "network" [] r.op = "command" -> r.kind [] OTHER -> Null
EvalGuard(r, policyFile, contractFile) ==
    LET p == LoadPolicy(policyFile)
    IN  IF ActionClass(r) # Null /\ p # Null /\ ActionClass(r) \in p.forbidActions
        THEN Verdict(p, <<"policy.forbid_actions", ActionClass(r)>>)
        ELSE IF r.op \notin {"write", "delete"} THEN None
        ELSE IF r.path \in DeniedPaths(contractFile) THEN Verdict(p, <<"contract.denied_paths", r.path>>)
        ELSE IF r.path \in ForbidAlways(p) THEN Verdict(p, <<"policy.forbidAlways", r.path>>)
        ELSE None

LoopKinds == {"test", "build", "lint"}
Changes(r) == r.op \in {"write", "delete"}

\* Mutant: another session's change counts as well.
PriorAnywhere(log, session, hash) ==
    Cardinality({i \in DOMAIN log :
        /\ log[i].session = session /\ log[i].phase = "pre" /\ log[i].hash = hash
        /\ ~\E j \in i .. Len(log) : Changes(log[j])})

\* The scan of evalLoopGuard, from the end of the log to the session's last
\* change: how often the command was announced since.
Prior(log, session, hash) ==
    Cardinality({i \in DOMAIN log :
        /\ log[i].session = session /\ log[i].phase = "pre" /\ log[i].hash = hash
        /\ ~\E j \in i .. Len(log) : log[j].session = session /\ Changes(log[j])})

EvalLoopGuard(r, session, policyFile, log) ==
    LET p == LoadPolicy(policyFile)
    IN  IF /\ r.op = "command" /\ r.hash # Null /\ r.kind \in LoopKinds
           /\ session # Null /\ p # Null /\ p.loopRepeatThreshold # Null
           /\ Prior(log, session, r.hash) + 1 >= p.loopRepeatThreshold
        THEN Verdict(p, <<"loop", r.hash>>) ELSE None

\* policyObservations, and what policy check says of what git sees as changed.
Observations(p, changed) ==
    [forbidAlwaysHits |-> changed \cap p.forbidAlways,
     protectAlwaysHits |-> changed \cap p.protectAlways,
     approvalNeededHits |-> changed \cap p.requireApprovalFor]
PolicyCheck(policyFile, changed) ==
    IF policyFile = Broken THEN 2
    ELSE IF policyFile = Null \/ Observations(policyFile, changed).forbidAlwaysHits = {} THEN 0 ELSE 1

\* evalTripwire, which verify, receipt and commit-check show.
Tripwire(policyFile, changed) ==
    [present |-> policyFile # Null, error |-> policyFile = Broken,
     obs |-> IF policyFile \in {Null, Broken} THEN Null ELSE Observations(policyFile, changed)]

-----------------------------------------------------------------------------
(* Paths under .agent-guard/                                               *)

RuntimeDirs == {"receipts", "keys", "audit-packs", "notes", "decisions", "tap", "anchors", "completions"}
RuntimeFiles == {"session.json", "ledger.jsonl", "decisionlog.jsonl", "dashboard.html", "inbox.html",
                 "capture.jsonl", "capture.head.json", "pending-completion.json"}

\* classifyAgentGuardPath.
ClassifyAgentGuardPath(f) ==
    IF f.dir = Null THEN "PRODUCT_CHANGE"
    ELSE IF f.dir = "" /\ (f.ext \in {"yaml", "yml"} \/ f.name = "README.md") THEN "CONTROL_PLANE"
    ELSE IF \/ f.dir = "" /\ f.name \in RuntimeFiles
            \/ f.dir \in RuntimeDirs
            \/ f.dir = "" /\ f.name = "proof" /\ f.ext = "html"
            \/ f.ext \in {"sig.json", "approval.json"} THEN "RUNTIME_OUTPUT"
    ELSE "UNKNOWN_AGENT_GUARD"
IsToolOutput(f) == ClassifyAgentGuardPath(f) = "RUNTIME_OUTPUT"

-----------------------------------------------------------------------------
(* What is computed from the records                                       *)

\* aggregateActions, by the numbers of the records: a deleted path makes every
\* write of it CREATED_THEN_DELETED, in whatever order; a failed or refused
\* attempt is marked as such.
Flag(r, deletes) ==
    CASE r.op = "read" -> "FILE_READ"
      [] r.op = "network" -> "EXTERNAL_NETWORK_CALL"
      [] r.op = "write" -> IF r.path \in deletes THEN "CREATED_THEN_DELETED" ELSE "FILE_WRITE"
      [] OTHER -> "COMMAND_RUN"
AggregateActions(records) ==
    LET deletes == {r.path : r \in {r \in Range(records) : r.op = "delete"}}
        kept == {i \in DOMAIN records : records[i].op \notin {"delete", "capture-degraded"}}
    IN  [i \in kept |-> [op |-> records[i].op, path |-> records[i].path,
                         flag |-> Flag(records[i], deletes),
                         failed |-> records[i].phase = "fail", denied |-> records[i].phase = "denied"]]

\* Mutant: a call that was announced and completed counts twice.
ActsOfBoth(records) == {i \in DOMAIN records : records[i].phase \in {"pre", "post"}}

\* analyzeWaste looks at completed calls, or at announced ones where no call
\* was ever seen to complete: the numbers of their records.
Acts(records) ==
    LET phase == IF \E r \in Range(records) : r.phase = "post" THEN "post" ELSE "pre"
    IN  {i \in DOMAIN records : records[i].phase = phase}

\* The readings of a path that another came before, with no change between.
Reading(r, path) == r.op = "read" /\ r.path = path
Rereads(records, path) ==
    Cardinality({i \in Acts(records) :
        /\ Reading(records[i], path)
        /\ \E j \in Acts(records) :
              /\ j < i /\ Reading(records[j], path)
              /\ ~\E k \in Acts(records) \cap (j .. i) : Changes(records[k]) /\ records[k].path = path})
RepeatedCommand(records, hash) ==
    LET n == Cardinality({i \in Acts(records) : records[i].op = "command" /\ records[i].hash = hash})
    IN  IF n >= 2 THEN n ELSE 0
RepeatedFailure(records, key) ==
    LET n == Cardinality({i \in DOMAIN records : /\ records[i].phase = "fail"
                                                 /\ <<records[i].tool, records[i].path, records[i].hash>> = key})
    IN  IF n >= 2 THEN n ELSE 0

\* reconcileCapture.
ReconcileCapture(records, gitChanged) ==
    LET writes == {r.path : r \in {r \in Range(records) : r.op = "write"}}
        others == {r.path : r \in {r \in Range(records) : r.op \notin {"write", "capture-degraded"}}}
    IN  [matched |-> gitChanged \cap writes,
         seenOtherwise |-> (gitChanged \ writes) \cap others,
         unexplained |-> gitChanged \ (writes \cup others),
         notInGit |-> {p \in writes : p # Null} \ gitChanged]

-----------------------------------------------------------------------------
(* Wiring: hooks in the editors' settings                                  *)

\* The entries of an event are a sequence of [cmds, matcher], a matcher the
\* set of tools it matches, or Null.  A command of ours names the event and
\* the vendor, which install-cursor writes and install leaves to be inferred.
Ours(phase, vendor) == <<"agent-receipt capture", phase, vendor>>
IsOurs(cmd) == cmd[1] = "agent-receipt capture"

\* mergeCaptureHooks and mergeCursorCaptureHooks: for each event our command
\* once, with the matcher of this version; the first entry that has it counts.
MergeHooks(settings, phases, vendor, matcher) ==
    [ev \in DOMAIN settings |->
        LET mine == {i \in DOMAIN settings[ev] : Ours(ev, vendor) \in settings[ev][i].cmds}
            first == CHOOSE i \in mine : \A j \in mine : i <= j
        IN  IF ev \notin phases THEN settings[ev]
            ELSE IF mine = {}
            THEN Append(settings[ev], [cmds |-> {Ours(ev, vendor)}, matcher |-> matcher])
            ELSE [settings[ev] EXCEPT ![first].matcher = matcher]]

\* mergeCompletionHook: the Stop event has no matcher.
MergeCompletionHook(settings) ==
    IF \E e \in Range(settings["stop"]) : Ours("stop", "auto") \in e.cmds THEN settings
    ELSE [settings EXCEPT !["stop"] = Append(@, [cmds |-> {Ours("stop", "auto")}, matcher |-> Null])]

Foreign(entry) == \A c \in entry.cmds : ~IsOurs(c)

\* The entries that stay, in their order.
Others(entries) ==
    LET stay == {k \in DOMAIN entries : Foreign(entries[k])}
        nth(n) == CHOOSE k \in stay : Cardinality({j \in stay : j <= k}) = n
    IN  [n \in 1 .. Cardinality(stay) |-> entries[nth(n)]]

\* Mutant: only two of the events are taken out again.
RemoveTwo(settings) ==
    [ev \in DOMAIN settings |-> IF ev \in {"pre", "post"} THEN Others(settings[ev]) ELSE settings[ev]]

\* removeCaptureHooks and removeCompletionHook: every entry goes that has a
\* command of ours in it, whatever else is in it.
RemoveHooks(settings) == [ev \in DOMAIN settings |-> Others(settings[ev])]
=============================================================================
