------------------------------ MODULE Guarding ------------------------------
(***************************************************************************)
(* The hooks at work: an editor asks the hooks wired in its settings before *)
(* and after a tool call, each a process that judges the call by the rules  *)
(* and the log it finds (runCaptureIngest), writes it down, and only then   *)
(* prints a refusal.  Calls overlap; rules and settings change under them.  *)
(* The rules themselves are in GuardRules; the lock, the chain and torn     *)
(* writes of the log are in CaptureLog, where an append is not one step.    *)
(***************************************************************************)
EXTENDS GuardRules

CONSTANTS Slots,      \* tool calls under way at one time
          Sessions, EditorOf, PayloadOf,   \* who calls, and what the hook is told
          Uses,       \* pairs <<session, call>> that may be made
          Paths, Place,        \* files, and where they are
          Rules,      \* pairs [policy, contract] of files there may be
          HandMade,   \* pairs <<editor, entry>>: entries a user may write into the settings
          MatcherOf,  \* per editor: the tools the hooks of this version match
          Room, Most   \* bounds: a call takes two of the room, an upset (a change by the
                       \* user, a hook that dies or gets no lock) one; and so many upsets

ASSUME GuardingAssumption ==
    /\ Sessions = DOMAIN EditorOf /\ Sessions = DOMAIN PayloadOf
    /\ {Room, Most} \subseteq Nat
    /\ Null \notin Sessions \cup Paths /\ IsFiniteSet(Slots)
    /\ \A r \in Rules : r.policy \notin {Null, Broken} => Null \notin r.policy.forbidActions

\* What the editors were measured to send: Cursor its version and a conversation,
\* Claude a session and neither of them.
ASSUME EnvelopeAssumption ==
    \A s \in Sessions :
       LET p == PayloadOf[s]
       IN  \/ /\ EditorOf[s] = "cursor"
              /\ Has(p, "cursor_version") /\ ~Has(p, "sessionId")
              /\ Has(p, "conversation_id") /\ p.conversation_id = s
           \/ /\ EditorOf[s] = "claude"
              /\ ~Has(p, "cursor_version") /\ ~Has(p, "conversation_id")
              /\ Has(p, "session_id") /\ p.session_id = s
              /\ Has(p, "event") => p.event = "upper"

\* A call is a tool and a path or a command; Shell is Cursor's name for a
\* tool, and a command has a fingerprint of its own.
Shells == {"Bash", "Shell"}
ASSUME CallAssumption ==
    \A u \in Uses :
       LET c == u[2]
       IN  /\ u[1] \in Sessions /\ u = <<u[1], c>> /\ c = [tool |-> c.tool, target |-> c.target]
           /\ c.tool = "Shell" => EditorOf[u[1]] = "cursor"
           /\ c.tool \in Readers \cup Writers => c.target \in Paths
           /\ c.tool \in Shells =>
                 /\ c.target.net \in BOOLEAN /\ c.target.dels \in Seq(Paths)
                 /\ Null \notin {c.target.id, c.target.kind}
                 /\ \A v \in Uses : /\ v[2].tool \in Shells /\ v[2].target.id = c.target.id
                                    => v[2].target = c.target /\ (v[1] = u[1] => v[2] = c)

\* An entry a user writes names our command as an installer would.
ASSUME HandAssumption ==
    \A h \in HandMade :
       /\ h = <<h[1], h[2]>> /\ h[2] = [cmds |-> h[2].cmds, matcher |-> h[2].matcher]
       /\ \A c \in h[2].cmds : IsOurs(c) => c \in {Ours("pre", "auto"), Ours("pre", h[1])}

VARIABLES rules, settings, log, changed,   \* the files; what git sees as changed
          slot,       \* the calls under way
          calls, upsets,
          since,      \* history: a session's commands announced since its last change
          skewed,     \* history: sessions where calls overlapped or a hook failed
          made,       \* history: how often a thing was tried since the log was reset
          doubled,    \* history: some call was heard by two hooks of one event
          heard,      \* history: paths of calls that were written down
          loose,      \* history: paths changed when no block rule was in their way
          wired,      \* history: what last became of our entries
          foreign     \* history: entries without a command of ours

hooked == <<settings, wired, foreign>>
told == <<since, skewed, made, doubled, heard>>
vars == <<rules, log, changed, slot, calls, upsets, loose, hooked, told>>

Editors == {EditorOf[s] : s \in Sessions}
Phases(e) == IF e = "cursor" THEN {"pre", "post", "fail"} ELSE {"pre", "post", "fail", "denied"}
Events == {"pre", "post", "fail", "denied", "stop"}
Calls == {u[2] : u \in Uses}
Idle == [at |-> "idle"]
Busy(i) == slot[i].at # "idle"

\* What a call does to files, and which its text names: that of a command
\* with a network call in it is not looked at further.
Effects(c) == CASE c.tool \in Writers -> {c.target}
                [] c.tool \in Shells -> Range(c.target.dels)
                [] OTHER -> {}
Named(c) == CASE c.tool \in Shells -> IF c.target.net THEN {} ELSE Range(c.target.dels)
              [] c.tool \in Readers \cup Writers -> {c.target}
              [] OTHER -> {}

\* What a call tries, by whatever tool.
Deed(c) == [kind |-> CASE c.tool \in Shells -> "command" [] c.tool \in Readers -> "read"
                       [] c.tool \in Writers -> "write" [] OTHER -> c.tool,
            target |-> c.target]
Deeds == {Deed(c) : c \in Calls}

\* The hook processes an event of a call starts.
Starts(e, phase, tool) ==
    UNION {{c \in settings[e][phase][k].cmds : IsOurs(c)} :
             k \in {k \in DOMAIN settings[e][phase] :
                      \/ settings[e][phase][k].matcher = Null
                      \/ tool \in settings[e][phase][k].matcher}}

Upset == upsets < Most /\ 2 * calls + upsets < Room /\ upsets' = upsets + 1

Bare == [ev \in Events |-> <<>>]

\* Settings after capture install --write, or install-cursor --write.
InstalledIn(e, s) ==
    IF e = "cursor" THEN MergeHooks(s, Phases(e), "cursor", MatcherOf[e])
    ELSE MergeCompletionHook(MergeHooks(s, Phases(e), "auto", MatcherOf[e]))

\* The hooks are installed, in every editor, or in none.
Init ==
    /\ rules \in Rules
    /\ \E w \in {"never", "installed"} : wired = [e \in Editors |-> w]
    /\ settings = [e \in Editors |-> IF wired[e] = "never" THEN Bare ELSE InstalledIn(e, Bare)]
    /\ log = <<>> /\ changed = {} /\ slot = [i \in Slots |-> Idle]
    /\ calls = 0 /\ upsets = 0
    /\ since = [s \in Sessions |-> <<>>] /\ skewed = {} /\ heard = {} /\ loose = {}
    /\ made = [d \in Deeds |-> 0] /\ doubled = "no"
    /\ foreign = [e \in Editors |-> 0]

-----------------------------------------------------------------------------
(* A hook process                                                          *)

VendorOf(s, phase, cmd) ==
    IF cmd[3] # "auto" THEN cmd[3]
    ELSE InferHookVendor([f \in DOMAIN PayloadOf[s] |->
            IF f = "event" THEN [case |-> PayloadOf[s].event, phase |-> phase] ELSE PayloadOf[s][f]])

\* classifyEvent of a call, as records without a judgement.
Recs(s, phase, cmd, c) ==
    LET vendor == VendorOf(s, phase, cmd)
        ops == ClassifyEvent(ToolOf(c.tool, vendor), c.target)
    IN  [k \in DOMAIN ops |->
            [phase |-> phase, session |-> SessionOf(PayloadOf[s], vendor), tool |-> c.tool,
             op |-> ops[k].op, path |-> ops[k].path, hash |-> ops[k].hash, kind |-> ops[k].kind,
             guard |-> None]]

\* The judgement of one record: the guard first, then, for a command, the loop.
Judgement(r, s) ==
    LET v == EvalGuard(r, rules.policy, rules.contract)
    IN  IF v.action # "none" \/ r.op # "command" THEN v
        ELSE EvalLoopGuard(r, r.session, rules.policy, log)

Degraded == [phase |-> "pre", session |-> Null, tool |-> Null, op |-> "capture-degraded",
             path |-> Null, hash |-> Null, kind |-> Null, guard |-> None]

\* The editor is about to make a call and asks the hooks it has for that.
Asks(i, u) ==
    /\ ~Busy(i) /\ 2 * (calls + 1) + upsets <= Room /\ calls' = calls + 1
    /\ LET s == u[1]
           c == u[2]
           todo == Starts(EditorOf[s], "pre", c.tool)
       IN  /\ slot' = [slot EXCEPT ![i] =
                 [at |-> "pre", session |-> s, call |-> c, phase |-> "pre", todo |-> todo,
                  judged |-> <<>>, denied |-> "no", steady |-> "yes",
                  guarded |-> IF todo = {} THEN "no" ELSE "yes"]]
           /\ since' = IF todo = {} THEN since
                       ELSE IF Named(c) # {} /\ c.tool \notin Readers THEN [since EXCEPT ![s] = <<>>]
                       ELSE [since EXCEPT ![s] = Append(@, c)]
           /\ skewed' = IF \/ Cardinality(todo) > 1
                           \/ \E j \in Slots \ {i} : Busy(j) /\ slot[j].session = s
                        THEN skewed \cup {s} ELSE skewed
           /\ made' = [made EXCEPT ![Deed(c)] = @ + 1]
           /\ doubled' = IF Cardinality(todo) > 1 THEN "yes" ELSE doubled
    /\ UNCHANGED <<rules, log, changed, upsets, loose, hooked, heard>>

\* A hook reads the event, the rules and the log.
Judges(i) ==
    /\ slot[i].at = "pre" /\ slot[i].judged = <<>>
    /\ \E cmd \in slot[i].todo :
          LET s == slot[i].session
              recs == Recs(s, "pre", cmd, slot[i].call)
          IN  slot' = [slot EXCEPT ![i].judged =
                 <<[cmd |-> cmd, vendor |-> VendorOf(s, "pre", cmd),
                    recs |-> [k \in DOMAIN recs |->
                                [recs[k] EXCEPT !.guard = Judgement(recs[k], s)]]]>>]
    /\ UNCHANGED <<rules, log, changed, calls, upsets, loose, hooked, told>>

\* It writes the records down, and prints a refusal in the vendor's form: an
\* editor understands its own.
Records(i) ==
    /\ slot[i].at = "pre" /\ slot[i].judged # <<>>
    /\ LET j == slot[i].judged[1]
           refused == /\ \E r \in Range(j.recs) : r.guard.action = "deny"
                      /\ j.vendor = EditorOf[slot[i].session]
       IN  /\ log' = log \o j.recs
           /\ slot' = [slot EXCEPT ![i].judged = <<>>, ![i].todo = @ \ {j.cmd},
                 ![i].denied = IF refused THEN "yes" ELSE @]
    /\ heard' = heard \cup Named(slot[i].call)
    /\ UNCHANGED <<rules, changed, calls, upsets, loose, hooked, since, skewed, made, doubled>>

\* It fails to get the lock and leaves a marker, or not even that (markDegraded
\* exits, refusal or not); or it is killed, before it writes or just after.
HookFails(i) ==
    /\ Upset /\ slot[i].at = "pre" /\ slot[i].judged # <<>>
    /\ LET j == slot[i].judged[1]
       IN  /\ \/ log' \in {log, Append(log, Degraded)} /\ heard' = heard
              \/ log' = log \o j.recs /\ heard' = heard \cup Named(slot[i].call)
           /\ slot' = [slot EXCEPT ![i].judged = <<>>, ![i].todo = @ \ {j.cmd},
                                   ![i].guarded = "no"]
    /\ skewed' = skewed \cup {slot[i].session}
    /\ UNCHANGED <<rules, changed, calls, loose, hooked, since, made, doubled>>

-----------------------------------------------------------------------------
(* The editor                                                              *)

Answered(i) == slot[i].at = "pre" /\ slot[i].todo = {}

Refuses(i) ==
    /\ Answered(i) /\ slot[i].denied = "yes"
    /\ slot' = [slot EXCEPT ![i] = Idle]
    /\ UNCHANGED <<rules, log, changed, calls, upsets, loose, hooked, told>>

\* The call is made, or its user refuses it; then the hooks of that event.
Goes(i, phase) ==
    LET todo == Starts(EditorOf[slot[i].session], phase, slot[i].call.tool)
    IN  /\ slot' = [slot EXCEPT ![i] =
                IF todo = {} THEN Idle ELSE [@ EXCEPT !.at = "post", !.phase = phase, !.todo = todo]]
        /\ doubled' = IF Cardinality(todo) > 1 THEN "yes" ELSE doubled
        /\ UNCHANGED <<rules, log, calls, upsets, hooked, since, skewed, made, heard>>

Runs(i) ==
    /\ Answered(i) /\ slot[i].denied = "no" /\ Goes(i, "post")
    /\ changed' = changed \cup Effects(slot[i].call)
    /\ loose' = IF slot[i].guarded = "yes" /\ slot[i].steady = "yes" /\ Blocks(LoadPolicy(rules.policy))
                THEN loose \cup (Effects(slot[i].call) \ Named(slot[i].call))
                ELSE loose \cup Effects(slot[i].call)

RunsInVain(i) ==
    /\ Answered(i) /\ slot[i].denied = "no"
    /\ \E phase \in {"fail", "denied"} : phase \in Phases(EditorOf[slot[i].session]) /\ Goes(i, phase)
    /\ UNCHANGED <<changed, loose>>

\* The hook of a call that is over judges nothing.
RecordsAfter(i) ==
    /\ slot[i].at = "post"
    /\ \E cmd \in slot[i].todo :
          LET x == slot[i]
              s == x.session
              c == x.call
              recs == Recs(s, x.phase, cmd, c)
          IN  /\ slot' = [slot EXCEPT ![i] =
                    IF x.todo = {cmd} THEN Idle ELSE [x EXCEPT !.todo = @ \ {cmd}]]
              /\ \/ /\ log' = log \o recs /\ heard' = heard \cup Named(c)
                    /\ since' = IF \E r \in Range(recs) : Changes(r)
                                THEN [since EXCEPT ![s] = <<>>] ELSE since
                    /\ UNCHANGED <<skewed, upsets>>
                 \/ /\ recs # <<>> /\ Upset /\ log' \in {log, Append(log, Degraded)}
                    /\ skewed' = skewed \cup {s} /\ UNCHANGED <<heard, since>>
    /\ UNCHANGED <<rules, changed, calls, loose, hooked, made, doubled>>

-----------------------------------------------------------------------------
(* The user                                                                *)

\* Policy or contract change, break, or are mended.
RulesChange ==
    /\ Upset /\ rules' \in Rules \ {rules}
    /\ slot' = [i \in Slots |-> IF Busy(i) THEN [slot[i] EXCEPT !.steady = "no"] ELSE slot[i]]
    /\ loose' = loose \cup changed
    /\ UNCHANGED <<log, changed, calls, hooked, told>>

\* begin and reset clear the log (clearCaptureLog).
ResetsLog ==
    /\ Upset /\ log # <<>> /\ log' = <<>>
    /\ since' = [s \in Sessions |-> <<>>] /\ heard' = {}
    /\ skewed' = skewed \cup {slot[i].session : i \in {i \in Slots : Busy(i)}}
    /\ made' = [d \in Deeds |-> Cardinality({i \in Slots : Busy(i) /\ Deed(slot[i].call) = d})]
    /\ UNCHANGED <<rules, changed, slot, calls, loose, hooked, doubled>>

Installs(e) ==
    /\ Upset /\ e \in Editors
    /\ settings' = [settings EXCEPT ![e] = InstalledIn(e, @)]
    /\ wired' = [wired EXCEPT ![e] = "installed"]
    /\ UNCHANGED <<rules, log, changed, slot, calls, loose, foreign, told>>
Install == Installs("claude")
InstallCursor == Installs("cursor")

\* capture uninstall --write; there is none for Cursor.
Uninstall(e) ==
    /\ Upset /\ e = "claude" /\ settings[e] # RemoveHooks(settings[e])
    /\ settings' = [settings EXCEPT ![e] = RemoveHooks(@)]
    /\ wired' = [wired EXCEPT ![e] = "removed"]
    /\ UNCHANGED <<rules, log, changed, slot, calls, loose, foreign, told>>

\* An entry is written by hand, with a command of ours, another one, or both.
HandWires(e, entry) ==
    /\ <<e, entry>> \in HandMade /\ Upset
    /\ settings' = [settings EXCEPT ![e]["pre"] = Append(@, entry)]
    /\ wired' = [wired EXCEPT ![e] = IF Foreign(entry) THEN @ ELSE "by hand"]
    /\ foreign' = [foreign EXCEPT ![e] = @ + (IF Foreign(entry) THEN 1 ELSE 0)]
    /\ UNCHANGED <<rules, log, changed, slot, calls, loose, told>>

Commits ==
    /\ Upset /\ changed # {} /\ changed' = {}
    /\ UNCHANGED <<rules, log, slot, calls, loose, hooked, told>>

Next ==
    \/ \E i \in Slots :
          \/ \E u \in Uses : Asks(i, u)
          \/ Judges(i) \/ Records(i) \/ HookFails(i)
          \/ Refuses(i) \/ Runs(i) \/ RunsInVain(i) \/ RecordsAfter(i)
    \/ RulesChange \/ ResetsLog \/ Commits
    \/ Install \/ InstallCursor
    \/ \E e \in Editors : Uninstall(e) \/ \E h \in HandMade : HandWires(e, h[2])

Spec == Init /\ [][Next]_vars

-----------------------------------------------------------------------------
(* Properties                                                              *)

\* What the rules forbid in block mode: an action of a class, or a change of
\* a path the text of the call names.
Forbidden(c) ==
    LET p == LoadPolicy(rules.policy)
        class == IF c.tool \in {"WebFetch", "WebSearch"} THEN "network"
                 ELSE IF c.tool \notin Shells THEN Null
                 ELSE IF c.target.net THEN "network"
                 ELSE IF c.target.dels # <<>> THEN Null ELSE c.target.kind
    IN  /\ p # Null /\ p.guard = "block"
        /\ \/ class \in p.forbidActions
           \/ /\ c.tool \notin Readers
              /\ Named(c) \cap (p.forbidAlways \cup DeniedPaths(rules.contract)) # {}

\* A call that rules in block mode forbid is refused in the form its editor
\* understands, whatever runs beside it, if a hook is wired for it, gets to
\* its end, and the rules stand still meanwhile; so that what policy check
\* finds changed against forbidAlways got there another way (evalGuard,
\* inferHookVendor, runPolicyCheck).
BlockHolds ==
    /\ \A i \in Slots :
          (Answered(i) /\ slot[i].guarded = "yes" /\ slot[i].steady = "yes" /\ Forbidden(slot[i].call))
             => slot[i].denied = "yes"
    /\ (PolicyCheck(rules.policy, changed) = 1 /\ rules.policy.guard = "block")
          => Tripwire(rules.policy, changed).obs.forbidAlwaysHits \subseteq loose

\* evalLoopGuard answers for what happened: where a session's calls do not
\* overlap and no hook failed, a test, build or lint is marked exactly when it
\* was announced loop_repeat_threshold times, this one included, since the
\* session last changed a file; other sessions do not count.
LoopFlagged ==
    \A i \in Slots :
       (slot[i].at = "pre" /\ slot[i].judged # <<>> /\ slot[i].steady = "yes"
          /\ slot[i].session \notin skewed /\ LoadPolicy(rules.policy) # Null) =>
          LET c == slot[i].call
              p == rules.policy
              n == Cardinality({k \in DOMAIN since[slot[i].session] : since[slot[i].session][k] = c})
              looped == \E r \in Range(slot[i].judged[1].recs) : r.guard.rule[1] = "loop"
          IN  looped <=> /\ c.tool \in Shells /\ ~c.target.net /\ c.target.dels = <<>>
                         /\ c.target.kind \in LoopKinds \ p.forbidActions
                         /\ p.loopRepeatThreshold # Null /\ n >= p.loopRepeatThreshold

\* capture show's reconciliation leaves unexplained what git sees as changed
\* and no recorded call named, all of that and nothing else: files under
\* .agent-guard/ too, those that judge the work and those nobody knows, and only
\* the tool's own output is passed over.
Shown == {"PRODUCT_CHANGE", "CONTROL_PLANE", "UNKNOWN_AGENT_GUARD"}
UnexplainedIsUnheard ==
    ReconcileCapture(log, {p \in changed : ~IsToolOutput(Place[p])}).unexplained
       = {p \in changed \ heard : ClassifyAgentGuardPath(Place[p]) \in Shown}

\* What is reported as waste happened: a command, a reading, a failure is not
\* counted oftener than the call was made (two hooks for one event count it
\* twice), and no action is marked failed that was never tried.
WasteIsReal ==
    doubled = "no" =>
       \A c \in Calls :
          LET acts == AggregateActions(log)
              n == made[Deed(c)]
          IN  /\ c.tool \in Shells => RepeatedCommand(log, c.target.id) <= n
              /\ c.tool \in Readers => Rereads(log, c.target) <= IF n = 0 THEN 0 ELSE n - 1
              /\ c.tool \in Writers =>
                    /\ RepeatedFailure(log, <<c.tool, c.target, Null>>) <= n
                    /\ Cardinality({k \in DOMAIN acts : /\ acts[k].op = "write" /\ acts[k].path = c.target
                                                       /\ acts[k].failed}) <= n

\* What capture show says of the log is true of the calls: it leaves unexplained
\* what no call named, and counts as waste what happened.
ShownIsTrue == UnexplainedIsUnheard /\ WasteIsReal

\* After an install every event has our hook with this version's matcher, after
\* an uninstall none has, and entries of others are still there, in whatever
\* state the settings were.
WiringIsWhole ==
    \A e \in Editors :
       /\ wired[e] = "installed" =>
             \A ev \in Phases(e) : \E k \in DOMAIN settings[e][ev] :
                /\ \E c \in settings[e][ev][k].cmds : IsOurs(c) /\ c[2] = ev
                /\ settings[e][ev][k].matcher = MatcherOf[e]
       /\ wired[e] = "removed" => \A ev \in Events : \A k \in DOMAIN settings[e][ev] : Foreign(settings[e][ev][k])
       /\ Cardinality({k \in DOMAIN settings[e]["pre"] : Foreign(settings[e]["pre"][k])}) = foreign[e]
=============================================================================
