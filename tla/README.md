# Specifications of agent-receipt

agent-receipt records what a coding agent was asked to do, what it did and what
it said about it, and turns that into receipts a reader can check. Its value
rests on files that several short-lived processes write side by side: hooks of
parallel tool calls, `done`, `share-proof`, Stop hooks, `begin`, a proxy that
taps MCP servers. There is no daemon and no database; what keeps the files
sound is a lock file, append-only logs chained by hashes, whole-file rewrites,
and the order in which each command reads and writes. The modules here are
about that: one process step at a time, with processes that die, writes that
fail or stop half way, and locks that cannot be had.

Paths below are relative to the program's own source directory unless they
begin with `docs/` or are called the program's README.

## The system

| component | state | operations | who meets it |
|---|---|---|---|
| file lock (`lock.ts`) | a lock file, its creator and its mtime | `withFileLock`: exclusive open, retry, stat, steal, run, remove | capture log, ledger |
| capture log (`capture.ts`) | `capture.jsonl`, its mark `capture.head.json` | hook ingest, degraded marker, `capture verify`, `capture reset` | session window reads its numbers |
| receipt ledger (`ledger.ts`, writers in `done.ts`, `auditpack.ts`) | `ledger.jsonl` | append, verify, rebuild | receipts directory |
| session window (`start.ts`, `begin.ts`, `reset.ts`, `observation.ts`) | `session.json` with a boundary | begin, reset, the observation verdict | reads the capture log and its mark without the lock |
| completion handoff (`completion.ts`, `shareproof.ts`, `vreceipt.ts`) | `pending-completion.json`, a sidecar and a page for each Work Receipt | `done`'s mark, the Stop hook, `share-proof` and its re-render | three kinds of process share one unlocked file |
| MCP tap (`tap.ts`) | a queued log per wrapped server, pending calls, cursors, editor configuration and a sidecar with the originals | append, drain, flush at exit, verify, install, uninstall, summary of a window | its own proxy process; `begin` saves its cursors |
| git facts and the contract's verification (`git.ts`, `checks.ts`, `session.ts`) | the repository, the git part of `session.json` | what changed since the baseline, scope and denied files | every command of the commit loop |
| commit loop (`done.ts`, `receipt.ts`, `commitcheck.ts`, `finish.ts`, `nextcmd.ts`, `preparecommit.ts`, `closerecon.ts`, `approve.ts`) | receipts, their approvals | seal, judge, compare with the latest receipt, print a commit block, close a session | git and the developer, at any moment |
| verdict and gate (`verdict.ts`, `gate.ts`, `review.ts`) | none | decision tables over git facts and the contract | `done`, `commit-check`, `finish` |
| policy, guard and the hooks of the editors (`policy.ts`, `guard.ts`, `tripwire.ts`, `hook-deny.ts`, `cursor-hook.ts`, `capture.ts`) | the editors' settings, the rules | judge a tool call, refuse it, mark a loop; install and uninstall the hooks; report waste and what no call explains | the capture log, which is evidence and input |
| evidence kernel, research and council (`evidencekernel.ts`, `research.ts`, `council.ts`, `gitfacts.ts`, `vreceipt.ts`) | verification receipts, a decision log | look up what a report claims, grade it, seal the result, replay it, gate on it | the files, pages and commits a report names |
| evidence graph (`graph.ts`) | none | fold, summary, failures, diff, history, edges over a directory of receipts | the receipts other processes write |
| Merkle trees (`merkle.ts`, `ledger.ts`) | none | root, inclusion and consistency proofs | whoever noted a root of the ledger |
| keys, approvals, attestation, anchors, bundles (`keys.ts`, `approve.ts`, `attest.ts`, `anchor.ts`, `receiptStore.ts`, `auditpack.ts`, `verifyproof.ts`, `replay.ts`) | key files, sidecars beside a receipt, bundle directories, packs | make keys, sign, review, upload, bundle, verify | a public log that answers, or does not |
| git hooks | git hooks on disk | `commit-check` and `receipt` at a commit | git |
| everything else (reports, cost, inbox, layout, the command line, the web site) | none, or one file written once | parsing, printing | |

`PROJECT.json` lists every one of them with its files and says which part is
modelled.

What makes each correct:

- **file lock**: callers exclude each other; a dead holder does not block for
  ever; a call ends, by entering or by throwing.
- **capture log**: records stay chained and numbered upward under any
  interleaving and any interrupted write; the mark is never ahead of the log
  (else `capture verify` cries truncation); evidence is on disk before a deny
  goes out.
- **ledger**: entries stay chained; what was reported stays; nothing is entered
  twice.
- **session window**: what is recorded after `begin` counts as the session's and
  nothing older does; a baseline is never overwritten.
- **completion**: a page says PASS only for an answer whose claims were verified;
  a page that said PENDING becomes final; the pending mark is about the newest
  receipt and its bound session is not exchanged.
- **tap**: numbers and chain survive a full queue, a failed append and an exit;
  what was dropped is confessed; every call that was seen is accounted for once,
  and an answer is paired with the request it answers.
- **tap wiring**: what install has wrapped can be put back; no run changes what a
  server is started with; no server is passed over in silence.
- **commit loop**: a PASS covers every change since the baseline; commit-check says
  OK only to a receipt about the state at hand, and to an approval of that state;
  what a printed block commits is in scope; a session that is closed as unchanged is.
- **guard**: a call the rules forbid is refused in the form its editor understands;
  a loop is marked when there is one; what a report calls waste or unexplained is.
- **hooks in settings**: install and uninstall leave entries of others alone.
- **evidence**: a claim is failed or verified only by what was there and says so; a
  receipt is about the report it names; replay says intact of exactly the intact;
  diff, history and summary of one directory agree.
- **custody**: what nobody altered verifies; what passes with a signature was signed
  as it is; an anchor names an entry the log has; a review keeps its last word; a
  private key is not replaced.

Hard behaviours: hooks of parallel calls (interleaving), read-then-write without
a lock (`capture verify`, `capture reset`, `ledger rebuild`, `begin`, `keys init`,
the decision log, every writer of `pending-completion.json`), copies of a file
written back later (Stop hooks, `tap install`), a working tree, a page or a rule file
that changes while a command looks several times, death between two writes, appends
and receipts that stop half way, answers of a server that are lost or repeated, a
lock stolen by age. `PROJECT.json` lists them as hazards, each at its line.

## Modules

| module | what it is |
|---|---|
| `Mutex` | what `lock.ts` promises: one holder at a time |
| `FileLock` | `withFileLock`, one system call per step; `ImplementsMutex` maps it to `Mutex` |
| `HashChain` | JSONL files with chained records: reading the last record, appending after a torn write |
| `CaptureLog` | `capture.ts`, on `HashChain` |
| `CaptureLogProofs` | what the operators of `HashChain` return; proofs about `CaptureLog`, `SessionWindow` and `TapWindow` |
| `Ledger` | `ledger.ts`, on `HashChain` |
| `LedgerProofs` | proofs about `Ledger`, and about `FileLock` |
| `Merkle`, `LedgerTree` | `merkle.ts`; the ledger with a tree over its entries |
| `SessionWindow` | `begin`, `reset` and the observation verdict, on top of `CaptureLog` |
| `TapWindow` | the cursors `begin` takes of a tap log that is being written, on top of `SessionWindow` |
| `Completion` | pending mark, sidecar, page |
| `CompletionProofs` | proofs about it |
| `TapLog` | the log of an `mcp-tap` process: merging, queue, appends, exit, `tap verify`; on `HashChain` |
| `TapSession` | the pairing of requests and answers in an `mcp-tap` process |
| `TapWiring` | `tap install` and `tap uninstall` over configuration files that others edit |
| `TapProofs` | proofs about `TapLog`, `TapSession` and `TapWiring` |
| `WorkTree` | git, the baseline and `runVerify` |
| `CommitLoop` | from `done` to the commit, on top of `WorkTree` |
| `CommitLoopProofs` | proofs about it |
| `GuardRules` | the rules: who calls, what they say of a call, what is computed from the records |
| `Guarding` | the hooks at work: calls of two editors, rules, settings and log changing; on `GuardRules` |
| `GuardingProofs` | proofs about it |
| `EvidenceKernel` | the checks of a claim and what they come to |
| `EvidenceGraph` | receipts of verifications, replay, gate, and the graph commands; on `EvidenceKernel` |
| `Evidence` | verifier processes in a world that changes; on `EvidenceGraph` |
| `EvidenceProps` | what verification promises, said of that world |
| `EvidenceProofs` | proofs about `Evidence` |
| `Custody` | keys, reviews, signatures, anchors, bundles and packs |
| `CustodyProofs` | proofs about it |
| `MC*` | the small instances |

Operators whose comment begins with "Mutant:" are what the code would be with a
plausible mistake in it. No specification uses them; each exists to show that
some property notices the mistake.

### FileLock

State: who created the lock file on disk (`owner`; `Orphan` when the creator
died), whether it is older than `staleMs` (`age`), and for each caller its
position and retry counter. `Call`, `Create`, `OpenFails`, `StatGone`,
`StatStale`, `StatHeld`, `Throw`, `Wake`, `Steal`, `FnEnds`, `Release` are the
statements of `withFileLock` in their order; `Dies` is the death of the
process, `Age` the passing of `staleMs`. `rm` removes whatever file has the path,
its own or a stranger's, as the code does. `oldest` is history: whether some
lock file has ever been old enough to steal.

`Mutex` is implemented with the holder being the process inside `fn`. Exclusion
is promised, and proved, *until a lock file is old*. After that it does not
hold: of two thieves of one dead holder's file the slower removes the fresh file of
the faster, and both are inside. The clock and the length of a
section are otherwise unconstrained (`MaySlow`), as nothing in the code bounds
them.

### HashChain, CaptureLog

A line is a record or `Corrupt`. A record carries its number, its hash and the
hash it names as its predecessor; a hash is a fresh natural number, which is
what a collision-free hash over content with a time stamp amounts to.
`AppendLines` is what `appendFileSync` does to a file whose last line may be
unfinished: the first new line joins it and neither parses.

Each hook is a process at a position in `runCaptureIngest`: `Deliver` (an event
classified into up to `MaxBatch` records, with the guard's verdict, or an event
that cannot be parsed), `Lock` or `LockThrows`, `ReadTail`, `AppendRecords` or
`AppendThrows`, `WriteHead` or `WriteHeadFails`, `Finish` or `Failed`. `Degrade`
is `markDegraded`: the event gives way to a marker, a marker to nothing.
`RemoveLog` and `RemoveHead` are the two removals of `capture reset`,
`VerifyReads` and `VerifyCompares` the two reads of `capture verify`; neither
takes the lock in the code and neither does here. `capture.lock` is the section
of `Mutex` plus a dead holder and its steal; `FileLock` says when that is right.

### Ledger, Merkle, LedgerTree

Writers (`done --ledger`, `audit-pack --ledger`) seal a receipt, lock, read the
last entry's hash, append, leave the section and report. `ledger rebuild` lists
the receipts and later replaces the file in one rename, without the lock;
`Overlap` says whether it may do so beside a writer. An entry's hash is what
it covers: the receipts and claim results of its chain up to it. So a rebuilt entry has
another hash than the one it replaces if a claim result or a predecessor differs, as in
the code. Receipts of earlier work
(`Old`), in the ledger or not, make trees of up to seven leaves.

`Merkle` is `merkle.ts` by recursion, hashes being the tuples of what they cover.
`LedgerTree` adds `NoteRoot`: `ledger merkle root` prints a root that somebody keeps;
`Proves` and `Consistency` are the later checks. `ForkShows` is about the state
of the ledger, which crashes, torn lines and rebuilds made what it is.

### SessionWindow, TapWindow

`BeginChecks` (is there a `session.json`?), `BeginSnapshots` (read the boundary)
and `BeginWrites` are the three moments of `startCore` that other processes can
come between. The boundary is `currentCaptureBoundary`: the mark if there is one,
else the last record's number. `Assess` is `assessObservation` for a project with
hooks, over exactly what `loadObservationHealth` passes it. The record of a
window also remembers, for the properties only, the last hash used when the
boundary was read and whether the mark was level with the log then.

`TapWindow` goes on where `begin.ts` does: after `session.json` it writes the tap
cursors (`TapCursorSnapshot`), or dies or fails before it (`NoSnapshot`), which the
code passes over. The tap is an `mcp-tap` process with its open merge window, its
queue and its log, which may be removed under it. `Summarised` is what
`buildTapSummary` counts for the session.

### Completion

Every process keeps the copy of the pending mark it loaded and writes the whole
copy back. `DoneLoads`/`DoneWrites` are `writePendingCompletion`; the `Share*`
actions are the reads and writes of `share-proof` in their order; the `Stop*`
actions follow `runCompletionStop`: load, bind the session, refuse or judge the
answer, seal the sidecar, merge the extraction status in a second write,
finalize, render again. An answer is one of seven kinds (no field, empty, true,
false or unverifiable claims, none, a malformed block); `ExtractionOf`, `ResultOf`
and `Handoff` are the code's decisions over them.

### TapLog

One `mcp-tap` process after another on one file (a later process that gets the
same pid goes on with it). Node runs a callback to its end, so a callback is one
step: `Observe` is a frame's way through `base`, the coalescer and `TapLog.append`;
`AppendDone` and `AppendFails` are the callback of `appendFile`; `ChildExits` is the
exit handler up to its first wait; `ExitDrained` and `ExitTimedOut` are the two ends
of `drain`. `mem` holds the fields of `TapLog`; `degradedNow` is left out since it is
set exactly when something is counted as dropped. `Breaks`, `Gaps` and
`VerifiesClean` are what `verifyTapFile` finds of damaged lines, chain and numbers; the
arithmetic of `repeat` and `cleanShutdown`, which looks at the last record alone, are left
out, as no property depends on them. `kick` takes the
whole queue whenever nothing is being written, so `flushSyncBestEffort` has
something to write only while an asynchronous append is still under way:
`ExitTimedOut` lets that append land before, after, in part or not at all.

### TapSession

`createTapSession`, one message a step. `pending` is the map as a set of entries;
`at` is the place of an entry in the order of insertion, which `MapSet` keeps when
a key is written over, as `Map.set` does. Every message sweeps first (`Swept`).
`Request` is a request of the client, of the three sorts the code treats
differently; `Answer` the server's answer, found by its id alone; `Aside` what is
neither; `OpaqueRequest` and `OpaqueAnswer` are frames that are relayed and not
understood. The model knows which request an answer is to (`unanswered`), the code
does not: that is what `PairedRight` compares. `log` holds the records about
requests; merging and the file are `TapLog`'s. `put`, `swept` and `odd` are history.

### TapWiring

A slot is one entry of `mcpServers` in one configuration file: absent, bare (cannot be
wrapped), plain or wrapped. `StartInstall` and `StartUninstall` load the sidecar once;
`Read`, `Misread` and `Write` go through the configurations one by one; `Save` writes
the sidecar last. `Edit` is the user or a client, at any moment, also between a
`Read` and its `Write`; `Die` and `DieSaving` are deaths, the second inside the write of
the sidecar. A command is what `serverConfigHash` is taken over. `covered` and
`marred` are history: which slots an install answered for, and where something came
between a configuration and the sidecar.

### WorkTree, CommitLoop

A file has a version in the working tree, in the index and in every commit, 0 if it
is not there; `Unstaged`, `Staged`, `Untracked` and `CommittedSince` are what git
reports of them. `Look` is `runVerify`: scope is judged on what changed since the
baseline, list by list, denied files on everything that is not clean, as in the
code. `Write`, `Stage`, `Unstage`, `Commit`, `Amend` and `SwitchBranch` are what a
developer or an agent does, at any moment, also while a command runs.

A command is a few steps, cut where git is asked again: `Starts` looks; a
`...Seals` or `...Decides` step is `buildReceipt`'s second half, which reads the
magnitude and the session after the contract's checks have run, together with
what the command makes of it; `LooksAgain` is the verification with which
`buildReceipt` begins when another came before it. `Seal` is the record of what
`receiptHash` is computed from, so two seals are equal when the hashes are; `done`
seals with its verdict, everything else without. `Reviews` writes the sidecar of
the latest receipt, the only one any gate looks at. `RunsBlock` is the printed
block, run by the developer.

Most properties speak of a state that stays as it is from the start of one command
to the end of the next (`still`): what a receipt says when the tree changes while
it is being built is nobody's promise.

### GuardRules, Guarding

`GuardRules` has the pure parts: `InferHookVendor` and the fields a hook takes from a
payload, loading of policy and contract (a broken policy is the default one), the
judgement of a call (`EvalGuard`, `EvalLoopGuard`), `PolicyCheck` and `Tripwire`, what
install and uninstall make of settings, and what `capture show` computes from records
(actions, waste, reconciliation). A glob is the set of paths it matches, a command
what its text shows of it.

`Guarding` puts them to work. An editor `Asks` every hook wired for the event; each
hook `Judges` by the rules and the log it finds, `Records`, and answers, or
`HookFails`; the call is refused (`Refuses`), made (`Runs`) or fails (`RunsInVain`), and
the hooks of the event after it write it down (`RecordsAfter`). Beside that the rules
change or break, the log is reset, the user commits, and the hooks are installed,
uninstalled or wired by hand, in an editor of either kind. An append is one step here;
`CaptureLog` takes it apart. The properties compare what is refused, marked and
reported with what the calls really did, which the model knows (`since`, `made`,
`heard`, `changed`). Where the code makes two calls of one kind the same, so does the
model: `Deed` is what a call tries, whatever the tool's name, and is what `made` counts.

### EvidenceKernel, EvidenceGraph, Evidence, EvidenceProps

`EvidenceKernel` is `evidencekernel.ts`, one operator per check, on exact fractions;
a claim has only the fields its report gives it. `Evidence` is what surrounds it: a
verifier `Starts` (reads the report once), then claim by claim `Fetches` the page that the
claim names, if it names one, and `Grades` it against files, commits and receipts as they are then, a
council `ReadsLog` and `AppendsLog` without a lock, and the receipt is written in place
(`Truncates`, `Seals`). The world, the report and the receipts are changed by others at
any moment. `EvidenceGraph` is `vreceipt.ts` (seal, replay, gate) and `graph.ts`: what
the graph commands compute from whatever directory of receipts comes about.

`EvidenceProps` states what it is for a claim to be borne out in terms of the world: a
median is a value with as many operands below as above, a standard deviation a number
whose square is the variance, a quotation is there or it is not. `GradedByTheWorld`
compares each step of a verifier with that.

### Custody

Files beside a receipt are functions of its path; path 0 is a name given with `--out`, which
sorts first and so is the latest. A hash is what it covers, a signature is its key and what
was signed. `Done` and `Reissue` write receipts. A reviewer (`ReviewStarts`, `ReviewOpens`,
`ReviewWrites`, `ReviewDies`) reads the status, for a note to keep it, then cuts the sidecar
and writes it, without a lock; two that cut the same file leave what the later one wrote, or
a mixture (`AfterWrite`). `Torn` is a file cut or half written. `Sign` writes a signature,
or dies in it; `Init...` is `keys init`, which takes no lock; an anchor (`Start`,
`Ensure...`, `SignStatement`, `WriteEnvelope`, `Upload`, `Answered`, `Dies`) makes a key
under `.keys.lock` if it sees none, looking, writing one half and writing the other in three
steps (with a private key there it reads or derives the public one in one), signs a
statement, cuts the envelope, writes it, and sends it to a log that may answer with an
entry, with a conflict that names one, with neither, or not at all; or something else
answers (`OtherAnswers`), perhaps with what the log might have said (`Lookalikes`).
`ProofBundle` and `AuditPack` copy from all of these, into a fresh directory or one used
before; `VerifyProof`, `VerifySignature` and `Replay` judge the copies. `EditReceipt` and
`EditPack` are changes by hand, seal computed anew or not.

## What is checked

| run | instance | states | asks |
|---|---|---|---|
| `FileLock` | 3 callers, any number of calls, 1 retry, crashes, slow sections, opens that are refused | 11 thousand | exclusion until stale, a call ends unless it is turned back for ever, an orphan is cleared, `Mutex` is implemented |
| `CaptureLog` | 2 hooks, 2 events of 1 or 2 records, 1 reset, 1 verify, crashes, torn writes, lost marks | 1.1 million | chain, cause of a truncation report, evidence before deny |
| `Ledger` | 2 writers, 5 earlier receipts and 2 new ones, 1 rebuild while nobody writes, crashes, torn writes, a noted root | 291 thousand | chain, reported entries stay, places and growth are provable and nothing else is |
| `SessionWindow` | 2 hooks, 2 events, 2 begins one after the other, 1 reset of the session, a tap with 2 calls, 2 processes and 1 removal of its log, crashes, lost marks | 6.2 million | the window misses nothing, is exact when the mark is level, and so is the tap's |
| `Completion` | 2 works, 2 sessions, 2 Stop hooks, a share, everything overlapping and failing | 4.3 million | a page with a false claim never passes; undisturbed, a PASS is earned and a page becomes final |
| `TapLog` | 2 processes on one file, 3 frames, a queue of 1, windows of 3, failing and torn appends, kills, exits that time out | 2.1 million | cause of a break, lossless merging, losses confessed, the exit is passed on |
| `TapSession` | 3 requests under 3 ids, a map of 2, a clock that may go back, ids used twice, opaque frames | 2.6 million | accounts, pairing, sweep |
| `TapWiring` | 2 files with 3 entries, 2 runs, 2 edits, deaths, unreadable files | 5.1 million | what is wrapped can be put back, no server passed over, only drifts are reverted |
| `CommitLoop` | 4 files (within the allowed paths, denied and allowed, linked test, none of these), 4 changes, 2 commands, 5 of both | 5.6 million | a PASS covers the session, an approval is of the state at hand, receipts keep matching, what a block commits |
| `Guarding` | calls of 2 editors, 2 at a time, 5 kinds of call, 3 sets of rules, room for 6 (a call takes two, an upset one), at most 3 upsets | 1.7 million | refusals stand, loops are marked, reports are true, settings whole |
| `Evidence` | 2 verifications of 6 reports with 43 claims in all, 2 changes of the world, 2 receipt files | 838 thousand | grades, seals, replay and gate, the decision log, the graph |
| `Custody` | 2 anchors and 2 reviewers beside the other commands, room for 4 of them or of upsets, 2 receipts, 2 keys | 1.6 million | no false alarm, what passes was signed, anchors are true, the last undisturbed word decides and nothing is approved that nobody approved |

**Why the bounds are enough.** The interesting cases need two actors and one event between
two steps of either. Two hooks give every interleaving of two sections; the second event is
the one that meets the first one's torn line or late mark; a batch of two tells the first
record of a batch from the others; one reset and one verify meet every step of a hook. Three
lock callers are needed for two thieves and a dead holder; one retry distinguishes the first
try, a later one and the last. Two new receipts on top of old ones let a torn line lie
between two entries that parse; trees of up to seven leaves have last nodes without a
sibling on one level, on two, and on none. Two works, two sessions and two Stops let one
hook bind or refuse what another finalizes, and a mark be replaced by a newer one under
both. Three frames are what it takes to fill a queue of one, drop a record and confess it,
and to close a window by its cap, by another record or by the exit; a second process meets
whatever the first left. Three requests and a map of two let one be put out by size while
another waits, and an id return. Four changes take a file from the tree over the index into
a commit and away again, or a staged file around a begin; two commands are a receipt and the
command that compares with it; one file of each kind is enough since files meet only in set
operations and counts. In `TapWiring` two entries in one file and one of the same name in
another tell what goes by file from what goes by name; an edit between reading and writing
and one after it are the two that matter. In `Guarding` two calls of one session overlap, or
two of the other editor's, and a threshold of two needs two announcements; three upsets are
what it takes to break rules, wire by hand and have a hook fail; there is a file of each
class. Each report of `Evidence` has a claim for every way a check can go, so that one
verification walks through them; two verifiers and two files are what folding, diff and
history need. In `Custody` a receipt, the other one, two keys and four commands reach a key
replaced under an anchor, a bundle of two ages, an envelope copied while it is written and
an answer lost and asked for again; two reviews of a receipt from before overlap at every
step, and a verdict that settles what they left and one after it follow. A caller of
`FileLock` calls as often as it likes, so one can meet the lock of another each time it
opens and none each time it looks. Properties that hold here for structural reasons are also
proved for all values.

**Fairness.** `FileLock` and `TapLog` have liveness properties. In `TapLog` only the end of
the process is fair, which is `drain`'s own timer; nothing is assumed of the disk, so
`ExitEnds` says that a disk that never answers cannot hold the exit back. In `FileLock`,
weak fairness of every caller's own steps is the operating system's scheduler (a call is one
thread of straight-line code, it waits for nobody except by sleeping); weak fairness of
`Age` is the clock. Starting a call and dying are not fair, and nothing is strongly fair. A
caller that keeps finding a fresh lock runs out of retries and throws; one that finds the
file vanished or stale (`lock.ts:41`, `44`) goes round without asking how often it has
tried, and without a sleep. So `CallEnds` says that a call ends unless that happens to it
for ever (`TurnedBackForEver`). Without that exception it does not hold, though the comment
at `lock.ts:22` says that a call which does not get the lock throws in the end.

**Conditions in the properties**, each the line between what the code does
achieve and what it does not:

- `SafeUntilStale`, `ImplementsMutex`: until a lock file is old (see above).
- `TruncationHasCause`, `EvidenceFirst`: for a log without a torn
  line or a reset (`Untouched`). After a torn line the mark counts lines that no
  reader parses and stays ahead; the record after it joins the torn line, so the
  evidence of a deny may be unreadable; a reset between an append and its mark
  leaves a mark without a log.
- `ChainSound` is about neighbouring lines; `SeqIncreasing` reaches over lines that
  do not parse.
- `ReportedStay`: unless a corrupt line is in the file, which accounts for it; and
  while no rebuild runs beside a writer (`Overlap`): the list a rebuild took at line
  205 of `ledger.ts` replaces the file at line 235, entries made in between included.
- `WindowExact`: everything recorded after `begin` read its boundary is inside, which
  protects a session from being blamed for silence; it needs the log not to be reset under
  the session (`MaxResets` is 0: after a reset the numbers start again), and no torn write
  (`Torn` is off: a record that an unfinished line took with it has its number in the mark
  already, and the next one takes the number again). That nothing older is inside, and
  `ObservedIsReal`, need the mark to have been level with the log. A mark that lags (its
  write failed, or its hook is still inside) makes old records count as new. The run has
  `Alone`: two overlapping `begin`s both pass the test for a file, and the later one
  overwrites the baseline (`start.ts:90`).
- `TapWindowExact` excepts a process with a known id that starts anew on a removed log:
  its numbers begin at 1 again, below the cursor.
- `PageBecomesFinal`: of a mark that names a page, that page becomes final, and an
  earlier one stays as it was; of a mark that names none, no page of a receipt sealed
  since the mark was made waits.
- `PassIsEarned` and `PageBecomesFinal` hold as long as nothing overlapped and nothing
  failed (`upset`); `MismatchNeverPasses` needs no such condition. Beside each other, a
  Stop hook can write an older mark back over a newer one or exchange a bound session,
  and a page can stay PENDING or be recorded in the next receipt's mark; the code
  has no lock there. Between the two writes of the sidecar (lines 446 and 461 of
  `completion.ts`) a page rendered beside the hook, or after its death, shows PASS
  for an answer without readable claims; the same if the second write fails.
- `CallEnds` excepts a caller that is turned back for ever. That is one in a directory where
  no lock file can be created (the open is refused, the stat finds nothing), and one that
  meets a lock at each open and none at each stat, as others come and go. The removal of
  a lock file is taken to succeed.
- `NothingSilent` needs `LateFrames` to be off: stdin and stdout are read on while the
  log drains after the exit event (`tap.ts:773`), and a frame that arrives then may be
  merged into a window nobody flushes any more. It speaks of processes that left a line
  at all: where every append of a process failed, the file holds nothing of it. Of a
  process without a shutdown record it promises the frames up to its last line; what it
  had in the queue or in an open window when it was killed is gone, and if a later process
  of the same pid ends in good order, `tap verify` has nothing to say: it looks for a
  shutdown in the last record only. `docs/MCP_TAP_SPEC.md` (line 104) would have one before
  every further `meta`, which the code does not ask for.
  `BreakHasCause` excepts lines that the flush at exit put before older ones.
- `PairedRight` needs a client that does not use an id while it
  still waits for an answer under it; a request in an opaque frame is outside
  `PairedRight`, as its answer may be taken for that to an older request whose
  answer was opaque. `CallsAccounted` excepts a call whose key was written over,
  which leaves no record of it. `SweepComplete` needs the order of the map to be the
  order of time, as the comment in `sweep` has it: a key written over keeps its place
  with a newer time, and `Date.now` may go back.
- After a drop, the marker takes its number when the next record reaches the log, which
  may be inside an open window: the merged record then spans more numbers than its
  `repeat`, and `tap verify` reports a sound file. `MergeLossless` counts frames, not
  numbers.
- Calls that still wait when the stream ends are not written down, the one under
  which a server died among them; `CallsAccounted` speaks of the living process.
- `PassCovers` on denied files: a denied change that was committed is in the list of
  changes, and no longer among the files that are not clean, which is where denied files
  are looked for (`checks.ts:113`): `done` says PASS with the denied file in its list,
  though the rule at `verdict.ts:41` makes a change of a denied file a FAIL.
- `GateIsRight` on matching is about receipts of `receipt` and `finish`; one of `done`
  never matches, as its seal has a verdict in it that `commit-check` does not put into the
  receipt it compares with (`commitcheck.ts:73`; the program's README, line 329, asks for a
  receipt that matches the current change); `next` asks for `done` again.
- `PassCovers` is about files that were clean at `begin`; a file that was dirty then is
  left out of its list for good, its further changes too.
- `GateIsRight` on approval is about what the seal covers: names, line counts, the
  commit and the outcome of the checks. Other contents of the same size under the same
  names are the same to it.
- `finish` writes a receipt before it asks whether the latest receipt is approved:
  where the policy calls for approval it cannot pass. `GatesOK` takes those steps.
- `ReconIsClean` needs a baseline that applies. After an amend or on another branch,
  close-recon finds nothing changed if the tree is clean, whatever was committed since.
- `BlockCommits` excepts files staged before the session: `git commit` takes the whole
  index. `git add` of the printed list fails as a whole if a file is neither in the
  tree nor in the index, as is one whose deletion is committed already.
- `capture verify` reads the log and then the mark: a hook that appends in between
  makes it report a truncation; `TruncationHasCause` says that nothing else does.
- `Restorable` excepts slots where a run died before it saved the sidecar, tore it, or
  uninstalled a configuration it could not read, whose originals it drops all the same.
  A server unwrapped by hand to the same command shows no drift, though
  `docs/MCP_TAP_SPEC.md` (lines 72 and 227) counts on it. `OnlyDriftReverts` excepts an
  edit made between a run's reading and writing of the file, which is lost. Entries
  once excluded or unwrappable are never taken off those lists.
- `BlockHolds` is about hooks that are wired and get to their end, under rules that
  stand still. A policy that does not parse is the default one, which does not block:
  it turns the contract's denials into warnings too. A hook that gets no lock loses its
  refusal. What `policy check` finds changed although forbidden came about while no
  block rule was in its way.
- `LoopFlagged` is about sessions whose calls do not overlap and whose hooks do not fail.
  Denied writes count as a change. A command in which a network match is found is of
  the class network only, whatever else is in it: a delete, a push, a test.
- `WasteIsReal` (in `ShownIsTrue`) excepts calls heard by two hooks of one event, which
  count twice. A record of an attempt that was refused or failed before the hook after
  it is an action like any other; created-then-deleted does not ask for the order.
- `WiringIsWhole` counts as the user's own the entries that hold no command of ours: one
  that holds both is removed whole at uninstall, the user's command with it, where the
  comment at `capture.ts:871` says that only capture hooks are removed. Nothing in the
  command line calls `removeCursorCaptureHooks`.
- `GradedByTheWorld`: an empty `sourceUrl` is an invalid link, a council does not judge
  bounds, and a cited receipt that is torn counts as a mismatch: so the operators say
  what is asked of a claim and what is decidable, per surface.
- `LogBreakHasCause` excepts torn lines and councils that overlap, which chain to the same
  line (`council.ts:202`).
- `NoFalseAlarm` excepts a private key lost, or replaced by a `keys init` that looked
  before the key was there, or one of `keys init` by an anchor that did (the comment at
  `keys.ts:84` says that a key is not overwritten);
  bundles into a directory used before, where the anchor files of the earlier one stay;
  redaction, after which a bundle or a pack fails its own verification; and a bundle made
  while an anchor writes the envelope, or after one died in it: `anchor.ts:161` writes in
  place, and `verifyproof.ts:89` fails an envelope that does not parse.
- `PassIsSigned` says nothing of bundles without a signature. `anchor` signs the
  seal it finds and does not compute it again.
- `AnchorsAreTrue` excepts receipts whose upload was answered by something else than the log
  just as the log might have (`misled`): a 201 with a key, or a 409 with any long
  hexadecimal token, which `anchor.ts:99` takes for the UUID.
- `ApprovalsAreTrue` is, on the last word, about receipts whose reviews came one after the
  other (`Settled`). Two that overlapped, or one that died in its write, may leave the older
  status, or a sidecar that counts as no review, until a verdict is given undisturbed. A note
  writes the status it read back over a verdict given since (`approve.ts:92`, `53`):
  a rejection may be followed by the approval it replaced, though the comment at
  `approve.ts:77` says that a note keeps the status there is.
  That nothing counts as approved which nobody approved needs no condition.
- Approvals are looked up by path; the `contentHash` in a sidecar is
  not compared. A pack copies approval and signature of the latest stored receipt next
  to a receipt it builds afresh. Anchors are kept by base name, whatever the directory.
- A degraded marker counts for every later window, since the verdict counts markers
  over the whole log; a broken chain or a truncated tail does not reach the verdict
  at all. `Assess` is translated as it is.
- A completion receipt does not replay: fields are merged in after its content
  hash was taken, and the replay hashes them.
- When the section cannot be had, a deny that was decided is not printed, and a
  marker may be dropped without a trace: `Degrade` takes those steps, and no
  property says otherwise.

## What is proved

The proofs hold for every value of the constants that meets the named assumptions
(`LockAssumption`, `CaptureAssumption`, `SessionAssumption`, `TapWindowAssumption`,
`LedgerAssumption`, `CompletionAssumption`, `TapAssumption`, `TapSessionAssumption`,
`WiringAssumption`, `LoopAssumption`, `WorkTreeAssumption`, `CustodyAssumption`,
`EvidenceAssumption`, `ReportAssumption`, `ClaimAssumption`, `FactsAssumption`, and the four
of `Guarding`): any number of processes, calls, retries, records; with and without crashes,
torn writes, lost marks. The assumptions say that bounds are numbers, that switches are
Booleans, that what contract and policy list are files, that receipt files are finitely
many, that a report is a list of claims under a name of its own, and that the values which
stand for nobody and nothing are none of the others. `ClaimAssumption` says what a claim and
a text are made of (a field that is there holds something, a path is one of the world's, a
number is a fraction). Those of `Guarding` say more, about what comes in from outside:
`EnvelopeAssumption` which fields the two editors send, as the comments of `hook-deny.ts`
and `cursor-hook.ts` have measured them (a payload of one never looks like the other's);
`CallAssumption` that a call has the target its tool takes, and that a command's fingerprint
is its own, as SHA-256 is taken to be; `HandAssumption` that an entry written by hand spells
our command as an installer does.

- `LedgerProofs`, on the lock. `LockTyping`. `Safe` (`SafeUntilStale`): the inductive invariant is
  that while no file has been old, only the owner of the file is at `fn` or
  `unlink`, and nobody is at `steal`; without the second part the `rm` of a thief
  could not be excluded. `Serialises`: initial states and steps map to those of
  `Mutex` or stutter, until a file is old. `AlwaysSerialises`: if nobody dies and
  no section outlives `staleMs`, no file is ever old and the implementation holds
  for ever.
- `CaptureLogProofs`. First what `LastRecord` returns, what `AppendLines` and `Cut` keep
  of a file: the lemmas that let an invariant about the log pass over an append, torn
  or not. Natural-number induction is reached through the least element of a
  non-empty set. Then, for any file:
  `Typing`, `ChainHolds` (`ChainSound`), `NumbersGrow` (`SeqIncreasing`). The inductive
  invariant `IInv` adds `Guarded` to them: who is
  between `ReadTail` and the end of the section holds the lock, and what it read
  of the tail is still what the log ends with, or the log was emptied by a reset
  since. The chain alone is not inductive: an appending hook must know that nobody
  appended since it read.
- Also there, for a log no line of which was broken and which was not reset (`Untouched`):
  `EvidenceIsFirst` (`EvidenceFirst`), `AlarmHasCause` (`TruncationHasCause`),
  `WindowHolds` (`WindowExact`) and `ObservationHolds` (`ObservedIsReal`). `LogInv` adds
  to `IInv` that line i has number i (`Numbered`), that the mark is nowhere ahead of
  the log (`MarkBehind`), that what a hook in its section goes by is what
  it appended to (`Sections`), and that what `capture verify` holds between its two
  looks is the log unless a record came since (`VerifyFits`). `WindowInv` says of each
  boundary that was read, in memory or in `session.json`, that what was recorded later
  has a higher number (`ReadFits`). The first two properties have the condition inside; of
  the other two, `NeverTouched` says that without torn writes and resets, as in the
  run, it is met in every state.
- Also there: `TapWindowHolds` (`TapWindowExact`), without any condition. `TapInv` puts the
  records of a process into one line (`Flow`: in the file, in the queue, in the open
  window), whose numbers grow and which share no call; appending and merging only move
  the borders in that line. A cursor cuts it in two.
- `LedgerProofs`, on the ledger. `ChainStays` (`ChainIntact`) and `EntryStays`
  (`ReportedStay`), where no rebuild runs beside a writer (`Overlap = FALSE`; otherwise
  neither holds, as told above). `LedgerInv`: who is in the section holds the lock
  (`Section`); what a writer has read is still the hash of the last line that parses
  (`Reading`), without which a line that is appended need not fit; the list of a rebuild is
  still the receipts there are (`Rebuilding`); an entry about to be reported is in the file,
  or a line that does not parse is (`Entered`). That a rebuilt file is chained and has every
  receipt rests on ranks: in a finite set of numbers each is told by how many are no
  greater.
- `CompletionProofs`. `Typing` and `MismatchIsShown` (`MismatchNeverPasses`), under
  any overlap and failing write. The invariant carries that a sidecar's result
  fits its answer, in the file, in a reader's copy, and in what it is about to
  render. `PassEarned` (`PassIsEarned`) and `FinalPage` (`PageBecomesFinal`) for the
  undisturbed flow, where processes come one after the other in any order and number.
  Their invariant `Calm` holds its five parts as long as nothing is `upset`: one process
  is under way (`Sole`), its copy of the mark is the mark (`Copies`), every sidecar is
  complete but the one a hook is at (`Earning`), only sealed receipts have waiting pages
  (`Waiting`), and a waiting page is named by the mark or about to be (`Requests`). The
  last makes `PageBecomesFinal` inductive: a page nobody names would wait for ever.
- `TapProofs`, on `TapLog`. `BreaksHaveCause` (`BreakHasCause`) and `MergingLosesNothing`
  (`MergeLossless`), for any limits of queue and merging, any number of frames and
  processes, appends that fail or stop half way, kills, and an exit whose last flush
  overtakes the append under way; `NoSilentLoss` (`NothingSilent`) where the child's output
  has been read by its exit event (`~LateFrames`; otherwise the shutdown record is not the
  last), which is no more than a file that verifies shows: all frames of a process with a
  shutdown record, and those up to the last line of one without. All speak of the file;
  `TapInv` speaks of `Flow`, the file as it will be when what is queued has been appended,
  which an append that succeeds does not change. In it no two lines have one hash, and what
  stands between a line and the one it names is newer than that line (`Ordered`): that is
  all an overtaking flush leaves, and enough for `BreakHasCause`. A line counts the frames
  between its numbers (`LineOK`, `WindowOK`). `AllAccounted` says that as far as `tap
  verify` has nothing to say against the first j lines, whatever was observed up to there is
  in them, and `Told` that a frame which is in none has been confessed, or will be.
  `BreakHasCause` and the count of a merged line needed no sum over the file in the end,
  only facts about each line and each pair.
- `TapProofs`, on `TapSession`. Every invariant of `TapSession`, and that its map
  stays within its limit, for any ids, limits and number
  of requests. `Accounted` rests on one argument for all messages (`AccountsMove`):
  what is given up and what is answered are disjoint parts of the map, and no two
  entries are the same request. `PairsRight` and `OrphansHaveCause` share the
  invariant `Fresh`: as long as no id is used twice at a time, requests that wait
  have ids of their own, an entry under such an id is that request, and a request
  that was seen is in the map unless it was put out. `SweepsAll` needs that the
  order of the map is the order of time; `StaysBounded` that a map which is not
  empty has an oldest entry, so that making room makes some.
- `TapProofs`, on `TapWiring`. `CanBePutBack` (`Restorable`) and `CommandsStay`
  (`OnlyDriftReverts`), for any files, servers, runs and edits. `Restorable` speaks of
  moments when nothing runs; its invariant says what is true in between. `Backed`: what is
  wrapped on disk is in the sidecar, or the install under way has noted it and has
  written that file, which is what dies with it. `Ahead`: the same of the entries it
  is about to write, and that an uninstall leaves nothing wrapped where it has been.
  `Looked` and `Stays` carry the second half, that what was looked at was noted and
  only edits bring entries in; `SameCommand` that what is in memory starts what the
  file does or what was recorded. That `Edit` cannot wrap an entry is what keeps `Backed`.
- `CommitLoopProofs`. `PassIsWhole` (`PassCovers`), `GateHolds` (`GateIsRight`),
  `CommitInScope` (`BlockCommits`): all that the run checks, and `ReconLeavesNothing`
  (`ReconIsClean`, that close-recon drops no changes), for any files, versions, policies and
  paths. `LoopInv` is `TreeInv` (types, and that there is one session at most), `ReceiptInv`
  (as long as nothing changed, a receipt's seal is that of the state at hand), `CmdInv` (the
  same of what a running command has looked at) and `ScreenInv` (what is printed was right
  when it was printed, and is as long as nothing changed). A gate compares seals;
  `ReceiptInv` makes that a statement about the tree.
- `CustodyProofs`. `SignedPass` (`PassIsSigned`): whatever is copied into a bundle was
  signed as a whole or does not verify. `KeyIsKept` (`KeyStays`): a private key an anchor
  made is replaced by no command but a `keys init` that looked too early, for any number
  of anchors, which may die anywhere. The invariant `KeyInv` is what `.keys.lock` gives:
  an anchor that has looked and not yet written both halves holds it (`Alone`), so what
  has come since is of `keys init`, which does not take it (`Looked`).
  `AnchorsTrue` (`AnchorsAreTrue`) rests on `Books`: a receipt nobody altered has its own
  seal and what lies beside it is of it (`Intact`), what an anchor carries from its
  reads to its writes is of the receipt it is at (`AnchorsHold`), every UUID noted is in the
  log unless something else gave it (`Logged`). `ApprovalsTrue` (`ApprovalsAreTrue`) has
  `Reviewed`, for any number of reviewers: what each has in hand is what it read or was told
  (`Holds`), two at one receipt contest it (`Apart`), and where nothing is contested and
  nobody is writing the sidecar has the last word (`LastWord`). `NoAlarm`
  (`NoFalseAlarm`) adds to `Books` that there is one key as long as none was replaced
  (`Whole`), of the envelopes that anchors are about to write too, with
  `KeyInv` for whoever is about to write half of it, and that a bundle or pack is right as
  it is handed on (`HandedOn`).
- `GuardingProofs`. All four invariants of `Guarding`, for any editors, sessions, calls,
  rules and numbers of calls under way. Two invariants carry the rest: `WiringInv`, that
  in an editor's settings our commands name that editor or leave it to be inferred, so
  that a hook comes to the vendor that asks it (`Settled`); and `TypesInv`, that what a hook
  has judged are the records of its call (`Called`). `WiringStaysWhole` (`WiringIsWhole`) is
  about the first, with what `MergeHooks` and `RemoveHooks` return; that an uninstall
  keeps the order of the others' entries rests on ranks, as in `LedgerProofs`.
  `ForbiddenIsRefused` (`BlockHolds`): a call that is forbidden has a hook still to come or is
  denied already (`Held`), and what policy check finds was changed out of every block
  rule's way (`Firm`). `LoopsAreFlagged` (`LoopFlagged`): `evalLoopGuard` counts lines of a
  shared log, the property counts what a session did; `Even` says that the two counts
  are equal, or differ by the call being announced, as long as the session's calls are
  alone (`Alone`) and none of its hooks failed, and that lines of others do not enter. That a
  command's fingerprint is its own is used here. `ShowIsTrue` (`ShownIsTrue`): the
  paths of the log are those heard (`HeardIn`), and for every kind of event and every call, the
  records written and the calls that still owe one are together no more than were
  made (`Balanced`), in which a reset clears the first and keeps the second. That a path
  read n times has at most n - 1 readings after another needs the first of them.
- `EvidenceProofs`. The five properties of `Evidence`, for any verifiers, reports, worlds
  and receipt files. `LogBreaksHaveCause` (`LogBreakHasCause`): what a council between
  its two steps has read as the last line is the last line, unless that one is torn or
  was written while this council was already at the log, and then says so itself
  (`LogInv`). `SealsSayWhatWasRead` (`SealSaysWhatWasRead`): `ProcInv` says of every verifier
  under way that its results so far are of the first claims of the report it has read, in
  order, and were judged by the text they carry (`Borne`). `ReplaysAreExact`
  (`ReplayIsExact`): `ReceiptsInv` says of every readable receipt that its hash is of what its
  verifier wrote, that this was right (`SealedRight`), and what an edit leaves of it
  (`Kept`); an intact receipt is then the written one, field for field.
  `GraphHoldsTogether` (`GraphAddsUp`) is about what the graph commands make of any directory
  in which that holds. `Later` orders its rows, so that a set of rows has a newest (`NewestIs`)
  and a place for each (`InOrderIs`); folding leaves one row for an id (`FoldedIs`), and rows of
  one id fold alike wherever they are the same rows (`SameGroupSameRow`). Sums over sets,
  which the community modules define by recursion, are reached through another function
  that meets the same equation (`SumCounts`). A history keeps the last claim of a
  receipt with a fingerprint, a comparison the last event with it: `StateIsKept` says that
  this is the same. `RehashedIs` needs that a report's name is not "elsewhere", that is,
  that what is no report has another hash.
  `RangesMeanWhatTheySay` says that what `semverSatisfies` decides of a version and a
  readable range (compare, then stay below the bound of `caretUpper`) is what the range's
  words mean (`Allows`: the same up to the leftmost place that is not 0).
  `GradesAreTheWorlds` (`GradedByTheWorld`) stands on it: `InputIs` says field by field what
  a claim is given, `AskedIs` that the checks it is put to are those its surface asks,
  `ChecksTell` that each check fails or bears out (`Tells`) what the claim's words mean of
  the world, where there is something to go by, and `VerdictIs` what the checks come to
  together. `SourceInv` is what it needs of the steps before: a page once fetched is a text
  some version of the world had. A citation of a receipt needs `ReplayIsExact`. This one has
  a premise, `RecomputedRight`: that for the claims of the reports the operations that fold
  a list (`OverLists`) come to what they mean, that a schema's walk finds what conforms, and
  that no claim states a tolerance. The first two compute over lists of any length.
  `MCEvidence` has the premise as an assumption, so TLC evaluates it for the six reports of
  the run. `StraightRight` proves the other operations, for every fraction: ratio, percent,
  count, abs, floor, ceil, round, and mod with JavaScript's sign (`RemainderIs`).

Only model-checked:

- liveness (`CallEnds`, `ExitEnds`): that, and `ENABLED`, are beyond the prover;
- `ForkShows`, which is about trees that `Merkle` defines by recursion;
- `RecomputedRight`, the premise of `GradesAreTheWorlds`: that a sum, a median or a
  deviation is what `Recompute` folds out of any list of operands needs induction over
  the list.

## What is abstracted

- A file write that replaces a file is one step (the code writes and renames, or
  writes a small file at once); an append is one step that may stop half way
  where `Torn` allows it.
- Text is a kind: events, answers, contents and sessions are members of small sets.
  The patterns that classify an event or find a claim are inputs.
- The merge of a completion sidecar reads and writes in one step (`completion.ts:458`,
  `461`). Two Stop hooks on one receipt may both be between the two, and then the one that read
  first may bring its own results back over those of the other, whole and with their own
  extraction status; the model has the later seal stand.
- Git is what it answers: a version for each file in tree, index and commits; no
  renames, no ignored files, no merges. A file has one line, so line counts say how
  many files differ.
- Of the commit loop: the NUL check, `require_no_staged_untracked`, `requireCheck`,
  `maxUntrackedAllowed`, capture and tap data in a seal, waste and red-flag warnings,
  the observation axis of the verdict (it is in `SessionWindow`), `--content`,
  `--committed`, audit packs (`next` asks for one before `prepare-commit`) and claims
  are left out. `begin`'s test for dirty denied files and its snapshot are one step
  here; `SessionWindow` takes `begin` apart.
- A signature is its key and what was signed, a hash what it covers; time stamps of
  third parties are outside.
- An append to the log is one step in `Guarding`.
- The form of a `rekor` sidecar is checked, its contents are not, as in the code.

## Not modelled

- The text patterns that tell commands apart, find a claim in an answer or classify an
  event, globs, and the framing of byte streams: they enter as inputs, that is, as what
  they found.
- `inbox`, `claims`, `genclaim`, `claimdiff`: they read drafts and write one file a command.
- `cost`, `transcript`, `pricing`, `otel`: arithmetic over a vendor's files, displayed
  and used for no verdict.
- `controls`, `bench`, `insights`, `dashboard`, `badge`, `report`, `status` and the like:
  computed in one pass from saved receipts, deciding nothing.
- The command line and the parsing of contract and policy text: no state.
- `site/kernel.js`: generated from the checks that `EvidenceKernel` and `EvidenceGraph`
  model; the page around it is static.
- HTML, wording, layout, languages.
- Cryptography, canonical JSON, the pages and the public log themselves.
- Two `begin`s at once, a reset of the log under a session, a rebuild beside a writer,
  frames after the exit event: the models have these steps (`Alone`, `MaxResets`,
  `Overlap`, `LateFrames`), and the properties do not hold with them, as told above.
- What is waiting when a tapped stream ends, and `finish` where approval is called for,
  are in the models; no property says more of them than is told above.

## Order of the modules

`FileLock`, `CaptureLog`, `Ledger`, `SessionWindow`, `Completion`, `TapLog`, `TapSession`,
`CommitLoop`, then `TapWiring`, `TapWindow`, `EvidenceKernel` to `EvidenceProps`, `Merkle`
and `LedgerTree`, `GuardRules` and `Guarding`, `Custody`: each stands on earlier ones or
on none. What could follow are proofs about `Recompute` and about `LedgerTree`, and a model
of the audit-pack writer's exports.
