------------------------------ MODULE Custody ------------------------------
(***************************************************************************)
(* What becomes of a receipt after `done`: it is reviewed, signed, anchored *)
(* in a public log and handed on, by commands that share the receipts, the  *)
(* sidecars beside them and the keys, and of which only the making of keys  *)
(* takes a lock.  keys.ts, approve.ts, anchor.ts, attest.ts, receiptStore.ts,*)
(* auditpack.ts, replay.ts, verifyproof.ts, the bundle of shareproof.ts.    *)
(* A file written in place is cut to nothing first: until the write is done, *)
(* and for good if its writer dies, it does not parse (Torn).               *)
(*                                                                         *)
(* A receipt is [facts, ok, seal, at]: what was measured, the verdict, the  *)
(* contentHash, and what the hash leaves out.  A hash is what it covers; a  *)
(* signature is its key and what was signed; a key is a number, 0 none.     *)
(***************************************************************************)
EXTENDS Integers, FiniteSets, FiniteSetsExt

CONSTANTS Anchors,     \* processes running anchor --upload
          Reviewers,   \* processes running approve or review
          Works,       \* states the work may be in
          Outcome,     \* per state: the verdict of it
          Secret,      \* states whose receipt has something to redact
          Masked,      \* facts of such a receipt, redacted
          Null,        \* no file
          Torn,        \* a file that does not parse
          Noise,       \* a long hexadecimal token that is no entry's UUID
          MaxReceipts, \* bound: receipts made by done
          MaxKeys,     \* bound: keys generated
          Room         \* bound: commands, edits, removals, deaths, all told

Damaged == -1          \* a key file that does not parse

\* Receipts are named by their time; 0 is a name given with --out, which the
\* listing, sorted by name, puts first.
Paths == 0 .. MaxReceipts

\* A receipt, and the sidecar of a review; one of before has no status.
Receipts == [facts : Works, ok : {"pass", "fail"}, seal : Works \X {"pass", "fail"}, at : Int]
Reviews == [status : {Null, "approved", "rejected", "needs-review"}]

ASSUME CustodyAssumption ==
    /\ Null \notin Anchors \cup Receipts \cup Reviews \cup {"approved", "rejected", "needs-review"}
    /\ Torn \notin Reviews \cup {Null}
    /\ Secret \subseteq Works /\ Masked \notin Works
    /\ Outcome \in [Works -> {"pass", "fail"}]
    /\ {MaxReceipts, MaxKeys, Room} \subseteq Nat

VARIABLES work, gone,          \* the state of the work; states whose commit is gone
          receipts, approval, signature, rekor, dsse,   \* files, by receipt
          priv, pub,           \* the key files
          entries,             \* what the public log has
          pc, job, keyLock,    \* the anchors, and who holds .keys.lock
          reviewer,            \* the reviewers
          initer,              \* keys init
          bundle, pack,        \* what was handed on last
          made, minted, room,
          verdict,             \* history: a receipt's last approval or rejection
          backed,              \* history: receipts that were approved once
          contested,           \* history: since the last verdict that was written with
                               \* no other review beside it, two overlapped, or one
                               \* died while it wrote
          misled,              \* history: receipts whose upload was answered as the log
                               \* would, by something else
          altered,             \* history: receipts rewritten, or edited by hand
          rekeyed,             \* history: a private key was lost, or replaced by or of keys init
          ofInit,              \* history: the keys that keys init made
          signed               \* history: <<key, seal>> of every statement

work_ == <<work, gone>>
files == <<receipts, approval, signature, rekor, dsse>>
keys == <<priv, pub, keyLock, minted, rekeyed, ofInit>>
handed == <<bundle, pack>>
reviewing == <<reviewer, verdict, backed, contested>>
public == <<entries, misled>>
vars == <<work_, files, keys, public, pc, job, initer, handed, made, room,
          reviewing, altered, signed>>

Nothing == [of |-> Null]
NoJob == [path |-> 0]
NoReview == [at |-> "idle"]

ReceiptHash(r) == <<r.facts, r.ok>>
BuildReceipt(at) ==
    [facts |-> work, ok |-> Outcome[work], seal |-> <<work, Outcome[work]>>, at |-> at]

\* A receipt of an older version may be there, with an approval of the time
\* before reviews had a status.
Init ==
    /\ work \in Works /\ gone = {}
    /\ \E old \in BOOLEAN :
          /\ receipts = [p \in Paths |-> IF p = 1 /\ old THEN BuildReceipt(1) ELSE Null]
          /\ approval = [p \in Paths |-> IF p = 1 /\ old THEN [status |-> Null] ELSE Null]
          /\ verdict = [p \in Paths |-> IF p = 1 /\ old THEN "approved" ELSE Null]
          /\ backed = IF old THEN {1} ELSE {}
          /\ made = IF old THEN 1 ELSE 0
    /\ signature = [p \in Paths |-> Null] /\ rekor = signature /\ dsse = signature
    /\ priv = 0 /\ pub = 0 /\ keyLock = Null /\ minted = 0 /\ entries = {}
    /\ pc = [a \in Anchors |-> "idle"] /\ job = [a \in Anchors |-> NoJob]
    /\ reviewer = [r \in Reviewers |-> NoReview] /\ contested = {} /\ misled = {}
    /\ initer = [at |-> "idle", key |-> 0]
    /\ bundle = Nothing /\ pack = Nothing
    /\ room = Room /\ altered = {} /\ rekeyed = "no" /\ ofInit = {} /\ signed = {}

\* What starts something takes of the room there is.
Takes == room > 0 /\ room' = room - 1

-----------------------------------------------------------------------------
(* Receipts and what lies beside them                                      *)

\* listReceipts, and the latest by default.
Stored == {p \in Paths : receipts[p] # Null}
Latest == IF 0 \in Stored THEN 0 ELSE Max(Stored)

\* Mutant: whoever has a sidecar is approved.
ExistsIsApproved(p) == IF approval[p] \in {Null, Torn} THEN Null ELSE "approved"

\* approvalStatusFor: one that does not parse is none, one without a status is
\* an approval.
ApprovalStatusFor(p) ==
    IF approval[p] \in {Null, Torn} THEN Null
    ELSE IF approval[p].status = Null THEN "approved" ELSE approval[p].status
HasApproval(p) == ApprovalStatusFor(p) = "approved"
ApprovalsCountFor(p) == IF HasApproval(p) THEN 1 ELSE 0

Done ==
    /\ Takes /\ made < MaxReceipts /\ made' = made + 1
    /\ receipts' = [receipts EXCEPT ![made'] = BuildReceipt(made')]
    /\ UNCHANGED <<work_, approval, signature, rekor, dsse, keys, public, pc, job,
                   initer, handed, reviewing, altered, signed>>

\* receipt --out <name> writes over what has that name; sidecars stay.
Reissue ==
    /\ Takes
    /\ receipts' = [receipts EXCEPT ![0] = BuildReceipt(0)] /\ receipts' # receipts
    /\ altered' = IF receipts[0] # Null THEN altered \cup {0} ELSE altered
    /\ UNCHANGED <<work_, approval, signature, rekor, dsse, keys, public, pc, job,
                   initer, handed, made, reviewing, signed>>

\* What a file holds when a write in place is done: what was written, unless
\* another has written since this one cut it, which may leave a mixture.
AfterWrite(before, new) == {new} \cup IF before # Torn THEN {Torn} ELSE {}

Under(p) == {r \in Reviewers : reviewer[r].at # "idle" /\ reviewer[r].path = p}

\* approve, review approve, review reject and review note start; a note takes
\* the status there is, and writes it after the receipt has been parsed and git
\* asked who is at work.
ReviewStarts(r, p, mark) ==
    /\ Takes /\ p \in Stored /\ reviewer[r] = NoReview
    /\ LET found == IF ApprovalStatusFor(p) = Null THEN "needs-review" ELSE ApprovalStatusFor(p)
       IN  reviewer' = [reviewer EXCEPT ![r] = [at |-> "read", path |-> p, mark |-> mark,
                                                status |-> IF mark = "note" THEN found ELSE mark]]
    /\ contested' = IF Under(p) # {} THEN contested \cup {p} ELSE contested
    /\ UNCHANGED <<work_, files, keys, public, pc, job, initer, handed, made, verdict,
                   backed, altered, signed>>

\* writeSidecar writes in place.
ReviewOpens(r) ==
    /\ reviewer[r].at = "read"
    /\ approval' = [approval EXCEPT ![reviewer[r].path] = Torn]
    /\ reviewer' = [reviewer EXCEPT ![r].at = "write"]
    /\ UNCHANGED <<work_, receipts, signature, rekor, dsse, keys, public, pc, job, initer,
                   handed, made, room, verdict, backed, contested, altered, signed>>
ReviewWrites(r) ==
    LET v == reviewer[r]
    IN  /\ v.at = "write"
        /\ \E side \in AfterWrite(approval[v.path], [status |-> v.status]) :
              approval' = [approval EXCEPT ![v.path] = side]
        /\ IF v.mark = "note" THEN UNCHANGED <<verdict, backed, contested>>
           ELSE /\ verdict' = [verdict EXCEPT ![v.path] = v.mark]
                /\ backed' = IF v.mark = "approved" THEN backed \cup {v.path} ELSE backed
                /\ contested' = IF Under(v.path) = {r} /\ approval'[v.path] # Torn
                                THEN contested \ {v.path} ELSE contested
        /\ reviewer' = [reviewer EXCEPT ![r] = NoReview]
        /\ UNCHANGED <<work_, receipts, signature, rekor, dsse, keys, public, pc, job,
                       initer, handed, made, room, altered, signed>>
ReviewDies(r) ==
    /\ Takes /\ reviewer[r].at # "idle"
    /\ contested' = IF reviewer[r].at = "write" THEN contested \cup {reviewer[r].path}
                    ELSE contested
    /\ reviewer' = [reviewer EXCEPT ![r] = NoReview]
    /\ UNCHANGED <<work_, files, keys, public, pc, job, initer, handed, made, verdict,
                   backed, altered, signed>>

\* sign, which may die in its write; verify-signature: 0 pass, 1 fail, 2 cannot
\* say.
Sign(p) ==
    /\ Takes /\ p \in Stored /\ priv > 0
    /\ \E sig \in {[key |-> priv, over |-> receipts[p]], Torn} :
          signature' = [signature EXCEPT ![p] = sig]
    /\ UNCHANGED <<work_, receipts, approval, rekor, dsse, keys, public, pc, job,
                   initer, handed, made, reviewing, altered, signed>>
VerifySignature(p) ==
    IF receipts[p] = Null \/ signature[p] \in {Null, Torn} \/ pub \in {0, Damaged} THEN 2
    ELSE IF signature[p] = [key |-> pub, over |-> receipts[p]] THEN 0 ELSE 1

-----------------------------------------------------------------------------
(* Keys                                                                    *)

Goto(a, l) == pc' = [pc EXCEPT ![a] = l]

\* Mutant: a key pair of which the public half is missing is made anew.
KeepsIfWhole == priv # 0 /\ pub # 0

\* A private key that is there is kept.
KeepsKey == priv # 0

\* ensureSigningKey, in the section of .keys.lock: with a private key the
\* public one is read, or made from it.
EnsureKept(a) ==
    /\ pc[a] = "keys" /\ keyLock = Null /\ KeepsKey
    /\ IF priv = Damaged THEN Goto(a, "idle") /\ UNCHANGED <<pub, job>>
       ELSE /\ pub' = IF pub = 0 THEN priv ELSE pub
            /\ job' = [job EXCEPT ![a].key = priv]
            /\ Goto(a, "sign")
    /\ UNCHANGED <<work_, files, priv, keyLock, minted, rekeyed, ofInit, public,
                   initer, handed, made, room, reviewing, altered, signed>>

\* Without one a pair is made in memory and written, the private key first,
\* over what keys init may have written since.
EnsureMinted(a) ==
    /\ pc[a] = "keys" /\ keyLock = Null /\ ~KeepsKey /\ minted < MaxKeys
    /\ minted' = minted + 1 /\ job' = [job EXCEPT ![a].key = minted']
    /\ keyLock' = a /\ Goto(a, "priv")
    /\ UNCHANGED <<work_, files, priv, pub, rekeyed, ofInit, public, initer, handed,
                   made, room, reviewing, altered, signed>>
EnsurePrivate(a) ==
    /\ pc[a] = "priv" /\ priv' = job[a].key
    /\ rekeyed' = IF priv \in ofInit THEN "yes" ELSE rekeyed
    /\ Goto(a, "pub")
    /\ UNCHANGED <<work_, files, pub, keyLock, minted, ofInit, public, job, initer,
                   handed, made, room, reviewing, altered, signed>>
EnsurePublic(a) ==
    /\ pc[a] = "pub" /\ pub' = job[a].key
    /\ keyLock' = Null /\ Goto(a, "sign")
    /\ UNCHANGED <<work_, files, priv, minted, rekeyed, ofInit, public, job, initer,
                   handed, made, room, reviewing, altered, signed>>
LockThrows(a) ==
    /\ pc[a] = "keys" /\ keyLock # Null /\ Goto(a, "idle")
    /\ UNCHANGED <<work_, files, keys, public, job, initer, handed, made, room,
                   reviewing, altered, signed>>

\* keys init takes no lock: it looks, then writes one file and the other.
InitLooks ==
    /\ Takes /\ initer.at = "idle" /\ priv = 0 /\ pub = 0 /\ minted < MaxKeys
    /\ minted' = minted + 1 /\ initer' = [at |-> "priv", key |-> minted']
    /\ ofInit' = ofInit \cup {minted'}
    /\ UNCHANGED <<work_, files, priv, pub, keyLock, rekeyed, public, pc, job, handed,
                   made, reviewing, altered, signed>>
InitPrivate ==
    /\ initer.at = "priv"
    /\ priv' = initer.key /\ initer' = [initer EXCEPT !.at = "pub"]
    /\ rekeyed' = IF priv # 0 THEN "yes" ELSE rekeyed
    /\ UNCHANGED <<work_, files, pub, keyLock, minted, ofInit, public, pc, job,
                   handed, made, room, reviewing, altered, signed>>
InitPublic ==
    /\ initer.at = "pub"
    /\ pub' = initer.key /\ initer' = [at |-> "idle", key |-> 0]
    /\ UNCHANGED <<work_, files, priv, keyLock, minted, rekeyed, ofInit, public, pc,
                   job, handed, made, room, reviewing, altered, signed>>

\* It dies, perhaps half way through a file.
InitDies ==
    /\ Takes /\ initer.at # "idle"
    /\ \/ UNCHANGED <<priv, pub>>
       \/ initer.at = "priv" /\ priv' = Damaged /\ UNCHANGED pub
       \/ initer.at = "pub" /\ pub' = Damaged /\ UNCHANGED priv
    /\ rekeyed' = IF priv' # priv \/ pub' # pub THEN "yes" ELSE rekeyed
    /\ initer' = [at |-> "idle", key |-> 0]
    /\ UNCHANGED <<work_, files, keyLock, minted, ofInit, public, pc, job, handed,
                   made, reviewing, altered, signed>>

\* A user removes key files.
RemoveKeys ==
    /\ Takes
    /\ priv' \in {0, priv} /\ pub' \in {0, pub} /\ <<priv', pub'>> # <<priv, pub>>
    /\ rekeyed' = IF priv' # priv THEN "yes" ELSE rekeyed
    /\ UNCHANGED <<work_, files, keyLock, minted, ofInit, public, pc, job, initer,
                   handed, made, reviewing, altered, signed>>

-----------------------------------------------------------------------------
(* anchor --upload                                                         *)

\* prepareAnchor reads the receipt first; its seal is not computed again.
Start(a, p) ==
    /\ pc[a] = "idle" /\ Takes
    /\ p \in Stored
    /\ job' = [job EXCEPT ![a] = [path |-> p, receipt |-> receipts[p], key |-> 0]]
    /\ Goto(a, "keys")
    /\ UNCHANGED <<work_, files, keys, public, initer, handed, made, reviewing, altered,
                   signed>>

\* buildAiWorkStatement in its envelope, signed with the key in memory; the
\* approvals are those of now.  The envelope is written in place.
Envelope(a) ==
    [key |-> job[a].key, subject |-> job[a].receipt.seal, ok |-> job[a].receipt.ok,
     approvals |-> ApprovalsCountFor(job[a].path)]
SignStatement(a) ==
    /\ pc[a] = "sign"
    /\ dsse' = [dsse EXCEPT ![job[a].path] = Torn]
    /\ job' = [job EXCEPT ![a] = [path |-> @.path, envelope |-> Envelope(a)]]
    /\ signed' = signed \cup {<<job[a].key, job[a].receipt.seal>>}
    /\ Goto(a, "write")
    /\ UNCHANGED <<work_, receipts, approval, signature, rekor, keys, public, initer,
                   handed, made, room, reviewing, altered>>
WriteEnvelope(a) ==
    /\ pc[a] = "write"
    /\ \E e \in AfterWrite(dsse[job[a].path], job[a].envelope) :
          dsse' = [dsse EXCEPT ![job[a].path] = e]
    /\ Goto(a, "upload")
    /\ UNCHANGED <<work_, receipts, approval, signature, rekor, keys, public, job, initer,
                   handed, made, room, reviewing, altered, signed>>

\* An answer is [status, key, hex]: the first key of a map, the first long
\* token.  The log enters a statement, or says that it has it; or something that
\* is not the log answers, perhaps just as the log would.
LogAnswers(e) ==
    IF e \in entries THEN {[status |-> 409, key |-> Null, hex |-> e], [status |-> 409, key |-> Null, hex |-> Null]}
    ELSE {[status |-> 201, key |-> e, hex |-> e]}
Lookalikes == {[status |-> 409, key |-> Null, hex |-> Noise], [status |-> 201, key |-> Noise, hex |-> Noise]}
OtherAnswers == {[status |-> 201, key |-> Null, hex |-> Noise], [status |-> 503, key |-> Null, hex |-> Noise]}

\* Mutant: any long token of any answer is a UUID.
ExtractAnyHex(answer) == IF answer.key # Null THEN answer.key ELSE answer.hex

\* extractRekorUuid.
ExtractRekorUuid(answer) ==
    IF answer.key # Null THEN answer.key
    ELSE IF answer.status = 409 THEN answer.hex
    ELSE Null
UuidOf(answer) == IF answer.status \in {201, 409} THEN ExtractRekorUuid(answer) ELSE Null

\* uploadToRekor: without a UUID the command ends; the statement may have come
\* to the log all the same, whatever answers.
Upload(a) ==
    /\ pc[a] = "upload"
    /\ LET e == job[a].envelope
       IN  \E answer \in LogAnswers(e) \cup Lookalikes \cup OtherAnswers :
             LET uuid == UuidOf(answer)
             IN  /\ entries' \in {entries, entries \cup {e}} /\ (answer.key = e => e \in entries')
                 /\ misled' = IF answer \in Lookalikes THEN misled \cup {job[a].path} ELSE misled
                 /\ job' = [job EXCEPT ![a] = IF uuid = Null THEN NoJob ELSE [path |-> @.path, uuid |-> uuid]]
                 /\ Goto(a, IF uuid = Null THEN "idle" ELSE "answer")
    /\ UNCHANGED <<work_, files, keys, initer, handed, made, room, reviewing, altered,
                   signed>>

\* The sidecar that buildRekorAnchor makes; it may fail to be written.
Answered(a) ==
    /\ pc[a] = "answer" /\ Goto(a, "idle")
    /\ rekor' \in {rekor, [rekor EXCEPT ![job[a].path] = job[a].uuid]}
    /\ job' = [job EXCEPT ![a] = NoJob]
    /\ UNCHANGED <<work_, receipts, approval, signature, dsse, keys, public, initer,
                   handed, made, room, reviewing, altered, signed>>

\* The lock of a process that died is taken over in time.
Dies(a) ==
    /\ Takes /\ pc[a] # "idle" /\ Goto(a, "idle")
    /\ keyLock' = IF keyLock = a THEN Null ELSE keyLock
    /\ job' = [job EXCEPT ![a] = NoJob]
    /\ UNCHANGED <<work_, files, priv, pub, minted, rekeyed, ofInit, public, initer,
                   handed, made, reviewing, altered, signed>>

-----------------------------------------------------------------------------
(* Handing on                                                              *)

Redact(r) == IF r.facts \in Secret THEN [r EXCEPT !.facts = Masked] ELSE r

\* share-proof --bundle writes what there is into a directory, which --out may
\* name a second time: what is not there now stays from the time before.
ProofBundle(p, dir, redact) ==
    /\ Takes /\ p \in Stored /\ dir \in {"fresh", "again"} /\ (dir = "again" => bundle # Nothing)
    /\ LET kept(f, new, none) == IF new # none \/ dir = "fresh" THEN new ELSE bundle[f]
       IN  bundle' = [of |-> p,
                receipt |-> IF redact THEN Redact(receipts[p]) ELSE receipts[p],
                dsse |-> kept("dsse", dsse[p], Null), rekor |-> kept("rekor", rekor[p], Null),
                pub |-> kept("pub", pub, 0),
                plain |-> IF /\ dir = "fresh" /\ p \notin altered /\ rekeyed = "no"
                             /\ (redact => receipts[p].facts \notin Secret)
                          THEN "yes" ELSE "no"]
    /\ UNCHANGED <<work_, files, keys, public, pc, job, initer, pack, made, reviewing,
                   altered, signed>>

\* Mutant: the statement need not be about this receipt.
SubjectAny(b) == TRUE

\* verify-proof, check by check; what is missing is skipped.
ReceiptHashOk(b) == ReceiptHash(b.receipt) = b.receipt.seal
Signed(b) == b.dsse # Null /\ b.pub # 0
SignatureOk(b) == b.dsse # Torn /\ b.dsse.key = b.pub
SubjectOk(b) == b.dsse # Torn /\ b.pub # Damaged /\ b.dsse.subject = b.receipt.seal
VerifyProof(b) ==
    /\ ReceiptHashOk(b)
    /\ Signed(b) => SignatureOk(b) /\ SubjectOk(b)

\* audit-pack: a receipt of now, the approval and signature of the latest.
AuditPack(redact) ==
    LET r == BuildReceipt(0)
    IN  /\ Takes
        /\ pack' = [of |-> work, receipt |-> IF redact THEN Redact(r) ELSE r, manifest |-> r.seal,
                    approved |-> IF Stored # {} /\ HasApproval(Latest) THEN Latest ELSE Null,
                    plain |-> IF redact => work \notin Secret THEN "yes" ELSE "no"]
        /\ UNCHANGED <<work_, files, keys, public, pc, job, initer, bundle, made, reviewing,
                       altered, signed>>

\* replay --pack.
Replay(k) ==
    /\ k.manifest = k.receipt.seal
    /\ ReceiptHash(k.receipt) = k.receipt.seal
    /\ k.of \notin gone

-----------------------------------------------------------------------------
(* The user                                                                *)

\* A receipt is edited, with or without its seal computed again.
Other(v) == IF v = "pass" THEN "fail" ELSE "pass"
Edited(r) == {[r EXCEPT !.ok = Other(@)],
              [r EXCEPT !.ok = Other(@), !.seal = <<r.facts, Other(r.ok)>>]}
EditReceipt(p) ==
    /\ Takes /\ p \in Stored
    /\ \E r \in Edited(receipts[p]) : receipts' = [receipts EXCEPT ![p] = r]
    /\ altered' = altered \cup {p}
    /\ UNCHANGED <<work_, approval, signature, rekor, dsse, keys, public, pc, job,
                   initer, handed, made, reviewing, signed>>
EditPack ==
    /\ Takes /\ pack # Nothing
    /\ \E r \in Edited(pack.receipt) : pack' = [pack EXCEPT !.receipt = r, !.plain = "no"]
    /\ UNCHANGED <<work_, files, keys, public, pc, job, initer, bundle, made, reviewing,
                   altered, signed>>

\* Work goes on; a rebase takes a commit away.
WorkGoesOn ==
    /\ Takes /\ work' \in Works \ {work} /\ gone' \in {gone, gone \cup {work}}
    /\ UNCHANGED <<files, keys, public, pc, job, initer, handed, made, reviewing,
                   altered, signed>>

Next ==
    \/ Done \/ Reissue \/ InitLooks \/ InitPrivate \/ InitPublic \/ InitDies \/ RemoveKeys
    \/ EditPack \/ WorkGoesOn
    \/ \E redact \in BOOLEAN : AuditPack(redact)
    \/ \E p \in Paths :
          \/ Sign(p) \/ EditReceipt(p)
          \/ \E dir \in {"fresh", "again"}, redact \in BOOLEAN : ProofBundle(p, dir, redact)
    \/ \E r \in Reviewers :
          \/ \E p \in Paths, mark \in {"approved", "rejected", "note"} : ReviewStarts(r, p, mark)
          \/ ReviewOpens(r) \/ ReviewWrites(r) \/ ReviewDies(r)
    \/ \E a \in Anchors :
          \/ \E p \in Paths : Start(a, p)
          \/ EnsureKept(a) \/ EnsureMinted(a) \/ EnsurePrivate(a)
          \/ EnsurePublic(a) \/ LockThrows(a)
          \/ SignStatement(a) \/ WriteEnvelope(a) \/ Upload(a) \/ Answered(a) \/ Dies(a)

Spec == Init /\ [][Next]_vars

-----------------------------------------------------------------------------
(* Properties                                                              *)

\* A private key that an anchor made is not replaced by an anchor, however they
\* interleave or die, a public key removed or not: only by its user, or by a
\* keys init that looked before.  Of an anchor only a key of keys init, which
\* came without the lock after the anchor had looked, or a damaged one.
KeyStays ==
    [][priv # 0 /\ priv' # priv
        => \/ priv' = 0 \/ (initer.at = "priv" /\ initer' # initer)
           \/ priv \in ofInit \cup {Damaged}]_vars

\* No false alarm: what nobody altered verifies.  A bundle in a fresh directory
\* of a receipt that was not rewritten, a signature of it, a pack whose commit
\* is there, pass, whatever ran beside them, unless a private key was lost, or
\* replaced by keys init or one of its by an anchor, or something had to be
\* redacted, or the bundle was made while an anchor was writing the envelope or
\* after one died in it: an envelope that does not parse fails.
NoFalseAlarm ==
    /\ bundle # Nothing /\ bundle.plain = "yes" /\ bundle.dsse # Torn => VerifyProof(bundle)
    /\ \A p \in Stored \ altered : rekeyed = "no" => VerifySignature(p) # 1
    /\ pack # Nothing /\ pack.plain = "yes" /\ pack.of \notin gone => Replay(pack)

\* A bundle with a signature that verify-proof passes holds a receipt whose
\* facts and verdict the owner of its key signed; one that was edited later
\* does not pass, its seal computed again or not.
PassIsSigned ==
    bundle # Nothing /\ Signed(bundle) /\ VerifyProof(bundle)
        => <<bundle.pub, ReceiptHash(bundle.receipt)>> \in signed

\* An anchor that is recorded beside a receipt names an entry the log has, of a
\* statement about that receipt as it then was, whatever was answered, lost or
\* tried again; unless something else than the log has answered with a UUID, as
\* the log would.
AnchorsAreTrue ==
    \A p \in Paths \ misled :
       rekor[p] # Null => /\ rekor[p] \in entries
                          /\ p \notin altered => rekor[p].subject = receipts[p].seal

\* Nobody has cut the sidecar of p to write it, and no two reviews overlapped on
\* it and none died in its write since a verdict was given undisturbed.
Settled(p) == p \notin contested /\ \A r \in Under(p) : reviewer[r].at # "write"

\* Of a receipt whose reviews came one after the other, it counts as approved
\* exactly when the last word on it, notes aside, was an approval; the first
\* undisturbed verdict after a disturbance puts it right again.  And whatever
\* overlaps or dies, none counts as approved that never was.
ApprovalsAreTrue ==
    \A p \in Paths :
       /\ Settled(p) => (HasApproval(p) <=> verdict[p] = "approved")
       /\ HasApproval(p) => p \in backed
       /\ approval[p] # Null => p \in Stored
=============================================================================
