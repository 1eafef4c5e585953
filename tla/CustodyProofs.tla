--------------------------- MODULE CustodyProofs ---------------------------
(***************************************************************************)
(* What Custody promises, for any number of anchors, receipts, keys and    *)
(* states of the work: what verify-proof passes with a signature was       *)
(* signed by the owner of the key, a private key stays, sidecars and       *)
(* anchors say what was done, and what nobody altered verifies.            *)
(***************************************************************************)
EXTENDS Custody, TLAPS

\* The steps of a reviewer, and those of an anchor before it signs, or by which
\* it ends.
Reviewing(r) ==
    \/ \E p \in Paths, mark \in {"approved", "rejected", "note"} : ReviewStarts(r, p, mark)
    \/ ReviewOpens(r) \/ ReviewWrites(r) \/ ReviewDies(r)
Prepares(a) ==
    \/ \E p \in Paths : Start(a, p)
    \/ EnsureKept(a) \/ EnsureMinted(a) \/ EnsurePrivate(a) \/ EnsurePublic(a)
    \/ LockThrows(a) \/ Dies(a)

\* An upload moves its anchor on, and writes no file and no key.
LEMMA UploadMoves ==
    ASSUME NEW a \in Anchors, Upload(a)
    PROVE  /\ UNCHANGED <<work_, files, keys, initer, handed, made, room, reviewing, altered, signed>>
           /\ \E l \in {"idle", "answer"} : pc' = [pc EXCEPT ![a] = l]
           /\ \E x : job' = [job EXCEPT ![a] = x]
<1>1. PICK answer :
        /\ job' = [job EXCEPT ![a] = IF UuidOf(answer) = Null THEN NoJob
                                     ELSE [path |-> @.path, uuid |-> UuidOf(answer)]]
        /\ Goto(a, IF UuidOf(answer) = Null THEN "idle" ELSE "answer")
  BY DEF Upload
<1>2. \E l \in {"idle", "answer"} : pc' = [pc EXCEPT ![a] = l]
  BY <1>1 DEF Goto
<1>3. PICK x : x = IF UuidOf(answer) = Null THEN NoJob
                   ELSE [path |-> job[a].path, uuid |-> UuidOf(answer)]
  OBVIOUS
<1>4. job' = [job EXCEPT ![a] = x]
  BY <1>1, <1>3
<1> QED
  BY <1>2, <1>4 DEF Upload

Grounded(e) == e \notin {Null, Torn} => <<e.key, e.subject>> \in signed

\* Every envelope there is, beside a receipt, in the bundle or about to be
\* written, was made by SignStatement.
Envelopes ==
    /\ dsse = [p \in Paths |-> dsse[p]]
    /\ DOMAIN pc = Anchors /\ DOMAIN job = Anchors
    /\ \A p \in Paths : Grounded(dsse[p])
    /\ \A a \in Anchors : pc[a] = "write" => Grounded(job[a].envelope)
    /\ bundle # Nothing => Grounded(bundle.dsse)

-----------------------------------------------------------------------------
\* Where no envelope is made, the envelopes stay grounded, as what was signed
\* once stays signed.
LEMMA FrameKeeps ==
    ASSUME Envelopes, UNCHANGED <<dsse, bundle, signed>>,
           DOMAIN pc' = Anchors, DOMAIN job' = Anchors,
           \A a \in Anchors : pc'[a] = "write" => pc[a] = "write" /\ job'[a] = job[a]
    PROVE  Envelopes'
BY DEF Envelopes, Grounded

\* So does an anchor that writes none.
LEMMA AnchorFrameKeeps ==
    ASSUME Envelopes, UNCHANGED <<dsse, bundle, signed>>, NEW a \in Anchors, NEW l,
           pc' = [pc EXCEPT ![a] = l], l # "write", DOMAIN job' = Anchors,
           \A b \in Anchors : b # a => job'[b] = job[b]
    PROVE  Envelopes'
<1>1. /\ DOMAIN pc' = Anchors /\ pc'[a] = l
      /\ \A b \in Anchors : b # a => pc'[b] = pc[b]
  BY DEF Envelopes
<1> QED
  BY <1>1, FrameKeeps

\* The envelope an anchor will write is one it has just signed.
LEMMA SigningKeeps ==
    ASSUME Envelopes, NEW a \in Anchors, SignStatement(a)
    PROVE  Envelopes'
<1>1. PICK e : e = Envelope(a)
  OBVIOUS
<1>2. PICK path : path = job[a].path
  OBVIOUS
<1>3. /\ dsse' = [dsse EXCEPT ![path] = Torn] /\ pc' = [pc EXCEPT ![a] = "write"]
      /\ signed' = signed \cup {<<e.key, e.subject>>}
      /\ bundle' = bundle
  BY <1>1, <1>2 DEF SignStatement, Envelope, Goto, handed
<1>4. job' = [job EXCEPT ![a] = [path |-> path, envelope |-> e]]
  BY <1>1, <1>2 DEF SignStatement, Envelopes
<1>5. \A x : Grounded(x) => Grounded(x)'
  BY <1>3 DEF Grounded
<1>6. \A p \in Paths : Grounded(dsse[p])'
  <2> SUFFICES ASSUME NEW p \in Paths PROVE Grounded(dsse[p])'
    OBVIOUS
  <2>1. dsse'[p] \in {Torn, dsse[p]}
    BY <1>3 DEF Envelopes
  <2>2. Grounded(dsse[p])
    BY DEF Envelopes
  <2> QED
    BY <1>3, <2>1, <2>2 DEF Grounded
<1>7. \A b \in Anchors : (pc[b] = "write" => Grounded(job[b].envelope))'
  <2> SUFFICES ASSUME NEW b \in Anchors, pc'[b] = "write" PROVE Grounded(job[b].envelope)'
    OBVIOUS
  <2>1. CASE b = a
    <3>1. job'[b] = [path |-> path, envelope |-> e]
      BY <1>4, <2>1 DEF Envelopes
    <3>2. job'[b].envelope = e
      BY <3>1
    <3>3. <<e.key, e.subject>> \in signed'
      BY <1>3
    <3> QED
      BY <3>2, <3>3 DEF Grounded
  <2>2. CASE b # a
    <3>1. pc[b] = "write" /\ job'[b] = job[b]
      BY <1>3, <1>4, <2>2 DEF Envelopes
    <3> QED
      BY <1>3, <3>1 DEF Envelopes, Grounded
  <2> QED
    BY <2>1, <2>2
<1>8. (bundle # Nothing => Grounded(bundle.dsse))'
  BY <1>3 DEF Envelopes, Grounded
<1>9. dsse' = [p \in Paths |-> dsse'[p]] /\ DOMAIN pc' = Anchors /\ DOMAIN job' = Anchors
  BY <1>3, <1>4 DEF Envelopes
<1> QED
  BY <1>6, <1>7, <1>8, <1>9 DEF Envelopes

\* What a write in place leaves is what was written, or does not parse.
LEMMA WritingKeeps ==
    ASSUME Envelopes, NEW a \in Anchors, WriteEnvelope(a)
    PROVE  Envelopes'
<1>1. PICK path : path = job[a].path
  OBVIOUS
<1>2. PICK e \in {job[a].envelope, Torn} : dsse' = [dsse EXCEPT ![path] = e]
  BY <1>1 DEF WriteEnvelope, AfterWrite
<1>3. /\ UNCHANGED <<bundle, signed, job>> /\ pc[a] = "write"
      /\ pc' = [pc EXCEPT ![a] = "upload"]
  BY DEF WriteEnvelope, Goto, handed
<1>4. Grounded(e)
  BY <1>2, <1>3 DEF Envelopes, Grounded
<1>5. dsse' = [p \in Paths |-> dsse'[p]] /\ \A p \in Paths : dsse'[p] \in {e, dsse[p]}
  BY <1>2 DEF Envelopes
<1>6. \A p \in Paths : Grounded(dsse[p])'
  BY <1>3, <1>4, <1>5 DEF Envelopes, Grounded
<1>7. DOMAIN pc' = Anchors /\ \A b \in Anchors : pc'[b] = "write" => pc[b] = "write"
  BY <1>3 DEF Envelopes
<1> QED
  BY <1>3, <1>5, <1>6, <1>7 DEF Envelopes, Grounded

\* A bundle holds the envelope beside its receipt, or one it held before.
LEMMA BundlingKeeps ==
    ASSUME Envelopes, NEW p \in Paths, NEW dir \in {"fresh", "again"},
           NEW redact \in BOOLEAN, ProofBundle(p, dir, redact)
    PROVE  Envelopes'
<1>1. UNCHANGED <<dsse, signed, pc, job>>
  BY DEF ProofBundle, files
<1>2. bundle'.dsse = IF dsse[p] # Null \/ dir = "fresh" THEN dsse[p] ELSE bundle["dsse"]
  BY DEF ProofBundle
<1>3. dir = "again" => bundle # Nothing
  BY DEF ProofBundle
<1>4. Grounded(dsse[p]) /\ (bundle # Nothing => Grounded(bundle.dsse))
  BY DEF Envelopes
<1>5. Grounded(bundle.dsse)'
  BY <1>1, <1>2, <1>3, <1>4 DEF Grounded
<1> QED
  BY <1>1, <1>5 DEF Envelopes, Grounded

\* Every step keeps them grounded.
LEMMA StepKeeps == Envelopes /\ [Next]_vars => Envelopes'
<1> SUFFICES ASSUME Envelopes, [Next]_vars PROVE Envelopes'
  OBVIOUS
<1>0. ASSUME UNCHANGED <<dsse, bundle, signed, pc, job>> PROVE Envelopes'
  BY <1>0, FrameKeeps DEF Envelopes
<1>1. CASE \/ Done \/ Reissue \/ InitLooks \/ InitPrivate \/ InitPublic \/ InitDies
           \/ RemoveKeys \/ EditPack \/ WorkGoesOn
           \/ \E redact \in BOOLEAN : AuditPack(redact)
  BY <1>0, <1>1
     DEF Done, Reissue, InitLooks, InitPrivate, InitPublic, InitDies, RemoveKeys, EditPack,
         WorkGoesOn, AuditPack, files, handed
<1>2. ASSUME NEW p \in Paths, Sign(p) \/ EditReceipt(p)
      PROVE  Envelopes'
  BY <1>0, <1>2 DEF Sign, EditReceipt, files, handed
<1>3. ASSUME NEW r \in Reviewers, Reviewing(r)
      PROVE  Envelopes'
  BY <1>0, <1>3 DEF Reviewing, ReviewStarts, ReviewOpens, ReviewWrites, ReviewDies, files, handed
<1>4. ASSUME NEW p \in Paths, NEW dir \in {"fresh", "again"}, NEW redact \in BOOLEAN,
             ProofBundle(p, dir, redact)
      PROVE  Envelopes'
  BY <1>4, BundlingKeeps
<1>5. ASSUME NEW a \in Anchors, Prepares(a) \/ Upload(a) \/ Answered(a)
      PROVE  Envelopes'
  <2>1. /\ UNCHANGED <<dsse, bundle, signed>>
        /\ \E l : pc' = [pc EXCEPT ![a] = l] /\ l # "write"
    <3>1. CASE Prepares(a) \/ Answered(a)
      BY <3>1 DEF Prepares, Start, EnsureKept, EnsureMinted, EnsurePrivate, EnsurePublic,
                  LockThrows, Answered, Dies, Goto, files, handed
    <3>2. CASE Upload(a)
      BY <3>2, UploadMoves DEF files, handed
    <3> QED
      BY <1>5, <3>1, <3>2
  <2>2. /\ DOMAIN job' = Anchors /\ \A b \in Anchors : b # a => job'[b] = job[b]
    <3>1. CASE Prepares(a) \/ Answered(a)
      BY <3>1 DEF Prepares, Start, EnsureKept, EnsureMinted, EnsurePrivate, EnsurePublic,
                  LockThrows, Answered, Dies, Envelopes
    <3>2. CASE Upload(a)
      BY <3>2, UploadMoves DEF Envelopes
    <3> QED
      BY <1>5, <3>1, <3>2
  <2> QED
    BY <2>1, <2>2, AnchorFrameKeeps
<1>6. ASSUME NEW a \in Anchors, SignStatement(a) \/ WriteEnvelope(a) PROVE Envelopes'
  BY <1>6, SigningKeeps, WritingKeeps
<1>7. CASE UNCHANGED vars
  BY <1>0, <1>7 DEF vars, files, handed
<1> QED
  BY <1>1, <1>2, <1>3, <1>4, <1>5, <1>6, <1>7 DEF Next, Reviewing, Prepares

\* What verify-proof passes with a signature was signed by the owner of the
\* key in the bundle: the facts and the verdict of the receipt as it stands
\* (verifyproof.ts), for any numbers of anchors, receipts, keys and commands.
THEOREM SignedPass == Spec => []PassIsSigned
<1>1. Init => Envelopes
  BY DEF Init, Envelopes, Grounded, Nothing
<1>2. Envelopes => PassIsSigned
  BY DEF Envelopes, Grounded, PassIsSigned, VerifyProof, Signed, SignatureOk, SubjectOk,
         ReceiptHashOk
<1> QED
  BY <1>1, <1>2, StepKeeps, PTL DEF Spec

-----------------------------------------------------------------------------
(* The key                                                                 *)

\* Where keys init is, and that what it has still to write is counted its own.
InitShape ==
    /\ minted \in Nat
    /\ initer \in [at : {"idle", "priv", "pub"}, key : Int]
    /\ initer.at = "priv" => initer.key \in ofInit

\* .keys.lock: an anchor that has looked and not yet written both halves holds
\* it, so there is only one such anchor.
Alone ==
    /\ pc = [a \in Anchors |-> pc[a]]
    /\ \A a \in Anchors : pc[a] \in {"priv", "pub"} => keyLock = a

\* What has come since that anchor looked, if anything, came from keys init.
Looked == \A a \in Anchors : pc[a] = "priv" => priv \in {0, Damaged} \cup ofInit

KeyInv == InitShape /\ Alone /\ Looked

\* Steps that leave the keys, the anchors and keys init as they are.
LEMMA KeyFrame ==
    ASSUME KeyInv, UNCHANGED <<keys, pc, initer>>
    PROVE  KeyInv'
BY DEF KeyInv, InitShape, Alone, Looked, keys

\* keys init and the user change the private key, to what is allowed.
LEMMA OthersKeepKeyInv ==
    ASSUME KeyInv, InitLooks \/ InitPrivate \/ InitPublic \/ InitDies \/ RemoveKeys
    PROVE  KeyInv'
<1> USE DEF KeyInv, InitShape, Alone, Looked
<1>1. CASE InitLooks
  BY <1>1 DEF InitLooks
<1>2. CASE InitPrivate
  BY <1>2 DEF InitPrivate
<1>3. CASE InitPublic
  BY <1>3 DEF InitPublic
<1>4. CASE InitDies
  BY <1>4 DEF InitDies
<1>5. CASE RemoveKeys
  BY <1>5 DEF RemoveKeys
<1> QED
  BY <1>1, <1>2, <1>3, <1>4, <1>5

\* The section of .keys.lock: an anchor enters it while nobody is in it, and
\* leaves it with the lock.
LEMMA AnchorsKeepKeyInv ==
    ASSUME KeyInv, NEW a \in Anchors,
           \/ EnsureKept(a) \/ EnsureMinted(a) \/ EnsurePrivate(a) \/ EnsurePublic(a)
           \/ Dies(a)
    PROVE  KeyInv'
<1> USE DEF KeyInv, InitShape, Alone, Looked, Goto
<1>1. CASE EnsureKept(a)
  BY <1>1 DEF EnsureKept
<1>2. CASE EnsureMinted(a)
  <2>1. priv = 0 /\ keyLock = Null /\ keyLock' = a
    BY <1>2 DEF EnsureMinted, KeepsKey
  <2> QED
    BY <1>2, <2>1, CustodyAssumption DEF EnsureMinted
<1>3. CASE EnsurePrivate(a)
  BY <1>3 DEF EnsurePrivate
<1>4. CASE EnsurePublic(a)
  BY <1>4 DEF EnsurePublic
<1>5. CASE Dies(a)
  BY <1>5 DEF Dies
<1> QED
  BY <1>1, <1>2, <1>3, <1>4, <1>5

\* The steps of an anchor that do not touch the keys.
LEMMA RestKeepsKeyInv ==
    ASSUME KeyInv, NEW a \in Anchors,
           \/ \E p \in Paths : Start(a, p)
           \/ LockThrows(a) \/ SignStatement(a) \/ WriteEnvelope(a) \/ Upload(a) \/ Answered(a)
    PROVE  KeyInv'
<1>1. /\ UNCHANGED <<keys, initer>>
      /\ \E l \in {"keys", "idle", "write", "upload", "answer"} : Goto(a, l)
  <2>1. CASE Upload(a)
    BY <2>1 DEF Upload
  <2>2. CASE \/ \E p \in Paths : Start(a, p)
             \/ LockThrows(a) \/ SignStatement(a) \/ WriteEnvelope(a) \/ Answered(a)
    BY <2>2 DEF Start, LockThrows, SignStatement, WriteEnvelope, Answered
  <2> QED
    BY <2>1, <2>2
<1> QED
  BY <1>1 DEF KeyInv, InitShape, Alone, Looked, Goto, keys

\* Every step keeps the invariant.
LEMMA StepKeepsKeyInv ==
    ASSUME KeyInv, [Next]_vars
    PROVE  KeyInv'
<1>1. CASE InitLooks \/ InitPrivate \/ InitPublic \/ InitDies \/ RemoveKeys
  BY <1>1, OthersKeepKeyInv
<1>2. CASE \/ Done \/ Reissue \/ EditPack \/ WorkGoesOn
           \/ \E redact \in BOOLEAN : AuditPack(redact)
  BY <1>2, KeyFrame DEF Done, Reissue, EditPack, WorkGoesOn, AuditPack
<1>3. ASSUME NEW p \in Paths,
             \/ Sign(p) \/ EditReceipt(p)
             \/ \E dir \in {"fresh", "again"}, redact \in BOOLEAN : ProofBundle(p, dir, redact)
      PROVE  KeyInv'
  BY <1>3, KeyFrame DEF Sign, EditReceipt, ProofBundle
<1>4. ASSUME NEW r \in Reviewers, Reviewing(r)
      PROVE  KeyInv'
  BY <1>4, KeyFrame DEF Reviewing, ReviewStarts, ReviewOpens, ReviewWrites, ReviewDies
<1>5. ASSUME NEW a \in Anchors,
             \/ EnsureKept(a) \/ EnsureMinted(a) \/ EnsurePrivate(a) \/ EnsurePublic(a)
             \/ Dies(a)
      PROVE  KeyInv'
  BY <1>5, AnchorsKeepKeyInv
<1>6. ASSUME NEW a \in Anchors,
             \/ \E p \in Paths : Start(a, p)
             \/ LockThrows(a) \/ SignStatement(a) \/ WriteEnvelope(a) \/ Upload(a) \/ Answered(a)
      PROVE  KeyInv'
  BY <1>6, RestKeepsKeyInv
<1>7. CASE UNCHANGED vars
  BY <1>7, KeyFrame DEF vars
<1> QED
  BY <1>1, <1>2, <1>3, <1>4, <1>5, <1>6, <1>7 DEF Next, Reviewing

\* A step that changes a private key that is there is its user's, or that of
\* a keys init which looked before, or replaces a key of keys init.
LEMMA StepKeepsKey ==
    ASSUME KeyInv, [Next]_vars, priv # 0, priv' # priv
    PROVE  \/ priv' = 0 \/ (initer.at = "priv" /\ initer' # initer)
           \/ priv \in ofInit \cup {Damaged}
<1>1. CASE InitLooks \/ InitPrivate \/ InitPublic \/ InitDies \/ RemoveKeys
  BY <1>1 DEF InitLooks, InitPrivate, InitPublic, InitDies, RemoveKeys, KeyInv, InitShape
<1>2. CASE \/ Done \/ Reissue \/ EditPack \/ WorkGoesOn
           \/ \E redact \in BOOLEAN : AuditPack(redact)
  BY <1>2 DEF Done, Reissue, EditPack, WorkGoesOn, AuditPack, keys
<1>3. ASSUME NEW p \in Paths,
             \/ Sign(p) \/ EditReceipt(p)
             \/ \E dir \in {"fresh", "again"}, redact \in BOOLEAN : ProofBundle(p, dir, redact)
      PROVE  FALSE
  BY <1>3 DEF Sign, EditReceipt, ProofBundle, keys
<1>4. ASSUME NEW r \in Reviewers, Reviewing(r)
      PROVE  FALSE
  BY <1>4 DEF Reviewing, ReviewStarts, ReviewOpens, ReviewWrites, ReviewDies, keys
<1>5. ASSUME NEW a \in Anchors, EnsurePrivate(a)
      PROVE  priv \in ofInit \cup {Damaged}
  BY <1>5 DEF EnsurePrivate, KeyInv, Looked
<1>6. ASSUME NEW a \in Anchors,
             \/ \E p \in Paths : Start(a, p)
             \/ EnsureKept(a) \/ EnsureMinted(a) \/ EnsurePublic(a) \/ LockThrows(a)
             \/ SignStatement(a) \/ WriteEnvelope(a) \/ Upload(a) \/ Answered(a) \/ Dies(a)
      PROVE  FALSE
  <2>1. UNCHANGED priv
    <3>1. CASE Upload(a)
      BY <3>1 DEF Upload, keys
    <3>2. CASE \/ \E p \in Paths : Start(a, p)
               \/ EnsureKept(a) \/ EnsureMinted(a) \/ EnsurePublic(a) \/ LockThrows(a)
               \/ SignStatement(a) \/ WriteEnvelope(a) \/ Answered(a) \/ Dies(a)
      BY <3>2 DEF Start, EnsureKept, EnsureMinted, EnsurePublic, LockThrows, SignStatement,
                  WriteEnvelope, Answered, Dies, keys
    <3> QED
      BY <1>6, <3>1, <3>2
  <2> QED
    BY <2>1
<1>7. CASE UNCHANGED vars
  BY <1>7 DEF vars, keys
<1> QED
  BY <1>1, <1>2, <1>3, <1>4, <1>5, <1>6, <1>7 DEF Next, Reviewing

\* No anchor, however many run at once or die in between, replaces a private
\* key that an anchor made (keys.ts, ensureSigningKey): .keys.lock holds the
\* others off from the look to the second file.
THEOREM KeyIsKept == Spec => KeyStays
<1>1. Init => KeyInv
  BY DEF Init, KeyInv, InitShape, Alone, Looked
<1>2. KeyInv /\ [Next]_vars => KeyInv'
  BY StepKeepsKeyInv
<1>3. KeyInv /\ [Next]_vars
        => [priv # 0 /\ priv' # priv
             => \/ priv' = 0 \/ (initer.at = "priv" /\ initer' # initer)
                \/ priv \in ofInit \cup {Damaged}]_vars
  BY StepKeepsKey
<1> QED
  BY <1>1, <1>2, <1>3, PTL DEF Spec, KeyStays
-----------------------------------------------------------------------------
(* What lies beside a receipt                                              *)

Signing == {"keys", "priv", "pub", "sign"}

\* The files, by receipt; what is beside a receipt lies beside one.
FilesHold ==
    /\ work \in Works /\ made \in Nat
    /\ receipts \in [Paths -> Receipts \cup {Null}]
    /\ DOMAIN signature = Paths /\ DOMAIN dsse = Paths /\ DOMAIN rekor = Paths
    /\ \A p \in Paths : p > made => receipts[p] = Null
    /\ \A p \in Paths \ Stored : signature[p] = Null /\ dsse[p] = Null /\ rekor[p] = Null

\* A receipt that nobody altered has its own seal, and what lies beside it, if
\* it parses, is of it.
Intact ==
    \A p \in Stored \ altered :
       /\ receipts[p].seal = ReceiptHash(receipts[p])
       /\ signature[p] \notin {Null, Torn}
             => signature[p] = [key |-> signature[p].key, over |-> receipts[p]]
       /\ dsse[p] \notin {Null, Torn} => dsse[p].subject = receipts[p].seal
       /\ p \notin misled /\ rekor[p] # Null => rekor[p].subject = receipts[p].seal

\* What an anchor carries is of a receipt that is there, as it is unless it was
\* altered since; a UUID that the log gave it is in the log.
OfReceipt(seal, p) == p \in Stored /\ (p \notin altered => seal = receipts[p].seal)
Carries(a) ==
    /\ pc[a] \in Signing => /\ DOMAIN job[a] = {"path", "receipt", "key"}
                            /\ OfReceipt(job[a].receipt.seal, job[a].path)
    /\ pc[a] \in {"write", "upload"} => OfReceipt(job[a].envelope.subject, job[a].path)
    /\ pc[a] = "answer" => /\ job[a].path \in Stored
                           /\ job[a].path \notin misled
                                => /\ job[a].uuid \in entries
                                   /\ OfReceipt(job[a].uuid.subject, job[a].path)

AnchorsHold ==
    /\ DOMAIN pc = Anchors /\ DOMAIN job = Anchors
    /\ \A a \in Anchors : Carries(a)

Logged == \A p \in Paths \ misled : rekor[p] # Null => rekor[p] \in entries

Books == FilesHold /\ Intact /\ AnchorsHold /\ Logged

\* A receipt that was there is there after any step, and the same unless it
\* has been altered; what was altered, logged or misled stays so.
Stay == /\ Stored \subseteq Stored'
        /\ \A p \in Stored : p \notin altered' => receipts'[p] = receipts[p]
        /\ altered \subseteq altered' /\ entries \subseteq entries' /\ misled \subseteq misled'

\* An anchor that does nothing goes on carrying what it should.
LEMMA CarriesOn ==
    ASSUME NEW a \in Anchors, Carries(a), Stay, pc'[a] = pc[a], job'[a] = job[a]
    PROVE  Carries(a)'
<1>1. \A seal, p : OfReceipt(seal, p) => OfReceipt(seal, p)'
  BY DEF Stay, OfReceipt
<1>2. CASE pc[a] \in Signing
  BY <1>1, <1>2 DEF Carries, Signing
<1>3. CASE pc[a] \in {"write", "upload"}
  BY <1>1, <1>3 DEF Carries, Signing
<1>4. CASE pc[a] = "answer"
  <2>1. job[a].path \in Stored' /\ (job[a].path \notin misled' => job[a].path \notin misled)
    BY <1>4 DEF Carries, Stay
  <2> QED
    BY <1>1, <1>4, <2>1 DEF Carries, Signing, Stay
<1> QED
  BY <1>2, <1>3, <1>4 DEF Carries

\* Steps of the user and of commands that touch none of it.
LEMMA BooksFrame ==
    ASSUME Books, work' \in Works,
           UNCHANGED <<receipts, signature, rekor, dsse, public, pc, job, made, altered>>
    PROVE  Books'
<1>1. Stored' = Stored /\ Stay
  BY DEF Stored, Stay, public
<1>2. AnchorsHold'
  BY <1>1, CarriesOn DEF Books, AnchorsHold
<1>3. FilesHold' /\ Intact' /\ Logged'
  BY <1>1 DEF Books, FilesHold, Intact, Logged, ReceiptHash, public
<1> QED
  BY <1>2, <1>3 DEF Books

\* A receipt of now is one, with its seal.
LEMMA Built ==
    ASSUME work \in Works, NEW at \in Int
    PROVE  LET r == BuildReceipt(at)
           IN  /\ r \in Receipts /\ r # Null /\ r.seal = ReceiptHash(r)
BY CustodyAssumption DEF BuildReceipt, Receipts, ReceiptHash

\* A receipt written over p: whoever is beside p may stay if p is altered by
\* it, or was not there.
LEMMA ReceiptWritten ==
    ASSUME Books, NEW p \in Paths, NEW r \in Receipts,
           receipts' = [receipts EXCEPT ![p] = r],
           p \in Stored => altered' = altered \cup {p},
           p \notin Stored => r.seal = ReceiptHash(r) /\ altered' = altered,
           made' \in Nat, made <= made', p <= made',
           UNCHANGED <<work, signature, rekor, dsse, public, pc, job>>
    PROVE  Books' /\ Stored \subseteq Stored'
<1>1. r # Null /\ \A q \in Paths : receipts'[q] = IF q = p THEN r ELSE receipts[q]
  BY CustodyAssumption DEF Books, FilesHold
<1>2. Stored' = Stored \cup {p} /\ misled' = misled /\ entries' = entries
  BY <1>1 DEF Stored, public
<1>3. Stay
  BY <1>1, <1>2 DEF Stay, Stored
<1>4. AnchorsHold'
  BY <1>3, CarriesOn DEF Books, AnchorsHold
<1>5. FilesHold'
  BY <1>1, <1>2, CustodyAssumption DEF Books, FilesHold, Paths
<1>6. Intact'
  BY <1>1, <1>2 DEF Books, Intact, FilesHold, ReceiptHash
<1>7. Logged'
  BY <1>2 DEF Books, Logged
<1> QED
  BY <1>2, <1>4, <1>5, <1>6, <1>7 DEF Books

\* done, receipt --out and an edit write receipts.
LEMMA ReceiptStep ==
    ASSUME Books, Done \/ Reissue \/ \E p \in Paths : EditReceipt(p)
    PROVE  Books' /\ Stored \subseteq Stored'
<1>0. made \in Nat /\ MaxReceipts \in Nat /\ work \in Works
  BY CustodyAssumption DEF Books, FilesHold
<1>1. CASE Done
  <2>1. PICK q \in Nat : q = made + 1
    BY <1>0
  <2>2. PICK r : r = BuildReceipt(q)
    OBVIOUS
  <2>3. /\ made' = q /\ made < MaxReceipts /\ altered' = altered
        /\ receipts' = [receipts EXCEPT ![q] = r]
        /\ UNCHANGED <<work, signature, rekor, dsse, public, pc, job>>
    BY <1>1, <2>1, <2>2 DEF Done, work_
  <2>4. /\ q \in Paths /\ q \notin Stored
        /\ made' \in Nat /\ made <= made' /\ q <= made'
    BY <1>0, <2>1, <2>3 DEF Books, FilesHold, Stored, Paths
  <2>5. r \in Receipts /\ r.seal = ReceiptHash(r)
    BY <1>0, <2>1, <2>2, Built
  <2> QED
    BY <2>3, <2>4, <2>5, ReceiptWritten
<1>2. CASE Reissue
  <2>1. PICK r : r = BuildReceipt(0)
    OBVIOUS
  <2>2. PICK q \in Paths : q = 0
    BY <1>0 DEF Paths
  <2>3. /\ receipts' = [receipts EXCEPT ![q] = r] /\ made' = made
        /\ q \in Stored => altered' = altered \cup {q}
        /\ q \notin Stored => altered' = altered
        /\ UNCHANGED <<work, signature, rekor, dsse, public, pc, job>>
    BY <1>2, <2>1, <2>2 DEF Reissue, Stored, work_
  <2>4. r \in Receipts /\ r.seal = ReceiptHash(r)
    BY <1>0, <2>1, Built
  <2>5. made' \in Nat /\ made <= made' /\ q <= made'
    BY <1>0, <2>2, <2>3
  <2> QED
    BY <2>3, <2>4, <2>5, ReceiptWritten
<1>3. ASSUME NEW p \in Paths, EditReceipt(p) PROVE Books' /\ Stored \subseteq Stored'
  <2>1. /\ p \in Stored /\ altered' = altered \cup {p} /\ made' = made
        /\ UNCHANGED <<work, signature, rekor, dsse, public, pc, job>>
    BY <1>3 DEF EditReceipt, work_
  <2>2. PICK r \in Edited(receipts[p]) : receipts' = [receipts EXCEPT ![p] = r]
    BY <1>3 DEF EditReceipt
  <2>3. receipts[p] \in Receipts /\ p <= made
    BY <1>0, <2>1 DEF Stored, Books, FilesHold, Paths
  <2>4. r \in Receipts
    <3> DEFINE o == receipts[p]
               v == Other(o.ok)
    <3>1. v \in {"pass", "fail"} /\ <<o.facts, v>> \in Works \X {"pass", "fail"}
      BY <2>3 DEF Other, Receipts
    <3>2. r \in {[o EXCEPT !.ok = v], [o EXCEPT !.ok = v, !.seal = <<o.facts, v>>]}
      BY <2>2 DEF Edited
    <3>3. o \in Receipts
      BY <2>3
    <3> HIDE DEF o, v
    <3> QED
      BY <3>1, <3>2, <3>3 DEF Receipts
  <2>5. made' \in Nat /\ made <= made' /\ p <= made'
    BY <1>0, <2>1, <2>3
  <2> QED
    BY <2>1, <2>2, <2>4, <2>5, ReceiptWritten
<1> QED
  BY <1>1, <1>2, <1>3

\* sign writes beside p the signature of what p holds, or something that does
\* not parse.
LEMMA SignStep ==
    ASSUME Books, NEW p \in Paths, Sign(p)
    PROVE  Books'
<1>1. PICK sig : /\ sig = [key |-> sig.key, over |-> receipts[p]] \/ sig = Torn
                 /\ signature' = [signature EXCEPT ![p] = sig]
  BY DEF Sign
<1>2. /\ p \in Stored
      /\ UNCHANGED <<work, receipts, rekor, dsse, public, pc, job, made, altered>>
  BY DEF Sign, work_
<1>3. \A q \in Paths : signature'[q] = IF q = p THEN sig ELSE signature[q]
  BY <1>1 DEF Books, FilesHold
<1>4. Stored' = Stored /\ misled' = misled /\ entries' = entries
  BY <1>2 DEF Stored, public
<1>5. Stay
  BY <1>2, <1>4 DEF Stay
<1>6. FilesHold'
  BY <1>1, <1>2, <1>3, <1>4 DEF Books, FilesHold
<1>7. Intact'
  <2> SUFFICES ASSUME NEW q \in Stored \ altered
               PROVE  /\ receipts[q].seal = ReceiptHash(receipts[q])
                      /\ signature'[q] \notin {Null, Torn}
                            => signature'[q] = [key |-> signature'[q].key, over |-> receipts[q]]
                      /\ dsse[q] \notin {Null, Torn} => dsse[q].subject = receipts[q].seal
                      /\ q \notin misled /\ rekor[q] # Null => rekor[q].subject = receipts[q].seal
    BY <1>2, <1>4 DEF Intact, ReceiptHash
  <2>1. q \in Paths /\ (q = p => signature'[q] = sig) /\ (q # p => signature'[q] = signature[q])
    BY <1>3 DEF Stored
  <2> QED
    BY <1>1, <2>1 DEF Books, Intact
<1>8. AnchorsHold'
  BY <1>2, <1>5, CarriesOn DEF Books, AnchorsHold
<1>9. Logged'
  BY <1>2, <1>4 DEF Books, Logged
<1> QED
  BY <1>6, <1>7, <1>8, <1>9 DEF Books

\* An anchor that takes a step: the others carry on, and so do the files where
\* it writes none.
LEMMA AnchorFrame ==
    ASSUME Books, NEW a \in Anchors, Carries(a)',
           DOMAIN pc' = Anchors, DOMAIN job' = Anchors,
           \A b \in Anchors : b # a => pc'[b] = pc[b] /\ job'[b] = job[b],
           entries \subseteq entries', misled \subseteq misled',
           UNCHANGED <<work, files, made, altered>>
    PROVE  Books'
<1>1. Stored' = Stored /\ Stay
  BY DEF Stored, Stay, files
<1>2. \A b \in Anchors : Carries(b)'
  BY <1>1, CarriesOn DEF Books, AnchorsHold
<1>3. FilesHold' /\ Intact' /\ Logged'
  BY <1>1 DEF Books, FilesHold, Intact, Logged, ReceiptHash, files
<1> QED
  BY <1>2, <1>3 DEF Books, AnchorsHold

\* The steps of an anchor before it signs: it carries the receipt it read.
LEMMA PreparingStep ==
    ASSUME Books, NEW a \in Anchors, Prepares(a)
    PROVE  Books'
<1>1. /\ UNCHANGED <<work, files, made, altered, public>>
      /\ \E l \in Signing \cup {"idle"} : pc' = [pc EXCEPT ![a] = l]
  BY DEF Prepares, Start, EnsureKept, EnsureMinted, EnsurePrivate, EnsurePublic, LockThrows, Dies,
         Goto, Signing, work_
<1>2. \/ job' = job /\ (pc[a] \in Signing \/ pc'[a] = "idle")
      \/ \E x : job' = [job EXCEPT ![a].key = x] /\ pc[a] \in Signing
      \/ job' = [job EXCEPT ![a] = NoJob] /\ pc'[a] = "idle"
      \/ \E p \in Stored : job' = [job EXCEPT ![a] = [path |-> p, receipt |-> receipts[p],
                                                     key |-> 0]]
  BY DEF Prepares, Start, EnsureKept, EnsureMinted, EnsurePrivate, EnsurePublic, LockThrows, Dies,
         Goto, Signing, Books, AnchorsHold
<1>3. /\ DOMAIN pc' = Anchors /\ DOMAIN job' = Anchors
      /\ \A b \in Anchors : b # a => pc'[b] = pc[b] /\ job'[b] = job[b]
  BY <1>1, <1>2 DEF Books, AnchorsHold
<1>4. pc'[a] \in Signing \cup {"idle"}
  BY <1>1 DEF Books, AnchorsHold
<1>5. pc'[a] # "idle" => /\ DOMAIN job'[a] = {"path", "receipt", "key"}
                         /\ OfReceipt(job'[a].receipt.seal, job'[a].path)
  <2>1. pc[a] \in Signing => /\ DOMAIN job[a] = {"path", "receipt", "key"}
                             /\ OfReceipt(job[a].receipt.seal, job[a].path)
    BY DEF Books, AnchorsHold, Carries
  <2>2. CASE job' = job /\ (pc[a] \in Signing \/ pc'[a] = "idle")
    BY <2>1, <2>2
  <2>3. ASSUME NEW x, job' = [job EXCEPT ![a].key = x], pc[a] \in Signing
        PROVE  /\ DOMAIN job'[a] = {"path", "receipt", "key"}
               /\ OfReceipt(job'[a].receipt.seal, job'[a].path)
    <3>1. job'[a] = [job[a] EXCEPT !.key = x]
      BY <2>3 DEF Books, AnchorsHold
    <3> QED
      BY <2>1, <2>3, <3>1
  <2>4. ASSUME NEW p \in Stored,
               job' = [job EXCEPT ![a] = [path |-> p, receipt |-> receipts[p], key |-> 0]]
        PROVE  /\ DOMAIN job'[a] = {"path", "receipt", "key"}
               /\ OfReceipt(job'[a].receipt.seal, job'[a].path)
    <3>1. job'[a] = [path |-> p, receipt |-> receipts[p], key |-> 0]
      BY <2>4 DEF Books, AnchorsHold
    <3> QED
      BY <3>1 DEF OfReceipt
  <2> QED
    BY <1>2, <2>2, <2>3, <2>4
<1>6. Stored' = Stored /\ receipts' = receipts /\ altered' = altered
  BY <1>1 DEF Stored, files
<1>7. Carries(a)'
  BY <1>4, <1>5, <1>6 DEF Carries, Signing, OfReceipt
<1> QED
  BY <1>1, <1>3, <1>7, AnchorFrame DEF public

\* The statement that is signed is of the receipt it will lie beside.
LEMMA SignStatementStep ==
    ASSUME Books, NEW a \in Anchors, SignStatement(a)
    PROVE  Books'
<1>1. PICK e : e = Envelope(a)
  OBVIOUS
<1>2. PICK path : path = job[a].path
  OBVIOUS
<1>3. /\ OfReceipt(e.subject, path)
      /\ path \in Paths /\ path \in Stored
  BY <1>1, <1>2 DEF Envelope, SignStatement, Books, AnchorsHold, Carries, Signing, OfReceipt,
                    Stored
<1>4. /\ dsse' = [dsse EXCEPT ![path] = Torn]
      /\ pc' = [pc EXCEPT ![a] = "write"]
      /\ UNCHANGED <<work, receipts, signature, rekor, public, made, altered>>
  BY <1>1, <1>2 DEF SignStatement, Goto, work_
<1>5. job' = [job EXCEPT ![a] = [path |-> path, envelope |-> e]]
  BY <1>1, <1>2 DEF SignStatement, Books, AnchorsHold
<1>6. \A q \in Paths : dsse'[q] = IF q = path THEN Torn ELSE dsse[q]
  BY <1>4 DEF Books, FilesHold
<1>7. Stored' = Stored /\ misled' = misled /\ entries' = entries
  BY <1>4 DEF Stored, public
<1>8. Stay
  BY <1>4, <1>7 DEF Stay
<1>9. FilesHold'
  BY <1>3, <1>4, <1>6, <1>7 DEF Books, FilesHold
<1>10. Intact'
  BY <1>4, <1>6, <1>7 DEF Books, Intact, ReceiptHash, Stored
<1>11. Carries(a)'
  <2>1. pc'[a] = "write" /\ job'[a] = [path |-> path, envelope |-> e]
    BY <1>4, <1>5 DEF Books, AnchorsHold
  <2>2. OfReceipt(e.subject, path)'
    BY <1>3, <1>4, <1>7 DEF OfReceipt
  <2> QED
    BY <2>1, <2>2 DEF Carries, Signing
<1>12. AnchorsHold'
  BY <1>4, <1>5, <1>8, <1>11, CarriesOn DEF Books, AnchorsHold
<1>13. Logged'
  BY <1>4, <1>7 DEF Books, Logged
<1> QED
  BY <1>9, <1>10, <1>12, <1>13 DEF Books

\* It is written beside it, or what does not parse is.
LEMMA WriteEnvelopeStep ==
    ASSUME Books, NEW a \in Anchors, WriteEnvelope(a)
    PROVE  Books'
<1>1. PICK path : path = job[a].path
  OBVIOUS
<1>2. PICK e : (e = job[a].envelope \/ e = Torn) /\ dsse' = [dsse EXCEPT ![path] = e]
  BY <1>1 DEF WriteEnvelope, AfterWrite
<1>3. /\ pc[a] = "write" /\ pc' = [pc EXCEPT ![a] = "upload"] /\ job' = job
      /\ UNCHANGED <<work, receipts, signature, rekor, public, made, altered>>
  BY DEF WriteEnvelope, Goto, work_
<1>4. /\ OfReceipt(job[a].envelope.subject, path)
      /\ path \in Paths /\ path \in Stored
  BY <1>1, <1>3 DEF Books, AnchorsHold, Carries, OfReceipt, Stored
<1>5. \A q \in Paths : dsse'[q] = IF q = path THEN e ELSE dsse[q]
  BY <1>2 DEF Books, FilesHold
<1>6. Stored' = Stored /\ misled' = misled /\ entries' = entries
  BY <1>3 DEF Stored, public
<1>7. Stay
  BY <1>3, <1>6 DEF Stay
<1>8. FilesHold'
  BY <1>2, <1>3, <1>4, <1>5, <1>6 DEF Books, FilesHold
<1>9. Intact'
  BY <1>2, <1>3, <1>4, <1>5, <1>6 DEF Books, Intact, ReceiptHash, OfReceipt, Stored
<1>10. Carries(a)'
  <2>1. pc'[a] = "upload" /\ job'[a] = job[a]
    BY <1>3 DEF Books, AnchorsHold
  <2>2. OfReceipt(job[a].envelope.subject, job[a].path)'
    BY <1>1, <1>3, <1>4, <1>6 DEF OfReceipt
  <2> QED
    BY <2>1, <2>2 DEF Carries, Signing
<1>11. AnchorsHold'
  BY <1>3, <1>7, <1>10, CarriesOn DEF Books, AnchorsHold
<1>12. Logged'
  BY <1>3, <1>6 DEF Books, Logged
<1> QED
  BY <1>8, <1>9, <1>11, <1>12 DEF Books

\* A UUID that the log gives is of an entry it has, of the statement that was
\* uploaded.
LEMMA UploadStep ==
    ASSUME Books, NEW a \in Anchors, Upload(a)
    PROVE  Books'
<1>1. PICK e : e = job[a].envelope
  OBVIOUS
<1>2. PICK path : path = job[a].path
  OBVIOUS
<1>3. PICK answer \in LogAnswers(e) \cup Lookalikes \cup OtherAnswers :
        /\ entries' \in {entries, entries \cup {e}} /\ (answer.key = e => e \in entries')
        /\ misled' = IF answer \in Lookalikes THEN misled \cup {path} ELSE misled
        /\ job' = [job EXCEPT ![a] = IF UuidOf(answer) = Null THEN NoJob
                                     ELSE [path |-> @.path, uuid |-> UuidOf(answer)]]
        /\ Goto(a, IF UuidOf(answer) = Null THEN "idle" ELSE "answer")
  BY <1>1, <1>2 DEF Upload
<1> DEFINE uuid == UuidOf(answer)
<1>4. UNCHANGED <<work, files, made, altered>>
  BY DEF Upload, work_
<1>5. OfReceipt(e.subject, path)
  BY <1>1, <1>2 DEF Upload, Books, AnchorsHold, Carries
<1>6. entries \subseteq entries' /\ misled \subseteq misled' /\ Stored' = Stored
  BY <1>3, <1>4 DEF Stored, files
<1>7. uuid # Null /\ path \notin misled' => uuid = e /\ e \in entries'
  <2> SUFFICES ASSUME uuid # Null, path \notin misled' PROVE uuid = e /\ e \in entries'
    OBVIOUS
  <2>1. answer \notin Lookalikes
    BY <1>3
  <2>2. CASE answer \in LogAnswers(e)
    BY <1>3, <2>2 DEF LogAnswers, UuidOf, ExtractRekorUuid
  <2>3. CASE answer \in OtherAnswers
    BY <1>3, <2>3 DEF OtherAnswers, UuidOf, ExtractRekorUuid
  <2> QED
    BY <1>3, <2>1, <2>2, <2>3
<1>8. /\ pc'[a] = IF uuid = Null THEN "idle" ELSE "answer"
      /\ job'[a] = IF uuid = Null THEN NoJob ELSE [path |-> path, uuid |-> uuid]
      /\ DOMAIN pc' = Anchors /\ DOMAIN job' = Anchors
      /\ \A b \in Anchors : b # a => pc'[b] = pc[b] /\ job'[b] = job[b]
  BY <1>2, <1>3 DEF Goto, Books, AnchorsHold
<1>9. Carries(a)'
  <2>1. CASE uuid = Null
    BY <1>8, <2>1 DEF Carries, Signing
  <2>2. CASE uuid # Null
    <3>1. pc'[a] = "answer" /\ job'[a].path = path /\ job'[a].uuid = uuid
      BY <1>8, <2>2
    <3>2. path \in Stored' /\ OfReceipt(e.subject, path)'
      BY <1>4, <1>5, <1>6 DEF OfReceipt, files
    <3> QED
      BY <1>7, <2>2, <3>1, <3>2 DEF Carries, Signing
  <2> QED
    BY <2>1, <2>2
<1> QED
  BY <1>4, <1>6, <1>8, <1>9, AnchorFrame

\* The UUID that is written down is of an entry about the receipt beside it.
LEMMA AnsweredStep ==
    ASSUME Books, NEW a \in Anchors, Answered(a)
    PROVE  Books'
<1>1. PICK e : e = job[a].uuid
  OBVIOUS
<1>2. PICK path : path = job[a].path
  OBVIOUS
<1>3. /\ path \in Stored /\ path \in Paths
      /\ path \notin misled => e \in entries /\ OfReceipt(e.subject, path)
  BY <1>1, <1>2 DEF Answered, Books, AnchorsHold, Carries, Stored
<1>4. /\ pc' = [pc EXCEPT ![a] = "idle"] /\ job' = [job EXCEPT ![a] = NoJob]
      /\ UNCHANGED <<work, receipts, signature, dsse, public, made, altered>>
  BY DEF Answered, Goto, work_
<1>5. rekor' = rekor \/ rekor' = [rekor EXCEPT ![path] = e]
  BY <1>1, <1>2 DEF Answered
<1>6. /\ DOMAIN rekor' = Paths
      /\ \A q \in Paths : rekor'[q] = rekor[q] \/ (q = path /\ rekor'[q] = e)
  BY <1>3, <1>5 DEF Books, FilesHold
<1>7. Stored' = Stored /\ misled' = misled /\ entries' = entries
  BY <1>4 DEF Stored, public
<1>8. Stay
  BY <1>4, <1>7 DEF Stay
<1>9. FilesHold'
  BY <1>3, <1>4, <1>6, <1>7 DEF Books, FilesHold
<1>10. Intact'
  BY <1>3, <1>4, <1>6, <1>7 DEF Books, Intact, ReceiptHash, OfReceipt, Stored
<1>11. Carries(a)'
  BY <1>4 DEF Carries, Signing, Books, AnchorsHold
<1>12. AnchorsHold'
  BY <1>4, <1>8, <1>11, CarriesOn DEF Books, AnchorsHold
<1>13. Logged'
  BY <1>3, <1>4, <1>6, <1>7 DEF Books, Logged
<1> QED
  BY <1>9, <1>10, <1>12, <1>13 DEF Books

\* Every step keeps the books, and takes no receipt away.
LEMMA StepKeepsBooks ==
    ASSUME Books, [Next]_vars
    PROVE  Books' /\ Stored \subseteq Stored'
<1>0. work \in Works
  BY DEF Books, FilesHold
<1>1. CASE Done \/ Reissue \/ \E p \in Paths : EditReceipt(p)
  BY <1>1, ReceiptStep
<1>2. CASE receipts' = receipts
  <2>0. Stored' = Stored
    BY <1>2 DEF Stored
  <2>1. CASE \/ InitLooks \/ InitPrivate \/ InitPublic \/ InitDies \/ RemoveKeys \/ EditPack
             \/ WorkGoesOn \/ \E redact \in BOOLEAN : AuditPack(redact)
    BY <1>0, <2>0, <2>1, BooksFrame
       DEF InitLooks, InitPrivate, InitPublic, InitDies, RemoveKeys, EditPack, WorkGoesOn,
           AuditPack, work_, files
  <2>2. ASSUME NEW p \in Paths, NEW dir \in {"fresh", "again"}, NEW redact \in BOOLEAN,
               ProofBundle(p, dir, redact)
        PROVE  Books'
    BY <1>0, <2>2, BooksFrame DEF ProofBundle, work_, files
  <2>3. ASSUME NEW r \in Reviewers, Reviewing(r)
        PROVE  Books'
    BY <1>0, <2>3, BooksFrame
       DEF Reviewing, ReviewStarts, ReviewOpens, ReviewWrites, ReviewDies, work_, files
  <2>4. ASSUME NEW p \in Paths, Sign(p)
        PROVE  Books'
    BY <2>4, SignStep
  <2>5. ASSUME NEW a \in Anchors, Prepares(a)
        PROVE  Books'
    BY <2>5, PreparingStep
  <2>6. ASSUME NEW a \in Anchors,
               SignStatement(a) \/ WriteEnvelope(a) \/ Upload(a) \/ Answered(a)
        PROVE  Books'
    BY <2>6, SignStatementStep, WriteEnvelopeStep, UploadStep, AnsweredStep
  <2>7. CASE UNCHANGED vars
    BY <1>0, <2>0, <2>7, BooksFrame DEF vars, work_, files
  <2> QED
    BY <1>1, <2>0, <2>1, <2>2, <2>3, <2>4, <2>5, <2>6, <2>7 DEF Next, Reviewing, Prepares
<1>3. \/ receipts' = receipts
      \/ Done \/ Reissue \/ \E p \in Paths : EditReceipt(p)
  <2>1. ASSUME NEW a \in Anchors, Prepares(a) PROVE receipts' = receipts
    BY <2>1 DEF Prepares, Start, EnsureKept, EnsureMinted, EnsurePrivate, EnsurePublic,
                LockThrows, Dies, files
  <2>2. ASSUME NEW a \in Anchors,
               SignStatement(a) \/ WriteEnvelope(a) \/ Upload(a) \/ Answered(a)
        PROVE  receipts' = receipts
    <3>1. CASE Upload(a)
      BY <3>1 DEF Upload, files
    <3>2. CASE SignStatement(a) \/ WriteEnvelope(a) \/ Answered(a)
      BY <3>2 DEF SignStatement, WriteEnvelope, Answered
    <3> QED
      BY <2>2, <3>1, <3>2
  <2>3. ASSUME NEW r \in Reviewers, Reviewing(r) PROVE receipts' = receipts
    BY <2>3 DEF Reviewing, ReviewStarts, ReviewOpens, ReviewWrites, ReviewDies, files
  <2>4. ASSUME NEW p \in Paths,
               \/ Sign(p)
               \/ \E dir \in {"fresh", "again"}, redact \in BOOLEAN : ProofBundle(p, dir, redact)
        PROVE  receipts' = receipts
    BY <2>4 DEF Sign, ProofBundle, files
  <2>5. CASE \/ InitLooks \/ InitPrivate \/ InitPublic \/ InitDies \/ RemoveKeys \/ EditPack
             \/ WorkGoesOn \/ \E redact \in BOOLEAN : AuditPack(redact)
    BY <2>5 DEF InitLooks, InitPrivate, InitPublic, InitDies, RemoveKeys, EditPack, WorkGoesOn,
                AuditPack, files
  <2>6. CASE UNCHANGED vars
    BY <2>6 DEF vars, files
  <2> QED
    BY <2>1, <2>2, <2>3, <2>4, <2>5, <2>6 DEF Next, Reviewing, Prepares
<1> QED
  BY <1>1, <1>2, <1>3

\* They hold in the beginning, an older receipt there or not.
LEMMA BooksBegin == Init => Books
<1> SUFFICES ASSUME Init PROVE Books
  OBVIOUS
<1>1. /\ work \in Works /\ altered = {} /\ entries = {}
      /\ signature = [p \in Paths |-> Null] /\ rekor = signature /\ dsse = signature
      /\ pc = [a \in Anchors |-> "idle"] /\ job = [a \in Anchors |-> NoJob]
  BY DEF Init
<1>2. PICK old \in BOOLEAN :
        /\ receipts = [p \in Paths |-> IF p = 1 /\ old THEN BuildReceipt(1) ELSE Null]
        /\ made = IF old THEN 1 ELSE 0
  BY DEF Init
<1>3. PICK r : r = BuildReceipt(1)
  OBVIOUS
<1>4. r \in Receipts /\ r # Null /\ r.seal = ReceiptHash(r)
  BY <1>1, <1>3, Built
<1>5. AnchorsHold
  BY <1>1 DEF AnchorsHold, Carries, Signing
<1>6. Logged
  BY <1>1 DEF Logged
<1>7. CASE old
  <2>1. /\ \A p \in Paths : receipts[p] = IF p = 1 THEN r ELSE Null
        /\ receipts \in [Paths -> Receipts \cup {Null}]
        /\ made = 1
    BY <1>2, <1>3, <1>4, <1>7
  <2>2. FilesHold
    BY <1>1, <1>4, <2>1, CustodyAssumption DEF FilesHold, Stored, Paths
  <2>3. Intact
    BY <1>1, <1>4, <2>1 DEF Intact, Stored, ReceiptHash
  <2> QED
    BY <1>5, <1>6, <2>2, <2>3 DEF Books
<1>8. CASE ~old
  <2>1. /\ \A p \in Paths : receipts[p] = Null
        /\ receipts \in [Paths -> Receipts \cup {Null}]
        /\ made = 0
    BY <1>2, <1>8
  <2>2. FilesHold /\ Intact
    BY <1>1, <2>1 DEF FilesHold, Intact, Stored
  <2> QED
    BY <1>5, <1>6, <2>2 DEF Books
<1> QED
  BY <1>7, <1>8

\* An anchor that is recorded beside a receipt names an entry of the log about
\* that receipt (anchor.ts): however many anchors run at once, are answered
\* with anything but the UUID of something that is not the log, die or are run
\* again.
THEOREM AnchorsTrue == Spec => []AnchorsAreTrue
<1>1. Books => AnchorsAreTrue
  <2> SUFFICES ASSUME Books, NEW p \in Paths \ misled, rekor[p] # Null
               PROVE  rekor[p] \in entries /\ (p \notin altered => rekor[p].subject = receipts[p].seal)
    BY DEF AnchorsAreTrue
  <2>1. p \in Stored
    BY DEF Books, FilesHold
  <2> QED
    BY <2>1 DEF Books, Intact, Logged
<1> QED
  BY <1>1, BooksBegin, StepKeepsBooks, PTL DEF Spec

-----------------------------------------------------------------------------
(* Reviews                                                                 *)

\* What a reviewer has in hand, of a receipt that is there.
Busy(r) == reviewer[r] # NoReview
InHand == [at : {"read", "write"}, path : Paths, mark : {"approved", "rejected", "note"},
           status : {"approved", "rejected", "needs-review"}]

\* A note carries an approval only of a receipt that was approved once; and
\* where nothing is contested, the last word, and its file is cut.
Holds(r) ==
    LET v == reviewer[r]
    IN  /\ v \in InHand /\ v.path \in Stored
        /\ v.mark # "note" => v.status = v.mark
        /\ v.status = "approved" /\ v.mark = "note" => v.path \in backed
        /\ v.path \notin contested
              => /\ v.at = "write" => approval[v.path] = Torn
                 /\ v.mark = "note" => (v.status = "approved" <=> verdict[v.path] = "approved")

\* Two that are busy with one receipt contest it.
Apart ==
    \A r, s \in Reviewers : r # s /\ Busy(r) /\ Busy(s) /\ reviewer[r].path = reviewer[s].path
                               => reviewer[r].path \in contested

LastWord ==
    \A p \in Paths : /\ Settled(p) => (HasApproval(p) <=> verdict[p] = "approved")
                     /\ HasApproval(p) => p \in backed

Reviewed ==
    /\ approval \in [Paths -> Reviews \cup {Null, Torn}]
    /\ verdict \in [Paths -> {Null, "approved", "rejected"}]
    /\ \A p \in Paths \ Stored : approval[p] = Null
    /\ DOMAIN reviewer = Reviewers
    /\ \A r \in Reviewers : Busy(r) => Holds(r)
    /\ Apart /\ LastWord

\* Who is busy, and with what.
LEMMA BusyAt ==
    ASSUME Reviewed, NEW r \in Reviewers
    PROVE  /\ Busy(r) <=> reviewer[r].at # "idle"
           /\ Busy(r) => reviewer[r] \in InHand
BY DEF Reviewed, Busy, Holds, InHand, NoReview

\* Steps that review nothing.
LEMMA ReviewedFrame ==
    ASSUME Reviewed, UNCHANGED <<approval, reviewing>>, Stored \subseteq Stored'
    PROVE  Reviewed'
<1>1. \A r \in Reviewers : Holds(r) => Holds(r)'
  BY DEF Holds, reviewing
<1>2. LastWord'
  BY DEF Reviewed, LastWord, Settled, Under, HasApproval, ApprovalStatusFor, reviewing
<1> QED
  BY <1>1, <1>2 DEF Reviewed, Busy, Apart, reviewing

\* A review starts: if another is at the receipt, it is contested from now on;
\* if not, what the sidecar says is the last word.
LEMMA StartsKeeps ==
    ASSUME Reviewed, NEW r \in Reviewers, NEW p \in Paths,
           NEW mark \in {"approved", "rejected", "note"}, ReviewStarts(r, p, mark)
    PROVE  Reviewed'
<1>1. PICK found : found = IF ApprovalStatusFor(p) = Null THEN "needs-review" ELSE ApprovalStatusFor(p)
  OBVIOUS
<1>2. PICK v : v = [at |-> "read", path |-> p, mark |-> mark,
                    status |-> IF mark = "note" THEN found ELSE mark]
  OBVIOUS
<1>3. /\ p \in Stored /\ reviewer[r] = NoReview
      /\ reviewer' = [reviewer EXCEPT ![r] = v]
      /\ contested' = IF Under(p) # {} THEN contested \cup {p} ELSE contested
      /\ UNCHANGED <<receipts, approval, verdict, backed>>
  BY <1>1, <1>2 DEF ReviewStarts, files
<1>4. /\ DOMAIN reviewer' = Reviewers /\ reviewer'[r] = v
      /\ \A s \in Reviewers : s # r => reviewer'[s] = reviewer[s]
  BY <1>3 DEF Reviewed
<1>5. Stored' = Stored /\ contested \subseteq contested'
  BY <1>3 DEF Stored
<1>6. found \in {"approved", "rejected", "needs-review"} /\ (found = "approved" <=> HasApproval(p))
  <2>1. ApprovalStatusFor(p) \in {Null, "approved", "rejected", "needs-review"}
    BY DEF ApprovalStatusFor, Reviewed, Reviews
  <2> QED
    BY <1>1, <2>1, CustodyAssumption DEF HasApproval
<1>7. Holds(r)'
  <2>1. v \in InHand
    BY <1>2, <1>6 DEF InHand
  <2>2. v.path = p /\ v.at = "read" /\ v.mark = mark /\ (mark # "note" => v.status = mark)
        /\ (mark = "note" => v.status = found)
    BY <1>2
  <2>3. HasApproval(p) => p \in backed
    BY DEF Reviewed, LastWord
  <2>4. p \notin contested' => (HasApproval(p) <=> verdict[p] = "approved")
    BY <1>3 DEF Reviewed, LastWord, Settled
  <2> QED
    BY <1>3, <1>4, <1>5, <1>6, <2>1, <2>2, <2>3, <2>4 DEF Holds
<1>8. ASSUME NEW s \in Reviewers, s # r, Busy(s)' PROVE Holds(s)'
  <2>1. Busy(s) /\ Holds(s)
    BY <1>4, <1>8 DEF Busy, Reviewed
  <2> QED
    BY <1>3, <1>4, <1>5, <1>8, <2>1 DEF Holds
<1>9. Apart'
  <2> SUFFICES ASSUME NEW s \in Reviewers, NEW u \in Reviewers, s # u, Busy(s)', Busy(u)',
                      reviewer'[s].path = reviewer'[u].path
               PROVE  reviewer'[s].path \in contested'
    BY DEF Apart
  <2>1. ASSUME NEW x \in Reviewers, x # r, Busy(x)', reviewer'[x].path = p
        PROVE  p \in contested'
    <3>1. x \in Under(p)
      BY <1>4, <2>1, BusyAt DEF Busy, Under
    <3> QED
      BY <1>3, <3>1
  <2>2. CASE s = r \/ u = r
    BY <1>2, <1>4, <2>1, <2>2
  <2>3. CASE s # r /\ u # r
    BY <1>4, <1>5, <2>3 DEF Busy, Reviewed, Apart
  <2> QED
    BY <2>2, <2>3
<1>10. LastWord'
  <2> SUFFICES ASSUME NEW q \in Paths
               PROVE  /\ Settled(q)' => (HasApproval(q) <=> verdict[q] = "approved")
                      /\ HasApproval(q) => q \in backed
    BY <1>3 DEF LastWord, HasApproval, ApprovalStatusFor
  <2>1. ASSUME Settled(q)' PROVE Settled(q)
    <3>1. q \notin contested
      BY <1>5, <2>1 DEF Settled
    <3>2. ASSUME NEW s \in Under(q) PROVE reviewer[s].at # "write"
      <4>1. s \in Reviewers /\ s # r
        BY <1>3, <3>2 DEF Under, NoReview
      <4>2. s \in Under(q)'
        BY <1>4, <3>2, <4>1 DEF Under
      <4> QED
        BY <1>4, <2>1, <4>1, <4>2 DEF Settled
    <3> QED
      BY <3>1, <3>2 DEF Settled
  <2> QED
    BY <2>1 DEF Reviewed, LastWord
<1> QED
  BY <1>3, <1>4, <1>5, <1>7, <1>8, <1>9, <1>10 DEF Reviewed

\* It cuts the sidecar to write it: nothing is settled until it has.
LEMMA OpensKeeps ==
    ASSUME Reviewed, NEW r \in Reviewers, ReviewOpens(r)
    PROVE  Reviewed'
<1>1. PICK p : p = reviewer[r].path
  OBVIOUS
<1>2. /\ reviewer[r].at = "read" /\ Busy(r) /\ reviewer[r] \in InHand
      /\ approval' = [approval EXCEPT ![p] = Torn]
      /\ reviewer' = [reviewer EXCEPT ![r].at = "write"]
      /\ UNCHANGED <<receipts, verdict, backed, contested>>
  BY <1>1, BusyAt DEF ReviewOpens
<1>3. p \in Paths /\ p \in Stored
  BY <1>1, <1>2 DEF Reviewed, Holds, InHand
<1>4. Stored' = Stored
  BY <1>2 DEF Stored
<1>5. /\ DOMAIN reviewer' = Reviewers
      /\ reviewer'[r] = [reviewer[r] EXCEPT !.at = "write"]
      /\ \A s \in Reviewers : s # r => reviewer'[s] = reviewer[s]
  BY <1>2 DEF Reviewed
<1>6. /\ reviewer'[r] \in InHand /\ reviewer'[r].path = p /\ reviewer'[r].at = "write"
      /\ reviewer'[r].mark = reviewer[r].mark /\ reviewer'[r].status = reviewer[r].status
  BY <1>1, <1>2, <1>5 DEF InHand
<1>7. \A q \in Paths : approval'[q] = IF q = p THEN Torn ELSE approval[q]
  BY <1>2 DEF Reviewed
<1>8. approval' \in [Paths -> Reviews \cup {Null, Torn}]
  BY <1>2 DEF Reviewed
<1>9. Holds(r)'
  BY <1>1, <1>2, <1>3, <1>4, <1>6, <1>7 DEF Reviewed, Holds
<1>10. ASSUME NEW s \in Reviewers, s # r, Busy(s)' PROVE Holds(s)'
  <2>1. Busy(s) /\ Holds(s)
    BY <1>5, <1>10 DEF Busy, Reviewed
  <2> QED
    BY <1>2, <1>4, <1>5, <1>7, <1>10, <2>1 DEF Holds, InHand
<1>11. Apart'
  <2>1. \A s \in Reviewers : (Busy(s)' => Busy(s)) /\ reviewer'[s].path = reviewer[s].path
    BY <1>1, <1>2, <1>5, <1>6 DEF Busy
  <2> QED
    BY <1>2, <2>1 DEF Reviewed, Apart
<1>12. LastWord'
  <2> SUFFICES ASSUME NEW q \in Paths
               PROVE  /\ Settled(q)' => (HasApproval(q)' <=> verdict[q] = "approved")
                      /\ HasApproval(q)' => q \in backed
    BY <1>2 DEF LastWord
  <2>1. CASE q = p
    <3>1. ~HasApproval(q)'
      <4>1. Null # "approved"
        BY CustodyAssumption
      <4> QED
        BY <1>7, <2>1, <4>1 DEF HasApproval, ApprovalStatusFor
    <3>2. ~Settled(q)'
      BY <1>6, <2>1 DEF Settled, Under
    <3> QED
      BY <3>1, <3>2
  <2>2. CASE q # p
    <3>1. HasApproval(q)' = HasApproval(q)
      BY <1>7, <2>2 DEF HasApproval, ApprovalStatusFor
    <3>2. Settled(q)' => Settled(q)
      BY <1>1, <1>2, <1>5, <1>6, <2>2 DEF Settled, Under
    <3> QED
      BY <3>1, <3>2 DEF Reviewed, LastWord
  <2> QED
    BY <2>1, <2>2
<1> QED
  BY <1>2, <1>3, <1>4, <1>5, <1>7, <1>8, <1>9, <1>10, <1>11, <1>12 DEF Reviewed

\* It ends, with its word or without: where nobody else is at the receipt, the
\* file that parses says it.
LEMMA WritesKeeps ==
    ASSUME Reviewed, NEW r \in Reviewers, ReviewWrites(r)
    PROVE  Reviewed'
<1>1. PICK v : v = reviewer[r]
  OBVIOUS
<1>2. PICK p : p = v.path
  OBVIOUS
<1>3. v.at = "write" /\ Busy(r) /\ v \in InHand
  BY <1>1, BusyAt DEF ReviewWrites
<1>4. PICK side \in AfterWrite(approval[p], [status |-> v.status]) :
         approval' = [approval EXCEPT ![p] = side]
  BY <1>1, <1>2 DEF ReviewWrites
<1>5. /\ reviewer' = [reviewer EXCEPT ![r] = NoReview] /\ receipts' = receipts
      /\ v.mark = "note" => UNCHANGED <<verdict, backed, contested>>
      /\ v.mark # "note" =>
            /\ verdict' = [verdict EXCEPT ![p] = v.mark]
            /\ backed' = IF v.mark = "approved" THEN backed \cup {p} ELSE backed
            /\ contested' = IF Under(p) = {r} /\ approval'[p] # Torn THEN contested \ {p} ELSE contested
  BY <1>1, <1>2 DEF ReviewWrites
<1>6. /\ p \in Paths /\ p \in Stored /\ Holds(r)
      /\ v.status \in {"approved", "rejected", "needs-review"}
      /\ v.mark \in {"approved", "rejected", "note"}
  BY <1>1, <1>2, <1>3 DEF Reviewed, Holds, InHand
<1>7. Stored' = Stored /\ backed \subseteq backed'
  BY <1>5 DEF Stored
<1>8. /\ DOMAIN reviewer' = Reviewers /\ reviewer'[r] = NoReview
      /\ \A s \in Reviewers : s # r => reviewer'[s] = reviewer[s]
  BY <1>5 DEF Reviewed
<1>9. \A q \in Paths : approval'[q] = IF q = p THEN side ELSE approval[q]
  BY <1>4 DEF Reviewed
<1>10. \A q \in Paths : q # p => verdict'[q] = verdict[q]
  BY <1>5 DEF Reviewed
<1>11. /\ approval' \in [Paths -> Reviews \cup {Null, Torn}]
       /\ verdict' \in [Paths -> {Null, "approved", "rejected"}]
  <2>1. side \in Reviews \cup {Null, Torn}
    BY <1>4, <1>6 DEF AfterWrite, Reviews
  <2> QED
    BY <1>4, <1>5, <1>6, <2>1 DEF Reviewed
<1>12. \A q \in Paths : q # p => (q \in contested' <=> q \in contested)
  BY <1>5
<1>13. \A s \in Reviewers : s # r /\ Busy(s) /\ reviewer[s].path = p
                             => p \in contested /\ p \in contested'
  <2> SUFFICES ASSUME NEW s \in Reviewers, s # r, Busy(s), reviewer[s].path = p
               PROVE  p \in contested /\ p \in contested'
    OBVIOUS
  <2>1. p \in contested
    BY <1>1, <1>2, <1>3 DEF Reviewed, Apart
  <2>2. s \in Under(p)
    BY BusyAt DEF Under
  <2> QED
    BY <1>5, <2>1, <2>2
<1>14. ASSUME NEW s \in Reviewers, s # r, Busy(s)' PROVE Holds(s)'
  <2>1. Busy(s) /\ Holds(s) /\ reviewer'[s] = reviewer[s]
    BY <1>8, <1>14 DEF Busy, Reviewed
  <2>2. CASE reviewer[s].path = p
    <3>1. p \in contested'
      BY <1>13, <1>14, <2>1, <2>2
    <3> QED
      BY <1>7, <2>1, <2>2, <3>1 DEF Holds
  <2>3. CASE reviewer[s].path # p
    <3>1. reviewer[s].path \in Paths
      BY <2>1 DEF Holds, InHand
    <3> QED
      BY <1>7, <1>9, <1>10, <1>12, <2>1, <2>3, <3>1 DEF Holds
  <2> QED
    BY <2>2, <2>3
<1>15. Apart'
  <2> SUFFICES ASSUME NEW s \in Reviewers, NEW u \in Reviewers, s # u, Busy(s)', Busy(u)',
                      reviewer'[s].path = reviewer'[u].path
               PROVE  reviewer'[s].path \in contested'
    BY DEF Apart
  <2>1. /\ s # r /\ u # r /\ Busy(s) /\ Busy(u)
        /\ reviewer'[s] = reviewer[s] /\ reviewer'[u] = reviewer[u]
    BY <1>8 DEF Busy
  <2>2. reviewer[s].path \in contested /\ reviewer[s].path \in Paths
    BY <2>1, BusyAt DEF Reviewed, Apart, InHand
  <2> QED
    BY <1>12, <1>13, <2>1, <2>2
<1>16. ~Busy(r)'
  BY <1>8 DEF Busy
<1>17. ASSUME NEW q \in Paths, q # p
       PROVE  /\ Settled(q)' => (HasApproval(q)' <=> verdict'[q] = "approved")
              /\ HasApproval(q)' => q \in backed'
  <2>1. HasApproval(q)' = HasApproval(q)
    BY <1>9, <1>17 DEF HasApproval, ApprovalStatusFor
  <2>2. Settled(q)' => Settled(q)
    <3>1. ASSUME NEW s \in Under(q) PROVE s \in Under(q)' /\ reviewer'[s] = reviewer[s]
      <4>1. s \in Reviewers /\ s # r
        BY <1>1, <1>2, <1>17, <3>1 DEF Under
      <4> QED
        BY <1>8, <3>1, <4>1 DEF Under
    <3> QED
      BY <1>12, <1>17, <3>1 DEF Settled
  <2> QED
    BY <1>7, <1>10, <1>17, <2>1, <2>2 DEF Reviewed, LastWord
<1>18. /\ Settled(p)' => (HasApproval(p)' <=> verdict'[p] = "approved")
       /\ HasApproval(p)' => p \in backed'
  <2>1. side = [status |-> v.status] \/ side = Torn
    BY <1>4 DEF AfterWrite
  <2>2. ASSUME HasApproval(p)' PROVE side = [status |-> v.status] /\ v.status = "approved"
    <3>1. side # Torn /\ side # Null
      BY <1>6, <1>9, <2>2, CustodyAssumption DEF HasApproval, ApprovalStatusFor
    <3>2. side = [status |-> v.status]
      BY <2>1, <3>1
    <3>3. side.status = v.status /\ v.status # Null
      BY <1>6, <3>2, CustodyAssumption
    <3> QED
      BY <1>6, <1>9, <2>2, <3>1, <3>2, <3>3 DEF HasApproval, ApprovalStatusFor
  <2>3. HasApproval(p)' => p \in backed'
    <3> SUFFICES ASSUME HasApproval(p)' PROVE p \in backed'
      OBVIOUS
    <3>1. v.status = "approved"
      BY <2>2
    <3>2. CASE v.mark = "note"
      BY <1>1, <1>2, <1>6, <1>7, <3>1, <3>2 DEF Holds
    <3>3. CASE v.mark # "note"
      <4>1. v.mark = "approved"
        BY <1>1, <1>6, <3>1, <3>3 DEF Holds
      <4> QED
        BY <1>5, <4>1
    <3> QED
      BY <3>2, <3>3
  <2>4. ASSUME Settled(p)' PROVE HasApproval(p)' <=> verdict'[p] = "approved"
    <3>1. p \notin contested'
      BY <2>4 DEF Settled
    <3>2. side = [status |-> v.status] /\ (v.mark = "note" => p \notin contested)
      <4>1. CASE p \notin contested
        <5>1. approval[p] = Torn
          BY <1>1, <1>2, <1>3, <1>6, <4>1 DEF Holds
        <5> QED
          BY <1>4, <4>1, <5>1 DEF AfterWrite
      <4>2. CASE p \in contested
        <5>1. v.mark # "note" /\ approval'[p] # Torn
          BY <1>5, <3>1, <4>2
        <5> QED
          BY <1>6, <1>9, <2>1, <5>1
      <4> QED
        BY <4>1, <4>2
    <3>3. v.status = "approved" <=> verdict'[p] = "approved"
      <4>1. CASE v.mark = "note"
        <5>1. verdict' = verdict /\ p \notin contested
          BY <1>5, <3>2, <4>1
        <5> QED
          BY <1>1, <1>2, <1>6, <4>1, <5>1 DEF Holds
      <4>2. CASE v.mark # "note"
        <5>1. verdict'[p] = v.mark
          BY <1>5, <1>6, <4>2 DEF Reviewed
        <5>2. v.status = v.mark
          BY <1>1, <1>6, <4>2 DEF Holds
        <5> QED
          BY <5>1, <5>2
      <4> QED
        BY <4>1, <4>2
    <3>4. HasApproval(p)' <=> v.status = "approved"
      <4>1. approval'[p] = [status |-> v.status]
        BY <1>6, <1>9, <3>2
      <4>2. [status |-> v.status] \notin {Null, Torn} /\ v.status # Null
        BY <1>6, CustodyAssumption DEF Reviews
      <4>3. ApprovalStatusFor(p)' = v.status
        BY <4>1, <4>2 DEF ApprovalStatusFor
      <4> QED
        BY <4>3 DEF HasApproval
    <3> QED
      BY <3>3, <3>4
  <2> QED
    BY <2>3, <2>4
<1>19. LastWord'
  BY <1>17, <1>18 DEF LastWord
<1>20. \A q \in Paths \ Stored' : approval'[q] = Null
  BY <1>6, <1>7, <1>9 DEF Reviewed
<1> QED
  BY <1>8, <1>11, <1>14, <1>15, <1>16, <1>19, <1>20 DEF Reviewed

\* It dies: before it cut the sidecar nothing has happened, after that the
\* receipt is contested.
LEMMA DiesKeeps ==
    ASSUME Reviewed, NEW r \in Reviewers, ReviewDies(r)
    PROVE  Reviewed'
<1>1. PICK p : p = reviewer[r].path
  OBVIOUS
<1>2. /\ reviewer' = [reviewer EXCEPT ![r] = NoReview]
      /\ contested' = IF reviewer[r].at = "write" THEN contested \cup {p} ELSE contested
      /\ UNCHANGED <<receipts, approval, verdict, backed>>
  BY <1>1 DEF ReviewDies, files
<1>3. Stored' = Stored /\ contested \subseteq contested'
  BY <1>2 DEF Stored
<1>4. /\ DOMAIN reviewer' = Reviewers /\ reviewer'[r] = NoReview
      /\ \A s \in Reviewers : s # r => reviewer'[s] = reviewer[s]
  BY <1>2 DEF Reviewed
<1>5. ASSUME NEW s \in Reviewers, Busy(s)' PROVE s # r /\ Busy(s) /\ reviewer'[s] = reviewer[s]
  BY <1>4, <1>5 DEF Busy
<1>6. ASSUME NEW s \in Reviewers, Busy(s)' PROVE Holds(s)'
  <2>1. reviewer'[s] = reviewer[s] /\ Holds(s)
    BY <1>5, <1>6 DEF Reviewed
  <2> QED
    BY <1>2, <1>3, <2>1 DEF Holds
<1>7. Apart'
  BY <1>3, <1>5 DEF Reviewed, Apart
<1>8. LastWord'
  <2> SUFFICES ASSUME NEW q \in Paths
               PROVE  /\ Settled(q)' => (HasApproval(q) <=> verdict[q] = "approved")
                      /\ HasApproval(q) => q \in backed
    BY <1>2 DEF LastWord, HasApproval, ApprovalStatusFor
  <2>1. ASSUME Settled(q)' PROVE Settled(q)
    <3>1. q \notin contested' /\ q \notin contested
      BY <1>3, <2>1 DEF Settled
    <3>2. ASSUME NEW s \in Under(q) PROVE reviewer[s].at # "write"
      <4>1. CASE s = r
        BY <1>1, <1>2, <3>1, <3>2, <4>1 DEF Under
      <4>2. CASE s # r
        <5>1. s \in Reviewers /\ reviewer'[s] = reviewer[s] /\ s \in Under(q)'
          BY <1>4, <3>2, <4>2 DEF Under
        <5> QED
          BY <2>1, <5>1 DEF Settled
      <4> QED
        BY <4>1, <4>2
    <3> QED
      BY <3>1, <3>2 DEF Settled
  <2> QED
    BY <2>1 DEF Reviewed, LastWord
<1> QED
  BY <1>2, <1>3, <1>4, <1>6, <1>7, <1>8 DEF Reviewed

\* Every step keeps what the reviewers have in hand.
LEMMA StepKeepsReviewed ==
    ASSUME Books, Reviewed, [Next]_vars
    PROVE  Reviewed'
<1>1. Stored \subseteq Stored'
  BY StepKeepsBooks
<1>2. ASSUME NEW r \in Reviewers, Reviewing(r) PROVE Reviewed'
  BY <1>2, StartsKeeps, OpensKeeps, WritesKeeps, DiesKeeps DEF Reviewing
<1>3. ASSUME NEW a \in Anchors, Prepares(a) PROVE UNCHANGED <<approval, reviewing>>
  BY <1>3 DEF Prepares, Start, EnsureKept, EnsureMinted, EnsurePrivate, EnsurePublic,
              LockThrows, Dies, files
<1>4. ASSUME NEW a \in Anchors,
             SignStatement(a) \/ WriteEnvelope(a) \/ Upload(a) \/ Answered(a)
      PROVE  UNCHANGED <<approval, reviewing>>
  <2>1. CASE Upload(a)
    BY <2>1 DEF Upload, files
  <2>2. CASE SignStatement(a) \/ WriteEnvelope(a) \/ Answered(a)
    BY <2>2 DEF SignStatement, WriteEnvelope, Answered
  <2> QED
    BY <1>4, <2>1, <2>2
<1>5. ASSUME NEW p \in Paths,
             \/ Sign(p) \/ EditReceipt(p)
             \/ \E dir \in {"fresh", "again"}, redact \in BOOLEAN : ProofBundle(p, dir, redact)
      PROVE  UNCHANGED <<approval, reviewing>>
  BY <1>5 DEF Sign, EditReceipt, ProofBundle, files
<1>6. CASE \/ Done \/ Reissue \/ InitLooks \/ InitPrivate \/ InitPublic \/ InitDies \/ RemoveKeys
           \/ EditPack \/ WorkGoesOn \/ \E redact \in BOOLEAN : AuditPack(redact)
  BY <1>1, <1>6, ReviewedFrame
     DEF Done, Reissue, InitLooks, InitPrivate, InitPublic, InitDies, RemoveKeys, EditPack,
         WorkGoesOn, AuditPack, files
<1>7. CASE UNCHANGED vars
  BY <1>1, <1>7, ReviewedFrame DEF vars, files
<1> QED
  BY <1>1, <1>2, <1>3, <1>4, <1>5, <1>6, <1>7, ReviewedFrame DEF Next, Reviewing, Prepares

\* In the beginning nobody reviews; an older receipt may be approved.
LEMMA ReviewedBegin == Init => Reviewed
<1> SUFFICES ASSUME Init PROVE Reviewed
  OBVIOUS
<1>1. PICK old \in BOOLEAN :
        /\ receipts = [p \in Paths |-> IF p = 1 /\ old THEN BuildReceipt(1) ELSE Null]
        /\ approval = [p \in Paths |-> IF p = 1 /\ old THEN [status |-> Null] ELSE Null]
        /\ verdict = [p \in Paths |-> IF p = 1 /\ old THEN "approved" ELSE Null]
        /\ backed = IF old THEN {1} ELSE {}
  BY DEF Init
<1>2. \A r \in Reviewers : ~Busy(r)
  BY DEF Init, Busy
<1>3. /\ [status |-> Null] \in Reviews /\ [status |-> Null] \notin {Null, Torn}
      /\ Null # "approved"
  BY CustodyAssumption DEF Reviews
<1>4. \A p \in Paths \ Stored : approval[p] = Null
  <2> SUFFICES ASSUME NEW p \in Paths \ Stored PROVE approval[p] = Null
    OBVIOUS
  <2>1. receipts[p] = Null
    BY DEF Stored
  <2>2. BuildReceipt(1) # Null
    BY Built DEF Init
  <2> QED
    BY <1>1, <2>1, <2>2
<1>5. /\ approval \in [Paths -> Reviews \cup {Null, Torn}]
      /\ verdict \in [Paths -> {Null, "approved", "rejected"}]
  BY <1>1, <1>3
<1>6. \A p \in Paths : ApprovalStatusFor(p) = verdict[p] /\ (verdict[p] = "approved" => p \in backed)
  BY <1>1, <1>3 DEF ApprovalStatusFor
<1>7. LastWord
  BY <1>6 DEF LastWord, HasApproval
<1>8. DOMAIN reviewer = Reviewers
  BY DEF Init
<1> QED
  BY <1>2, <1>4, <1>5, <1>7, <1>8 DEF Reviewed, Apart

\* A receipt counts as approved exactly when the last word on it was an
\* approval, where its reviews did not overlap and none died in its write, and
\* never when nobody approved it (approve.ts, receiptStore.ts): for any number
\* of reviewers, whatever they write and wherever they die.
THEOREM ApprovalsTrue == Spec => []ApprovalsAreTrue
<1>1. Books /\ Reviewed => ApprovalsAreTrue
  BY DEF Reviewed, LastWord, ApprovalsAreTrue
<1>2. Init => Books /\ Reviewed
  BY BooksBegin, ReviewedBegin
<1>3. Books /\ Reviewed /\ [Next]_vars => (Books /\ Reviewed)'
  BY StepKeepsBooks, StepKeepsReviewed
<1> QED
  BY <1>1, <1>2, <1>3, PTL DEF Spec

-----------------------------------------------------------------------------
(* No false alarm                                                          *)

Positive == Nat \ {0}

\* A key that is made is none of none, and none of a damaged file.
Fresh == /\ initer.at = "priv" => initer.key \in Positive
         /\ \A a \in Anchors : pc[a] = "priv" => job[a].key \in Positive

\* The one key there is: whoever is about to write a half of it or to sign has
\* it, and it made every signature there is.
Ours(key) == key = priv /\ priv # 0
OneKey ==
    /\ priv \in Nat /\ pub \in {0, priv}
    /\ initer.at = "pub" => Ours(initer.key)
    /\ \A a \in Anchors : /\ pc[a] \in {"pub", "sign"} => Ours(job[a].key)
                          /\ pc[a] = "write" => Ours(job[a].envelope.key)
    /\ \A p \in Paths : /\ signature[p] \notin {Null, Torn} => Ours(signature[p].key)
                        /\ dsse[p] \notin {Null, Torn} => Ours(dsse[p].key)

Whole == Fresh /\ (rekeyed = "no" => OneKey)

\* What was handed on verifies by itself.
HandedOn ==
    /\ bundle # Nothing /\ bundle.plain = "yes" /\ bundle.dsse # Torn => VerifyProof(bundle)
    /\ pack # Nothing => "plain" \in DOMAIN pack
    /\ pack # Nothing /\ pack.plain = "yes"
          => pack.manifest = pack.receipt.seal /\ ReceiptHash(pack.receipt) = pack.receipt.seal

\* Steps that write no key and no signature, after which no anchor is in the
\* section or about to sign that was not.
LEMMA WholeFrame ==
    ASSUME Whole, UNCHANGED <<priv, pub, rekeyed, initer, signature, dsse>>,
           \A a \in Anchors : pc'[a] \in {"priv", "pub", "sign", "write"}
                                 => pc'[a] = pc[a] /\ job'[a] = job[a]
    PROVE  Whole'
<1>1. Fresh'
  BY DEF Whole, Fresh
<1>2. ASSUME OneKey PROVE OneKey'
  BY <1>2 DEF OneKey, Ours
<1> QED
  BY <1>1, <1>2 DEF Whole

\* keys init and the user: a key that was there is lost or replaced, which is
\* no longer the promise, or comes where there was none.
LEMMA OthersKeepWhole ==
    ASSUME Whole, KeyInv, InitLooks \/ InitPrivate \/ InitPublic \/ InitDies \/ RemoveKeys
    PROVE  Whole'
<1> USE DEF Whole, Fresh, OneKey, Ours, Positive
<1>1. CASE InitLooks
  <2>1. initer' = [at |-> "priv", key |-> minted + 1] /\ minted \in Nat
    BY <1>1 DEF InitLooks, KeyInv, InitShape
  <2> QED
    BY <1>1, <2>1 DEF InitLooks, files
<1>2. CASE InitPrivate
  <2>1. /\ initer.at = "priv" /\ initer'.at = "pub" /\ initer'.key = initer.key
        /\ priv' = initer.key /\ initer.key \in Positive
        /\ rekeyed' = IF priv # 0 THEN "yes" ELSE rekeyed
        /\ UNCHANGED <<pub, pc, job, signature, dsse>>
    BY <1>2 DEF InitPrivate, KeyInv, InitShape, files
  <2>2. CASE priv = 0
    BY <2>1, <2>2
  <2>3. CASE priv # 0
    BY <2>1, <2>3
  <2> QED
    BY <2>2, <2>3
<1>3. CASE InitPublic
  BY <1>3 DEF InitPublic, files
<1>4. CASE InitDies
  BY <1>4 DEF InitDies, files
<1>5. CASE RemoveKeys
  BY <1>5 DEF RemoveKeys, files
<1> QED
  BY <1>1, <1>2, <1>3, <1>4, <1>5

\* The section of .keys.lock: a key is made only where there is none, and
\* nothing is signed meanwhile.
LEMMA AnchorsKeepWhole ==
    ASSUME Whole, KeyInv, Books, NEW a \in Anchors,
           \/ EnsureKept(a) \/ EnsureMinted(a) \/ EnsurePrivate(a) \/ EnsurePublic(a)
           \/ Dies(a)
    PROVE  Whole'
<1>0. /\ DOMAIN pc = Anchors /\ DOMAIN job = Anchors
      /\ pc[a] = "keys" => "key" \in DOMAIN job[a]
  BY DEF Books, AnchorsHold, Carries, Signing
<1>1. CASE EnsureKept(a)
  <2>1. CASE priv = Damaged
    <3>1. /\ pc' = [pc EXCEPT ![a] = "idle"]
          /\ UNCHANGED <<job, priv, pub, rekeyed, initer, signature, dsse>>
      BY <1>1, <2>1 DEF EnsureKept, Goto, files
    <3> QED
      BY <1>0, <3>1, WholeFrame
  <2>2. CASE priv # Damaged
    <3>1. /\ pc[a] = "keys" /\ priv # 0 /\ pub' = IF pub = 0 THEN priv ELSE pub
          /\ job' = [job EXCEPT ![a].key = priv] /\ pc' = [pc EXCEPT ![a] = "sign"]
          /\ UNCHANGED <<priv, rekeyed, initer, signature, dsse>>
      BY <1>1, <2>2 DEF EnsureKept, KeepsKey, Goto, files
    <3>2. /\ pc'[a] = "sign" /\ job'[a].key = priv
          /\ \A b \in Anchors : b # a => pc'[b] = pc[b] /\ job'[b] = job[b]
      BY <1>0, <3>1
    <3> QED
      BY <3>1, <3>2 DEF Whole, Fresh, OneKey, Ours
  <2> QED
    BY <2>1, <2>2
<1>2. CASE EnsureMinted(a)
  <2>1. /\ pc[a] = "keys" /\ job' = [job EXCEPT ![a].key = minted + 1]
        /\ pc' = [pc EXCEPT ![a] = "priv"]
        /\ UNCHANGED <<priv, pub, rekeyed, initer, signature, dsse>>
    BY <1>2 DEF EnsureMinted, Goto, files
  <2>2. /\ pc'[a] = "priv" /\ job'[a].key \in Positive
        /\ \A b \in Anchors : b # a => pc'[b] = pc[b] /\ job'[b] = job[b]
    BY <1>0, <2>1 DEF KeyInv, InitShape, Positive
  <2> QED
    BY <2>1, <2>2 DEF Whole, Fresh, OneKey, Ours
<1>3. CASE EnsurePrivate(a)
  <2>1. /\ pc[a] = "priv" /\ priv' = job[a].key /\ pc' = [pc EXCEPT ![a] = "pub"]
        /\ rekeyed' = IF priv \in ofInit THEN "yes" ELSE rekeyed
        /\ UNCHANGED <<job, pub, initer, signature, dsse>>
    BY <1>3 DEF EnsurePrivate, Goto, files
  <2>2. priv' \in Positive
    BY <2>1 DEF Whole, Fresh
  <2>3. rekeyed' = "no" => rekeyed = "no" /\ (OneKey => priv = 0 /\ pub = 0)
    <3>1. priv \in {0, Damaged} \cup ofInit
      BY <2>1 DEF KeyInv, Looked
    <3> QED
      BY <2>1, <3>1 DEF OneKey, Damaged
  <2>4. pc'[a] = "pub" /\ \A b \in Anchors : b # a => pc'[b] = pc[b]
    BY <1>0, <2>1
  <2> QED
    BY <2>1, <2>2, <2>3, <2>4 DEF Whole, Fresh, OneKey, Ours, Positive
<1>4. CASE EnsurePublic(a)
  <2>1. /\ pc[a] = "pub" /\ pub' = job[a].key /\ pc' = [pc EXCEPT ![a] = "sign"]
        /\ UNCHANGED <<job, priv, rekeyed, initer, signature, dsse>>
    BY <1>4 DEF EnsurePublic, Goto, files
  <2>2. pc'[a] = "sign" /\ \A b \in Anchors : b # a => pc'[b] = pc[b]
    BY <1>0, <2>1
  <2> QED
    BY <2>1, <2>2 DEF Whole, Fresh, OneKey, Ours
<1>5. CASE Dies(a)
  <2>1. /\ pc' = [pc EXCEPT ![a] = "idle"] /\ job' = [job EXCEPT ![a] = NoJob]
        /\ UNCHANGED <<priv, pub, rekeyed, initer, signature, dsse>>
    BY <1>5 DEF Dies, Goto, files
  <2> QED
    BY <1>0, <2>1, WholeFrame
<1> QED
  BY <1>1, <1>2, <1>3, <1>4, <1>5

\* What is signed is signed with the one key.
LEMMA SigningKeepsWhole ==
    ASSUME Whole, Books,
           \/ \E p \in Paths : Sign(p)
           \/ \E a \in Anchors : SignStatement(a) \/ WriteEnvelope(a)
    PROVE  Whole'
<1>1. ASSUME NEW p \in Paths, Sign(p) PROVE Whole'
  <2>1. PICK sig : /\ sig = [key |-> priv, over |-> receipts[p]] \/ sig = Torn
                   /\ signature' = [signature EXCEPT ![p] = sig]
    BY <1>1 DEF Sign
  <2>2. /\ priv > 0 /\ (sig # Torn => sig.key = priv)
        /\ UNCHANGED <<priv, pub, rekeyed, initer, dsse, pc, job>>
    BY <1>1, <2>1 DEF Sign, keys
  <2>3. \A q \in Paths : signature'[q] \in {sig, signature[q]}
    BY <2>1 DEF Books, FilesHold
  <2>4. Fresh'
    BY <2>2 DEF Whole, Fresh
  <2>5. ASSUME OneKey PROVE OneKey'
    BY <2>2, <2>3, <2>5 DEF OneKey, Ours
  <2> QED
    BY <2>2, <2>4, <2>5 DEF Whole
<1>2. ASSUME NEW a \in Anchors, SignStatement(a) PROVE Whole'
  <2>1. PICK e : e = Envelope(a)
    OBVIOUS
  <2>2. PICK path : path = job[a].path
    OBVIOUS
  <2>3. /\ pc[a] = "sign" /\ e.key = job[a].key /\ dsse' = [dsse EXCEPT ![path] = Torn]
        /\ pc' = [pc EXCEPT ![a] = "write"]
        /\ UNCHANGED <<priv, pub, rekeyed, initer, signature>>
    BY <1>2, <2>1, <2>2 DEF SignStatement, Envelope, Goto, keys
  <2>4. \A q \in Paths : dsse'[q] \in {Torn, dsse[q]}
    BY <2>3 DEF Books, FilesHold
  <2>5. job' = [job EXCEPT ![a] = [path |-> path, envelope |-> e]]
    BY <1>2, <2>1, <2>2 DEF SignStatement, Books, AnchorsHold
  <2>6. /\ pc'[a] = "write" /\ job'[a].envelope = e
        /\ \A b \in Anchors : b # a => pc'[b] = pc[b] /\ job'[b] = job[b]
    BY <2>3, <2>5 DEF Books, AnchorsHold
  <2>7. Fresh'
    BY <2>3, <2>6 DEF Whole, Fresh
  <2>8. ASSUME OneKey PROVE OneKey'
    <3>1. Ours(e.key)
      BY <2>3, <2>8 DEF OneKey
    <3> QED
      BY <2>3, <2>4, <2>6, <2>8, <3>1 DEF OneKey, Ours
  <2> QED
    BY <2>3, <2>7, <2>8 DEF Whole
<1>3. ASSUME NEW a \in Anchors, WriteEnvelope(a) PROVE Whole'
  <2>1. PICK path : path = job[a].path
    OBVIOUS
  <2>2. PICK e : (e = job[a].envelope \/ e = Torn) /\ dsse' = [dsse EXCEPT ![path] = e]
    BY <1>3, <2>1 DEF WriteEnvelope, AfterWrite
  <2>3. /\ pc[a] = "write" /\ pc' = [pc EXCEPT ![a] = "upload"]
        /\ UNCHANGED <<priv, pub, rekeyed, initer, signature, job>>
    BY <1>3 DEF WriteEnvelope, Goto, keys
  <2>4. \A q \in Paths : dsse'[q] \in {e, dsse[q]}
    BY <2>2 DEF Books, FilesHold
  <2>5. pc'[a] = "upload" /\ \A b \in Anchors : b # a => pc'[b] = pc[b]
    BY <2>3 DEF Books, AnchorsHold
  <2>6. Fresh'
    BY <2>3, <2>5 DEF Whole, Fresh
  <2>7. ASSUME OneKey PROVE OneKey'
    <3>1. e # Torn => Ours(e.key)
      BY <2>2, <2>3, <2>7 DEF OneKey
    <3> QED
      BY <2>3, <2>4, <2>5, <2>7, <3>1 DEF OneKey, Ours
  <2> QED
    BY <2>3, <2>6, <2>7 DEF Whole
<1> QED
  BY <1>1, <1>2, <1>3

\* Every step keeps the one key.
LEMMA StepKeepsWhole ==
    ASSUME Whole, KeyInv, Books, [Next]_vars
    PROVE  Whole'
<1>1. CASE InitLooks \/ InitPrivate \/ InitPublic \/ InitDies \/ RemoveKeys
  BY <1>1, OthersKeepWhole
<1>2. CASE \/ Done \/ Reissue \/ EditPack \/ WorkGoesOn
           \/ \E redact \in BOOLEAN : AuditPack(redact)
  BY <1>2, WholeFrame DEF Done, Reissue, EditPack, WorkGoesOn, AuditPack, keys, files
<1>3. ASSUME NEW p \in Paths,
             \/ EditReceipt(p)
             \/ \E dir \in {"fresh", "again"}, redact \in BOOLEAN : ProofBundle(p, dir, redact)
      PROVE  Whole'
  BY <1>3, WholeFrame DEF EditReceipt, ProofBundle, keys, files
<1>4. ASSUME NEW r \in Reviewers, Reviewing(r) PROVE Whole'
  BY <1>4, WholeFrame
     DEF Reviewing, ReviewStarts, ReviewOpens, ReviewWrites, ReviewDies, keys, files
<1>5. ASSUME NEW p \in Paths, Sign(p) PROVE Whole'
  BY <1>5, SigningKeepsWhole
<1>6. ASSUME NEW a \in Anchors,
             \/ EnsureKept(a) \/ EnsureMinted(a) \/ EnsurePrivate(a) \/ EnsurePublic(a)
             \/ Dies(a)
      PROVE  Whole'
  BY <1>6, AnchorsKeepWhole
<1>7. ASSUME NEW a \in Anchors, SignStatement(a) \/ WriteEnvelope(a) PROVE Whole'
  BY <1>7, SigningKeepsWhole
<1>8. ASSUME NEW a \in Anchors,
             \/ \E p \in Paths : Start(a, p)
             \/ LockThrows(a) \/ Upload(a) \/ Answered(a)
      PROVE  Whole'
  <2>1. /\ UNCHANGED <<keys, initer, signature, dsse>>
        /\ \E l \in {"keys", "idle", "answer"} : pc' = [pc EXCEPT ![a] = l]
        /\ \A b \in Anchors : b # a => job'[b] = job[b]
    <3>1. CASE Upload(a)
      BY <3>1, UploadMoves DEF files, Books, AnchorsHold
    <3>2. CASE (\E p \in Paths : Start(a, p)) \/ LockThrows(a) \/ Answered(a)
      BY <3>2 DEF Start, LockThrows, Answered, Goto, files, Books, AnchorsHold
    <3> QED
      BY <1>8, <3>1, <3>2
  <2>2. \A b \in Anchors : pc'[b] \in {"priv", "pub", "sign", "write"}
                              => pc'[b] = pc[b] /\ job'[b] = job[b]
    BY <2>1 DEF Books, AnchorsHold
  <2> QED
    BY <2>1, <2>2, WholeFrame DEF keys
<1>9. CASE UNCHANGED vars
  BY <1>9, WholeFrame DEF vars, keys, files
<1> QED
  BY <1>1, <1>2, <1>3, <1>4, <1>5, <1>6, <1>7, <1>8, <1>9 DEF Next, Reviewing

\* A bundle that should verify holds the receipt of now, with its own seal,
\* and a statement signed with the one key.
LEMMA PlainBundle ==
    ASSUME Whole, Books, NEW p \in Paths, NEW dir \in {"fresh", "again"},
           NEW redact \in BOOLEAN, ProofBundle(p, dir, redact), bundle'.plain = "yes",
           bundle'.dsse # Torn
    PROVE  VerifyProof(bundle')
<1>1. /\ p \in Stored /\ dir = "fresh" /\ p \notin altered /\ rekeyed = "no"
      /\ redact => receipts[p].facts \notin Secret
  BY DEF ProofBundle
<1>2. bundle'.receipt = receipts[p]
  BY <1>1 DEF ProofBundle, Redact
<1>3. bundle'.dsse = dsse[p] /\ bundle'.pub = pub
  BY <1>1 DEF ProofBundle
<1>4. /\ receipts[p].seal = ReceiptHash(receipts[p])
      /\ dsse[p] \notin {Null, Torn} => dsse[p].subject = receipts[p].seal
  BY <1>1 DEF Books, Intact
<1>5. /\ priv \in Nat /\ pub \in {0, priv}
      /\ dsse[p] \notin {Null, Torn} => dsse[p].key = priv
  BY <1>1 DEF Whole, OneKey, Ours
<1>6. dsse[p] \notin {Null, Torn} /\ pub # 0 => dsse[p].key = pub /\ pub # Damaged
  BY <1>5 DEF Damaged
<1> QED
  BY <1>2, <1>3, <1>4, <1>6 DEF VerifyProof, ReceiptHashOk, Signed, SignatureOk, SubjectOk

\* What was handed on goes on to verify, and what is handed on does.
LEMMA StepKeepsHandedOn ==
    ASSUME HandedOn, Whole, Books, [Next]_vars
    PROVE  HandedOn'
<1>1. ASSUME UNCHANGED handed PROVE HandedOn'
  <2>1. bundle' = bundle /\ pack' = pack
    BY <1>1 DEF handed
  <2> QED
    BY <2>1 DEF HandedOn, VerifyProof, ReceiptHashOk, Signed, SignatureOk, SubjectOk, ReceiptHash
<1>2. ASSUME NEW p \in Paths, NEW dir \in {"fresh", "again"}, NEW redact \in BOOLEAN,
             ProofBundle(p, dir, redact)
      PROVE  HandedOn'
  <2>1. pack' = pack
    BY <1>2 DEF ProofBundle
  <2>2. bundle'.plain = "yes" /\ bundle'.dsse # Torn => VerifyProof(bundle')
    BY <1>2, PlainBundle
  <2> QED
    BY <2>1, <2>2
       DEF HandedOn, VerifyProof, ReceiptHashOk, Signed, SignatureOk, SubjectOk, ReceiptHash
<1>3. ASSUME NEW redact \in BOOLEAN, AuditPack(redact) PROVE HandedOn'
  <2>1. PICK r : r = BuildReceipt(0)
    OBVIOUS
  <2>2. r.seal = ReceiptHash(r) /\ r.facts = work
    BY <2>1 DEF BuildReceipt, ReceiptHash
  <2>3. /\ bundle' = bundle /\ pack'.manifest = r.seal
        /\ pack'.receipt = IF redact THEN Redact(r) ELSE r
        /\ "plain" \in DOMAIN pack'
        /\ pack'.plain = "yes" => (redact => work \notin Secret)
    BY <1>3, <2>1 DEF AuditPack
  <2>4. pack'.plain = "yes" => pack'.receipt = r
    BY <2>2, <2>3 DEF Redact
  <2> QED
    BY <2>2, <2>3, <2>4
       DEF HandedOn, VerifyProof, ReceiptHashOk, Signed, SignatureOk, SubjectOk, ReceiptHash
<1>4. CASE EditPack
  <2>1. bundle' = bundle /\ \E r : pack' = [pack EXCEPT !.receipt = r, !.plain = "no"]
    BY <1>4 DEF EditPack
  <2>2. "plain" \in DOMAIN pack
    BY <1>4 DEF EditPack, HandedOn
  <2>3. "plain" \in DOMAIN pack' /\ pack'.plain # "yes"
    BY <2>1, <2>2
  <2> QED
    BY <2>1, <2>3
       DEF HandedOn, VerifyProof, ReceiptHashOk, Signed, SignatureOk, SubjectOk, ReceiptHash
<1>5. CASE \/ Done \/ Reissue \/ InitLooks \/ InitPrivate \/ InitPublic \/ InitDies
           \/ RemoveKeys \/ WorkGoesOn
  BY <1>1, <1>5 DEF Done, Reissue, InitLooks, InitPrivate, InitPublic, InitDies, RemoveKeys,
                    WorkGoesOn
<1>6. ASSUME NEW p \in Paths, Sign(p) \/ EditReceipt(p)
      PROVE  HandedOn'
  BY <1>1, <1>6 DEF Sign, EditReceipt
<1>7. ASSUME NEW r \in Reviewers, Reviewing(r)
      PROVE  HandedOn'
  BY <1>1, <1>7 DEF Reviewing, ReviewStarts, ReviewOpens, ReviewWrites, ReviewDies
<1>8. ASSUME NEW a \in Anchors,
             \/ Prepares(a)
             \/ SignStatement(a) \/ WriteEnvelope(a) \/ Upload(a) \/ Answered(a)
      PROVE  HandedOn'
  <2>1. CASE Upload(a)
    BY <1>1, <2>1 DEF Upload
  <2>2. CASE Prepares(a) \/ SignStatement(a) \/ WriteEnvelope(a) \/ Answered(a)
    BY <1>1, <2>2
       DEF Prepares, Start, EnsureKept, EnsureMinted, EnsurePrivate, EnsurePublic, LockThrows,
           SignStatement, WriteEnvelope, Answered, Dies
  <2> QED
    BY <1>8, <2>1, <2>2
<1>9. CASE UNCHANGED vars
  BY <1>1, <1>9 DEF vars
<1> QED
  BY <1>2, <1>3, <1>4, <1>5, <1>6, <1>7, <1>8, <1>9 DEF Next, Reviewing, Prepares

\* What nobody altered verifies (verifyproof.ts, keys.ts, auditpack.ts, replay.ts):
\* for any number of anchors that share the key, whenever one of them or keys
\* init dies, no bundle, signature or pack gives a false alarm, but for a bundle
\* that was made while, or after, the write of an envelope stood half done.
THEOREM NoAlarm == Spec => []NoFalseAlarm
<1> DEFINE Inv == KeyInv /\ Books /\ Whole /\ HandedOn
<1>1. Init => Inv
  <2> SUFFICES ASSUME Init PROVE Inv
    OBVIOUS
  <2>1. KeyInv
    BY DEF Init, KeyInv, InitShape, Alone, Looked
  <2>2. Whole
    BY DEF Init, Whole, Fresh, OneKey
  <2>3. HandedOn
    BY DEF Init, HandedOn
  <2> QED
    BY <2>1, <2>2, <2>3, BooksBegin
<1>2. Inv /\ [Next]_vars => Inv'
  BY StepKeepsKeyInv, StepKeepsBooks, StepKeepsWhole, StepKeepsHandedOn
<1>3. Inv => NoFalseAlarm
  <2> SUFFICES ASSUME Inv PROVE NoFalseAlarm
    OBVIOUS
  <2>1. ASSUME NEW p \in Stored \ altered, rekeyed = "no" PROVE VerifySignature(p) # 1
    <3> SUFFICES ASSUME signature[p] \notin {Null, Torn}, pub \notin {0, Damaged}
                 PROVE  signature[p] = [key |-> pub, over |-> receipts[p]]
      BY DEF VerifySignature
    <3>1. p \in Paths
      BY DEF Stored
    <3>2. signature[p].key = pub
      BY <2>1, <3>1 DEF Whole, OneKey, Ours
    <3> QED
      BY <3>2 DEF Books, Intact
  <2>2. HandedOn
    OBVIOUS
  <2> QED
    BY <2>1, <2>2 DEF HandedOn, NoFalseAlarm, Replay
<1> QED
  BY <1>1, <1>2, <1>3, PTL DEF Spec
=============================================================================
