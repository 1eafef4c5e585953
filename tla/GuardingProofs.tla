--------------------------- MODULE GuardingProofs ---------------------------
(***************************************************************************)
(* Proofs about Guarding, for any set of slots, sessions, calls, rules and  *)
(* settings: what the hooks make of a call and of the log they find.  In    *)
(* order: records and settings, the calls under way, refusals, what was     *)
(* heard, loops, waste.                                                     *)
(***************************************************************************)
EXTENDS Guarding, SequenceTheorems, FiniteSetTheorems, WellFoundedInduction, TLAPS

YesNo == {"yes", "no"}

\* What a hook makes of a call, whoever calls.
OpsOf(c) == ClassifyEvent(IF c.tool = "Shell" THEN "Bash" ELSE c.tool, c.target)

\* The records of a call, before they are judged.
RecordOf(s, phase, c, o) ==
    [phase |-> phase, session |-> s, tool |-> c.tool,
     op |-> o.op, path |-> o.path, hash |-> o.hash, kind |-> o.kind, guard |-> None]
Fresh(s, phase, c) == [k \in DOMAIN OpsOf(c) |-> RecordOf(s, phase, c, OpsOf(c)[k])]

-----------------------------------------------------------------------------
(* The envelope                                                            *)

\* A command an editor is wired with tells the editor, by its name or by the
\* envelope.
LEMMA VendorIsEditor ==
  ASSUME NEW s \in Sessions, NEW phase, NEW cmd, cmd[3] \in {"auto", EditorOf[s]}
  PROVE  VendorOf(s, phase, cmd) = EditorOf[s]
<1> DEFINE p == PayloadOf[s]
           q == [f \in DOMAIN p |-> IF f = "event" THEN [case |-> p.event, phase |-> phase] ELSE p[f]]
<1>0. DOMAIN q = DOMAIN p
  OBVIOUS
<1>1. CASE cmd[3] = "auto"
  <2>1. VendorOf(s, phase, cmd) = InferHookVendor(q)
    BY <1>1 DEF VendorOf
  <2>2. CASE EditorOf[s] = "cursor" /\ Has(p, "cursor_version")
    <3>1. Has(q, "cursor_version")
      BY <1>0, <2>2 DEF Has
    <3> HIDE DEF q
    <3>2. InferHookVendor(q) = "cursor"
      BY <3>1 DEF InferHookVendor
    <3> QED
      BY <2>1, <2>2, <3>2
  <2>3. CASE /\ EditorOf[s] = "claude" /\ ~Has(p, "cursor_version") /\ ~Has(p, "conversation_id")
             /\ Has(p, "event") => p.event = "upper"
    <3>1. ~Has(q, "cursor_version") /\ ~Has(q, "conversation_id")
      BY <1>0, <2>3 DEF Has
    <3>2. Has(q, "event") => q.event.case = "upper"
      BY <1>0, <2>3 DEF Has
    <3> HIDE DEF q
    <3>3. ~(Has(q, "event") /\ q.event.case = "lower")
      BY <3>2
    <3>4. InferHookVendor(q) = "claude"
      BY <3>1, <3>3 DEF InferHookVendor
    <3> QED
      BY <2>1, <2>3, <3>4
  <2> QED
    BY <2>2, <2>3, EnvelopeAssumption
<1>2. CASE cmd[3] # "auto"
  BY <1>2 DEF VendorOf
<1> QED
  BY <1>1, <1>2

\* The session is the one that calls.
LEMMA SessionIsTold ==
  ASSUME NEW s \in Sessions
  PROVE  SessionOf(PayloadOf[s], EditorOf[s]) = s
<1> DEFINE p == PayloadOf[s]
<1>1. CASE /\ EditorOf[s] = "cursor" /\ ~Has(p, "sessionId") /\ Has(p, "conversation_id")
           /\ p.conversation_id = s
  BY <1>1 DEF SessionOf
<1>2. CASE EditorOf[s] = "claude" /\ Has(p, "session_id") /\ p.session_id = s
  BY <1>2 DEF SessionOf
<1> QED
  BY <1>1, <1>2, EnvelopeAssumption

LEMMA RecsAreFresh ==
  ASSUME NEW u \in Uses, NEW phase, NEW cmd, cmd[3] \in {"auto", EditorOf[u[1]]}
  PROVE  Recs(u[1], phase, cmd, u[2]) = Fresh(u[1], phase, u[2])
<1> DEFINE s == u[1]
           c == u[2]
           e == EditorOf[s]
<1>1. s \in Sessions /\ (c.tool = "Shell" => e = "cursor")
  BY CallAssumption
<1>2. VendorOf(s, phase, cmd) = e /\ SessionOf(PayloadOf[s], e) = s
  BY <1>1, VendorIsEditor, SessionIsTold
<1>3. e \in {"claude", "cursor"}
  BY <1>1, EnvelopeAssumption
<1>4. ToolOf(c.tool, e) = IF c.tool = "Shell" THEN "Bash" ELSE c.tool
  BY <1>1, <1>3 DEF ToolOf
<1>5. ClassifyEvent(ToolOf(c.tool, e), c.target) = OpsOf(c)
  BY <1>4 DEF OpsOf
<1>6. Recs(s, phase, cmd, c) = [k \in DOMAIN OpsOf(c) |->
            [phase |-> phase, session |-> s, tool |-> c.tool,
             op |-> OpsOf(c)[k].op, path |-> OpsOf(c)[k].path, hash |-> OpsOf(c)[k].hash,
             kind |-> OpsOf(c)[k].kind, guard |-> None]]
  BY <1>2, <1>5 DEF Recs
<1> QED
  BY <1>6 DEF Fresh, RecordOf

-----------------------------------------------------------------------------
(* What a call comes to                                                    *)

\* Whether a call is a command that is kept, as a fingerprint.
Plain(c) == c.tool \in Shells /\ ~c.target.net /\ c.target.dels = <<>>
Deletes(c) == c.tool \in Shells /\ ~c.target.net /\ c.target.dels # <<>>
Online(c) == c.tool \in {"WebFetch", "WebSearch"} \/ (c.tool \in Shells /\ c.target.net)
Dull(c) == c.tool \notin Readers \cup Writers \cup Shells \cup {"WebFetch", "WebSearch"}

LEMMA OpsAre ==
  ASSUME NEW c
  PROVE  /\ c.tool \in Readers => OpsOf(c) = <<Op("read", c.target, Null, Null)>>
         /\ c.tool \in Writers => OpsOf(c) = <<Op("write", c.target, Null, Null)>>
         /\ Online(c) => OpsOf(c) = <<Op("network", Null, Null, Null)>>
         /\ Plain(c) => OpsOf(c) = <<Op("command", Null, c.target.id, c.target.kind)>>
         /\ Deletes(c) => OpsOf(c) = [i \in DOMAIN c.target.dels |-> Op("delete", c.target.dels[i], Null, Null)]
         /\ Dull(c) => OpsOf(c) = <<>> \/ OpsOf(c) = <<Op("command", Null, Null, Null)>>
<1> DEFINE t == IF c.tool = "Shell" THEN "Bash" ELSE c.tool
<1>0. OpsOf(c) = ClassifyEvent(t, c.target)
  BY DEF OpsOf
<1>1. ASSUME c.tool \in Readers PROVE OpsOf(c) = <<Op("read", c.target, Null, Null)>>
  <2>1. t \in Readers /\ t \notin Writers
    BY <1>1 DEF Readers, Writers
  <2> QED
    BY <1>0, <2>1 DEF ClassifyEvent, Readers, Writers
<1>2. ASSUME c.tool \in Writers PROVE OpsOf(c) = <<Op("write", c.target, Null, Null)>>
  BY <1>0, <1>2 DEF ClassifyEvent, Readers, Writers
<1>3. ASSUME Online(c) PROVE OpsOf(c) = <<Op("network", Null, Null, Null)>>
  BY <1>0, <1>3 DEF ClassifyEvent, Readers, Writers, Online, Shells
<1>4. ASSUME Plain(c) PROVE OpsOf(c) = <<Op("command", Null, c.target.id, c.target.kind)>>
  BY <1>0, <1>4 DEF ClassifyEvent, Readers, Writers, Plain, Shells
<1>5. ASSUME Deletes(c)
      PROVE  OpsOf(c) = [i \in DOMAIN c.target.dels |-> Op("delete", c.target.dels[i], Null, Null)]
  BY <1>0, <1>5 DEF ClassifyEvent, Readers, Writers, Deletes, Shells
<1>6. ASSUME Dull(c) PROVE OpsOf(c) = <<>> \/ OpsOf(c) = <<Op("command", Null, Null, Null)>>
  BY <1>0, <1>6 DEF ClassifyEvent, Readers, Writers, Dull, Shells
<1> QED
  BY <1>1, <1>2, <1>3, <1>4, <1>5, <1>6

-----------------------------------------------------------------------------
(* Numbers of a finite set                                                 *)

LEMMA LeastNatural ==
  ASSUME NEW T \in SUBSET Nat, T # {}
  PROVE  \E x \in T : \A y \in T : x <= y
<1> DEFINE R == {s \in Nat \X Nat : s[1] < s[2]}
<1>1. IsWellFoundedOn(R, Nat)
  BY NatLessThanWellFounded, Zenon DEF OpToRel
<1>2. \E x \in T : \A y \in T : ~(<<y, x>> \in R)
  <2> HIDE DEF R
  <2> QED
    BY <1>1, WFMin
<1>3. PICK x \in T : \A y \in T : ~(<<y, x>> \in R)
  BY <1>2
<1>4. ASSUME NEW y \in T PROVE x <= y
  <2>1. x \in Nat /\ y \in Nat /\ ~(<<y, x>> \in R)
    BY <1>3
  <2> QED
    BY <2>1
<1> QED
  BY <1>4

\* How many of a finite set of numbers are no greater than one of them tells
\* that one.
Rank(list, r) == Cardinality({q \in list : q <= r})

LEMMA RankIsOnes ==
  ASSUME NEW list \in SUBSET Nat, IsFiniteSet(list), NEW r \in list, NEW t \in list,
         Rank(list, r) = Rank(list, t)
  PROVE  r = t
<1>1. \A x, y \in list : x < y => Rank(list, x) # Rank(list, y)
  <2> SUFFICES ASSUME NEW x \in list, NEW y \in list, x < y, Rank(list, x) = Rank(list, y)
               PROVE  FALSE
    OBVIOUS
  <2> DEFINE X == {q \in list : q <= x}
             Y == {q \in list : q <= y}
  <2>1. x \in Nat /\ y \in Nat /\ \A q \in list : q \in Nat
    OBVIOUS
  <2>2. \A q \in list : q <= x => q <= y
    BY <2>1
  <2>3. X \subseteq Y
    BY <2>2
  <2>4. y \in Y /\ y \notin X
    BY <2>1
  <2>5. Y \subseteq list /\ Cardinality(X) = Cardinality(Y)
    BY DEF Rank
  <2> HIDE DEF X, Y
  <2>6. IsFiniteSet(Y)
    BY <2>5, FS_Subset
  <2> QED
    BY <2>3, <2>4, <2>5, <2>6, FS_Subset
<1>2. r < t \/ t < r \/ r = t
  OBVIOUS
<1> QED
  BY <1>1, <1>2

LEMMA RankIsAny ==
  ASSUME NEW list \in SUBSET Nat, IsFiniteSet(list)
  PROVE  /\ \A r \in list : Rank(list, r) \in 1 .. Cardinality(list)
         /\ \A k \in 1 .. Cardinality(list) : \E r \in list : Rank(list, r) = k
<1> DEFINE n == Cardinality(list)
           f == [r \in list |-> Rank(list, r)]
<1>1. n \in Nat
  BY FS_CardinalityType
<1>2. \A r \in list : Rank(list, r) \in 1 .. n
  <2> SUFFICES ASSUME NEW r \in list PROVE Rank(list, r) \in 1 .. n
    OBVIOUS
  <2> DEFINE B == {q \in list : q <= r}
  <2>1. B \in SUBSET list /\ r \in B /\ Rank(list, r) = Cardinality(B)
    BY DEF Rank
  <2> HIDE DEF B
  <2>2. Cardinality(B) \in Nat /\ Cardinality(B) <= n /\ Cardinality(B) # 0
    BY <2>1, FS_Subset, FS_CardinalityType, FS_EmptySet
  <2> QED
    BY <1>1, <2>1, <2>2
<1>3. f \in [list -> 1 .. n] /\ \A a, b \in list : f[a] = f[b] => a = b
  BY <1>2, RankIsOnes
<1>4. f \in Injection(list, 1 .. n)
  BY <1>3 DEF Injection, IsInjective
<1>5. IsFiniteSet(1 .. n) /\ Cardinality(1 .. n) = n
  BY <1>1, FS_Interval
<1>6. f \in Surjection(list, 1 .. n)
  <2> HIDE DEF f
  <2> QED
    BY <1>4, <1>5, FS_Injection
<1> QED
  BY <1>2, <1>6 DEF Surjection

-----------------------------------------------------------------------------
(* Sequences                                                               *)

LEMMA SeqShape ==
  ASSUME NEW S, NEW s \in Seq(S)
  PROVE  /\ Len(s) \in Nat /\ DOMAIN s = 1 .. Len(s)
         /\ \A k \in DOMAIN s : k \in Nat /\ s[k] \in S
<1>1. Len(s) \in Nat /\ DOMAIN s = 1 .. Len(s)
  BY LenProperties
<1>2. \A k \in 1 .. Len(s) : s[k] \in S
  BY ElementOfSeq
<1> QED
  BY <1>1, <1>2

LEMMA AppendShape ==
  ASSUME NEW S, NEW s \in Seq(S), NEW e \in S, NEW t, t = Append(s, e)
  PROVE  /\ t \in Seq(S) /\ Len(t) = Len(s) + 1 /\ DOMAIN t = 1 .. Len(s) + 1
         /\ \A k \in 1 .. Len(s) : t[k] = s[k]
         /\ t[Len(s) + 1] = e
<1>1. /\ Append(s, e) \in Seq(S) /\ Len(Append(s, e)) = Len(s) + 1
      /\ \A i \in 1 .. Len(s) : Append(s, e)[i] = s[i]
      /\ Append(s, e)[Len(s) + 1] = e
  BY AppendProperties
<1>2. t \in Seq(S) /\ Len(t) = Len(s) + 1
  BY <1>1
<1>3. DOMAIN t = 1 .. Len(t)
  BY <1>2, LenProperties
<1> QED
  BY <1>1, <1>2, <1>3

LEMMA ExceptShape ==
  ASSUME NEW S, NEW s \in Seq(S), NEW f \in DOMAIN s, NEW e \in S, NEW t, t = [s EXCEPT ![f] = e]
  PROVE  /\ t \in Seq(S) /\ DOMAIN t = DOMAIN s
         /\ \A k \in DOMAIN s : t[k] = IF k = f THEN e ELSE s[k]
<1>1. DOMAIN s = 1 .. Len(s)
  BY LenProperties
<1>2. f \in 1 .. Len(s)
  BY <1>1
<1>3. [s EXCEPT ![f] = e] \in Seq(S)
  BY <1>2, ExceptSeq
<1> QED
  BY <1>3

-----------------------------------------------------------------------------
(* Settings                                                                *)

HandCmds == UNION {h[2].cmds : h \in HandMade}
Cmds == HandCmds \cup ({"agent-receipt capture"} \X Events \X {"auto", "cursor"})
Masks == {MatcherOf[e] : e \in Editors} \cup {h[2].matcher : h \in HandMade} \cup {Null}
Entries == [cmds : SUBSET Cmds, matcher : Masks]

\* The commands of ours an editor may be wired with.
OursBy(v) == {Ours(ev, v) : ev \in Events}
OursOf(e) == OursBy("auto") \cup OursBy(e)
Suits(e, c) == IsOurs(c) => c \in OursOf(e)
Wired(e, s) ==
    /\ s \in [Events -> Seq(Entries)]
    /\ \A ev \in Events : \A k \in DOMAIN s[ev] : \A c \in s[ev][k].cmds : Suits(e, c)

OthersIn(entries) == {k \in DOMAIN entries : Foreign(entries[k])}

\* The hook of an event is there, with the matcher of this version.
HookIn(e, s, ev) ==
    \E k \in DOMAIN s[ev] : /\ \E c \in s[ev][k].cmds : IsOurs(c) /\ c[2] = ev
                            /\ s[ev][k].matcher = MatcherOf[e]

LEMMA OursIsOurs ==
  ASSUME NEW ev, NEW v
  PROVE  /\ IsOurs(Ours(ev, v)) /\ Ours(ev, v)[2] = ev /\ Ours(ev, v)[3] = v
BY DEF IsOurs, Ours

\* What an installer makes of the entries of one event, and what holds of it.
Merging(e, ev, v, es, out) ==
    LET mine == {i \in DOMAIN es : Ours(ev, v) \in es[i].cmds}
        first == CHOOSE i \in mine : \A j \in mine : i <= j
    IN  out = IF mine = {}
              THEN Append(es, [cmds |-> {Ours(ev, v)}, matcher |-> MatcherOf[e]])
              ELSE [es EXCEPT ![first].matcher = MatcherOf[e]]
Merged(e, ev, v, es, out) ==
    /\ out \in Seq(Entries)
    /\ \A k \in DOMAIN out : \A c \in out[k].cmds : Suits(e, c)
    /\ OthersIn(out) = OthersIn(es)
    /\ \E k \in DOMAIN out : Ours(ev, v) \in out[k].cmds /\ out[k].matcher = MatcherOf[e]

LEMMA MergeHolds ==
  ASSUME NEW e \in Editors, NEW ev \in Events, NEW v, v \in {"auto", "cursor"}, v = "auto" \/ v = e,
         NEW es \in Seq(Entries),
         \A k \in DOMAIN es : \A c \in es[k].cmds : Suits(e, c),
         NEW out, Merging(e, ev, v, es, out)
  PROVE  Merged(e, ev, v, es, out)
<1> DEFINE mine == {i \in DOMAIN es : Ours(ev, v) \in es[i].cmds}
           first == CHOOSE i \in mine : \A j \in mine : i <= j
           new == [cmds |-> {Ours(ev, v)}, matcher |-> MatcherOf[e]]
<1>1. Ours(ev, v) \in Cmds /\ MatcherOf[e] \in Masks
  <2>1. MatcherOf[e] \in Masks
    BY DEF Masks
  <2>2. Ours(ev, v) \in Cmds
    <3>1. ev \in Events /\ v \in {"auto", "cursor"}
      OBVIOUS
    <3> QED
      BY <3>1 DEF Cmds, Ours
  <2> QED
    BY <2>1, <2>2
<1>2. Suits(e, Ours(ev, v)) /\ IsOurs(Ours(ev, v))
  BY OursIsOurs DEF Suits, OursOf, OursBy
<1>3. /\ Len(es) \in Nat /\ DOMAIN es = 1 .. Len(es)
      /\ \A k \in DOMAIN es : es[k] \in Entries
  BY SeqShape
<1>4. CASE mine = {}
  <2>1. out = Append(es, new)
    BY <1>4 DEF Merging
  <2>2. new \in Entries
    BY <1>1 DEF Entries
  <2>3. PICK x : x = new
    OBVIOUS
  <2>4. x \in Entries /\ x.cmds = {Ours(ev, v)} /\ x.matcher = MatcherOf[e] /\ out = Append(es, x)
    BY <2>1, <2>2, <2>3
  <2> HIDE DEF new, mine, first
  <2>5. /\ out \in Seq(Entries) /\ Len(out) = Len(es) + 1 /\ DOMAIN out = 1 .. Len(es) + 1
        /\ \A k \in 1 .. Len(es) : out[k] = es[k]
        /\ out[Len(es) + 1] = x
    BY <2>4, AppendShape
  <2>6. Len(es) + 1 \in DOMAIN out /\ \A k \in DOMAIN out : k \in DOMAIN es \/ k = Len(es) + 1
    BY <2>5, <1>3
  <2>7. \A k \in DOMAIN out : \A c \in out[k].cmds : Suits(e, c)
    BY <2>4, <2>5, <2>6, <1>2, <1>3
  <2>8. ~Foreign(x)
    BY <2>4, <1>2 DEF Foreign
  <2>9. Len(es) + 1 \notin DOMAIN es /\ \A k \in DOMAIN es : k \in DOMAIN out
    BY <1>3, <2>5
  <2>10. OthersIn(out) = OthersIn(es)
    BY <2>5, <2>6, <2>8, <2>9, <1>3 DEF OthersIn
  <2> QED
    BY <2>4, <2>5, <2>6, <2>7, <2>10 DEF Merged
<1>5. CASE mine # {}
  <2>1. mine \in SUBSET Nat /\ mine \subseteq DOMAIN es
    BY <1>3
  <2>2. first \in mine
    <3>1. \E i \in mine : \A j \in mine : i <= j
      BY <2>1, <1>5, LeastNatural
    <3> QED
      BY <3>1
  <2>3. PICK f : f = first
    OBVIOUS
  <2>4. f \in DOMAIN es /\ Ours(ev, v) \in es[f].cmds /\ out = [es EXCEPT ![f].matcher = MatcherOf[e]]
    BY <1>5, <2>1, <2>2, <2>3 DEF Merging
  <2> HIDE DEF mine, first
  <2>5. PICK m : m = MatcherOf[e]
    OBVIOUS
  <2>6. es[f] \in Entries /\ m \in Masks
    BY <1>1, <1>3, <2>4, <2>5
  <2>7. PICK x : x = [es[f] EXCEPT !.matcher = m]
    OBVIOUS
  <2>8. x \in Entries /\ x.cmds = es[f].cmds /\ x.matcher = m
    BY <2>6, <2>7 DEF Entries
  <2>9. out = [es EXCEPT ![f] = x]
    BY <2>4, <2>5, <2>7
  <2>10. out \in Seq(Entries) /\ DOMAIN out = DOMAIN es
    <3>1. \A S : \A s \in Seq(S) : \A i \in DOMAIN s, y \in S :
             [s EXCEPT ![i] = y] \in Seq(S) /\ DOMAIN [s EXCEPT ![i] = y] = DOMAIN s
      BY ExceptShape
    <3>2. [es EXCEPT ![f] = x] \in Seq(Entries) /\ DOMAIN [es EXCEPT ![f] = x] = DOMAIN es
      BY <2>4, <2>8, <3>1
    <3> QED
      BY <2>9, <3>2
  <2>11. \A k \in DOMAIN es : out[k] = IF k = f THEN x ELSE es[k]
    BY <2>4, <2>9
  <2>12. \A k \in DOMAIN es : out[k].cmds = es[k].cmds
    BY <2>8, <2>11
  <2>13. OthersIn(out) = OthersIn(es)
    BY <2>10, <2>12 DEF OthersIn, Foreign
  <2>14. \A k \in DOMAIN out : \A c \in out[k].cmds : Suits(e, c)
    BY <2>10, <2>12
  <2>15. Ours(ev, v) \in out[f].cmds /\ out[f].matcher = MatcherOf[e]
    BY <2>4, <2>5, <2>8, <2>11, <2>12
  <2> QED
    BY <2>4, <2>10, <2>13, <2>14, <2>15 DEF Merged
<1> QED
  BY <1>4, <1>5

LEMMA WiredShape ==
  ASSUME NEW e, NEW s, Wired(e, s), NEW ev \in Events
  PROVE  /\ DOMAIN s = Events /\ s[ev] \in Seq(Entries)
         /\ \A k \in DOMAIN s[ev] : \A c \in s[ev][k].cmds : Suits(e, c)
BY DEF Wired

\* After mergeCaptureHooks or mergeCursorCaptureHooks.
LEMMA HooksMerged ==
  ASSUME NEW e \in Editors, NEW v, v = "auto" \/ (v = "cursor" /\ v = e), NEW s, Wired(e, s),
         NEW t, t = MergeHooks(s, Phases(e), v, MatcherOf[e])
  PROVE  /\ Wired(e, t)
         /\ OthersIn(t["pre"]) = OthersIn(s["pre"])
         /\ \A ev \in Phases(e) : HookIn(e, t, ev)
<1> DEFINE mine(ev) == {i \in DOMAIN s[ev] : Ours(ev, v) \in s[ev][i].cmds}
           first(ev) == CHOOSE i \in mine(ev) : \A j \in mine(ev) : i <= j
           merged(ev) == IF mine(ev) = {}
                         THEN Append(s[ev], [cmds |-> {Ours(ev, v)}, matcher |-> MatcherOf[e]])
                         ELSE [s[ev] EXCEPT ![first(ev)].matcher = MatcherOf[e]]
<1>1. DOMAIN s = Events /\ Phases(e) \subseteq Events /\ "pre" \in Phases(e)
  BY DEF Wired, Phases, Events
<1>2. t = [ev \in Events |-> IF ev \notin Phases(e) THEN s[ev] ELSE merged(ev)]
  BY <1>1 DEF MergeHooks
<1>3. ASSUME NEW ev \in Phases(e)
      PROVE  /\ t[ev] \in Seq(Entries)
             /\ \A k \in DOMAIN t[ev] : \A c \in t[ev][k].cmds : Suits(e, c)
             /\ OthersIn(t[ev]) = OthersIn(s[ev])
             /\ \E k \in DOMAIN t[ev] : /\ Ours(ev, v) \in t[ev][k].cmds
                                        /\ t[ev][k].matcher = MatcherOf[e]
  <2>1. ev \in Events /\ t[ev] = merged(ev)
    BY <1>1, <1>2
  <2>2. PICK es : es = s[ev]
    OBVIOUS
  <2>3. /\ es \in Seq(Entries) /\ \A k \in DOMAIN es : \A c \in es[k].cmds : Suits(e, c)
    BY <2>1, <2>2, WiredShape
  <2>4. PICK out : out = t[ev]
    OBVIOUS
  <2>5. Merging(e, ev, v, es, out)
    BY <2>1, <2>2, <2>4 DEF Merging
  <2>6. v \in {"auto", "cursor"} /\ (v = "auto" \/ v = e)
    OBVIOUS
  <2> HIDE DEF mine, first, merged
  <2>7. Merged(e, ev, v, es, out)
    BY <2>1, <2>3, <2>5, <2>6, MergeHolds
  <2> QED
    BY <2>2, <2>4, <2>7 DEF Merged
<1>4. ASSUME NEW ev \in Events, ev \notin Phases(e) PROVE t[ev] = s[ev]
  BY <1>2, <1>4
<1>5. DOMAIN t = Events
  BY <1>2
<1>6. t = [ev \in Events |-> t[ev]]
  BY <1>2
<1> HIDE DEF mine, first, merged
<1>7. \A ev \in Events : /\ t[ev] \in Seq(Entries)
                         /\ \A k \in DOMAIN t[ev] : \A c \in t[ev][k].cmds : Suits(e, c)
  BY <1>3, <1>4, WiredShape
<1>8. Wired(e, t)
  BY <1>6, <1>7 DEF Wired
<1>9. ASSUME NEW ev \in Phases(e) PROVE HookIn(e, t, ev)
  <2>1. PICK k \in DOMAIN t[ev] : Ours(ev, v) \in t[ev][k].cmds /\ t[ev][k].matcher = MatcherOf[e]
    BY <1>3
  <2>2. IsOurs(Ours(ev, v)) /\ Ours(ev, v)[2] = ev
    BY OursIsOurs
  <2> QED
    BY <2>1, <2>2 DEF HookIn
<1> QED
  BY <1>1, <1>3, <1>8, <1>9

\* After mergeCompletionHook.
LEMMA CompletionMerged ==
  ASSUME NEW e \in Editors, NEW s, Wired(e, s), NEW t, t = MergeCompletionHook(s)
  PROVE  Wired(e, t) /\ \A ev \in Events : ev # "stop" => t[ev] = s[ev]
<1> DEFINE x == [cmds |-> {Ours("stop", "auto")}, matcher |-> Null]
<1>1. CASE t = s
  BY <1>1
<1>2. CASE t = [s EXCEPT !["stop"] = Append(@, x)]
  <2>1. "stop" \in Events /\ s["stop"] \in Seq(Entries)
    BY WiredShape DEF Events
  <2>2. x \in Entries /\ \A c \in x.cmds : Suits(e, c)
    <3>1. Ours("stop", "auto") \in Cmds
      BY <2>1 DEF Cmds, Ours
    <3>2. Null \in Masks
      BY DEF Masks
    <3>3. Suits(e, Ours("stop", "auto"))
      BY <2>1 DEF Suits, OursOf, OursBy
    <3> QED
      BY <3>1, <3>2, <3>3 DEF Entries
  <2>3. PICK y : y = x
    OBVIOUS
  <2>4. PICK es : es = s["stop"]
    OBVIOUS
  <2>5. PICK out : out = Append(es, y)
    OBVIOUS
  <2>6. es \in Seq(Entries) /\ y \in Entries /\ \A c \in y.cmds : Suits(e, c)
    BY <2>1, <2>2, <2>3, <2>4
  <2>7. t = [s EXCEPT !["stop"] = out]
    BY <1>2, <2>3, <2>4, <2>5
  <2> HIDE DEF x
  <2>8. /\ out \in Seq(Entries) /\ DOMAIN out = 1 .. Len(es) + 1
        /\ \A k \in 1 .. Len(es) : out[k] = es[k]
        /\ out[Len(es) + 1] = y
    BY <2>5, <2>6, AppendShape
  <2>9. Len(es) \in Nat /\ DOMAIN es = 1 .. Len(es) /\ \A k \in DOMAIN es : \A c \in es[k].cmds : Suits(e, c)
    BY <2>1, <2>4, <2>6, SeqShape, WiredShape
  <2>10. \A k \in DOMAIN out : \A c \in out[k].cmds : Suits(e, c)
    BY <2>6, <2>8, <2>9
  <2>11. DOMAIN s = Events
    BY DEF Wired
  <2>12. t["stop"] = out /\ \A ev \in Events : ev # "stop" => t[ev] = s[ev]
    BY <2>1, <2>7, <2>11
  <2>13. t \in [Events -> Seq(Entries)]
    BY <2>7, <2>8 DEF Wired
  <2>14. \A ev \in Events : \A k \in DOMAIN t[ev] : \A c \in t[ev][k].cmds : Suits(e, c)
    BY <2>10, <2>12 DEF Wired
  <2> QED
    BY <2>12, <2>13, <2>14 DEF Wired
<1> QED
  BY <1>1, <1>2 DEF MergeCompletionHook

\* After capture install or install-cursor.
LEMMA InstallHolds ==
  ASSUME NEW e \in Editors, NEW s, Wired(e, s), NEW t, t = InstalledIn(e, s)
  PROVE  /\ Wired(e, t)
         /\ OthersIn(t["pre"]) = OthersIn(s["pre"])
         /\ \A ev \in Phases(e) : HookIn(e, t, ev)
<1>1. CASE e = "cursor"
  <2>1. t = MergeHooks(s, Phases(e), "cursor", MatcherOf[e])
    BY <1>1 DEF InstalledIn
  <2> QED
    BY <1>1, <2>1, HooksMerged
<1>2. CASE e # "cursor"
  <2>1. PICK m : m = MergeHooks(s, Phases(e), "auto", MatcherOf[e])
    OBVIOUS
  <2>2. t = MergeCompletionHook(m)
    BY <1>2, <2>1 DEF InstalledIn
  <2>3. /\ Wired(e, m) /\ OthersIn(m["pre"]) = OthersIn(s["pre"])
        /\ \A ev \in Phases(e) : HookIn(e, m, ev)
    BY <2>1, HooksMerged
  <2>4. Wired(e, t) /\ \A ev \in Events : ev # "stop" => t[ev] = m[ev]
    BY <2>2, <2>3, CompletionMerged
  <2>5. \A ev \in Phases(e) : ev \in Events /\ ev # "stop"
    BY DEF Phases, Events
  <2>6. t["pre"] = m["pre"]
    BY <2>4 DEF Events
  <2>7. \A ev \in Phases(e) : HookIn(e, t, ev)
    BY <2>3, <2>4, <2>5 DEF HookIn
  <2> QED
    BY <2>3, <2>4, <2>6, <2>7
<1> QED
  BY <1>1, <1>2

-----------------------------------------------------------------------------
(* Taking hooks out                                                        *)

LEMMA OthersHold ==
  ASSUME NEW e, NEW es \in Seq(Entries), NEW out, out = Others(es),
         \A k \in DOMAIN es : \A c \in es[k].cmds : Suits(e, c)
  PROVE  /\ out \in Seq(Entries)
         /\ \A k \in DOMAIN out : \A c \in out[k].cmds : Suits(e, c)
         /\ \A k \in DOMAIN out : Foreign(out[k])
         /\ Cardinality(OthersIn(out)) = Cardinality(OthersIn(es))
<1> DEFINE stay == OthersIn(es)
           nth(n) == CHOOSE k \in stay : Cardinality({j \in stay : j <= k}) = n
           N == Cardinality(stay)
<1>1. Len(es) \in Nat /\ DOMAIN es = 1 .. Len(es) /\ \A k \in DOMAIN es : k \in Nat /\ es[k] \in Entries
  BY SeqShape
<1>2. stay \in SUBSET Nat /\ stay \subseteq 1 .. Len(es)
  BY <1>1 DEF OthersIn
<1>3. IsFiniteSet(stay) /\ N \in Nat
  <2>1. IsFiniteSet(1 .. Len(es))
    BY <1>1, FS_Interval
  <2> HIDE DEF stay
  <2> QED
    BY <1>2, <2>1, FS_Subset, FS_CardinalityType
<1>4. \A n \in 1 .. N : \E k \in stay : Rank(stay, k) = n
  <2> HIDE DEF stay
  <2> QED
    BY <1>2, <1>3, RankIsAny
<1>5. \A n \in 1 .. N : nth(n) \in stay
  BY <1>4 DEF Rank
<1>6. out = [n \in 1 .. N |-> es[nth(n)]]
  BY DEF Others, OthersIn
<1> HIDE DEF nth
<1>7. \A n \in 1 .. N : /\ out[n] \in Entries /\ Foreign(out[n])
                        /\ \A c \in out[n].cmds : Suits(e, c)
  BY <1>1, <1>5, <1>6 DEF OthersIn
<1>8. DOMAIN out = 1 .. N
  BY <1>6
<1>9. out \in Seq(Entries)
  <2>1. out \in [1 .. N -> Entries]
    BY <1>6, <1>7, <1>8
  <2> HIDE DEF N
  <2> QED
    BY <1>3, <2>1, SeqDef
<1>10. OthersIn(out) = 1 .. N
  BY <1>7, <1>8 DEF OthersIn
<1>11. Cardinality(1 .. N) = N
  <2> HIDE DEF N
  <2>1. Cardinality(1 .. N) = IF 1 > N THEN 0 ELSE N - 1 + 1
    BY <1>3, FS_Interval
  <2> QED
    BY <1>3, <2>1
<1> QED
  BY <1>7, <1>8, <1>9, <1>10, <1>11

LEMMA RemoveHolds ==
  ASSUME NEW e, NEW s, Wired(e, s), NEW t, t = RemoveHooks(s)
  PROVE  /\ Wired(e, t)
         /\ Cardinality(OthersIn(t["pre"])) = Cardinality(OthersIn(s["pre"]))
         /\ \A ev \in Events : \A k \in DOMAIN t[ev] : Foreign(t[ev][k])
<1>1. DOMAIN s = Events /\ "pre" \in Events
  BY DEF Wired, Events
<1>2. t = [ev \in Events |-> Others(s[ev])]
  BY <1>1 DEF RemoveHooks
<1>3. ASSUME NEW ev \in Events
      PROVE  /\ t[ev] \in Seq(Entries)
             /\ \A k \in DOMAIN t[ev] : \A c \in t[ev][k].cmds : Suits(e, c)
             /\ \A k \in DOMAIN t[ev] : Foreign(t[ev][k])
             /\ Cardinality(OthersIn(t[ev])) = Cardinality(OthersIn(s[ev]))
  <2>1. PICK es : es = s[ev]
    OBVIOUS
  <2>2. PICK out : out = t[ev]
    OBVIOUS
  <2>3. out = Others(es) /\ es \in Seq(Entries) /\ \A k \in DOMAIN es : \A c \in es[k].cmds : Suits(e, c)
    BY <1>2, <2>1, <2>2, WiredShape
  <2>4. /\ out \in Seq(Entries)
        /\ \A k \in DOMAIN out : \A c \in out[k].cmds : Suits(e, c)
        /\ \A k \in DOMAIN out : Foreign(out[k])
        /\ Cardinality(OthersIn(out)) = Cardinality(OthersIn(es))
    BY <2>3, OthersHold
  <2> QED
    BY <2>1, <2>2, <2>4
<1>4. t \in [Events -> Seq(Entries)]
  BY <1>2, <1>3
<1> QED
  BY <1>1, <1>3, <1>4 DEF Wired

-----------------------------------------------------------------------------
(* The wiring                                                              *)

\* What is true of the settings of an editor.
Settled(e, s, w, n) ==
    /\ Wired(e, s)
    /\ w = "installed" => \A ev \in Phases(e) : HookIn(e, s, ev)
    /\ w = "removed" => \A ev \in Events : \A k \in DOMAIN s[ev] : Foreign(s[ev][k])
    /\ n \in Nat /\ Cardinality(OthersIn(s["pre"])) = n

WiringInv ==
    /\ settings = [e \in Editors |-> settings[e]] /\ wired = [e \in Editors |-> wired[e]]
    /\ foreign = [e \in Editors |-> foreign[e]]
    /\ \A e \in Editors : Settled(e, settings[e], wired[e], foreign[e])

\* One editor's settings change at a time.
LEMMA SettledAgain ==
  ASSUME WiringInv, NEW e \in Editors, NEW t, NEW w, NEW n, Settled(e, t, w, n),
         settings' = [settings EXCEPT ![e] = t], wired' = [wired EXCEPT ![e] = w],
         foreign' = [foreign EXCEPT ![e] = n]
  PROVE  WiringInv'
<1>1. /\ settings' = [d \in Editors |-> settings'[d]] /\ wired' = [d \in Editors |-> wired'[d]]
      /\ foreign' = [d \in Editors |-> foreign'[d]]
      /\ settings'[e] = t /\ wired'[e] = w /\ foreign'[e] = n
  BY DEF WiringInv
<1>2. \A d \in Editors : d # e => settings'[d] = settings[d] /\ wired'[d] = wired[d] /\ foreign'[d] = foreign[d]
  BY DEF WiringInv
<1>3. ASSUME NEW d \in Editors PROVE Settled(d, settings'[d], wired'[d], foreign'[d])
  <2>1. Settled(d, settings[d], wired[d], foreign[d])
    BY DEF WiringInv
  <2> QED
    BY <1>1, <1>2, <2>1
<1> QED
  BY <1>1, <1>3 DEF WiringInv

LEMMA InstallKeeps ==
  ASSUME WiringInv, NEW e \in Editors, Installs(e)
  PROVE  WiringInv'
<1>1. PICK s : s = settings[e]
  OBVIOUS
<1>2. PICK t : t = InstalledIn(e, s)
  OBVIOUS
<1>3. PICK n : n = foreign[e]
  OBVIOUS
<1>4. /\ settings' = [settings EXCEPT ![e] = t] /\ wired' = [wired EXCEPT ![e] = "installed"]
      /\ foreign' = foreign
  BY <1>1, <1>2 DEF Installs
<1>5. Settled(e, s, wired[e], n)
  BY <1>1, <1>3 DEF WiringInv
<1>6. Wired(e, s) /\ n \in Nat /\ Cardinality(OthersIn(s["pre"])) = n
  BY <1>5 DEF Settled
<1>7. /\ Wired(e, t) /\ OthersIn(t["pre"]) = OthersIn(s["pre"])
      /\ \A ev \in Phases(e) : HookIn(e, t, ev)
  BY <1>2, <1>6, InstallHolds
<1>8. Settled(e, t, "installed", n)
  BY <1>6, <1>7 DEF Settled
<1>9. foreign' = [foreign EXCEPT ![e] = n]
  BY <1>3, <1>4 DEF WiringInv
<1> QED
  BY <1>4, <1>8, <1>9, SettledAgain

LEMMA UninstallKeeps ==
  ASSUME WiringInv, NEW e \in Editors, Uninstall(e)
  PROVE  WiringInv'
<1>1. PICK s : s = settings[e]
  OBVIOUS
<1>2. PICK t : t = RemoveHooks(s)
  OBVIOUS
<1>3. PICK n : n = foreign[e]
  OBVIOUS
<1>4. /\ settings' = [settings EXCEPT ![e] = t] /\ wired' = [wired EXCEPT ![e] = "removed"]
      /\ foreign' = foreign
  BY <1>1, <1>2 DEF Uninstall
<1>5. Settled(e, s, wired[e], n)
  BY <1>1, <1>3 DEF WiringInv
<1>6. Wired(e, s) /\ n \in Nat /\ Cardinality(OthersIn(s["pre"])) = n
  BY <1>5 DEF Settled
<1>7. /\ Wired(e, t) /\ Cardinality(OthersIn(t["pre"])) = Cardinality(OthersIn(s["pre"]))
      /\ \A ev \in Events : \A k \in DOMAIN t[ev] : Foreign(t[ev][k])
  BY <1>2, <1>6, RemoveHolds
<1>8. Settled(e, t, "removed", n)
  BY <1>6, <1>7 DEF Settled
<1>9. foreign' = [foreign EXCEPT ![e] = n]
  BY <1>3, <1>4 DEF WiringInv
<1> QED
  BY <1>4, <1>8, <1>9, SettledAgain

\* An entry a user may write.
LEMMA HandEntry ==
  ASSUME NEW e, NEW x, <<e, x>> \in HandMade
  PROVE  x \in Entries /\ \A c \in x.cmds : Suits(e, c)
<1>1. PICK h \in HandMade : h = <<e, x>>
  OBVIOUS
<1>2. h[1] = e /\ h[2] = x
  BY <1>1
<1>3. /\ x = [cmds |-> x.cmds, matcher |-> x.matcher]
      /\ \A c \in x.cmds : IsOurs(c) => c \in {Ours("pre", "auto"), Ours("pre", e)}
  BY <1>2, HandAssumption
<1>4. x.cmds \in SUBSET Cmds
  <2>1. \A c \in h[2].cmds : c \in HandCmds
    BY DEF HandCmds
  <2> QED
    BY <1>2, <2>1 DEF Cmds
<1>5. x.matcher \in Masks
  <2>1. h[2].matcher \in Masks
    BY DEF Masks
  <2> QED
    BY <1>2, <2>1
<1>6. x \in Entries
  BY <1>3, <1>4, <1>5 DEF Entries
<1>7. Ours("pre", "auto") \in OursOf(e) /\ Ours("pre", e) \in OursOf(e)
  BY DEF OursOf, OursBy, Events
<1>8. \A c \in x.cmds : Suits(e, c)
  BY <1>3, <1>7 DEF Suits
<1> QED
  BY <1>6, <1>8

LEMMA HandKeeps ==
  ASSUME WiringInv, NEW e \in Editors, NEW x, HandWires(e, x)
  PROVE  WiringInv'
<1>1. PICK s : s = settings[e]
  OBVIOUS
<1>2. PICK es : es = s["pre"]
  OBVIOUS
<1>3. PICK out : out = Append(es, x)
  OBVIOUS
<1>4. PICK t : t = [s EXCEPT !["pre"] = out]
  OBVIOUS
<1>5. PICK n : n = foreign[e]
  OBVIOUS
<1>6. PICK w : w = IF Foreign(x) THEN wired[e] ELSE "by hand"
  OBVIOUS
<1>7. PICK m : m = n + (IF Foreign(x) THEN 1 ELSE 0)
  OBVIOUS
<1>8. /\ <<e, x>> \in HandMade
      /\ settings' = [settings EXCEPT ![e] = t] /\ wired' = [wired EXCEPT ![e] = w]
      /\ foreign' = [foreign EXCEPT ![e] = m]
  BY <1>1, <1>2, <1>3, <1>4, <1>5, <1>6, <1>7 DEF HandWires
<1>9. Settled(e, s, wired[e], n)
  BY <1>1, <1>5 DEF WiringInv
<1>10. Wired(e, s) /\ n \in Nat /\ Cardinality(OthersIn(es)) = n /\ "pre" \in Events
  BY <1>2, <1>9 DEF Settled, Events
<1>11. x \in Entries /\ \A c \in x.cmds : Suits(e, c)
  BY <1>8, HandEntry
<1>12. /\ DOMAIN s = Events /\ es \in Seq(Entries)
       /\ \A k \in DOMAIN es : \A c \in es[k].cmds : Suits(e, c)
  BY <1>2, <1>10, WiredShape
<1>13. /\ out \in Seq(Entries) /\ DOMAIN out = 1 .. Len(es) + 1
       /\ \A k \in 1 .. Len(es) : out[k] = es[k]
       /\ out[Len(es) + 1] = x
  BY <1>3, <1>11, <1>12, AppendShape
<1>14. Len(es) \in Nat /\ DOMAIN es = 1 .. Len(es)
  BY <1>12, SeqShape
<1>15. t["pre"] = out /\ DOMAIN t = Events /\ \A ev \in Events : ev # "pre" => t[ev] = s[ev]
  BY <1>4, <1>10, <1>12
<1>16. Wired(e, t)
  <2>1. t \in [Events -> Seq(Entries)]
    BY <1>4, <1>10, <1>13 DEF Wired
  <2>2. \A k \in DOMAIN out : \A c \in out[k].cmds : Suits(e, c)
    BY <1>11, <1>12, <1>13, <1>14
  <2>3. ASSUME NEW ev \in Events PROVE \A k \in DOMAIN t[ev] : \A c \in t[ev][k].cmds : Suits(e, c)
    <3>1. CASE ev = "pre"
      BY <1>15, <2>2, <3>1
    <3>2. CASE ev # "pre"
      BY <1>10, <1>15, <3>2, WiredShape
    <3> QED
      BY <3>1, <3>2
  <2> QED
    BY <2>1, <2>3 DEF Wired
<1>17. w = "installed" => \A ev \in Phases(e) : HookIn(e, t, ev)
  <2> SUFFICES ASSUME w = "installed", NEW ev \in Phases(e) PROVE HookIn(e, t, ev)
    OBVIOUS
  <2>1. wired[e] = "installed" /\ ev \in Events
    BY <1>6 DEF Phases, Events
  <2>2. HookIn(e, s, ev)
    BY <1>9, <2>1 DEF Settled
  <2>3. PICK k \in DOMAIN s[ev] : /\ \E c \in s[ev][k].cmds : IsOurs(c) /\ c[2] = ev
                                  /\ s[ev][k].matcher = MatcherOf[e]
    BY <2>2 DEF HookIn
  <2>4. k \in DOMAIN t[ev] /\ t[ev][k] = s[ev][k]
    BY <1>2, <1>13, <1>14, <1>15, <2>1, <2>3
  <2> QED
    BY <2>3, <2>4 DEF HookIn
<1>18. w = "removed" => \A ev \in Events : \A k \in DOMAIN t[ev] : Foreign(t[ev][k])
  <2> SUFFICES ASSUME w = "removed" PROVE \A ev \in Events : \A k \in DOMAIN t[ev] : Foreign(t[ev][k])
    OBVIOUS
  <2>1. wired[e] = "removed" /\ Foreign(x)
    BY <1>6
  <2>2. \A ev \in Events : \A k \in DOMAIN s[ev] : Foreign(s[ev][k])
    BY <1>9, <2>1 DEF Settled
  <2>3. \A k \in DOMAIN es : Foreign(es[k])
    BY <1>2, <1>10, <2>2
  <2>4. \A k \in DOMAIN out : Foreign(out[k])
    BY <1>13, <1>14, <2>1, <2>3
  <2> QED
    BY <1>15, <2>2, <2>4
<1>19. m \in Nat /\ Cardinality(OthersIn(t["pre"])) = m
  <2>1. IsFiniteSet(OthersIn(es)) /\ Len(es) + 1 \notin OthersIn(es)
    <3>1. OthersIn(es) \subseteq 1 .. Len(es)
      BY <1>14 DEF OthersIn
    <3>2. IsFiniteSet(1 .. Len(es))
      BY <1>14, FS_Interval
    <3> QED
      BY <1>14, <3>1, <3>2, FS_Subset
  <2>2. CASE Foreign(x)
    <3>1. OthersIn(out) = OthersIn(es) \cup {Len(es) + 1}
      BY <1>13, <1>14, <2>2 DEF OthersIn
    <3>2. Cardinality(OthersIn(es) \cup {Len(es) + 1}) = Cardinality(OthersIn(es)) + 1
      BY <2>1, FS_AddElement
    <3>3. m = n + 1
      BY <1>7, <2>2
    <3> QED
      BY <1>10, <1>15, <3>1, <3>2, <3>3
  <2>3. CASE ~Foreign(x)
    <3>1. OthersIn(out) = OthersIn(es)
      BY <1>13, <1>14, <2>3 DEF OthersIn
    <3>2. m = n
      BY <1>7, <1>10, <2>3
    <3> QED
      BY <1>10, <1>15, <3>1, <3>2
  <2> QED
    BY <2>2, <2>3
<1>20. Settled(e, t, w, m)
  BY <1>16, <1>17, <1>18, <1>19 DEF Settled
<1> QED
  BY <1>8, <1>20, SettledAgain

LEMMA WiringInit ==
  ASSUME Init
  PROVE  WiringInv
<1>1. ASSUME NEW e \in Editors PROVE Wired(e, Bare) /\ OthersIn(Bare["pre"]) = {}
  <2>1. \A ev \in Events : Bare[ev] = <<>>
    BY DEF Bare
  <2>2. Bare \in [Events -> Seq(Entries)]
    BY DEF Bare
  <2>3. "pre" \in Events
    BY DEF Events
  <2> QED
    BY <2>1, <2>2, <2>3 DEF Wired, OthersIn
<1>2. Cardinality({}) = 0
  BY FS_EmptySet
<1>3. PICK w \in {"never", "installed"} : wired = [e \in Editors |-> w]
  BY DEF Init
<1>4. /\ settings = [e \in Editors |-> IF wired[e] = "never" THEN Bare ELSE InstalledIn(e, Bare)]
      /\ foreign = [e \in Editors |-> 0]
  BY DEF Init
<1>5. ASSUME NEW e \in Editors PROVE Settled(e, settings[e], wired[e], foreign[e])
  <2>1. wired[e] = w /\ foreign[e] = 0
    BY <1>3, <1>4
  <2>2. CASE w = "never"
    <3>1. settings[e] = Bare
      BY <1>4, <2>1, <2>2
    <3> QED
      BY <1>1, <1>2, <2>1, <2>2, <3>1 DEF Settled
  <2>3. CASE w = "installed"
    <3>1. PICK b : b = Bare
      OBVIOUS
    <3>2. PICK t : t = InstalledIn(e, b)
      OBVIOUS
    <3>3. Wired(e, b) /\ OthersIn(b["pre"]) = {}
      BY <1>1, <3>1
    <3>4. /\ Wired(e, t) /\ OthersIn(t["pre"]) = OthersIn(b["pre"])
          /\ \A ev \in Phases(e) : HookIn(e, t, ev)
      BY <3>2, <3>3, InstallHolds
    <3>5. settings[e] = t
      BY <1>4, <2>1, <2>3, <3>1, <3>2
    <3> QED
      BY <1>2, <2>1, <2>3, <3>3, <3>4, <3>5 DEF Settled
  <2> QED
    BY <2>2, <2>3
<1> QED
  BY <1>3, <1>4, <1>5 DEF WiringInv

LEMMA WiringNext ==
  ASSUME WiringInv, [Next]_vars
  PROVE  WiringInv'
<1>1. CASE UNCHANGED hooked
  BY <1>1 DEF hooked, WiringInv
<1>2. CASE Install \/ InstallCursor
  <2>1. \E e \in Editors : Installs(e)
    BY <1>2 DEF Install, InstallCursor, Installs
  <2> QED
    BY <2>1, InstallKeeps
<1>3. ASSUME NEW e \in Editors, Uninstall(e) PROVE WiringInv'
  BY <1>3, UninstallKeeps
<1>4. ASSUME NEW e \in Editors, NEW h \in HandMade, HandWires(e, h[2]) PROVE WiringInv'
  BY <1>4, HandKeeps
<1>5. ASSUME NEW i \in Slots,
             \/ \E u \in Uses : Asks(i, u)
             \/ Judges(i) \/ Records(i) \/ HookFails(i)
             \/ Refuses(i) \/ Runs(i) \/ RunsInVain(i) \/ RecordsAfter(i)
      PROVE  UNCHANGED hooked
  BY <1>5 DEF Asks, Judges, Records, HookFails, Refuses, Runs, RunsInVain, Goes,
     RecordsAfter, hooked
<1>6. CASE RulesChange \/ ResetsLog \/ Commits
  BY <1>1, <1>6 DEF RulesChange, ResetsLog, Commits
<1> QED
  BY <1>1, <1>2, <1>3, <1>4, <1>5, <1>6 DEF Next, vars

LEMMA WiringHolds ==
  ASSUME WiringInv
  PROVE  WiringIsWhole
<1> SUFFICES ASSUME NEW e \in Editors
    PROVE  /\ wired[e] = "installed" =>
                 \A ev \in Phases(e) : \E k \in DOMAIN settings[e][ev] :
                    /\ \E c \in settings[e][ev][k].cmds : IsOurs(c) /\ c[2] = ev
                    /\ settings[e][ev][k].matcher = MatcherOf[e]
           /\ wired[e] = "removed" =>
                 \A ev \in Events : \A k \in DOMAIN settings[e][ev] : Foreign(settings[e][ev][k])
           /\ Cardinality({k \in DOMAIN settings[e]["pre"] : Foreign(settings[e]["pre"][k])}) = foreign[e]
  BY DEF WiringIsWhole
<1>1. Settled(e, settings[e], wired[e], foreign[e])
  BY DEF WiringInv
<1> QED
  BY <1>1 DEF Settled, HookIn, OthersIn

-----------------------------------------------------------------------------
(* Sequences of records                                                    *)

IsList(s) == s \in Seq({s[k] : k \in DOMAIN s})

LEMMA SeqIsList ==
  ASSUME NEW s, NEW n \in Nat, DOMAIN s = 1 .. n, s = [k \in 1 .. n |-> s[k]]
  PROVE  IsList(s)
<1> DEFINE S == {s[k] : k \in DOMAIN s}
<1>1. s \in [1 .. n -> S]
  OBVIOUS
<1> HIDE DEF S
<1>2. s \in Seq(S)
  BY <1>1, SeqDef
<1> QED
  BY <1>2 DEF IsList, S

LEMMA AnySeqIsList ==
  ASSUME NEW S, NEW s \in Seq(S)
  PROVE  IsList(s)
<1>1. PICK n \in Nat : s \in [1 .. n -> S]
  BY SeqDef
<1>2. DOMAIN s = 1 .. n /\ s = [k \in 1 .. n |-> s[k]]
  BY <1>1
<1> QED
  BY <1>2, SeqIsList

LEMMA SeqSpan ==
  ASSUME NEW s, IsList(s)
  PROVE  Len(s) \in Nat /\ DOMAIN s = 1 .. Len(s)
<1> DEFINE S == {s[k] : k \in DOMAIN s}
<1>1. s \in Seq(S)
  BY DEF IsList
<1> HIDE DEF S
<1> QED
  BY <1>1, SeqShape

Joined(s, t, u) ==
    /\ IsList(u) /\ Len(u) = Len(s) + Len(t) /\ DOMAIN u = 1 .. Len(s) + Len(t)
    /\ \A k \in 1 .. Len(s) : u[k] = s[k]
    /\ \A k \in 1 .. Len(t) : u[Len(s) + k] = t[k]

LEMMA ConcatShape ==
  ASSUME NEW s, NEW t, NEW u, IsList(s), IsList(t), u = s \o t
  PROVE  Joined(s, t, u)
<1> DEFINE S == {s[k] : k \in DOMAIN s}
           T == {t[k] : k \in DOMAIN t}
           U == S \cup T
<1>1. s \in Seq(S) /\ t \in Seq(T)
  BY DEF IsList
<1>2. S \subseteq U /\ T \subseteq U
  OBVIOUS
<1> HIDE DEF S, T, U
<1>3. s \in Seq(U) /\ t \in Seq(U)
  BY <1>1, <1>2
<1>4. Len(s) \in Nat /\ Len(t) \in Nat
  BY <1>3, LenProperties
<1>5. /\ u \in Seq(U) /\ Len(u) = Len(s) + Len(t)
      /\ \A i \in 1 .. Len(s) + Len(t) : u[i] = IF i <= Len(s) THEN s[i] ELSE t[i - Len(s)]
  BY <1>3, ConcatProperties
<1>6. DOMAIN u = 1 .. Len(u) /\ Len(u) \in Nat
  BY <1>5, LenProperties
<1>7. IsList(u)
  BY <1>5, AnySeqIsList
<1>8. \A k \in 1 .. Len(s) : u[k] = s[k]
  BY <1>4, <1>5
<1>9. ASSUME NEW k \in 1 .. Len(t) PROVE u[Len(s) + k] = t[k]
  <2>1. Len(s) + k \in 1 .. Len(s) + Len(t) /\ ~(Len(s) + k <= Len(s)) /\ Len(s) + k - Len(s) = k
    BY <1>4
  <2> QED
    BY <1>5, <2>1
<1> QED
  BY <1>5, <1>6, <1>7, <1>8, <1>9 DEF Joined

\* One record more.
Longer(s, r, u) ==
    /\ IsList(u) /\ Len(u) = Len(s) + 1 /\ DOMAIN u = 1 .. Len(s) + 1
    /\ \A k \in 1 .. Len(s) : u[k] = s[k]
    /\ u[Len(s) + 1] = r

LEMMA OneIsList ==
  ASSUME NEW r, NEW s, s = <<r>>
  PROVE  IsList(s) /\ Len(s) = 1 /\ DOMAIN s = 1 .. 1 /\ s[1] = r
<1>1. DOMAIN s = 1 .. 1 /\ s = [k \in 1 .. 1 |-> s[k]] /\ s[1] = r /\ Len(s) = 1
  OBVIOUS
<1> QED
  BY <1>1, SeqIsList

LEMMA EmptyIsList ==
  ASSUME NEW s, s = <<>>
  PROVE  IsList(s) /\ Len(s) = 0 /\ DOMAIN s = {} /\ DOMAIN s = 1 .. 0
<1>1. DOMAIN s = 1 .. 0 /\ s = [k \in 1 .. 0 |-> s[k]] /\ DOMAIN s = {} /\ Len(s) = 0
  OBVIOUS
<1> QED
  BY <1>1, SeqIsList

\* Adding one at the end is joining.
LEMMA JoinOne ==
  ASSUME NEW s, IsList(s), NEW r
  PROVE  Append(s, r) = s \o <<r>>
<1> DEFINE S == {s[k] : k \in DOMAIN s} \cup {r}
<1>1. s \in Seq({s[k] : k \in DOMAIN s}) /\ {s[k] : k \in DOMAIN s} \subseteq S /\ r \in S
  BY DEF IsList
<1> HIDE DEF S
<1>2. s \in Seq(S)
  BY <1>1
<1> QED
  BY <1>1, <1>2, AppendIsConcat

LEMMA AppendIsLonger ==
  ASSUME NEW s, IsList(s), NEW r, NEW u, u = Append(s, r) \/ u = s \o <<r>>
  PROVE  Longer(s, r, u)
<1>1. PICK t : t = <<r>>
  OBVIOUS
<1>2. IsList(t) /\ Len(t) = 1 /\ t[1] = r
  BY <1>1, OneIsList
<1>3. u = s \o t
  BY <1>1, JoinOne
<1>4. Joined(s, t, u)
  BY <1>2, <1>3, ConcatShape
<1> QED
  BY <1>2, <1>4 DEF Joined, Longer

-----------------------------------------------------------------------------
(* What a hook is called with                                              *)

LEMMA OursFinite ==
  ASSUME NEW e
  PROVE  IsFiniteSet(OursOf(e))
<1>1. IsFiniteSet(Events)
  <2>1. \A x : IsFiniteSet({x})
    BY FS_Singleton
  <2>2. \A S, x : IsFiniteSet(S) => IsFiniteSet(S \cup {x})
    BY FS_AddElement
  <2>3. Events = ((({"pre"} \cup {"post"}) \cup {"fail"}) \cup {"denied"}) \cup {"stop"}
    BY DEF Events
  <2>4. IsFiniteSet(((({"pre"} \cup {"post"}) \cup {"fail"}) \cup {"denied"}) \cup {"stop"})
    BY <2>1, <2>2, Zenon
  <2> QED
    BY <2>3, <2>4
<1>2. ASSUME NEW v PROVE IsFiniteSet(OursBy(v))
  <2>1. PICK f : f = [ev \in Events |-> Ours(ev, v)]
    OBVIOUS
  <2>2. f \in [Events -> OursBy(v)] /\ \A c \in OursBy(v) : \E ev \in Events : f[ev] = c
    BY <2>1 DEF OursBy
  <2>3. f \in Surjection(Events, OursBy(v))
    BY <2>2 DEF Surjection
  <2> QED
    BY <1>1, <2>3, FS_Surjection
<1>3. IsFiniteSet(OursBy("auto") \cup OursBy(e))
  BY <1>2, FS_Union
<1> QED
  BY <1>3 DEF OursOf

LEMMA OursNamed ==
  ASSUME NEW e, NEW c \in OursOf(e)
  PROVE  IsOurs(c) /\ c[3] \in {"auto", e}
BY OursIsOurs DEF OursOf, OursBy

\* The hooks an event of a call starts.
LEMMA StartsOurs ==
  ASSUME NEW e, NEW ev \in Events, NEW tool, Wired(e, settings[e])
  PROVE  Starts(e, ev, tool) \subseteq OursOf(e)
<1> SUFFICES ASSUME NEW c \in Starts(e, ev, tool) PROVE c \in OursOf(e)
  OBVIOUS
<1>1. \E k \in DOMAIN settings[e][ev] : c \in settings[e][ev][k].cmds /\ IsOurs(c)
  BY DEF Starts
<1>2. \A k \in DOMAIN settings[e][ev] : \A d \in settings[e][ev][k].cmds : Suits(e, d)
  BY WiredShape
<1> QED
  BY <1>1, <1>2 DEF Suits

-----------------------------------------------------------------------------
(* Calls                                                                   *)

Reader(c) == c.tool \in Readers
Writer(c) == c.tool \in Writers

\* A call whose text names a change.
Altering(c) == Named(c) # {} /\ c.tool \notin Readers

LEMMA CallKinds ==
  ASSUME NEW u \in Uses, NEW c, c = u[2]
  PROVE  /\ u[1] \in Sessions /\ u = <<u[1], c>>
         /\ Reader(c) \/ Writer(c) \/ Online(c) \/ Plain(c) \/ Deletes(c) \/ Dull(c)
         /\ Reader(c) => c.target \in Paths /\ Named(c) = {c.target} /\ Effects(c) = {}
         /\ Writer(c) => c.target \in Paths /\ Named(c) = {c.target} /\ Effects(c) = {c.target}
         /\ Online(c) => Named(c) = {} /\ Effects(c) \subseteq Paths
         /\ Plain(c) => Named(c) = {} /\ Effects(c) = {} /\ c.target.id # Null /\ c.target.kind # Null
         /\ Deletes(c) => /\ c.target.dels \in Seq(Paths) /\ c.target.dels # <<>>
                          /\ Named(c) = Range(c.target.dels) /\ Effects(c) = Named(c)
         /\ Dull(c) => Named(c) = {} /\ Effects(c) = {}
<1>1. /\ u[1] \in Sessions /\ u = <<u[1], c>>
      /\ c.tool \in Readers \cup Writers => c.target \in Paths
      /\ c.tool \in Shells => /\ c.target.net \in BOOLEAN /\ c.target.dels \in Seq(Paths)
                              /\ Null \notin {c.target.id, c.target.kind}
  BY CallAssumption
<1>2. Reader(c) \/ Writer(c) \/ Online(c) \/ Plain(c) \/ Deletes(c) \/ Dull(c)
  BY <1>1 DEF Reader, Writer, Online, Plain, Deletes, Dull
<1>3. Reader(c) => c.target \in Paths /\ Named(c) = {c.target} /\ Effects(c) = {}
  BY <1>1 DEF Reader, Readers, Writers, Shells, Named, Effects
<1>4. Writer(c) => c.target \in Paths /\ Named(c) = {c.target} /\ Effects(c) = {c.target}
  BY <1>1 DEF Writer, Readers, Writers, Shells, Named, Effects
<1>5. ASSUME NEW d \in Seq(Paths) PROVE Range(d) \subseteq Paths
  <2>1. \A k \in DOMAIN d : d[k] \in Paths
    BY SeqShape
  <2> QED
    BY <2>1 DEF Range
<1>6. Online(c) => Named(c) = {} /\ Effects(c) \subseteq Paths
  <2>1. CASE c.tool \in {"WebFetch", "WebSearch"}
    BY <2>1 DEF Readers, Writers, Shells, Named, Effects
  <2>2. CASE c.tool \in Shells /\ c.target.net
    <3>1. Range(c.target.dels) \subseteq Paths
      BY <1>1, <1>5, <2>2
    <3> QED
      BY <2>2, <3>1 DEF Readers, Writers, Shells, Named, Effects
  <2> QED
    BY <2>1, <2>2 DEF Online
<1>7. Plain(c) => Named(c) = {} /\ Effects(c) = {} /\ c.target.id # Null /\ c.target.kind # Null
  <2>1. ASSUME Plain(c) PROVE Range(c.target.dels) = {}
    BY <2>1 DEF Plain, Range
  <2>2. ASSUME Plain(c) PROVE Named(c) = Range(c.target.dels) /\ Effects(c) = Range(c.target.dels)
    BY <2>2 DEF Plain, Readers, Writers, Shells, Named, Effects
  <2> QED
    BY <1>1, <2>1, <2>2 DEF Plain
<1>8. Deletes(c) => /\ c.target.dels \in Seq(Paths) /\ c.target.dels # <<>>
                    /\ Named(c) = Range(c.target.dels) /\ Effects(c) = Named(c)
  <2>1. ASSUME Deletes(c) PROVE Named(c) = Range(c.target.dels) /\ Effects(c) = Range(c.target.dels)
    BY <2>1 DEF Deletes, Readers, Writers, Shells, Named, Effects
  <2> QED
    BY <1>1, <2>1 DEF Deletes
<1>9. Dull(c) => Named(c) = {} /\ Effects(c) = {}
  BY DEF Dull, Named, Effects
<1> QED
  BY <1>1, <1>2, <1>3, <1>4, <1>6, <1>7, <1>8, <1>9

\* What a hook tells of a call: its operations.
Telling(c) ==
    /\ IsList(OpsOf(c)) /\ Named(c) \subseteq Paths /\ Effects(c) \subseteq Paths
    /\ \A k \in DOMAIN OpsOf(c) : OpsOf(c)[k].op # "capture-degraded"
    /\ \A p \in Paths : p \in Named(c) <=> \E k \in DOMAIN OpsOf(c) : OpsOf(c)[k].path = p
    /\ Altering(c) => OpsOf(c) # <<>> /\ \A k \in DOMAIN OpsOf(c) : OpsOf(c)[k].op \in {"write", "delete"}
    /\ ~Altering(c) => \A k \in DOMAIN OpsOf(c) : OpsOf(c)[k].op \notin {"write", "delete"}

LEMMA OpsTold ==
  ASSUME NEW u \in Uses, NEW c, c = u[2]
  PROVE  Telling(c)
<1> SUFFICES
    /\ IsList(OpsOf(c)) /\ Named(c) \subseteq Paths /\ Effects(c) \subseteq Paths
    /\ \A k \in DOMAIN OpsOf(c) : OpsOf(c)[k].op # "capture-degraded"
    /\ \A p \in Paths : p \in Named(c) <=> \E k \in DOMAIN OpsOf(c) : OpsOf(c)[k].path = p
    /\ Altering(c) => OpsOf(c) # <<>> /\ \A k \in DOMAIN OpsOf(c) : OpsOf(c)[k].op \in {"write", "delete"}
    /\ ~Altering(c) => \A k \in DOMAIN OpsOf(c) : OpsOf(c)[k].op \notin {"write", "delete"}
  BY DEF Telling
<1>0. Null \notin Paths
  BY GuardingAssumption
<1>1. ASSUME NEW o, OpsOf(c) = <<o>>
      PROVE  IsList(OpsOf(c)) /\ DOMAIN OpsOf(c) = {1} /\ OpsOf(c)[1] = o /\ OpsOf(c) # <<>>
  <2>1. PICK s : s = OpsOf(c)
    OBVIOUS
  <2>2. IsList(s) /\ DOMAIN s = 1 .. 1 /\ s[1] = o
    BY <1>1, <2>1, OneIsList
  <2>3. s # <<>>
    BY <1>1, <2>1
  <2> QED
    BY <2>1, <2>2, <2>3
<1>2. CASE Reader(c)
  <2>1. OpsOf(c) = <<Op("read", c.target, Null, Null)>>
    BY <1>2, OpsAre DEF Reader
  <2>2. Named(c) = {c.target} /\ Effects(c) = {} /\ c.target \in Paths /\ ~Altering(c)
    BY <1>2, CallKinds DEF Altering, Reader
  <2> QED
    BY <1>1, <2>1, <2>2 DEF Op
<1>3. CASE Writer(c)
  <2>1. OpsOf(c) = <<Op("write", c.target, Null, Null)>>
    BY <1>3, OpsAre DEF Writer
  <2>2. Named(c) = {c.target} /\ Effects(c) = {c.target} /\ c.target \in Paths /\ Altering(c)
    BY <1>3, CallKinds DEF Altering, Writer, Writers, Readers
  <2> QED
    BY <1>1, <2>1, <2>2 DEF Op
<1>4. CASE Online(c)
  <2>1. OpsOf(c) = <<Op("network", Null, Null, Null)>>
    BY <1>4, OpsAre
  <2>2. Named(c) = {} /\ Effects(c) \subseteq Paths /\ ~Altering(c)
    BY <1>4, CallKinds DEF Altering
  <2> QED
    BY <1>0, <1>1, <2>1, <2>2 DEF Op
<1>5. CASE Plain(c)
  <2>1. OpsOf(c) = <<Op("command", Null, c.target.id, c.target.kind)>>
    BY <1>5, OpsAre
  <2>2. Named(c) = {} /\ Effects(c) \subseteq Paths /\ ~Altering(c)
    BY <1>5, CallKinds DEF Altering
  <2> QED
    BY <1>0, <1>1, <2>1, <2>2 DEF Op
<1>6. CASE Deletes(c)
  <2>1. OpsOf(c) = [i \in DOMAIN c.target.dels |-> Op("delete", c.target.dels[i], Null, Null)]
    BY <1>6, OpsAre
  <2>2. PICK d : d = c.target.dels
    OBVIOUS
  <2>3. d \in Seq(Paths) /\ d # <<>> /\ Named(c) = Range(d) /\ Effects(c) = Named(c)
    BY <1>6, <2>2, CallKinds
  <2>4. /\ Len(d) \in Nat /\ DOMAIN d = 1 .. Len(d)
        /\ \A k \in DOMAIN d : d[k] \in Paths
    BY <2>3, SeqShape
  <2>5. Len(d) # 0
    BY <2>3, EmptySeq
  <2>6. Named(c) \subseteq Paths /\ Named(c) # {}
    BY <2>3, <2>4, <2>5 DEF Range
  <2>7. PICK o : o = OpsOf(c)
    OBVIOUS
  <2>8. /\ o = [k \in 1 .. Len(d) |-> o[k]] /\ DOMAIN o = 1 .. Len(d)
        /\ \A k \in DOMAIN o : o[k].op = "delete" /\ o[k].path = d[k]
    BY <2>1, <2>2, <2>4, <2>7 DEF Op
  <2>9. IsList(o)
    BY <2>4, <2>8, SeqIsList
  <2>10. o # <<>>
    <3>1. DOMAIN o # {}
      BY <2>4, <2>5, <2>8
    <3> QED
      BY <3>1
  <2>11. \A p \in Paths : p \in Named(c) <=> \E k \in DOMAIN o : o[k].path = p
    BY <2>3, <2>4, <2>8 DEF Range
  <2>12. Altering(c)
    BY <1>6, <2>6 DEF Altering, Deletes, Shells, Readers
  <2> QED
    BY <2>3, <2>6, <2>7, <2>8, <2>9, <2>10, <2>11, <2>12
<1>7. CASE Dull(c)
  <2>1. Named(c) = {} /\ Effects(c) = {} /\ ~Altering(c)
    BY <1>7, CallKinds DEF Altering
  <2>2. CASE OpsOf(c) = <<>>
    <3>1. PICK s : s = OpsOf(c)
      OBVIOUS
    <3>2. IsList(s) /\ DOMAIN s = {}
      BY <2>2, <3>1, EmptyIsList
    <3> QED
      BY <2>1, <3>1, <3>2
  <2>3. CASE OpsOf(c) = <<Op("command", Null, Null, Null)>>
    BY <1>0, <1>1, <2>1, <2>3 DEF Op
  <2> QED
    BY <1>7, <2>2, <2>3, OpsAre
<1> QED
  BY <1>2, <1>3, <1>4, <1>5, <1>6, <1>7, CallKinds

LEMMA CallTells ==
  ASSUME NEW s, NEW c, <<s, c>> \in Uses
  PROVE  Telling(c)
<1>1. PICK u \in Uses : u = <<s, c>>
  OBVIOUS
<1>2. PICK d : d = u[2]
  OBVIOUS
<1>3. Telling(d)
  BY <1>2, OpsTold
<1>4. d = c
  BY <1>1, <1>2
<1> QED
  BY <1>3, <1>4

-----------------------------------------------------------------------------
(* The calls under way                                                     *)

\* Records tell of a call what happened, whatever the judgement of it.
Tells(recs, s, ph, c) ==
    /\ IsList(recs) /\ DOMAIN recs = DOMAIN OpsOf(c)
    /\ \A k \in DOMAIN recs :
          /\ recs[k].phase = ph /\ recs[k].session = s /\ recs[k].tool = c.tool
          /\ recs[k].op = OpsOf(c)[k].op /\ recs[k].path = OpsOf(c)[k].path
          /\ recs[k].hash = OpsOf(c)[k].hash /\ recs[k].kind = OpsOf(c)[k].kind

JudgedWell(x, j) ==
    /\ j.cmd \in x.todo /\ j.vendor = EditorOf[x.session]
    /\ Tells(j.recs, x.session, "pre", x.call)

Called(x) ==
    /\ x = [at |-> x.at, session |-> x.session, call |-> x.call, phase |-> x.phase, todo |-> x.todo,
            judged |-> x.judged, denied |-> x.denied, steady |-> x.steady, guarded |-> x.guarded]
    /\ <<x.session, x.call>> \in Uses
    /\ x.todo \subseteq OursOf(EditorOf[x.session])
    /\ \/ x.at = "pre" /\ x.phase = "pre" /\ (x.judged # <<>> => JudgedWell(x, x.judged[1]))
       \/ x.at = "post" /\ x.phase \in {"post", "fail", "denied"} /\ x.judged = <<>> /\ x.todo # {}
    /\ x.denied \in YesNo /\ x.steady \in YesNo /\ x.guarded \in YesNo

TypesInv ==
    /\ rules \in Rules /\ IsList(log) /\ changed \subseteq Paths
    /\ slot = [i \in Slots |-> slot[i]]
    /\ \A i \in Slots : slot[i] = Idle \/ Called(slot[i])

\* What is told of a call before it is judged, and after.
LEMMA FreshTells ==
  ASSUME NEW u \in Uses, NEW ph, NEW recs, recs = Fresh(u[1], ph, u[2])
  PROVE  Tells(recs, u[1], ph, u[2])
<1>1. PICK o : o = OpsOf(u[2])
  OBVIOUS
<1>2. IsList(o)
  BY <1>1, OpsTold DEF Telling
<1>3. Len(o) \in Nat /\ DOMAIN o = 1 .. Len(o)
  BY <1>2, SeqSpan
<1>4. /\ recs = [k \in 1 .. Len(o) |-> recs[k]] /\ DOMAIN recs = 1 .. Len(o)
      /\ \A k \in 1 .. Len(o) : recs[k] = RecordOf(u[1], ph, u[2], o[k])
  BY <1>1, <1>3 DEF Fresh
<1>5. IsList(recs)
  BY <1>3, <1>4, SeqIsList
<1>6. ASSUME NEW k \in DOMAIN recs
      PROVE  /\ recs[k].phase = ph /\ recs[k].session = u[1] /\ recs[k].tool = u[2].tool
             /\ recs[k].op = o[k].op /\ recs[k].path = o[k].path
             /\ recs[k].hash = o[k].hash /\ recs[k].kind = o[k].kind
  <2>1. recs[k] = RecordOf(u[1], ph, u[2], o[k])
    BY <1>4
  <2> QED
    BY <2>1 DEF RecordOf
<1>7. DOMAIN recs = DOMAIN o
  BY <1>3, <1>4
<1> QED
  BY <1>1, <1>5, <1>6, <1>7 DEF Tells

LEMMA JudgedTells ==
  ASSUME NEW u \in Uses, NEW recs, Tells(recs, u[1], "pre", u[2]), NEW out,
         out = [k \in DOMAIN recs |-> [recs[k] EXCEPT !.guard = Judgement(recs[k], u[1])]],
         recs = Fresh(u[1], "pre", u[2])
  PROVE  /\ Tells(out, u[1], "pre", u[2]) /\ DOMAIN out = DOMAIN recs
         /\ \A k \in DOMAIN out : out[k].guard = Judgement(recs[k], u[1])
<1>1. Len(recs) \in Nat /\ DOMAIN recs = 1 .. Len(recs)
  BY SeqSpan DEF Tells
<1>2. ASSUME NEW k \in DOMAIN recs
      PROVE  /\ out[k].guard = Judgement(recs[k], u[1])
             /\ out[k].phase = recs[k].phase /\ out[k].session = recs[k].session /\ out[k].tool = recs[k].tool
             /\ out[k].op = recs[k].op /\ out[k].path = recs[k].path
             /\ out[k].hash = recs[k].hash /\ out[k].kind = recs[k].kind
  <2>1. PICK r : r = recs[k]
    OBVIOUS
  <2>2. PICK g : g = Judgement(r, u[1])
    OBVIOUS
  <2>3. out[k] = [r EXCEPT !.guard = g]
    BY <2>1, <2>2
  <2>4. r = RecordOf(u[1], "pre", u[2], OpsOf(u[2])[k])
    BY <2>1 DEF Fresh
  <2> QED
    BY <2>1, <2>2, <2>3, <2>4 DEF RecordOf
<1>3. DOMAIN out = 1 .. Len(recs) /\ out = [k \in 1 .. Len(recs) |-> out[k]]
  BY <1>1
<1>4. IsList(out)
  BY <1>1, <1>3, SeqIsList
<1> QED
  BY <1>1, <1>2, <1>3, <1>4 DEF Tells

\* One slot changes.
LEMMA SlotChanges ==
  ASSUME slot = [i \in Slots |-> slot[i]], NEW i \in Slots, NEW y, slot' = [slot EXCEPT ![i] = y]
  PROVE  /\ slot' = [j \in Slots |-> slot'[j]] /\ slot'[i] = y
         /\ \A j \in Slots : j # i => slot'[j] = slot[j]
OBVIOUS

\* What becomes of a slot: a call is asked for, and a hook judges it.
Asked(i, u, y) ==
    /\ slot' = [slot EXCEPT ![i] = y] /\ slot[i] = Idle /\ Called(y)
    /\ y.at = "pre" /\ y.session = u[1] /\ y.call = u[2] /\ y.judged = <<>> /\ y.denied = "no"
    /\ y.steady = "yes" /\ y.todo = Starts(EditorOf[u[1]], "pre", u[2].tool)
    /\ y.guarded = IF y.todo = {} THEN "no" ELSE "yes"
Judged(i, x, j, y) ==
    /\ slot' = [slot EXCEPT ![i] = y] /\ x = slot[i] /\ Called(x) /\ Called(y)
    /\ x.at = "pre" /\ x.judged = <<>> /\ y = [x EXCEPT !.judged = <<j>>] /\ JudgedWell(x, j)
    /\ DOMAIN j.recs = DOMAIN Fresh(x.session, "pre", x.call)
    /\ \A k \in DOMAIN j.recs :
          j.recs[k].guard = Judgement(Fresh(x.session, "pre", x.call)[k], x.session)

LEMMA AsksSlot ==
  ASSUME TypesInv, WiringInv, NEW i \in Slots, NEW u \in Uses, Asks(i, u)
  PROVE  \E y : Asked(i, u, y)
<1>1. PICK todo : todo = Starts(EditorOf[u[1]], "pre", u[2].tool)
  OBVIOUS
<1>2. PICK g : g = IF todo = {} THEN "no" ELSE "yes"
  OBVIOUS
<1>3. PICK y : y = [at |-> "pre", session |-> u[1], call |-> u[2], phase |-> "pre", todo |-> todo,
                    judged |-> <<>>, denied |-> "no", steady |-> "yes", guarded |-> g]
  OBVIOUS
<1>4. slot' = [slot EXCEPT ![i] = y] /\ slot[i].at = "idle"
  BY <1>1, <1>2, <1>3 DEF Asks, Busy
<1>5. slot[i] = Idle
  BY <1>4 DEF TypesInv, Called
<1>6. u[1] \in Sessions /\ <<u[1], u[2]>> \in Uses
  BY CallKinds
<1>7. EditorOf[u[1]] \in Editors
  BY <1>6 DEF Editors
<1>8. Wired(EditorOf[u[1]], settings[EditorOf[u[1]]])
  BY <1>7 DEF WiringInv, Settled
<1>9. todo \subseteq OursOf(EditorOf[u[1]])
  BY <1>1, <1>8, StartsOurs DEF Events
<1>10. Called(y)
  BY <1>2, <1>3, <1>6, <1>9 DEF Called, YesNo
<1>11. Asked(i, u, y)
  BY <1>1, <1>2, <1>3, <1>4, <1>5, <1>10 DEF Asked
<1> QED
  BY <1>11

LEMMA JudgesSlot ==
  ASSUME TypesInv, NEW i \in Slots, Judges(i)
  PROVE  \E x, j, y : Judged(i, x, j, y)
<1>1. PICK x : x = slot[i]
  OBVIOUS
<1>2. x.at = "pre" /\ x.judged = <<>> /\ Called(x)
  BY <1>1 DEF Judges, TypesInv, Idle
<1>3. PICK s : s = x.session
  OBVIOUS
<1>4. PICK c : c = x.call
  OBVIOUS
<1>5. PICK cmd \in x.todo :
         LET recs == Recs(s, "pre", cmd, c)
         IN  slot' = [slot EXCEPT ![i].judged =
                 <<[cmd |-> cmd, vendor |-> VendorOf(s, "pre", cmd),
                    recs |-> [k \in DOMAIN recs |-> [recs[k] EXCEPT !.guard = Judgement(recs[k], s)]]]>>]
  <2>1. \E cmd \in slot[i].todo :
          LET recs == Recs(slot[i].session, "pre", cmd, slot[i].call)
          IN  slot' = [slot EXCEPT ![i].judged =
                  <<[cmd |-> cmd, vendor |-> VendorOf(slot[i].session, "pre", cmd),
                     recs |-> [k \in DOMAIN recs |->
                                [recs[k] EXCEPT !.guard = Judgement(recs[k], slot[i].session)]]]>>]
    BY Zenon DEF Judges
  <2>2. slot[i].todo = x.todo /\ slot[i].session = s /\ slot[i].call = c
    BY <1>1, <1>3, <1>4
  <2> QED
    BY <2>1, <2>2, ZenonT(60)
<1>6. PICK u \in Uses : u = <<s, c>>
  BY <1>2, <1>3, <1>4 DEF Called
<1>7. u[1] = s /\ u[2] = c /\ s \in Sessions
  BY <1>6, CallKinds
<1>8. IsOurs(cmd) /\ cmd[3] \in {"auto", EditorOf[s]}
  <2>1. cmd \in OursOf(EditorOf[s])
    BY <1>2, <1>3 DEF Called
  <2> QED
    BY <2>1, OursNamed
<1>9. PICK recs : recs = Fresh(s, "pre", c)
  OBVIOUS
<1>10. Recs(s, "pre", cmd, c) = recs
  BY <1>7, <1>8, <1>9, RecsAreFresh
<1>11. VendorOf(s, "pre", cmd) = EditorOf[s]
  BY <1>7, <1>8, VendorIsEditor
<1>12. PICK out : out = [k \in DOMAIN recs |-> [recs[k] EXCEPT !.guard = Judgement(recs[k], s)]]
  OBVIOUS
<1>13. PICK j : j = [cmd |-> cmd, vendor |-> EditorOf[s], recs |-> out]
  OBVIOUS
<1>14. PICK y : y = [x EXCEPT !.judged = <<j>>]
  OBVIOUS
<1>15. slot' = [slot EXCEPT ![i].judged = <<j>>]
  BY <1>5, <1>10, <1>11, <1>12, <1>13
<1>16. slot' = [slot EXCEPT ![i] = y]
  BY <1>1, <1>14, <1>15
<1>17. Tells(recs, s, "pre", c)
  BY <1>6, <1>7, <1>9, FreshTells
<1>18. /\ Tells(out, s, "pre", c) /\ DOMAIN out = DOMAIN recs
       /\ \A k \in DOMAIN out : out[k].guard = Judgement(recs[k], s)
  BY <1>6, <1>7, <1>9, <1>12, <1>17, JudgedTells
<1>19. j.cmd = cmd /\ j.vendor = EditorOf[s] /\ j.recs = out
  BY <1>13
<1>20. JudgedWell(x, j)
  BY <1>3, <1>4, <1>18, <1>19 DEF JudgedWell
<1>21. Called(y)
  <2>1. x = [at |-> x.at, session |-> x.session, call |-> x.call, phase |-> x.phase, todo |-> x.todo,
             judged |-> x.judged, denied |-> x.denied, steady |-> x.steady, guarded |-> x.guarded]
    BY <1>2 DEF Called
  <2>2. y = [at |-> x.at, session |-> x.session, call |-> x.call, phase |-> x.phase, todo |-> x.todo,
             judged |-> <<j>>, denied |-> x.denied, steady |-> x.steady, guarded |-> x.guarded]
    BY <1>14, <2>1
  <2>3. JudgedWell(y, y.judged[1])
    BY <1>20, <2>2 DEF JudgedWell
  <2> QED
    BY <1>2, <2>2, <2>3 DEF Called
<1>22. Judged(i, x, j, y)
  BY <1>1, <1>2, <1>3, <1>4, <1>9, <1>14, <1>16, <1>18, <1>19, <1>20, <1>21 DEF Judged
<1> QED
  BY <1>22

\* The hook is through with the call; the call goes on to its next event; a
\* hook of that one is through.
Through(i, x, j, y) ==
    /\ slot' = [slot EXCEPT ![i] = y] /\ x = slot[i] /\ Called(x) /\ Called(y)
    /\ x.at = "pre" /\ x.judged # <<>> /\ j = x.judged[1] /\ JudgedWell(x, j)
    /\ y.at = "pre" /\ y.session = x.session /\ y.call = x.call /\ y.steady = x.steady
    /\ y.judged = <<>> /\ y.todo = x.todo \ {j.cmd}
GoesOn(i, x, y, ph) ==
    /\ slot' = [slot EXCEPT ![i] = y] /\ x = slot[i] /\ Called(x)
    /\ x.at = "pre" /\ x.todo = {} /\ x.judged = <<>>
    /\ \/ y = Idle
       \/ /\ Called(y) /\ y.at = "post" /\ y.phase = ph /\ y.session = x.session /\ y.call = x.call
          /\ y.todo = Starts(EditorOf[x.session], ph, x.call.tool)
Afterwards(i, x, cmd, y) ==
    /\ slot' = [slot EXCEPT ![i] = y] /\ x = slot[i] /\ Called(x) /\ x.at = "post" /\ cmd \in x.todo
    /\ \/ y = Idle
       \/ /\ Called(y) /\ y.at = "post" /\ y.phase = x.phase /\ y.session = x.session /\ y.call = x.call
          /\ y.todo = x.todo \ {cmd} /\ y.todo # {}

LEMMA AnsweredSlot ==
  ASSUME TypesInv, NEW i \in Slots, Answered(i)
  PROVE  Called(slot[i]) /\ slot[i].judged = <<>>
<1>1. slot[i].at = "pre" /\ slot[i].todo = {} /\ Called(slot[i])
  BY DEF Answered, TypesInv, Idle
<1> QED
  BY <1>1 DEF Called, JudgedWell

LEMMA RecordsSlot ==
  ASSUME TypesInv, NEW i \in Slots, Records(i)
  PROVE  \E x, j, y : /\ Through(i, x, j, y) /\ y.guarded = x.guarded /\ log' = log \o j.recs
                      /\ y.denied = "no" => /\ x.denied = "no"
                                            /\ \A k \in DOMAIN j.recs : j.recs[k].guard.action # "deny"
<1>1. PICK x : x = slot[i]
  OBVIOUS
<1>2. PICK j : j = x.judged[1]
  OBVIOUS
<1>3. x.at = "pre" /\ x.judged # <<>> /\ Called(x) /\ log' = log \o j.recs
  BY <1>1, <1>2 DEF Records, TypesInv, Idle
<1>4. JudgedWell(x, j)
  BY <1>2, <1>3 DEF Called
<1>5. PICK n : n = IF (\E r \in Range(j.recs) : r.guard.action = "deny") /\ j.vendor = EditorOf[x.session]
                   THEN "yes" ELSE x.denied
  OBVIOUS
<1>6. PICK y : y = [x EXCEPT !.judged = <<>>, !.todo = @ \ {j.cmd}, !.denied = n]
  OBVIOUS
<1>7. slot' = [slot EXCEPT ![i].judged = <<>>, ![i].todo = @ \ {j.cmd}, ![i].denied = n]
  BY <1>1, <1>2, <1>5 DEF Records
<1>8. slot' = [slot EXCEPT ![i] = y]
  BY <1>1, <1>6, <1>7 DEF TypesInv
<1>9. x = [at |-> x.at, session |-> x.session, call |-> x.call, phase |-> x.phase, todo |-> x.todo,
           judged |-> x.judged, denied |-> x.denied, steady |-> x.steady, guarded |-> x.guarded]
  BY <1>3 DEF Called
<1>10. y = [at |-> x.at, session |-> x.session, call |-> x.call, phase |-> x.phase, todo |-> x.todo \ {j.cmd},
            judged |-> <<>>, denied |-> n, steady |-> x.steady, guarded |-> x.guarded]
  BY <1>6, <1>9
<1>11. Called(y)
  BY <1>3, <1>5, <1>10 DEF Called, YesNo
<1>12. y.denied = "no" => /\ x.denied = "no"
                          /\ \A k \in DOMAIN j.recs : j.recs[k].guard.action # "deny"
  <2>1. j.vendor = EditorOf[x.session]
    BY <1>4 DEF JudgedWell
  <2> QED
    BY <1>5, <1>10, <2>1 DEF Range
<1>13. Through(i, x, j, y) /\ y.guarded = x.guarded
  BY <1>1, <1>2, <1>3, <1>4, <1>8, <1>10, <1>11 DEF Through
<1> QED
  BY <1>3, <1>12, <1>13

LEMMA FailsSlot ==
  ASSUME TypesInv, NEW i \in Slots, HookFails(i)
  PROVE  \E x, j, y : /\ Through(i, x, j, y) /\ y.guarded = "no"
                      /\ \/ log' \in {log, Append(log, Degraded)} /\ heard' = heard
                         \/ log' = log \o j.recs /\ heard' = heard \cup Named(x.call)
                      /\ skewed' = skewed \cup {x.session}
<1>1. PICK x : x = slot[i]
  OBVIOUS
<1>2. PICK j : j = x.judged[1]
  OBVIOUS
<1>3. /\ x.at = "pre" /\ x.judged # <<>> /\ Called(x)
      /\ \/ log' \in {log, Append(log, Degraded)} /\ heard' = heard
         \/ log' = log \o j.recs /\ heard' = heard \cup Named(x.call)
      /\ skewed' = skewed \cup {x.session}
  BY <1>1, <1>2 DEF HookFails, TypesInv, Idle
<1>4. JudgedWell(x, j)
  BY <1>2, <1>3 DEF Called
<1>5. PICK y : y = [x EXCEPT !.judged = <<>>, !.todo = @ \ {j.cmd}, !.guarded = "no"]
  OBVIOUS
<1>6. slot' = [slot EXCEPT ![i].judged = <<>>, ![i].todo = @ \ {j.cmd}, ![i].guarded = "no"]
  BY <1>1, <1>2 DEF HookFails
<1>7. slot' = [slot EXCEPT ![i] = y]
  BY <1>1, <1>5, <1>6 DEF TypesInv
<1>8. x = [at |-> x.at, session |-> x.session, call |-> x.call, phase |-> x.phase, todo |-> x.todo,
           judged |-> x.judged, denied |-> x.denied, steady |-> x.steady, guarded |-> x.guarded]
  BY <1>3 DEF Called
<1>9. y = [at |-> x.at, session |-> x.session, call |-> x.call, phase |-> x.phase, todo |-> x.todo \ {j.cmd},
            judged |-> <<>>, denied |-> x.denied, steady |-> x.steady, guarded |-> "no"]
  BY <1>5, <1>8
<1>10. Called(y)
  BY <1>3, <1>9 DEF Called, YesNo
<1>11. Through(i, x, j, y) /\ y.guarded = "no"
  BY <1>1, <1>2, <1>3, <1>4, <1>7, <1>9, <1>10 DEF Through
<1> QED
  BY <1>3, <1>11

LEMMA GoesSlot ==
  ASSUME TypesInv, WiringInv, NEW i \in Slots, Answered(i), NEW ph \in {"post", "fail", "denied"}, Goes(i, ph)
  PROVE  \E x, y : GoesOn(i, x, y, ph)
<1>1. PICK x : x = slot[i]
  OBVIOUS
<1>2. Called(x) /\ x.judged = <<>> /\ x.at = "pre" /\ x.todo = {}
  BY <1>1, AnsweredSlot DEF Answered
<1>3. PICK todo : todo = Starts(EditorOf[x.session], ph, x.call.tool)
  OBVIOUS
<1>4. PICK y : y = IF todo = {} THEN Idle ELSE [x EXCEPT !.at = "post", !.phase = ph, !.todo = todo]
  OBVIOUS
<1>5. slot' = [slot EXCEPT ![i] = y]
  BY <1>1, <1>3, <1>4 DEF Goes
<1>6. CASE todo # {}
  <2>1. x = [at |-> x.at, session |-> x.session, call |-> x.call, phase |-> x.phase, todo |-> x.todo,
             judged |-> x.judged, denied |-> x.denied, steady |-> x.steady, guarded |-> x.guarded]
    BY <1>2 DEF Called
  <2>2. y = [at |-> "post", session |-> x.session, call |-> x.call, phase |-> ph, todo |-> todo,
             judged |-> x.judged, denied |-> x.denied, steady |-> x.steady, guarded |-> x.guarded]
    BY <1>4, <1>6, <2>1
  <2>3. PICK u \in Uses : u = <<x.session, x.call>>
    BY <1>2 DEF Called
  <2>4. x.session \in Sessions
    BY <2>3, CallKinds
  <2>5. Wired(EditorOf[x.session], settings[EditorOf[x.session]])
    BY <2>4 DEF Editors, WiringInv, Settled
  <2>6. todo \subseteq OursOf(EditorOf[x.session])
    BY <1>3, <2>5, StartsOurs DEF Events
  <2>7. Called(y)
    BY <1>2, <1>6, <2>2, <2>6 DEF Called
  <2>8. GoesOn(i, x, y, ph)
    BY <1>1, <1>2, <1>3, <1>5, <2>2, <2>7 DEF GoesOn
  <2> QED
    BY <2>8
<1>7. CASE todo = {}
  <2>1. GoesOn(i, x, y, ph)
    BY <1>1, <1>2, <1>4, <1>5, <1>7 DEF GoesOn
  <2> QED
    BY <2>1
<1> QED
  BY <1>6, <1>7

LEMMA AfterSlot ==
  ASSUME TypesInv, NEW i \in Slots, RecordsAfter(i)
  PROVE  \E x, cmd, y, recs :
            /\ Afterwards(i, x, cmd, y) /\ Tells(recs, x.session, x.phase, x.call)
            /\ \/ /\ log' = log \o recs /\ heard' = heard \cup Named(x.call)
                  /\ since' = IF \E r \in Range(recs) : Changes(r)
                              THEN [since EXCEPT ![x.session] = <<>>] ELSE since
                  /\ skewed' = skewed
               \/ /\ log' \in {log, Append(log, Degraded)}
                  /\ skewed' = skewed \cup {x.session} /\ heard' = heard /\ since' = since
<1>1. PICK x : x = slot[i]
  OBVIOUS
<1>2. x.at = "post" /\ Called(x)
  BY <1>1 DEF RecordsAfter, TypesInv, Idle
<1>3. PICK cmd \in x.todo :
         LET recs == Recs(x.session, x.phase, cmd, x.call)
         IN  /\ slot' = [slot EXCEPT ![i] =
                    IF x.todo = {cmd} THEN Idle ELSE [x EXCEPT !.todo = @ \ {cmd}]]
             /\ \/ /\ log' = log \o recs /\ heard' = heard \cup Named(x.call)
                   /\ since' = IF \E r \in Range(recs) : Changes(r)
                               THEN [since EXCEPT ![x.session] = <<>>] ELSE since
                   /\ UNCHANGED <<skewed, upsets>>
                \/ /\ recs # <<>> /\ Upset /\ log' \in {log, Append(log, Degraded)}
                   /\ skewed' = skewed \cup {x.session} /\ UNCHANGED <<heard, since>>
  BY <1>1 DEF RecordsAfter
<1>4. PICK recs : recs = Recs(x.session, x.phase, cmd, x.call)
  OBVIOUS
<1>5. PICK u \in Uses : u = <<x.session, x.call>>
  BY <1>2 DEF Called
<1>6. u[1] = x.session /\ u[2] = x.call
  BY <1>5
<1>7. cmd[3] \in {"auto", EditorOf[x.session]}
  BY <1>2, <1>3, OursNamed DEF Called
<1>8. recs = Fresh(u[1], x.phase, u[2])
  BY <1>4, <1>6, <1>7, RecsAreFresh
<1>9. Tells(recs, x.session, x.phase, x.call)
  BY <1>6, <1>8, FreshTells
<1>10. PICK y : y = IF x.todo = {cmd} THEN Idle ELSE [x EXCEPT !.todo = @ \ {cmd}]
  OBVIOUS
<1>11. slot' = [slot EXCEPT ![i] = y]
  <2>1. slot' = [slot EXCEPT ![i] = IF x.todo = {cmd} THEN Idle ELSE [x EXCEPT !.todo = @ \ {cmd}]]
    BY <1>3
  <2> QED
    BY <1>10, <2>1
<1>12. Afterwards(i, x, cmd, y)
  <2>1. CASE x.todo = {cmd}
    BY <1>1, <1>2, <1>3, <1>10, <1>11, <2>1 DEF Afterwards
  <2>2. CASE x.todo # {cmd}
    <3>1. x = [at |-> x.at, session |-> x.session, call |-> x.call, phase |-> x.phase, todo |-> x.todo,
               judged |-> x.judged, denied |-> x.denied, steady |-> x.steady, guarded |-> x.guarded]
      BY <1>2 DEF Called
    <3>2. y = [at |-> x.at, session |-> x.session, call |-> x.call, phase |-> x.phase, todo |-> x.todo \ {cmd},
               judged |-> x.judged, denied |-> x.denied, steady |-> x.steady, guarded |-> x.guarded]
      BY <1>10, <2>2, <3>1
    <3>3. y.todo # {}
      BY <1>3, <2>2, <3>2
    <3>4. Called(y)
      BY <1>2, <3>2, <3>3 DEF Called
    <3> QED
      BY <1>1, <1>2, <1>3, <1>11, <3>2, <3>3, <3>4 DEF Afterwards
  <2> QED
    BY <2>1, <2>2
<1>13. \/ /\ log' = log \o recs /\ heard' = heard \cup Named(x.call)
          /\ since' = IF \E r \in Range(recs) : Changes(r)
                      THEN [since EXCEPT ![x.session] = <<>>] ELSE since
          /\ skewed' = skewed
       \/ /\ log' \in {log, Append(log, Degraded)}
          /\ skewed' = skewed \cup {x.session} /\ heard' = heard /\ since' = since
  BY <1>3, <1>4
<1> QED
  BY <1>9, <1>12, <1>13

LEMMA LogStaysASeq ==
  ASSUME IsList(log), NEW recs, IsList(recs),
         log' = log \/ log' = Append(log, Degraded) \/ log' = log \o recs
  PROVE  IsList(log')
<1>1. CASE log' = Append(log, Degraded)
  <2>1. PICK t : t = <<Degraded>>
    OBVIOUS
  <2>2. IsList(t) /\ log' = log \o t
    BY <1>1, <2>1, OneIsList, JoinOne
  <2>3. PICK l : l = log'
    OBVIOUS
  <2>4. IsList(l)
    BY <2>2, <2>3, ConcatShape DEF Joined
  <2> QED
    BY <2>3, <2>4
<1>2. CASE log' = log \o recs
  <2>1. PICK l : l = log'
    OBVIOUS
  <2>2. IsList(l)
    BY <1>2, <2>1, ConcatShape DEF Joined
  <2> QED
    BY <2>1, <2>2
<1> QED
  BY <1>1, <1>2

LEMMA TypesAgain ==
  ASSUME TypesInv, rules' \in Rules, IsList(log'), changed' \subseteq Paths, NEW i \in Slots, NEW y,
         slot' = [slot EXCEPT ![i] = y], y = Idle \/ Called(y)
  PROVE  TypesInv'
<1>1. slot = [j \in Slots |-> slot[j]]
  BY DEF TypesInv
<1>2. /\ slot' = [j \in Slots |-> slot'[j]] /\ slot'[i] = y
      /\ \A j \in Slots : j # i => slot'[j] = slot[j]
  BY <1>1, SlotChanges
<1>3. ASSUME NEW j \in Slots PROVE slot'[j] = Idle \/ Called(slot'[j])
  BY <1>2 DEF TypesInv
<1>4. \A x : (x = Idle \/ Called(x)) => (x = Idle' \/ Called(x)')
  BY DEF Idle, Called, JudgedWell, Tells
<1> QED
  BY <1>2, <1>3, <1>4 DEF TypesInv

LEMMA TypesNext ==
  ASSUME TypesInv, WiringInv, [Next]_vars
  PROVE  TypesInv'
<1>0. rules \in Rules /\ IsList(log) /\ changed \subseteq Paths
  BY DEF TypesInv
<1>1. CASE UNCHANGED <<rules, log, changed, slot>>
  BY <1>1 DEF TypesInv, Called, JudgedWell, Tells, Idle
<1>2. CASE UNCHANGED vars
  BY <1>1, <1>2 DEF vars
<1>3. ASSUME NEW i \in Slots, NEW u \in Uses, Asks(i, u) PROVE TypesInv'
  <2>1. PICK y : Asked(i, u, y)
    BY <1>3, AsksSlot
  <2>2. slot' = [slot EXCEPT ![i] = y] /\ Called(y)
    BY <2>1 DEF Asked
  <2>3. rules' = rules /\ log' = log /\ changed' = changed
    BY <1>3 DEF Asks
  <2> QED
    BY <1>0, <2>2, <2>3, TypesAgain
<1>4. ASSUME NEW i \in Slots, Judges(i) PROVE TypesInv'
  <2>1. PICK x, j, y : Judged(i, x, j, y)
    BY <1>4, JudgesSlot
  <2>2. slot' = [slot EXCEPT ![i] = y] /\ Called(y)
    BY <2>1 DEF Judged
  <2>3. rules' = rules /\ log' = log /\ changed' = changed
    BY <1>4 DEF Judges
  <2> QED
    BY <1>0, <2>2, <2>3, TypesAgain
<1>5. ASSUME NEW i \in Slots, Records(i) \/ HookFails(i) PROVE TypesInv'
  <2>1. PICK x, j, y : /\ Through(i, x, j, y)
                       /\ log' = log \/ log' = Append(log, Degraded) \/ log' = log \o j.recs
    <3>1. CASE Records(i)
      BY <3>1, RecordsSlot
    <3>2. CASE HookFails(i)
      BY <3>2, FailsSlot
    <3> QED
      BY <1>5, <3>1, <3>2
  <2>2. slot' = [slot EXCEPT ![i] = y] /\ Called(y) /\ JudgedWell(x, j)
    BY <2>1 DEF Through
  <2>3. rules' = rules /\ changed' = changed
    BY <1>5 DEF Records, HookFails
  <2>4. PICK recs : recs = j.recs
    OBVIOUS
  <2>5. IsList(recs)
    BY <2>2, <2>4 DEF JudgedWell, Tells
  <2>6. log' = log \/ log' = Append(log, Degraded) \/ log' = log \o recs
    BY <2>1, <2>4
  <2>7. IsList(log')
    BY <1>0, <2>5, <2>6, LogStaysASeq
  <2> QED
    BY <1>0, <2>2, <2>3, <2>7, TypesAgain
<1>6. ASSUME NEW i \in Slots, Refuses(i) PROVE TypesInv'
  <2>1. PICK y : y = Idle
    OBVIOUS
  <2>2. slot' = [slot EXCEPT ![i] = y]
    BY <1>6, <2>1 DEF Refuses
  <2>3. rules' = rules /\ log' = log /\ changed' = changed
    BY <1>6 DEF Refuses
  <2> QED
    BY <1>0, <2>1, <2>2, <2>3, TypesAgain
<1>7. ASSUME NEW i \in Slots, Runs(i) \/ RunsInVain(i) PROVE TypesInv'
  <2>1. PICK ph \in {"post", "fail", "denied"} : Answered(i) /\ Goes(i, ph)
    BY <1>7 DEF Runs, RunsInVain
  <2>2. PICK x, y : GoesOn(i, x, y, ph)
    BY <2>1, GoesSlot
  <2>3. slot' = [slot EXCEPT ![i] = y] /\ (y = Idle \/ Called(y)) /\ x = slot[i] /\ Called(x)
    BY <2>2 DEF GoesOn
  <2>4. rules' = rules /\ log' = log
    BY <2>1 DEF Goes
  <2>5. Effects(x.call) \subseteq Paths
    <3>1. PICK u \in Uses : u = <<x.session, x.call>>
      BY <2>3 DEF Called
    <3>2. PICK c : c = u[2]
      OBVIOUS
    <3>3. Effects(c) \subseteq Paths
      BY <3>2, OpsTold DEF Telling
    <3> QED
      BY <3>1, <3>2, <3>3
  <2>6. changed' \subseteq Paths
    BY <1>0, <1>7, <2>3, <2>5 DEF Runs, RunsInVain
  <2> QED
    BY <1>0, <2>3, <2>4, <2>6, TypesAgain
<1>8. ASSUME NEW i \in Slots, RecordsAfter(i) PROVE TypesInv'
  <2>1. PICK x, cmd, y, recs :
           /\ Afterwards(i, x, cmd, y) /\ Tells(recs, x.session, x.phase, x.call)
           /\ log' = log \/ log' = Append(log, Degraded) \/ log' = log \o recs
    BY <1>8, AfterSlot
  <2>2. slot' = [slot EXCEPT ![i] = y] /\ (y = Idle \/ Called(y)) /\ IsList(recs)
    BY <2>1 DEF Afterwards, Tells
  <2>3. rules' = rules /\ changed' = changed
    BY <1>8 DEF RecordsAfter
  <2>4. IsList(log')
    BY <1>0, <2>1, <2>2, LogStaysASeq
  <2> QED
    BY <1>0, <2>2, <2>3, <2>4, TypesAgain
<1>9. CASE RulesChange
  <2>1. rules' \in Rules /\ log' = log /\ changed' = changed
    BY <1>9 DEF RulesChange
  <2>2. slot' = [i \in Slots |-> IF Busy(i) THEN [slot[i] EXCEPT !.steady = "no"] ELSE slot[i]]
    BY <1>9 DEF RulesChange
  <2>3. ASSUME NEW i \in Slots PROVE slot'[i] = Idle \/ Called(slot'[i])
    <3>1. PICK x : x = slot[i]
      OBVIOUS
    <3>2. CASE x.at = "idle"
      <4>1. slot'[i] = x
        BY <2>2, <3>1, <3>2 DEF Busy
      <4> QED
        BY <3>1, <3>2, <4>1 DEF TypesInv, Called
    <3>3. CASE x.at # "idle"
      <4>1. Called(x)
        BY <3>1, <3>3 DEF TypesInv, Idle
      <4>2. slot'[i] = [x EXCEPT !.steady = "no"]
        BY <2>2, <3>1, <3>3 DEF Busy
      <4>3. PICK y : y = slot'[i]
        OBVIOUS
      <4>4. x = [at |-> x.at, session |-> x.session, call |-> x.call, phase |-> x.phase, todo |-> x.todo,
                 judged |-> x.judged, denied |-> x.denied, steady |-> x.steady, guarded |-> x.guarded]
        BY <4>1 DEF Called
      <4>5. y = [at |-> x.at, session |-> x.session, call |-> x.call, phase |-> x.phase, todo |-> x.todo,
                 judged |-> x.judged, denied |-> x.denied, steady |-> "no", guarded |-> x.guarded]
        BY <4>2, <4>3, <4>4
      <4>6. JudgedWell(x, x.judged[1]) => JudgedWell(y, y.judged[1])
        BY <4>5 DEF JudgedWell
      <4>7. Called(y)
        BY <4>1, <4>5, <4>6 DEF Called, YesNo
      <4> QED
        BY <4>3, <4>7
    <3> QED
      BY <3>2, <3>3
  <2>4. slot' = [i \in Slots |-> slot'[i]]
    BY <2>2
  <2> QED
    BY <1>0, <2>1, <2>3, <2>4 DEF TypesInv, Called, JudgedWell, Tells, Idle
<1>10. CASE ResetsLog \/ Commits
  <2>1. rules' = rules /\ slot' = slot /\ changed' \subseteq changed /\ (log' = log \/ log' = <<>>)
    BY <1>10 DEF ResetsLog, Commits
  <2>2. IsList(log')
    BY <1>0, <2>1, EmptyIsList
  <2> QED
    BY <1>0, <2>1, <2>2 DEF TypesInv, Called, JudgedWell, Tells, Idle
<1>11. CASE Install \/ InstallCursor
  BY <1>1, <1>11 DEF Install, InstallCursor, Installs
<1>12. ASSUME NEW e \in Editors, Uninstall(e) \/ \E h \in HandMade : HandWires(e, h[2]) PROVE TypesInv'
  BY <1>1, <1>12 DEF Uninstall, HandWires
<1> QED
  BY <1>2, <1>3, <1>4, <1>5, <1>6, <1>7, <1>8, <1>9, <1>10, <1>11, <1>12 DEF Next

LEMMA TypesInit ==
  ASSUME Init
  PROVE  TypesInv
BY EmptyIsList DEF Init, TypesInv

-----------------------------------------------------------------------------
(* What is forbidden is refused                                            *)

LEMMA VerdictDenies ==
  ASSUME NEW p, Blocks(p), NEW rule
  PROVE  Verdict(p, rule).action = "deny"
BY DEF Verdict

\* An action of a forbidden class, or a change of a forbidden path.
LEMMA GuardDenies ==
  ASSUME NEW r, NEW s, NEW p, p = LoadPolicy(rules.policy), Blocks(p),
         \/ ActionClass(r) # Null /\ ActionClass(r) \in p.forbidActions
         \/ /\ r.op \in {"write", "delete"}
            /\ r.path \in p.forbidAlways \cup DeniedPaths(rules.contract)
  PROVE  Judgement(r, s).action = "deny"
<1>1. PICK v : v = EvalGuard(r, rules.policy, rules.contract)
  OBVIOUS
<1>2. p # Null
  BY DEF Blocks
<1>3. ForbidAlways(p) = p.forbidAlways
  BY <1>2 DEF ForbidAlways
<1>4. \/ v = Verdict(p, <<"policy.forbid_actions", ActionClass(r)>>)
      \/ v = Verdict(p, <<"contract.denied_paths", r.path>>)
      \/ v = Verdict(p, <<"policy.forbidAlways", r.path>>)
  BY <1>1, <1>2, <1>3 DEF EvalGuard
<1>5. v.action = "deny"
  BY <1>4, VerdictDenies
<1>6. Judgement(r, s) = v
  BY <1>1, <1>5 DEF Judgement
<1> QED
  BY <1>5, <1>6

LEMMA ForbiddenIsDenied ==
  ASSUME rules \in Rules, NEW u \in Uses, Forbidden(u[2]), NEW fresh, fresh = Fresh(u[1], "pre", u[2])
  PROVE  \E k \in DOMAIN fresh : Judgement(fresh[k], u[1]).action = "deny"
<1>1. PICK c : c = u[2]
  OBVIOUS
<1>2. PICK p : p = LoadPolicy(rules.policy)
  OBVIOUS
<1>3. PICK s : s = u[1]
  OBVIOUS
<1>4. p # Null /\ Blocks(p)
  BY <1>1, <1>2 DEF Forbidden, Blocks
<1>5. Null \notin p.forbidActions
  BY <1>2, <1>4, GuardingAssumption DEF LoadPolicy
<1>6. PICK o : o = OpsOf(c)
  OBVIOUS
<1>7. DOMAIN fresh = DOMAIN o /\ \A k \in DOMAIN o : fresh[k] = RecordOf(s, "pre", c, o[k])
  BY <1>1, <1>3, <1>6 DEF Fresh
<1>8. ASSUME NEW k \in DOMAIN o,
             \/ o[k].op = "network" /\ "network" \in p.forbidActions
             \/ o[k].op = "command" /\ o[k].kind \in p.forbidActions
             \/ /\ o[k].op \in {"write", "delete"}
                /\ o[k].path \in p.forbidAlways \cup DeniedPaths(rules.contract)
      PROVE  \E l \in DOMAIN fresh : Judgement(fresh[l], s).action = "deny"
  <2>1. PICK r : r = fresh[k]
    OBVIOUS
  <2>2. r.op = o[k].op /\ r.path = o[k].path /\ r.kind = o[k].kind
    <3>1. r = RecordOf(s, "pre", c, o[k])
      BY <1>7, <2>1
    <3> QED
      BY <3>1 DEF RecordOf
  <2>3. \/ ActionClass(r) # Null /\ ActionClass(r) \in p.forbidActions
        \/ /\ r.op \in {"write", "delete"}
           /\ r.path \in p.forbidAlways \cup DeniedPaths(rules.contract)
    <3>1. CASE o[k].op = "network" /\ "network" \in p.forbidActions
      BY <1>5, <2>2, <3>1 DEF ActionClass
    <3>2. CASE o[k].op = "command" /\ o[k].kind \in p.forbidActions
      BY <1>5, <2>2, <3>2 DEF ActionClass
    <3> QED
      BY <1>8, <2>2, <3>1, <3>2
  <2>4. Judgement(r, s).action = "deny"
    BY <1>2, <1>4, <2>3, GuardDenies
  <2> QED
    BY <1>7, <2>1, <2>4
<1>9. ASSUME NEW q, o = <<q>> PROVE 1 \in DOMAIN o /\ o[1] = q
  BY <1>9, OneIsList
<1>10. PICK class : class = IF c.tool \in {"WebFetch", "WebSearch"} THEN "network"
                 ELSE IF c.tool \notin Shells THEN Null
                 ELSE IF c.target.net THEN "network"
                 ELSE IF c.target.dels # <<>> THEN Null ELSE c.target.kind
  OBVIOUS
<1>11. \/ class \in p.forbidActions
       \/ c.tool \notin Readers /\ Named(c) \cap (p.forbidAlways \cup DeniedPaths(rules.contract)) # {}
  BY <1>1, <1>2, <1>10 DEF Forbidden
<1>12. CASE class \in p.forbidActions
  <2>1. CASE class = "network" /\ Online(c)
    <3>1. o = <<Op("network", Null, Null, Null)>>
      BY <1>6, <2>1, OpsAre
    <3>2. 1 \in DOMAIN o /\ o[1].op = "network"
      BY <1>9, <3>1 DEF Op
    <3> QED
      BY <1>3, <1>8, <1>12, <2>1, <3>2
  <2>2. CASE class = c.target.kind /\ Plain(c)
    <3>1. o = <<Op("command", Null, c.target.id, c.target.kind)>>
      BY <1>6, <2>2, OpsAre
    <3>2. 1 \in DOMAIN o /\ o[1].op = "command" /\ o[1].kind = c.target.kind
      BY <1>9, <3>1 DEF Op
    <3> QED
      BY <1>3, <1>8, <1>12, <2>2, <3>2
  <2>3. class # Null
    BY <1>5, <1>12
  <2>4. (class = "network" /\ Online(c)) \/ (class = c.target.kind /\ Plain(c))
    BY <1>10, <2>3 DEF Online, Plain
  <2> QED
    BY <2>1, <2>2, <2>4
<1>13. CASE c.tool \notin Readers /\ Named(c) \cap (p.forbidAlways \cup DeniedPaths(rules.contract)) # {}
  <2>1. PICK q \in Named(c) : q \in p.forbidAlways \cup DeniedPaths(rules.contract)
    BY <1>13
  <2>2. Altering(c)
    BY <1>13 DEF Altering
  <2>3. Named(c) \subseteq Paths
    BY <1>1, OpsTold DEF Telling
  <2>4. PICK k \in DOMAIN OpsOf(c) : OpsOf(c)[k].path = q
    BY <1>1, <2>1, <2>3, OpsTold DEF Telling
  <2>5. OpsOf(c)[k].op \in {"write", "delete"}
    BY <1>1, <2>2, OpsTold DEF Telling
  <2> QED
    BY <1>3, <1>6, <1>8, <2>1, <2>4, <2>5
<1> QED
  BY <1>11, <1>12, <1>13

-----------------------------------------------------------------------------
(* Refusals: the invariant                                                 *)

\* A call the rules forbid stays on its way to a refusal, judged or not, and what
\* is changed against rules in block mode got there without them.
Held(x) ==
    (x.at = "pre" /\ x.steady = "yes" /\ Forbidden(x.call)) =>
       /\ x.judged # <<>> => \E k \in DOMAIN x.judged[1].recs : x.judged[1].recs[k].guard.action = "deny"
       /\ (x.guarded = "yes" /\ x.denied = "no") => x.todo # {}
Firm(p) == Blocks(p) => changed \cap p.forbidAlways \subseteq loose
BlockInv ==
    /\ \A i \in Slots : Held(slot[i])
    /\ Firm(LoadPolicy(rules.policy))

LEMMA HeldAgain ==
  ASSUME TypesInv, BlockInv, rules' = rules, NEW i \in Slots, NEW y, slot' = [slot EXCEPT ![i] = y], Held(y)
  PROVE  \A j \in Slots : Held(slot[j])'
<1>1. slot = [j \in Slots |-> slot[j]]
  BY DEF TypesInv
<1>2. slot'[i] = y /\ \A j \in Slots : j # i => slot'[j] = slot[j]
  BY <1>1, SlotChanges
<1>3. \A j \in Slots : Held(slot'[j])
  BY <1>2 DEF BlockInv
<1> QED
  BY <1>2, <1>3 DEF Held, Forbidden

\* Rules that stand still go on holding.
LEMMA FirmAgain ==
  ASSUME BlockInv, rules' = rules, changed' \subseteq changed, loose \subseteq loose'
  PROVE  Firm(LoadPolicy(rules.policy))'
BY DEF BlockInv, Firm, Blocks

LEMMA BlockNext ==
  ASSUME TypesInv, WiringInv, BlockInv, [Next]_vars
  PROVE  BlockInv'
<1>1. CASE UNCHANGED <<rules, changed, slot, loose>>
  BY <1>1 DEF BlockInv, Held, Forbidden, Firm
<1>2. CASE UNCHANGED vars
  BY <1>1, <1>2 DEF vars
<1>3. ASSUME NEW i \in Slots, NEW u \in Uses, Asks(i, u) PROVE BlockInv'
  <2>1. PICK y : Asked(i, u, y)
    BY <1>3, AsksSlot
  <2>2. slot' = [slot EXCEPT ![i] = y] /\ Held(y)
    BY <2>1 DEF Asked, Held
  <2>3. rules' = rules /\ changed' = changed /\ loose' = loose
    BY <1>3 DEF Asks
  <2>4. \A j \in Slots : Held(slot[j])'
    BY <2>2, <2>3, HeldAgain
  <2>5. Firm(LoadPolicy(rules.policy))'
    BY <2>3, FirmAgain
  <2> QED
    BY <2>4, <2>5 DEF BlockInv
<1>4. ASSUME NEW i \in Slots, Judges(i) PROVE BlockInv'
  <2>1. PICK x, j, y : Judged(i, x, j, y)
    BY <1>4, JudgesSlot
  <2>2. /\ slot' = [slot EXCEPT ![i] = y] /\ x = slot[i] /\ Called(x) /\ y = [x EXCEPT !.judged = <<j>>]
        /\ JudgedWell(x, j) /\ DOMAIN j.recs = DOMAIN Fresh(x.session, "pre", x.call)
        /\ \A k \in DOMAIN j.recs :
              j.recs[k].guard = Judgement(Fresh(x.session, "pre", x.call)[k], x.session)
    BY <2>1 DEF Judged
  <2>3. rules' = rules /\ changed' = changed /\ loose' = loose
    BY <1>4 DEF Judges
  <2>4. /\ y.at = x.at /\ y.steady = x.steady /\ y.call = x.call /\ y.judged = <<j>>
        /\ y.todo = x.todo /\ j.cmd \in x.todo
    <3>1. x = [at |-> x.at, session |-> x.session, call |-> x.call, phase |-> x.phase, todo |-> x.todo,
               judged |-> x.judged, denied |-> x.denied, steady |-> x.steady, guarded |-> x.guarded]
      BY <2>2 DEF Called
    <3> QED
      BY <2>2, <3>1 DEF JudgedWell
  <2>5. Forbidden(x.call) => \E k \in DOMAIN j.recs : j.recs[k].guard.action = "deny"
    <3>1. PICK u \in Uses : u = <<x.session, x.call>>
      BY <2>2 DEF Called
    <3>2. u[1] = x.session /\ u[2] = x.call
      BY <3>1
    <3>3. PICK fresh : fresh = Fresh(u[1], "pre", u[2])
      OBVIOUS
    <3>4. rules \in Rules
      BY DEF TypesInv
    <3>5. Forbidden(u[2]) => \E k \in DOMAIN fresh : Judgement(fresh[k], u[1]).action = "deny"
      BY <3>3, <3>4, ForbiddenIsDenied
    <3> QED
      BY <2>2, <3>2, <3>3, <3>5
  <2>6. Held(y)
    BY <2>4, <2>5 DEF Held
  <2>7. \A k \in Slots : Held(slot[k])'
    BY <2>2, <2>3, <2>6, HeldAgain
  <2>8. Firm(LoadPolicy(rules.policy))'
    BY <2>3, FirmAgain
  <2> QED
    BY <2>7, <2>8 DEF BlockInv
<1>5. ASSUME NEW i \in Slots, Records(i) \/ HookFails(i) PROVE BlockInv'
  <2>1. PICK x, j, y : /\ Through(i, x, j, y)
                       /\ \/ y.guarded = "no"
                          \/ y.denied = "no" => \A k \in DOMAIN j.recs : j.recs[k].guard.action # "deny"
    <3>1. CASE Records(i)
      <4>1. PICK x, j, y : /\ Through(i, x, j, y) /\ y.guarded = x.guarded /\ log' = log \o j.recs
                           /\ y.denied = "no" => /\ x.denied = "no"
                                                 /\ \A k \in DOMAIN j.recs : j.recs[k].guard.action # "deny"
        BY <3>1, RecordsSlot
      <4> QED
        BY <4>1
    <3>2. CASE HookFails(i)
      <4>1. PICK x, j, y : Through(i, x, j, y) /\ y.guarded = "no"
        BY <3>2, FailsSlot
      <4> QED
        BY <4>1
    <3> QED
      BY <1>5, <3>1, <3>2
  <2>2. /\ slot' = [slot EXCEPT ![i] = y] /\ x = slot[i] /\ x.at = "pre" /\ x.judged # <<>> /\ j = x.judged[1]
        /\ y.call = x.call /\ y.steady = x.steady /\ y.judged = <<>>
    BY <2>1 DEF Through
  <2>3. Held(x)
    BY <2>2 DEF BlockInv
  <2>4. Held(y)
    BY <2>1, <2>2, <2>3 DEF Held
  <2>5. rules' = rules /\ changed' = changed /\ loose' = loose
    BY <1>5 DEF Records, HookFails
  <2>6. \A k \in Slots : Held(slot[k])'
    BY <2>2, <2>4, <2>5, HeldAgain
  <2>7. Firm(LoadPolicy(rules.policy))'
    BY <2>5, FirmAgain
  <2> QED
    BY <2>6, <2>7 DEF BlockInv
<1>6. ASSUME NEW i \in Slots, Refuses(i) PROVE BlockInv'
  <2>1. PICK y : y = Idle
    OBVIOUS
  <2>2. slot' = [slot EXCEPT ![i] = y] /\ Held(y)
    BY <1>6, <2>1 DEF Refuses, Held, Idle
  <2>3. rules' = rules /\ changed' = changed /\ loose' = loose
    BY <1>6 DEF Refuses
  <2>4. \A j \in Slots : Held(slot[j])'
    BY <2>2, <2>3, HeldAgain
  <2>5. Firm(LoadPolicy(rules.policy))'
    BY <2>3, FirmAgain
  <2> QED
    BY <2>4, <2>5 DEF BlockInv
<1>7. ASSUME NEW i \in Slots, Runs(i) \/ RunsInVain(i) PROVE BlockInv'
  <2>1. PICK ph \in {"post", "fail", "denied"} : Answered(i) /\ slot[i].denied = "no" /\ Goes(i, ph)
    BY <1>7 DEF Runs, RunsInVain
  <2>2. PICK x, y : GoesOn(i, x, y, ph)
    BY <2>1, GoesSlot
  <2>3. /\ slot' = [slot EXCEPT ![i] = y] /\ y.at # "pre" /\ x = slot[i] /\ Called(x)
        /\ x.at = "pre" /\ x.todo = {}
    BY <2>2 DEF GoesOn, Idle
  <2>4. rules' = rules /\ Held(y)
    BY <2>1, <2>3 DEF Goes, Held
  <2>5. \A j \in Slots : Held(slot[j])'
    BY <2>3, <2>4, HeldAgain
  <2>6. CASE RunsInVain(i)
    <3>1. changed' = changed /\ loose' = loose
      BY <2>6 DEF RunsInVain
    <3>2. Firm(LoadPolicy(rules.policy))'
      BY <2>4, <3>1, FirmAgain
    <3> QED
      BY <2>5, <3>2 DEF BlockInv
  <2>7. CASE Runs(i)
    <3>1. PICK c : c = x.call
      OBVIOUS
    <3>2. PICK p : p = LoadPolicy(rules.policy)
      OBVIOUS
    <3>3. /\ changed' = changed \cup Effects(c)
          /\ loose' = IF x.guarded = "yes" /\ x.steady = "yes" /\ Blocks(p)
                      THEN loose \cup (Effects(c) \ Named(c)) ELSE loose \cup Effects(c)
      BY <2>3, <2>7, <3>1, <3>2 DEF Runs
    <3>4. (x.guarded = "yes" /\ x.steady = "yes") => ~Forbidden(c)
      BY <2>1, <2>3, <3>1 DEF BlockInv, Held
    <3>5. Effects(c) = {} \/ c.tool \notin Readers
      BY DEF Effects, Readers, Writers, Shells
    <3>6. (Blocks(p) /\ ~Forbidden(c)) => Effects(c) \cap Named(c) \cap p.forbidAlways = {}
      BY <3>2, <3>5 DEF Forbidden, Blocks
    <3>7. Blocks(p) => changed \cap p.forbidAlways \subseteq loose
      BY <3>2 DEF BlockInv, Firm
    <3>8. Blocks(p) => changed' \cap p.forbidAlways \subseteq loose'
      <4>1. CASE x.guarded = "yes" /\ x.steady = "yes" /\ Blocks(p)
        BY <3>3, <3>4, <3>6, <3>7, <4>1
      <4>2. CASE ~(x.guarded = "yes" /\ x.steady = "yes" /\ Blocks(p))
        BY <3>3, <3>7, <4>2
      <4> QED
        BY <4>1, <4>2
    <3>9. p = LoadPolicy(rules.policy)'
      BY <2>4, <3>2
    <3>10. Firm(LoadPolicy(rules.policy))'
      BY <3>8, <3>9 DEF Firm, Blocks
    <3> QED
      BY <2>5, <3>10 DEF BlockInv
  <2> QED
    BY <1>7, <2>6, <2>7
<1>8. ASSUME NEW i \in Slots, RecordsAfter(i) PROVE BlockInv'
  <2>1. PICK x, cmd, y, recs : Afterwards(i, x, cmd, y)
    BY <1>8, AfterSlot
  <2>2. slot' = [slot EXCEPT ![i] = y] /\ y.at # "pre"
    BY <2>1 DEF Afterwards, Idle
  <2>3. rules' = rules /\ changed' = changed /\ loose' = loose
    BY <1>8 DEF RecordsAfter
  <2>4. Held(y)
    BY <2>2 DEF Held
  <2>5. \A j \in Slots : Held(slot[j])'
    BY <2>2, <2>3, <2>4, HeldAgain
  <2>6. Firm(LoadPolicy(rules.policy))'
    BY <2>3, FirmAgain
  <2> QED
    BY <2>5, <2>6 DEF BlockInv
<1>9. CASE RulesChange
  <2>1. loose' = loose \cup changed /\ changed' = changed
    BY <1>9 DEF RulesChange
  <2>2. slot' = [i \in Slots |-> IF Busy(i) THEN [slot[i] EXCEPT !.steady = "no"] ELSE slot[i]]
    BY <1>9 DEF RulesChange
  <2>3. ASSUME NEW i \in Slots PROVE ~(slot'[i].at = "pre" /\ slot'[i].steady = "yes")
    <3>1. PICK x : x = slot[i]
      OBVIOUS
    <3>2. CASE x.at = "idle"
      BY <2>2, <3>1, <3>2 DEF Busy
    <3>3. CASE x.at # "idle"
      <4>1. x = [at |-> x.at, session |-> x.session, call |-> x.call, phase |-> x.phase, todo |-> x.todo,
                 judged |-> x.judged, denied |-> x.denied, steady |-> x.steady, guarded |-> x.guarded]
        <5>1. Called(x)
          BY <3>1, <3>3 DEF TypesInv, Idle
        <5> QED
          BY <5>1 DEF Called
      <4>2. slot'[i] = [x EXCEPT !.steady = "no"]
        BY <2>2, <3>1, <3>3 DEF Busy
      <4> QED
        BY <4>1, <4>2
    <3> QED
      BY <3>2, <3>3
  <2>4. \A i \in Slots : Held(slot[i])'
    BY <2>3 DEF Held
  <2>5. Firm(LoadPolicy(rules.policy))'
    BY <2>1 DEF Firm
  <2> QED
    BY <2>4, <2>5 DEF BlockInv
<1>10. CASE ResetsLog \/ Commits
  <2>1. rules' = rules /\ slot' = slot /\ changed' \subseteq changed /\ loose' = loose
    BY <1>10 DEF ResetsLog, Commits
  <2>2. Firm(LoadPolicy(rules.policy))'
    BY <2>1, FirmAgain
  <2>3. \A i \in Slots : Held(slot[i])'
    BY <2>1 DEF BlockInv, Held, Forbidden
  <2> QED
    BY <2>2, <2>3 DEF BlockInv
<1>11. CASE Install \/ InstallCursor
  BY <1>1, <1>11 DEF Install, InstallCursor, Installs
<1>12. ASSUME NEW e \in Editors, Uninstall(e) \/ \E h \in HandMade : HandWires(e, h[2]) PROVE BlockInv'
  BY <1>1, <1>12 DEF Uninstall, HandWires
<1> QED
  BY <1>2, <1>3, <1>4, <1>5, <1>6, <1>7, <1>8, <1>9, <1>10, <1>11, <1>12 DEF Next

LEMMA BlockInit ==
  ASSUME Init
  PROVE  BlockInv
<1>1. \A i \in Slots : Held(slot[i])
  BY DEF Init, Held, Idle
<1>2. changed = {}
  BY DEF Init
<1> QED
  BY <1>1, <1>2 DEF BlockInv, Firm

LEMMA BlockIsHeld ==
  ASSUME TypesInv, BlockInv
  PROVE  BlockHolds
<1>1. ASSUME NEW i \in Slots, Answered(i), slot[i].guarded = "yes", slot[i].steady = "yes", Forbidden(slot[i].call)
      PROVE  slot[i].denied = "yes"
  <2>1. Held(slot[i]) /\ Called(slot[i])
    BY <1>1, AnsweredSlot DEF BlockInv
  <2> QED
    BY <1>1, <2>1 DEF Held, Answered, Called, YesNo
<1>2. ASSUME PolicyCheck(rules.policy, changed) = 1, rules.policy.guard = "block"
      PROVE  Tripwire(rules.policy, changed).obs.forbidAlwaysHits \subseteq loose
  <2>1. PICK p : p = rules.policy
    OBVIOUS
  <2>2. p \notin {Null, Broken} /\ p.guard = "block"
    BY <1>2, <2>1 DEF PolicyCheck
  <2>3. LoadPolicy(p) = p /\ Blocks(p)
    BY <2>2 DEF LoadPolicy, Blocks
  <2>4. changed \cap p.forbidAlways \subseteq loose
    BY <2>1, <2>3 DEF BlockInv, Firm
  <2>5. Tripwire(p, changed).obs.forbidAlwaysHits = changed \cap p.forbidAlways
    BY <2>2 DEF Tripwire, Observations
  <2> QED
    BY <2>1, <2>4, <2>5
<1> QED
  BY <1>1, <1>2 DEF BlockHolds

-----------------------------------------------------------------------------
(* What was heard is in the log                                            *)

Speaks(r, p) == r.op # "capture-degraded" /\ r.path = p
HeardIn(h, l) == \A p \in Paths : p \in h <=> \E k \in DOMAIN l : Speaks(l[k], p)

LEMMA HeardGrows ==
  ASSUME NEW l, NEW h, NEW l2, NEW h2, IsList(l), HeardIn(h, l), NEW recs, NEW s, NEW ph, NEW c, <<s, c>> \in Uses,
         Tells(recs, s, ph, c), l2 = l \o recs, h2 = h \cup Named(c)
  PROVE  HeardIn(h2, l2)
<1>1. IsList(recs)
  BY DEF Tells
<1>2. Len(l) \in Nat /\ DOMAIN l = 1 .. Len(l) /\ Len(recs) \in Nat /\ DOMAIN recs = 1 .. Len(recs)
  BY <1>1, SeqSpan
<1>3. /\ DOMAIN l2 = 1 .. Len(l) + Len(recs)
      /\ \A k \in 1 .. Len(l) : l2[k] = l[k]
      /\ \A k \in 1 .. Len(recs) : l2[Len(l) + k] = recs[k]
  BY <1>1, ConcatShape DEF Joined
<1>4. Telling(c)
  BY CallTells
<1>5. \A p \in Paths : p \in Named(c) <=> \E k \in DOMAIN recs : Speaks(recs[k], p)
  <2>1. /\ \A k \in DOMAIN OpsOf(c) : OpsOf(c)[k].op # "capture-degraded"
        /\ \A p \in Paths : p \in Named(c) <=> \E k \in DOMAIN OpsOf(c) : OpsOf(c)[k].path = p
    BY <1>4 DEF Telling
  <2>2. DOMAIN recs = DOMAIN OpsOf(c) /\ \A k \in DOMAIN recs : recs[k].op = OpsOf(c)[k].op /\ recs[k].path = OpsOf(c)[k].path
    BY DEF Tells
  <2> QED
    BY <2>1, <2>2 DEF Speaks
<1>6. ASSUME NEW p
      PROVE  (\E k \in DOMAIN l2 : Speaks(l2[k], p))
                <=> (\E k \in DOMAIN l : Speaks(l[k], p)) \/ (\E k \in DOMAIN recs : Speaks(recs[k], p))
  <2>1. ASSUME NEW k \in DOMAIN l2, Speaks(l2[k], p)
        PROVE  (\E m \in DOMAIN l : Speaks(l[m], p)) \/ (\E m \in DOMAIN recs : Speaks(recs[m], p))
    <3>1. CASE k \in 1 .. Len(l)
      BY <1>2, <1>3, <2>1, <3>1
    <3>2. CASE k \notin 1 .. Len(l)
      <4>1. k - Len(l) \in 1 .. Len(recs) /\ Len(l) + (k - Len(l)) = k
        BY <1>2, <1>3, <3>2
      <4>2. PICK m \in 1 .. Len(recs) : Len(l) + m = k
        BY <4>1
      <4>3. l2[k] = recs[m]
        BY <1>3, <4>2
      <4> QED
        BY <1>2, <2>1, <4>3
    <3> QED
      BY <3>1, <3>2
  <2>2. ASSUME NEW k \in DOMAIN l, Speaks(l[k], p) PROVE \E m \in DOMAIN l2 : Speaks(l2[m], p)
    <3>1. k \in DOMAIN l2 /\ l2[k] = l[k]
      BY <1>2, <1>3
    <3> QED
      BY <2>2, <3>1
  <2>3. ASSUME NEW k \in DOMAIN recs, Speaks(recs[k], p) PROVE \E m \in DOMAIN l2 : Speaks(l2[m], p)
    <3>1. Len(l) + k \in DOMAIN l2 /\ l2[Len(l) + k] = recs[k]
      BY <1>2, <1>3
    <3> QED
      BY <2>3, <3>1
  <2> QED
    BY <2>1, <2>2, <2>3
<1>7. ASSUME NEW p \in Paths PROVE p \in h2 <=> \E k \in DOMAIN l2 : Speaks(l2[k], p)
  <2>1. p \in h2 <=> p \in h \/ p \in Named(c)
    OBVIOUS
  <2>2. p \in h <=> \E k \in DOMAIN l : Speaks(l[k], p)
    BY DEF HeardIn
  <2> QED
    BY <1>5, <1>6, <2>1, <2>2
<1> QED
  BY <1>7 DEF HeardIn

\* The marker of a hook that got no lock speaks of no path.
LEMMA HeardStays ==
  ASSUME NEW l, NEW l2, NEW h, IsList(l), HeardIn(h, l), l2 = l \/ l2 = Append(l, Degraded)
  PROVE  HeardIn(h, l2)
<1>1. CASE l2 = Append(l, Degraded)
  <2>1. Longer(l, Degraded, l2)
    BY <1>1, AppendIsLonger
  <2>2. \A k \in 1 .. Len(l) : l2[k] = l[k]
    BY <2>1 DEF Longer
  <2>3. Len(l) \in Nat /\ DOMAIN l = 1 .. Len(l)
    BY SeqSpan
  <2>4. l2[Len(l) + 1] = Degraded /\ DOMAIN l2 = 1 .. Len(l) + 1
    BY <2>1 DEF Longer
  <2>5. \A p : ~Speaks(Degraded, p)
    BY DEF Speaks, Degraded
  <2>6. \A k \in DOMAIN l2 : k \in DOMAIN l \/ k = Len(l) + 1
    BY <2>3, <2>4
  <2>7. \A k \in DOMAIN l : k \in DOMAIN l2 /\ l2[k] = l[k]
    BY <2>2, <2>3, <2>4
  <2>8. ASSUME NEW p
        PROVE  (\E k \in DOMAIN l2 : Speaks(l2[k], p)) <=> (\E k \in DOMAIN l : Speaks(l[k], p))
    BY <2>4, <2>5, <2>6, <2>7
  <2> QED
    BY <2>8 DEF HeardIn
<1> QED
  BY <1>1

LEMMA HeardNext ==
  ASSUME TypesInv, WiringInv, HeardIn(heard, log), [Next]_vars
  PROVE  HeardIn(heard', log')
<1>0. IsList(log)
  BY DEF TypesInv
<1>1. CASE UNCHANGED <<heard, log>>
  BY <1>1
<1>2. CASE UNCHANGED vars
  BY <1>1, <1>2 DEF vars, told
<1>3. ASSUME NEW i \in Slots, (\E u \in Uses : Asks(i, u)) \/ Judges(i) \/ Refuses(i) \/ Runs(i) \/ RunsInVain(i)
      PROVE  HeardIn(heard', log')
  BY <1>1, <1>3 DEF Asks, Judges, Refuses, Runs, RunsInVain, Goes, told
<1>4. ASSUME NEW i \in Slots, Records(i) \/ HookFails(i) PROVE HeardIn(heard', log')
  <2>1. PICK x, j, y : /\ Through(i, x, j, y)
                       /\ \/ log' \in {log, Append(log, Degraded)} /\ heard' = heard
                          \/ log' = log \o j.recs /\ heard' = heard \cup Named(x.call)
    <3>1. CASE Records(i)
      <4>1. PICK x, j, y : /\ Through(i, x, j, y) /\ y.guarded = x.guarded /\ log' = log \o j.recs
                           /\ y.denied = "no" => /\ x.denied = "no"
                                                 /\ \A k \in DOMAIN j.recs : j.recs[k].guard.action # "deny"
        BY <3>1, RecordsSlot
      <4>2. heard' = heard \cup Named(slot[i].call) /\ x = slot[i]
        BY <3>1, <4>1 DEF Records, Through
      <4> QED
        BY <4>1, <4>2
    <3>2. CASE HookFails(i)
      BY <3>2, FailsSlot
    <3> QED
      BY <1>4, <3>1, <3>2
  <2>2. Called(x) /\ JudgedWell(x, j)
    BY <2>1 DEF Through
  <2>3. PICK recs : recs = j.recs
    OBVIOUS
  <2>4. PICK c : c = x.call
    OBVIOUS
  <2>5. <<x.session, c>> \in Uses /\ Tells(recs, x.session, "pre", c)
    BY <2>2, <2>3, <2>4 DEF Called, JudgedWell
  <2>6. CASE log' \in {log, Append(log, Degraded)} /\ heard' = heard
    BY <1>0, <2>6, HeardStays
  <2>7. CASE log' = log \o recs /\ heard' = heard \cup Named(c)
    BY <1>0, <2>5, <2>7, HeardGrows
  <2> QED
    BY <2>1, <2>3, <2>4, <2>6, <2>7
<1>5. ASSUME NEW i \in Slots, RecordsAfter(i) PROVE HeardIn(heard', log')
  <2>1. PICK x, cmd, y, recs :
            /\ Afterwards(i, x, cmd, y) /\ Tells(recs, x.session, x.phase, x.call)
            /\ \/ log' = log \o recs /\ heard' = heard \cup Named(x.call)
               \/ log' \in {log, Append(log, Degraded)} /\ heard' = heard
    BY <1>5, AfterSlot
  <2>2. PICK c : c = x.call
    OBVIOUS
  <2>3. PICK ph : ph = x.phase
    OBVIOUS
  <2>4. <<x.session, c>> \in Uses /\ Tells(recs, x.session, ph, c)
    BY <2>1, <2>2, <2>3 DEF Afterwards, Called
  <2>5. CASE log' \in {log, Append(log, Degraded)} /\ heard' = heard
    BY <1>0, <2>5, HeardStays
  <2>6. CASE log' = log \o recs /\ heard' = heard \cup Named(c)
    BY <1>0, <2>4, <2>6, HeardGrows
  <2> QED
    BY <2>1, <2>2, <2>5, <2>6
<1>6. CASE RulesChange \/ Commits \/ Install \/ InstallCursor
  BY <1>1, <1>6 DEF RulesChange, Commits, Install, InstallCursor, Installs, told
<1>7. CASE ResetsLog
  <2>1. heard' = {} /\ DOMAIN log' = {}
    BY <1>7, EmptyIsList DEF ResetsLog
  <2> QED
    BY <2>1 DEF HeardIn
<1>8. ASSUME NEW e \in Editors, Uninstall(e) \/ \E h \in HandMade : HandWires(e, h[2]) PROVE HeardIn(heard', log')
  BY <1>1, <1>8 DEF Uninstall, HandWires, told
<1> QED
  BY <1>2, <1>3, <1>4, <1>5, <1>6, <1>7, <1>8 DEF Next

LEMMA HeardInit ==
  ASSUME Init
  PROVE  HeardIn(heard, log)
<1>1. heard = {} /\ DOMAIN log = {}
  BY EmptyIsList DEF Init
<1> QED
  BY <1>1 DEF HeardIn

\* Only the tool's own output is passed over.
LEMMA PlacesTold ==
  ASSUME NEW f
  PROVE  ~IsToolOutput(f) <=> ClassifyAgentGuardPath(f) \in Shown
<1>1. ClassifyAgentGuardPath(f) \in Shown \cup {"RUNTIME_OUTPUT"}
  BY DEF ClassifyAgentGuardPath, Shown
<1> QED
  BY <1>1 DEF IsToolOutput, Shown

LEMMA UnheardIsUnexplained ==
  ASSUME TypesInv, HeardIn(heard, log)
  PROVE  UnexplainedIsUnheard
<1> DEFINE git == {p \in changed : ~IsToolOutput(Place[p])}
           writes == {r.path : r \in {r \in Range(log) : r.op = "write"}}
           others == {r.path : r \in {r \in Range(log) : r.op \notin {"write", "capture-degraded"}}}
<1>1. ReconcileCapture(log, git).unexplained = git \ (writes \cup others)
  BY DEF ReconcileCapture
<1>2. \A p : p \in writes \cup others <=> \E k \in DOMAIN log : Speaks(log[k], p)
  BY DEF Speaks, Range
<1>3. \A p \in changed : p \in Paths
  BY DEF TypesInv
<1>4. \A p \in changed : p \in heard <=> p \in writes \cup others
  BY <1>2, <1>3 DEF HeardIn
<1>5. \A p \in changed : ~IsToolOutput(Place[p]) <=> ClassifyAgentGuardPath(Place[p]) \in Shown
  BY PlacesTold
<1> HIDE DEF writes, others
<1>6. git \ (writes \cup others) = {p \in changed \ heard : ClassifyAgentGuardPath(Place[p]) \in Shown}
  BY <1>4, <1>5
<1> QED
  BY <1>1, <1>6 DEF UnexplainedIsUnheard

-----------------------------------------------------------------------------
(* How often a command was announced                                       *)

PriorSet(l, s, h) ==
    {i \in DOMAIN l :
        /\ l[i].session = s /\ l[i].phase = "pre" /\ l[i].hash = h
        /\ ~\E j \in i .. Len(l) : l[j].session = s /\ Changes(l[j])}

LEMMA PriorIsCount ==
  ASSUME NEW l, NEW s, NEW h
  PROVE  Prior(l, s, h) = Cardinality(PriorSet(l, s, h))
BY DEF Prior, PriorSet

LEMMA PriorFinite ==
  ASSUME NEW l, IsList(l), NEW s, NEW h
  PROVE  /\ IsFiniteSet(PriorSet(l, s, h)) /\ Len(l) + 1 \notin PriorSet(l, s, h)
         /\ Cardinality(PriorSet(l, s, h)) \in Nat
<1>1. Len(l) \in Nat /\ DOMAIN l = 1 .. Len(l)
  BY SeqSpan
<1>2. PriorSet(l, s, h) \subseteq 1 .. Len(l)
  BY <1>1 DEF PriorSet
<1>3. IsFiniteSet(1 .. Len(l))
  BY <1>1, FS_Interval
<1>4. IsFiniteSet(PriorSet(l, s, h))
  BY <1>2, <1>3, FS_Subset
<1>5. Cardinality(PriorSet(l, s, h)) \in Nat
  BY <1>4, FS_CardinalityType
<1> QED
  BY <1>1, <1>2, <1>4, <1>5

\* Records that are no announcement of it by the session and no change by it.
Beside(r, s, h) == r.session # s \/ (~Changes(r) /\ (r.phase # "pre" \/ r.hash # h))

LEMMA PriorSame ==
  ASSUME NEW l, NEW recs, NEW l2, IsList(l), IsList(recs), Joined(l, recs, l2), NEW s, NEW h,
         \A k \in DOMAIN recs : Beside(recs[k], s, h)
  PROVE  PriorSet(l2, s, h) = PriorSet(l, s, h)
<1>1. Len(l) \in Nat /\ DOMAIN l = 1 .. Len(l) /\ Len(recs) \in Nat /\ DOMAIN recs = 1 .. Len(recs)
  BY SeqSpan
<1>2. /\ Len(l2) = Len(l) + Len(recs) /\ DOMAIN l2 = 1 .. Len(l) + Len(recs)
      /\ \A k \in 1 .. Len(l) : l2[k] = l[k]
      /\ \A k \in 1 .. Len(recs) : l2[Len(l) + k] = recs[k]
  BY DEF Joined
<1>3. ASSUME NEW k \in DOMAIN l2, k \notin 1 .. Len(l) PROVE Beside(l2[k], s, h)
  <2>1. k - Len(l) \in 1 .. Len(recs) /\ Len(l) + (k - Len(l)) = k
    BY <1>1, <1>2, <1>3
  <2>2. PICK m \in 1 .. Len(recs) : Len(l) + m = k
    BY <2>1
  <2> QED
    BY <1>1, <1>2, <2>2
<1>4. ASSUME NEW i \in PriorSet(l2, s, h) PROVE i \in PriorSet(l, s, h)
  <2>1. /\ i \in DOMAIN l2 /\ l2[i].session = s /\ l2[i].phase = "pre" /\ l2[i].hash = h
        /\ ~\E j \in i .. Len(l2) : l2[j].session = s /\ Changes(l2[j])
    BY DEF PriorSet
  <2>2. i \in 1 .. Len(l)
    BY <1>3, <2>1 DEF Beside
  <2>3. l[i] = l2[i]
    BY <1>2, <2>2
  <2>4. ASSUME NEW j \in i .. Len(l) PROVE ~(l[j].session = s /\ Changes(l[j]))
    <3>1. j \in i .. Len(l2) /\ j \in 1 .. Len(l)
      BY <1>1, <1>2, <2>2
    <3> QED
      BY <1>2, <2>1, <3>1
  <2> QED
    BY <1>1, <2>1, <2>2, <2>3, <2>4 DEF PriorSet
<1>5. ASSUME NEW i \in PriorSet(l, s, h) PROVE i \in PriorSet(l2, s, h)
  <2>1. /\ i \in 1 .. Len(l) /\ l[i].session = s /\ l[i].phase = "pre" /\ l[i].hash = h
        /\ ~\E j \in i .. Len(l) : l[j].session = s /\ Changes(l[j])
    BY <1>1 DEF PriorSet
  <2>2. l2[i] = l[i] /\ i \in DOMAIN l2
    BY <1>1, <1>2, <2>1
  <2>3. ASSUME NEW j \in i .. Len(l2) PROVE ~(l2[j].session = s /\ Changes(l2[j]))
    <3>1. CASE j \in 1 .. Len(l)
      <4>1. j \in i .. Len(l) /\ l2[j] = l[j]
        BY <1>1, <1>2, <2>1, <3>1
      <4> QED
        BY <2>1, <4>1
    <3>2. CASE j \notin 1 .. Len(l)
      <4>1. j \in DOMAIN l2
        BY <1>1, <1>2, <2>1
      <4> QED
        BY <1>3, <3>2, <4>1 DEF Beside
    <3> QED
      BY <3>1, <3>2
  <2> QED
    BY <2>1, <2>2, <2>3 DEF PriorSet
<1> QED
  BY <1>4, <1>5

LEMMA PriorZero ==
  ASSUME NEW l, NEW recs, NEW l2, IsList(l), IsList(recs), Joined(l, recs, l2), NEW s, NEW h,
         NEW k \in DOMAIN recs, \A n \in DOMAIN recs : recs[n].session = s /\ Changes(recs[n])
  PROVE  PriorSet(l2, s, h) = {}
<1>1. Len(l) \in Nat /\ DOMAIN l = 1 .. Len(l) /\ Len(recs) \in Nat /\ DOMAIN recs = 1 .. Len(recs)
  BY SeqSpan
<1>2. /\ Len(l2) = Len(l) + Len(recs) /\ DOMAIN l2 = 1 .. Len(l) + Len(recs)
      /\ \A n \in 1 .. Len(recs) : l2[Len(l) + n] = recs[n]
  BY DEF Joined
<1>3. Len(recs) \in DOMAIN recs
  BY <1>1
<1>4. l2[Len(l2)].session = s /\ Changes(l2[Len(l2)])
  BY <1>1, <1>2, <1>3
<1>5. \A i \in DOMAIN l2 : Len(l2) \in i .. Len(l2)
  BY <1>1, <1>2
<1> QED
  BY <1>4, <1>5 DEF PriorSet

LEMMA PriorMore ==
  ASSUME NEW l, NEW r, NEW l2, IsList(l), Longer(l, r, l2), NEW s, NEW h,
         r.session = s, r.phase = "pre", r.hash = h, ~Changes(r)
  PROVE  Prior(l2, s, h) = Prior(l, s, h) + 1
<1>1. Len(l) \in Nat /\ DOMAIN l = 1 .. Len(l)
  BY SeqSpan
<1>2. /\ Len(l2) = Len(l) + 1 /\ DOMAIN l2 = 1 .. Len(l) + 1
      /\ \A k \in 1 .. Len(l) : l2[k] = l[k]
      /\ l2[Len(l) + 1] = r
  BY DEF Longer
<1>3. ASSUME NEW i \in PriorSet(l2, s, h), i # Len(l) + 1 PROVE i \in PriorSet(l, s, h)
  <2>1. /\ i \in 1 .. Len(l) /\ l2[i].session = s /\ l2[i].phase = "pre" /\ l2[i].hash = h
        /\ ~\E j \in i .. Len(l2) : l2[j].session = s /\ Changes(l2[j])
    BY <1>1, <1>2, <1>3 DEF PriorSet
  <2>2. l[i] = l2[i]
    BY <1>2, <2>1
  <2>3. ASSUME NEW j \in i .. Len(l) PROVE ~(l[j].session = s /\ Changes(l[j]))
    <3>1. j \in i .. Len(l2) /\ j \in 1 .. Len(l)
      BY <1>1, <1>2, <2>1
    <3> QED
      BY <1>2, <2>1, <3>1
  <2> QED
    BY <1>1, <2>1, <2>2, <2>3 DEF PriorSet
<1>4. ASSUME NEW i \in PriorSet(l, s, h) PROVE i \in PriorSet(l2, s, h)
  <2>1. /\ i \in 1 .. Len(l) /\ l[i].session = s /\ l[i].phase = "pre" /\ l[i].hash = h
        /\ ~\E j \in i .. Len(l) : l[j].session = s /\ Changes(l[j])
    BY <1>1 DEF PriorSet
  <2>2. l2[i] = l[i] /\ i \in DOMAIN l2
    BY <1>1, <1>2, <2>1
  <2>3. ASSUME NEW j \in i .. Len(l2) PROVE ~(l2[j].session = s /\ Changes(l2[j]))
    <3>1. CASE j = Len(l) + 1
      BY <1>2, <3>1
    <3>2. CASE j # Len(l) + 1
      <4>1. j \in i .. Len(l) /\ j \in 1 .. Len(l)
        BY <1>1, <1>2, <2>1, <3>2
      <4> QED
        BY <1>2, <2>1, <4>1
    <3> QED
      BY <3>1, <3>2
  <2> QED
    BY <2>1, <2>2, <2>3 DEF PriorSet
<1>5. Len(l) + 1 \in PriorSet(l2, s, h)
  <2>1. Len(l) + 1 \in DOMAIN l2 /\ \A j \in Len(l) + 1 .. Len(l2) : j = Len(l) + 1
    BY <1>1, <1>2
  <2> QED
    BY <1>2, <2>1 DEF PriorSet
<1>6. PriorSet(l2, s, h) = PriorSet(l, s, h) \cup {Len(l) + 1}
  BY <1>3, <1>4, <1>5
<1>7. IsFiniteSet(PriorSet(l, s, h)) /\ Len(l) + 1 \notin PriorSet(l, s, h)
  BY PriorFinite
<1>8. Cardinality(PriorSet(l, s, h) \cup {Len(l) + 1}) = Cardinality(PriorSet(l, s, h)) + 1
  BY <1>7, FS_AddElement
<1> QED
  BY <1>6, <1>8, PriorIsCount

-----------------------------------------------------------------------------
(* How often a call is in a session's list                                 *)

Count(q, c) == Cardinality({k \in DOMAIN q : q[k] = c})

LEMMA CountNone ==
  ASSUME NEW q, q = <<>>, NEW c
  PROVE  Count(q, c) = 0
<1>1. {k \in DOMAIN q : q[k] = c} = {}
  BY EmptyIsList
<1> QED
  BY <1>1, FS_EmptySet DEF Count

Counted(q, d, q2, c) == Count(q2, c) = Count(q, c) + (IF c = d THEN 1 ELSE 0)

LEMMA CountMore ==
  ASSUME NEW q, IsList(q), NEW d, NEW q2, q2 = Append(q, d), NEW c
  PROVE  Counted(q, d, q2, c)
<1>1. Longer(q, d, q2)
  BY AppendIsLonger
<1>2. /\ DOMAIN q2 = 1 .. Len(q) + 1 /\ q2[Len(q) + 1] = d
      /\ \A k \in 1 .. Len(q) : q2[k] = q[k]
  BY <1>1 DEF Longer
<1>3. Len(q) \in Nat /\ DOMAIN q = 1 .. Len(q)
  BY SeqSpan
<1>4. PICK A : A = {k \in DOMAIN q : q[k] = c}
  OBVIOUS
<1>5. PICK B : B = {k \in DOMAIN q2 : q2[k] = c}
  OBVIOUS
<1>6. IsFiniteSet(A) /\ Len(q) + 1 \notin A
  <2>1. IsFiniteSet(1 .. Len(q))
    BY <1>3, FS_Interval
  <2>2. A \subseteq 1 .. Len(q)
    BY <1>3, <1>4
  <2>3. IsFiniteSet(A)
    BY <2>1, <2>2, FS_Subset
  <2> QED
    BY <1>3, <2>2, <2>3
<1>7. Cardinality(A) \in Nat
  BY <1>6, FS_CardinalityType
<1>8. CASE c = d
  <2>1. B = A \cup {Len(q) + 1}
    BY <1>2, <1>3, <1>4, <1>5, <1>8
  <2>2. Cardinality(A \cup {Len(q) + 1}) = Cardinality(A) + 1
    BY <1>6, FS_AddElement
  <2> QED
    BY <1>4, <1>5, <1>8, <2>1, <2>2 DEF Count, Counted
<1>9. CASE c # d
  <2>1. B = A
    BY <1>2, <1>3, <1>4, <1>5, <1>9
  <2>2. Count(q2, c) = Cardinality(A) /\ Count(q, c) = Cardinality(A)
    BY <1>4, <1>5, <2>1 DEF Count
  <2> QED
    BY <1>7, <1>9, <2>2 DEF Counted
<1> QED
  BY <1>8, <1>9

-----------------------------------------------------------------------------
(* When a loop is seen                                                     *)

LEMMA GuardIsNoLoop ==
  ASSUME NEW r, NEW v, v = EvalGuard(r, rules.policy, rules.contract)
  PROVE  v.rule[1] # "loop"
<1>1. PICK p : p = LoadPolicy(rules.policy)
  OBVIOUS
<1>2. \/ v = Verdict(p, <<"policy.forbid_actions", ActionClass(r)>>)
      \/ v = Verdict(p, <<"contract.denied_paths", r.path>>)
      \/ v = Verdict(p, <<"policy.forbidAlways", r.path>>)
      \/ v = None
  BY <1>1 DEF EvalGuard
<1>3. \A rule : Verdict(p, rule).rule = rule
  BY DEF Verdict
<1>4. \/ v.rule = <<"policy.forbid_actions", ActionClass(r)>>
      \/ v.rule = <<"contract.denied_paths", r.path>>
      \/ v.rule = <<"policy.forbidAlways", r.path>>
      \/ v.rule = <<"none">>
  BY <1>2, <1>3 DEF None
<1> QED
  BY <1>4

\* A command that is kept: a loop, by the count before it and it.
IsLoop(p, c, n) ==
    /\ Plain(c) /\ c.target.kind \in LoopKinds \ p.forbidActions
    /\ p.loopRepeatThreshold # Null /\ n >= p.loopRepeatThreshold

LEMMA PlainJudged ==
  ASSUME NEW u \in Uses, NEW c, c = u[2], NEW s, s = u[1], Plain(c), NEW r,
         r = RecordOf(s, "pre", c, Op("command", Null, c.target.id, c.target.kind)),
         NEW p, p = LoadPolicy(rules.policy), p # Null
  PROVE  Judgement(r, s).rule[1] = "loop" <=> IsLoop(p, c, Prior(log, s, c.target.id) + 1)
<1>1. /\ r.op = "command" /\ r.hash = c.target.id /\ r.kind = c.target.kind /\ r.session = s
  BY DEF RecordOf, Op
<1>2. c.target.id # Null /\ c.target.kind # Null /\ s \in Sessions
  BY CallKinds
<1>3. s # Null
  BY <1>2, GuardingAssumption
<1>4. ActionClass(r) = c.target.kind
  BY <1>1 DEF ActionClass
<1>5. PICK v : v = EvalGuard(r, rules.policy, rules.contract)
  OBVIOUS
<1>6. CASE c.target.kind \in p.forbidActions
  <2>1. v = Verdict(p, <<"policy.forbid_actions", ActionClass(r)>>)
    BY <1>2, <1>4, <1>5, <1>6 DEF EvalGuard
  <2>2. v.action # "none"
    BY <2>1 DEF Verdict
  <2>3. Judgement(r, s) = v
    BY <1>5, <2>2 DEF Judgement
  <2>4. v.rule[1] # "loop"
    BY <1>5, GuardIsNoLoop
  <2> QED
    BY <1>6, <2>3, <2>4 DEF IsLoop
<1>7. CASE c.target.kind \notin p.forbidActions
  <2>1. v = None
    BY <1>1, <1>4, <1>5, <1>7 DEF EvalGuard
  <2>2. v.action = "none"
    BY <2>1 DEF None
  <2>3. PICK w : w = EvalLoopGuard(r, s, rules.policy, log)
    OBVIOUS
  <2>4. Judgement(r, s) = w
    BY <1>1, <1>5, <2>2, <2>3 DEF Judgement
  <2>5. PICK n : n = Prior(log, s, c.target.id) + 1
    OBVIOUS
  <2>6. w = IF c.target.kind \in LoopKinds /\ p.loopRepeatThreshold # Null /\ n >= p.loopRepeatThreshold
            THEN Verdict(p, <<"loop", r.hash>>) ELSE None
    BY <1>1, <1>2, <1>3, <2>3, <2>5 DEF EvalLoopGuard
  <2>7. w.rule = IF c.target.kind \in LoopKinds /\ p.loopRepeatThreshold # Null /\ n >= p.loopRepeatThreshold
                 THEN <<"loop", r.hash>> ELSE <<"none">>
    BY <2>6 DEF Verdict, None
  <2>8. w.rule[1] = "loop" <=>
           c.target.kind \in LoopKinds /\ p.loopRepeatThreshold # Null /\ n >= p.loopRepeatThreshold
    BY <2>7
  <2> QED
    BY <1>7, <2>4, <2>5, <2>8 DEF IsLoop
<1> QED
  BY <1>6, <1>7

\* Anything else is never taken for a loop.
LEMMA OtherJudged ==
  ASSUME NEW r, NEW s, r.op # "command" \/ (r.hash = Null /\ r.kind = Null)
  PROVE  Judgement(r, s).rule[1] # "loop"
<1>1. PICK v : v = EvalGuard(r, rules.policy, rules.contract)
  OBVIOUS
<1>2. v.rule[1] # "loop"
  BY <1>1, GuardIsNoLoop
<1>3. CASE v.action # "none" \/ r.op # "command"
  <2>1. Judgement(r, s) = v
    BY <1>1, <1>3 DEF Judgement
  <2> QED
    BY <1>2, <2>1
<1>4. CASE v.action = "none" /\ r.op = "command" /\ r.hash = Null
  <2>1. Judgement(r, s) = EvalLoopGuard(r, r.session, rules.policy, log)
    BY <1>1, <1>4 DEF Judgement
  <2>2. EvalLoopGuard(r, r.session, rules.policy, log) = None
    BY <1>4 DEF EvalLoopGuard
  <2>3. None.rule[1] # "loop"
    BY DEF None
  <2> QED
    BY <2>1, <2>2, <2>3
<1> QED
  BY <1>3, <1>4

Looped(recs) == \E k \in DOMAIN recs : recs[k].guard.rule[1] = "loop"

LEMMA LoopJudged ==
  ASSUME NEW u \in Uses, NEW c, c = u[2], NEW s, s = u[1], NEW fresh, fresh = Fresh(s, "pre", c),
         NEW recs, DOMAIN recs = DOMAIN fresh,
         \A k \in DOMAIN recs : recs[k].guard = Judgement(fresh[k], s),
         NEW p, p = LoadPolicy(rules.policy), p # Null
  PROVE  Looped(recs) <=> IsLoop(p, c, Prior(log, s, c.target.id) + 1)
<1>1. PICK o : o = OpsOf(c)
  OBVIOUS
<1>2. DOMAIN fresh = DOMAIN o /\ \A k \in DOMAIN o : fresh[k] = RecordOf(s, "pre", c, o[k])
  BY <1>1 DEF Fresh
<1>3. CASE Plain(c)
  <2>1. PICK q : q = Op("command", Null, c.target.id, c.target.kind)
    OBVIOUS
  <2>2. o = <<q>>
    BY <1>1, <1>3, <2>1, OpsAre
  <2>3. DOMAIN o = 1 .. 1 /\ o[1] = q
    BY <2>2, OneIsList
  <2>4. PICK r : r = fresh[1]
    OBVIOUS
  <2>5. r = RecordOf(s, "pre", c, q)
    BY <1>2, <2>3, <2>4
  <2>6. Judgement(r, s).rule[1] = "loop" <=> IsLoop(p, c, Prior(log, s, c.target.id) + 1)
    BY <1>3, <2>1, <2>5, PlainJudged
  <2>7. \A k \in DOMAIN recs : k = 1
    BY <1>2, <2>3
  <2>8. 1 \in DOMAIN recs /\ recs[1].guard = Judgement(r, s)
    BY <1>2, <2>3, <2>4
  <2> QED
    BY <2>6, <2>7, <2>8 DEF Looped
<1>4. CASE ~Plain(c)
  <2>1. ASSUME NEW k \in DOMAIN o PROVE o[k].op # "command" \/ (o[k].hash = Null /\ o[k].kind = Null)
    <3>1. ASSUME NEW q, o = <<q>> PROVE o[k] = q
      <4>1. DOMAIN o = 1 .. 1 /\ o[1] = q
        BY <3>1, OneIsList
      <4> QED
        BY <4>1
    <3>2. CASE Reader(c)
      BY <1>1, <3>1, <3>2, OpsAre DEF Reader, Op
    <3>3. CASE Writer(c)
      BY <1>1, <3>1, <3>3, OpsAre DEF Writer, Op
    <3>4. CASE Online(c)
      BY <1>1, <3>1, <3>4, OpsAre DEF Op
    <3>5. CASE Deletes(c)
      BY <1>1, <3>5, OpsAre DEF Op
    <3>6. CASE Dull(c)
      <4>1. CASE o = <<>>
        BY <4>1, EmptyIsList
      <4>2. CASE o = <<Op("command", Null, Null, Null)>>
        BY <3>1, <4>2 DEF Op
      <4> QED
        BY <1>1, <3>6, <4>1, <4>2, OpsAre
    <3> QED
      BY <1>4, <3>2, <3>3, <3>4, <3>5, <3>6, CallKinds
  <2>2. ASSUME NEW k \in DOMAIN recs PROVE recs[k].guard.rule[1] # "loop"
    <3>1. PICK r : r = fresh[k]
      OBVIOUS
    <3>2. r = RecordOf(s, "pre", c, o[k])
      BY <1>2, <3>1
    <3>3. r.op = o[k].op /\ r.hash = o[k].hash /\ r.kind = o[k].kind
      BY <3>2 DEF RecordOf
    <3>4. r.op # "command" \/ (r.hash = Null /\ r.kind = Null)
      BY <1>2, <2>1, <3>3
    <3>5. Judgement(r, s).rule[1] # "loop"
      BY <3>4, OtherJudged
    <3> QED
      BY <3>1, <3>5
  <2> QED
    BY <1>4, <2>2 DEF Looped, IsLoop
<1> QED
  BY <1>3, <1>4

-----------------------------------------------------------------------------
(* A session whose calls do not overlap                                    *)

Of(x, s) == x.at # "idle" /\ x.session = s
Waits(x, s) == x.at = "pre" /\ x.session = s /\ x.todo # {}

\* The list of a session and the log say the same of its commands, but for the
\* call that is yet to be written down.
Even(x, q, l, s) ==
    /\ (x.at = "pre" /\ x.session = s) => Cardinality(x.todo) <= 1
    /\ (Waits(x, s) /\ Altering(x.call)) => q = <<>>
    /\ ~(Waits(x, s) /\ Altering(x.call)) =>
          \A c : (<<s, c>> \in Uses /\ Plain(c)) =>
             Count(q, c) = Prior(l, s, c.target.id) + (IF Waits(x, s) /\ x.call = c THEN 1 ELSE 0)
Alone(sl, i, s) == \A j \in Slots : j # i => ~Of(sl[j], s)
Calm(sl, q, l, s) ==
    /\ \A i \in Slots : Of(sl[i], s) => Alone(sl, i, s) /\ Even(sl[i], q, l, s)
    /\ (\A i \in Slots : ~Of(sl[i], s)) => Even(Idle, q, l, s)

LEMMA EvenIdle ==
  ASSUME NEW x, NEW q, NEW l, NEW s, ~Waits(x, s), Even(x, q, l, s)
  PROVE  Even(Idle, q, l, s)
<1>1. ~Waits(Idle, s) /\ Idle.at # "pre"
  BY DEF Waits, Idle
<1> QED
  BY <1>1 DEF Even

\* Where no other slot has a call of the session, what holds of this one is all.
LEMMA CalmOwn ==
  ASSUME NEW sl, NEW i \in Slots, NEW y, sl[i] = y, NEW s, NEW q, NEW l,
         Alone(sl, i, s), Even(y, q, l, s), Of(y, s) \/ ~Waits(y, s)
  PROVE  Calm(sl, q, l, s)
<1>1. CASE Of(y, s)
  BY <1>1 DEF Calm, Alone
<1>2. CASE ~Of(y, s)
  <2>1. \A j \in Slots : ~Of(sl[j], s)
    BY <1>2 DEF Alone
  <2>2. ~Waits(y, s)
    BY <1>2
  <2>3. Even(Idle, q, l, s)
    BY <2>2, EvenIdle
  <2> QED
    BY <2>1, <2>3 DEF Calm
<1> QED
  BY <1>1, <1>2

LEMMA CalmUse ==
  ASSUME NEW sl, NEW i \in Slots, NEW s, NEW q, NEW l, Calm(sl, q, l, s), Of(sl[i], s)
  PROVE  Alone(sl, i, s) /\ Even(sl[i], q, l, s)
BY DEF Calm

\* What other sessions do.
Apart(sl, sl2, i, s) == (\A j \in Slots : j # i => sl2[j] = sl[j]) /\ ~Of(sl[i], s) /\ ~Of(sl2[i], s)
Unheard(l, l2, s) == \A h : PriorSet(l2, s, h) = PriorSet(l, s, h)

LEMMA CalmElsewhere ==
  ASSUME NEW sl, NEW sl2, NEW i, NEW s, NEW q, NEW l, NEW l2, Calm(sl, q, l, s),
         Apart(sl, sl2, i, s), Unheard(l, l2, s)
  PROVE  Calm(sl2, q, l2, s)
<1>0. /\ \A j \in Slots : j # i => sl2[j] = sl[j]
      /\ ~Of(sl[i], s) /\ ~Of(sl2[i], s)
      /\ \A h : PriorSet(l2, s, h) = PriorSet(l, s, h)
  BY DEF Apart, Unheard
<1>1. \A h : Prior(l2, s, h) = Prior(l, s, h)
  BY <1>0, PriorIsCount
<1>2. ASSUME NEW x, Even(x, q, l, s) PROVE Even(x, q, l2, s)
  BY <1>1, <1>2 DEF Even
<1>3. ASSUME NEW j \in Slots, Of(sl2[j], s) PROVE Alone(sl2, j, s) /\ Even(sl2[j], q, l2, s)
  <2>1. j # i /\ sl2[j] = sl[j]
    BY <1>0, <1>3
  <2>2. Of(sl[j], s)
    BY <1>3, <2>1
  <2>3. Alone(sl, j, s) /\ Even(sl[j], q, l, s)
    BY <2>2, CalmUse
  <2>4. Alone(sl2, j, s)
    BY <1>0, <2>3 DEF Alone
  <2> QED
    BY <1>2, <2>1, <2>3, <2>4
<1>4. ASSUME \A j \in Slots : ~Of(sl2[j], s) PROVE Even(Idle, q, l2, s)
  <2>1. \A j \in Slots : ~Of(sl[j], s)
    BY <1>0, <1>4
  <2> QED
    BY <1>2, <2>1 DEF Calm
<1> QED
  BY <1>3, <1>4 DEF Calm

\* One of the session's calls is asked for.
LEMMA EvenAsked ==
  ASSUME NEW x, NEW s, ~Waits(x, s), NEW q, IsList(q), NEW l, IsList(l), Even(x, q, l, s), NEW y, NEW q2,
         <<s, y.call>> \in Uses, y.at = "pre", y.session = s, Cardinality(y.todo) <= 1,
         y.todo = {} => q2 = q,
         y.todo # {} => q2 = IF Altering(y.call) THEN <<>> ELSE Append(q, y.call)
  PROVE  Even(y, q2, l, s)
<1>1. CASE y.todo = {}
  BY <1>1 DEF Even, Waits
<1>2. CASE y.todo # {} /\ Altering(y.call)
  BY <1>2 DEF Even, Waits
<1>3. CASE y.todo # {} /\ ~Altering(y.call)
  <2>1. q2 = Append(q, y.call)
    BY <1>3
  <2>2. Waits(y, s)
    BY <1>3 DEF Waits
  <2>3. ASSUME NEW c, <<s, c>> \in Uses, Plain(c)
        PROVE  Count(q2, c) = Prior(l, s, c.target.id) + (IF Waits(y, s) /\ y.call = c THEN 1 ELSE 0)
    <3>1. PICK d : d = y.call
      OBVIOUS
    <3>2. q2 = Append(q, d)
      BY <2>1, <3>1
    <3>3. PICK n : n = Prior(l, s, c.target.id)
      OBVIOUS
    <3>4. n \in Nat
      BY <3>3, PriorIsCount, PriorFinite
    <3>5. Count(q, c) = n
      BY <2>3, <3>3, <3>4 DEF Even
    <3>6. Counted(q, d, q2, c)
      BY <3>2, CountMore
    <3>7. CASE c = d
      BY <2>2, <3>1, <3>3, <3>5, <3>6, <3>7 DEF Counted
    <3>8. CASE c # d
      BY <2>2, <3>1, <3>3, <3>5, <3>6, <3>8 DEF Counted
    <3> QED
      BY <3>7, <3>8
  <2> QED
    BY <1>3, <2>2, <2>3 DEF Even
<1> QED
  BY <1>1, <1>2, <1>3

\* Only a command that is kept has a fingerprint in the log.
LEMMA HashIsPlain ==
  ASSUME NEW s, NEW c, <<s, c>> \in Uses, ~Plain(c), NEW k \in DOMAIN OpsOf(c)
  PROVE  OpsOf(c)[k].hash = Null
<1>1. PICK o : o = OpsOf(c)
  OBVIOUS
<1>2. PICK u \in Uses : u = <<s, c>>
  OBVIOUS
<1>3. c = u[2]
  BY <1>2
<1>4. ASSUME NEW q, o = <<q>> PROVE o[k] = q
  <2>1. DOMAIN o = 1 .. 1 /\ o[1] = q
    BY <1>4, OneIsList
  <2> QED
    BY <1>1, <2>1
<1>5. Reader(c) \/ Writer(c) \/ Online(c) \/ Plain(c) \/ Deletes(c) \/ Dull(c)
  BY <1>3, CallKinds
<1>6. CASE Reader(c)
  BY <1>1, <1>4, <1>6, OpsAre DEF Reader, Op
<1>7. CASE Writer(c)
  BY <1>1, <1>4, <1>7, OpsAre DEF Writer, Op
<1>8. CASE Online(c)
  BY <1>1, <1>4, <1>8, OpsAre DEF Op
<1>9. CASE Deletes(c)
  BY <1>1, <1>9, OpsAre DEF Op
<1>10. CASE Dull(c)
  <2>1. CASE o = <<>>
    BY <1>1, <2>1, EmptyIsList
  <2>2. CASE o = <<Op("command", Null, Null, Null)>>
    BY <1>1, <1>4, <2>2 DEF Op
  <2> QED
    BY <1>1, <1>10, <2>1, <2>2, OpsAre
<1> QED
  BY <1>5, <1>6, <1>7, <1>8, <1>9, <1>10

LEMMA OneCommand ==
  ASSUME NEW s, NEW c, NEW d, <<s, c>> \in Uses, <<s, d>> \in Uses, Plain(c), Plain(d),
         c.target.id = d.target.id
  PROVE  c = d
<1>1. PICK u \in Uses : u = <<s, c>>
  OBVIOUS
<1>2. PICK v \in Uses : v = <<s, d>>
  OBVIOUS
<1>3. u[1] = s /\ u[2] = c /\ v[1] = s /\ v[2] = d
  BY <1>1, <1>2
<1>4. u[2].tool \in Shells /\ v[2].tool \in Shells /\ v[2].target.id = u[2].target.id /\ v[1] = u[1]
  BY <1>3 DEF Plain
<1>5. v[2] = u[2]
  BY <1>4, CallAssumption
<1> QED
  BY <1>3, <1>5

\* The records of a call: all change something, or none does.
LEMMA RecordsAlter ==
  ASSUME NEW s, NEW c, <<s, c>> \in Uses, NEW ph, NEW recs, Tells(recs, s, ph, c)
  PROVE  /\ Altering(c) => (\E k \in DOMAIN recs : TRUE) /\ \A k \in DOMAIN recs : Changes(recs[k])
         /\ ~Altering(c) => \A k \in DOMAIN recs : ~Changes(recs[k])
<1>1. Telling(c)
  BY CallTells
<1>2. PICK o : o = OpsOf(c)
  OBVIOUS
<1>3. DOMAIN recs = DOMAIN o /\ \A k \in DOMAIN recs : recs[k].op = o[k].op
  BY <1>2 DEF Tells
<1>4. o # <<>> => \E k \in DOMAIN o : TRUE
  <2>1. IsList(o)
    BY <1>1, <1>2 DEF Telling
  <2>2. Len(o) \in Nat /\ DOMAIN o = 1 .. Len(o)
    BY <2>1, SeqSpan
  <2>3. Len(o) = 0 => o = <<>>
    BY <2>1, EmptySeq DEF IsList
  <2>4. Len(o) # 0 => 1 \in DOMAIN o
    BY <2>2
  <2> QED
    BY <2>3, <2>4
<1>5. Altering(c) => o # <<>> /\ \A k \in DOMAIN o : o[k].op \in {"write", "delete"}
  BY <1>1, <1>2 DEF Telling
<1>6. ~Altering(c) => \A k \in DOMAIN o : o[k].op \notin {"write", "delete"}
  BY <1>1, <1>2 DEF Telling
<1> QED
  BY <1>3, <1>4, <1>5, <1>6 DEF Changes

LEMMA NoPrior ==
  ASSUME NEW l, NEW recs, NEW l2, IsList(l), IsList(recs), Joined(l, recs, l2), NEW s, NEW h,
         \E k \in DOMAIN recs : TRUE, \A n \in DOMAIN recs : recs[n].session = s /\ Changes(recs[n])
  PROVE  Prior(l2, s, h) = 0
<1>1. PriorSet(l2, s, h) = {}
  BY PriorZero
<1> QED
  BY <1>1, PriorIsCount, FS_EmptySet

LEMMA SamePrior ==
  ASSUME NEW l, NEW recs, NEW l2, IsList(l), IsList(recs), Joined(l, recs, l2), NEW s, NEW h,
         \A k \in DOMAIN recs : Beside(recs[k], s, h)
  PROVE  Prior(l2, s, h) = Prior(l, s, h)
<1>1. PriorSet(l2, s, h) = PriorSet(l, s, h)
  BY PriorSame
<1> QED
  BY <1>1, PriorIsCount

LEMMA EmptiedBy ==
  ASSUME NEW S, IsFiniteSet(S), Cardinality(S) <= 1, NEW d \in S
  PROVE  S \ {d} = {}
<1>1. IsFiniteSet(S \ {d}) /\ Cardinality(S \ {d}) = Cardinality(S) - 1
  BY FS_RemoveElement
<1>2. Cardinality(S) \in Nat /\ Cardinality(S \ {d}) \in Nat
  BY <1>1, FS_CardinalityType
<1>3. Cardinality(S \ {d}) = 0
  BY <1>1, <1>2
<1> QED
  BY <1>1, <1>3, FS_EmptySet

\* The announcement of a call is written down.
LEMMA EvenTold ==
  ASSUME NEW s, NEW q, NEW l, IsList(l), NEW x, NEW y, NEW c, c = x.call, <<s, c>> \in Uses, Even(x, q, l, s),
         x.at = "pre", x.session = s, y.at = "pre", y.todo = {}, x.todo # {},
         NEW recs, Tells(recs, s, "pre", c), NEW l2, l2 = l \o recs
  PROVE  Even(y, q, l2, s)
<1>1. Waits(x, s) /\ ~Waits(y, s)
  BY DEF Waits
<1>2. IsList(recs)
  BY DEF Tells
<1>3. Joined(l, recs, l2)
  BY <1>2, ConcatShape
<1>4. \A k \in DOMAIN recs : recs[k].session = s /\ recs[k].phase = "pre" /\ recs[k].hash = OpsOf(c)[k].hash
  BY DEF Tells
<1>5. Cardinality(y.todo) <= 1
  BY FS_EmptySet
<1>6. ASSUME NEW d, <<s, d>> \in Uses, Plain(d) PROVE Count(q, d) = Prior(l2, s, d.target.id)
  <2>1. CASE Altering(c)
    <3>1. q = <<>>
      BY <1>1, <2>1 DEF Even
    <3>2. Count(q, d) = 0
      BY <3>1, CountNone
    <3>3. (\E k \in DOMAIN recs : TRUE) /\ \A k \in DOMAIN recs : recs[k].session = s /\ Changes(recs[k])
      BY <1>4, <2>1, RecordsAlter
    <3>4. Prior(l2, s, d.target.id) = 0
      BY <1>2, <1>3, <3>3, NoPrior
    <3> QED
      BY <3>2, <3>4
  <2>2. CASE ~Altering(c) /\ d = c
    <3>1. PICK n : n = Prior(l, s, d.target.id)
      OBVIOUS
    <3>2. Count(q, d) = n + 1
      BY <1>1, <1>6, <2>2, <3>1 DEF Even
    <3>3. OpsOf(c) = <<Op("command", Null, c.target.id, c.target.kind)>>
      BY <1>6, <2>2, OpsAre
    <3>4. DOMAIN recs = 1 .. 1 /\ recs[1].hash = d.target.id
      <4>1. PICK o : o = OpsOf(c)
        OBVIOUS
      <4>2. PICK p : p = Op("command", Null, c.target.id, c.target.kind)
        OBVIOUS
      <4>3. DOMAIN o = 1 .. 1 /\ o[1] = p
        BY <3>3, <4>1, <4>2, OneIsList
      <4>4. p.hash = c.target.id
        BY <4>2 DEF Op
      <4>5. DOMAIN recs = DOMAIN o
        BY <4>1 DEF Tells
      <4> QED
        BY <1>4, <2>2, <4>1, <4>3, <4>4, <4>5
    <3>5. PICK r : r = recs[1]
      OBVIOUS
    <3>6. r.session = s /\ r.phase = "pre" /\ r.hash = d.target.id /\ ~Changes(r)
      BY <1>4, <2>2, <3>4, <3>5, RecordsAlter
    <3>7. Longer(l, r, l2)
      <4>1. Len(recs) = 1
        BY <1>2, <3>4, SeqSpan
      <4> QED
        BY <1>3, <3>5, <4>1 DEF Joined, Longer
    <3>8. Prior(l2, s, d.target.id) = Prior(l, s, d.target.id) + 1
      BY <3>6, <3>7, PriorMore
    <3> QED
      BY <3>1, <3>2, <3>8
  <2>3. CASE ~Altering(c) /\ d # c
    <3>1. PICK n : n = Prior(l, s, d.target.id)
      OBVIOUS
    <3>2. n \in Nat
      BY <3>1, PriorIsCount, PriorFinite
    <3>3. Count(q, d) = n
      BY <1>6, <2>3, <3>1, <3>2 DEF Even
    <3>4. d.target.id # Null
      <4>1. PICK v \in Uses : v = <<s, d>>
        BY <1>6
      <4>2. d = v[2]
        BY <4>1
      <4> QED
        BY <1>6, <4>2, CallKinds
    <3>5. \A k \in DOMAIN recs : recs[k].hash # d.target.id
      <4>1. CASE ~Plain(c)
        <5>1. \A k \in DOMAIN OpsOf(c) : OpsOf(c)[k].hash = Null
          BY <4>1, HashIsPlain
        <5>2. DOMAIN recs = DOMAIN OpsOf(c)
          BY DEF Tells
        <5> QED
          BY <1>4, <3>4, <5>1, <5>2
      <4>2. CASE Plain(c)
        <5>1. c.target.id # d.target.id
          BY <1>6, <2>3, <4>2, OneCommand
        <5>2. PICK o : o = OpsOf(c)
          OBVIOUS
        <5>3. PICK p : p = Op("command", Null, c.target.id, c.target.kind)
          OBVIOUS
        <5>4. o = <<p>>
          BY <4>2, <5>2, <5>3, OpsAre
        <5>5. DOMAIN o = 1 .. 1 /\ o[1] = p
          BY <5>4, OneIsList
        <5>6. p.hash = c.target.id
          BY <5>3 DEF Op
        <5>7. DOMAIN recs = DOMAIN o
          BY <5>2 DEF Tells
        <5> QED
          BY <1>4, <5>1, <5>2, <5>5, <5>6, <5>7
      <4> QED
        BY <4>1, <4>2
    <3>6. \A k \in DOMAIN recs : Beside(recs[k], s, d.target.id)
      BY <2>3, <3>5, RecordsAlter DEF Beside
    <3>7. Prior(l2, s, d.target.id) = Prior(l, s, d.target.id)
      BY <1>2, <1>3, <3>6, SamePrior
    <3> QED
      BY <3>1, <3>3, <3>7
  <2> QED
    BY <2>1, <2>2, <2>3
<1>7. \A d : Prior(l2, s, d.target.id) \in Nat
  <2>1. IsList(l2)
    BY <1>3 DEF Joined
  <2> QED
    BY <2>1, PriorIsCount, PriorFinite
<1> QED
  BY <1>1, <1>5, <1>6, <1>7 DEF Even

\* The end of a call is written down.
LEMMA EvenAfter ==
  ASSUME NEW s, NEW q, NEW q2, NEW l, IsList(l), NEW x, NEW y, NEW c, <<s, c>> \in Uses, Even(x, q, l, s),
         x.at = "post", y.at # "pre", NEW ph, ph # "pre",
         NEW recs, Tells(recs, s, ph, c), NEW l2, l2 = l \o recs,
         q2 = IF \E r \in Range(recs) : Changes(r) THEN <<>> ELSE q
  PROVE  Even(y, q2, l2, s)
<1>1. ~Waits(x, s) /\ ~Waits(y, s)
  BY DEF Waits
<1>2. IsList(recs)
  BY DEF Tells
<1>3. Joined(l, recs, l2)
  BY <1>2, ConcatShape
<1>4. \A k \in DOMAIN recs : recs[k].session = s /\ recs[k].phase # "pre"
  BY DEF Tells
<1>5. ASSUME NEW d, <<s, d>> \in Uses, Plain(d) PROVE Count(q2, d) = Prior(l2, s, d.target.id)
  <2>1. CASE Altering(c)
    <3>1. (\E k \in DOMAIN recs : TRUE) /\ \A k \in DOMAIN recs : recs[k].session = s /\ Changes(recs[k])
      BY <1>4, <2>1, RecordsAlter
    <3>2. q2 = <<>>
      BY <3>1 DEF Range
    <3>3. Count(q2, d) = 0
      BY <3>2, CountNone
    <3>4. Prior(l2, s, d.target.id) = 0
      BY <1>2, <1>3, <3>1, NoPrior
    <3> QED
      BY <3>3, <3>4
  <2>2. CASE ~Altering(c)
    <3>1. \A k \in DOMAIN recs : ~Changes(recs[k])
      BY <2>2, RecordsAlter
    <3>2. q2 = q
      BY <3>1 DEF Range
    <3>3. \A k \in DOMAIN recs : Beside(recs[k], s, d.target.id)
      BY <1>4, <3>1 DEF Beside
    <3>4. PICK n : n = Prior(l, s, d.target.id)
      OBVIOUS
    <3>5. n \in Nat
      BY <3>4, PriorIsCount, PriorFinite
    <3>6. Prior(l2, s, d.target.id) = Prior(l, s, d.target.id)
      BY <1>2, <1>3, <3>3, SamePrior
    <3>7. Count(q, d) = n
      BY <1>1, <1>5, <3>4, <3>5 DEF Even
    <3> QED
      BY <3>2, <3>4, <3>6, <3>7
  <2> QED
    BY <2>1, <2>2
<1>6. \A d : Prior(l2, s, d.target.id) \in Nat
  <2>1. IsList(l2)
    BY <1>3 DEF Joined
  <2> QED
    BY <2>1, PriorIsCount, PriorFinite
<1> QED
  BY <1>1, <1>5, <1>6 DEF Even

\* The verdict of a hook that has judged a call.
Flagged(p, x, q) ==
    (x.at = "pre" /\ x.judged # <<>> /\ x.steady = "yes" /\ p # Null) =>
       (Looped(x.judged[1].recs) <=> IsLoop(p, x.call, Count(q, x.call)))

LoopInv ==
    /\ since = [s \in Sessions |-> since[s]]
    /\ \A s \in Sessions : IsList(since[s]) /\ (s \notin skewed => Calm(slot, since[s], log, s))
    /\ \A i \in Slots : slot[i].session \notin skewed =>
          Flagged(LoadPolicy(rules.policy), slot[i], since[slot[i].session])

\* A step of one slot, which is one session's.
LEMMA LoopAgain ==
  ASSUME TypesInv, LoopInv, rules' = rules, NEW i \in Slots, NEW x, x = slot[i], NEW y, NEW z \in Sessions, NEW q,
         slot' = [slot EXCEPT ![i] = y], \A s : s # z => ~Of(x, s) /\ ~Of(y, s),
         skewed \subseteq skewed', since' = [since EXCEPT ![z] = q], IsList(q),
         NEW l, l = log, NEW l2, l2 = log', \A s \in Sessions : s # z => Unheard(l, l2, s),
         z \notin skewed' => /\ Calm(slot', q, log', z)
                             /\ Flagged(LoadPolicy(rules.policy), y, q)
                             /\ q = since[z] \/ Alone(slot, i, z)
  PROVE  LoopInv'
<1> DEFINE p == LoadPolicy(rules.policy)
<1>1. slot = [j \in Slots |-> slot[j]] /\ \A j \in Slots : slot[j] = Idle \/ Called(slot[j])
  BY DEF TypesInv
<1>2. slot'[i] = y /\ \A j \in Slots : j # i => slot'[j] = slot[j]
  BY <1>1, SlotChanges
<1>3. since = [s \in Sessions |-> since[s]]
  BY DEF LoopInv
<1>4. /\ since' = [s \in Sessions |-> since'[s]] /\ since'[z] = q
      /\ \A s \in Sessions : s # z => since'[s] = since[s]
  BY <1>3
<1>5. ASSUME NEW s \in Sessions PROVE IsList(since'[s]) /\ (s \notin skewed' => Calm(slot', since'[s], log', s))
  <2>1. CASE s = z
    BY <1>4, <2>1
  <2>2. CASE s # z
    <3>1. since'[s] = since[s] /\ IsList(since[s])
      BY <1>4, <2>2 DEF LoopInv
    <3>2. ASSUME s \notin skewed' PROVE Calm(slot', since[s], log', s)
      <4>1. PICK sl : sl = slot
        OBVIOUS
      <4>2. PICK sl2 : sl2 = slot'
        OBVIOUS
      <4>3. PICK w : w = since[s]
        OBVIOUS
      <4>4. Calm(sl, w, l, s)
        BY <3>2, <4>1, <4>3 DEF LoopInv
      <4>5. \A j \in Slots : j # i => sl2[j] = sl[j]
        BY <1>2, <4>1, <4>2
      <4>6. ~Of(sl[i], s)
        BY <2>2, <4>1
      <4>7. ~Of(sl2[i], s)
        BY <1>2, <2>2, <4>2
      <4>8. Apart(sl, sl2, i, s)
        BY <4>5, <4>6, <4>7 DEF Apart
      <4>9. Unheard(l, l2, s)
        BY <2>2
      <4>10. Calm(sl2, w, l2, s)
        BY <4>4, <4>8, <4>9, CalmElsewhere
      <4> QED
        BY <4>2, <4>3, <4>10
    <3> QED
      BY <3>1, <3>2
  <2> QED
    BY <2>1, <2>2
<1>6. ASSUME NEW j \in Slots, slot'[j].session \notin skewed'
      PROVE  Flagged(p, slot'[j], since'[slot'[j].session])
  <2>1. CASE slot'[j].at # "pre"
    BY <2>1 DEF Flagged
  <2>2. CASE j = i /\ slot'[j].at = "pre"
    <3>1. Of(y, y.session)
      BY <1>2, <2>2 DEF Of
    <3>2. y.session = z
      BY <3>1
    <3> QED
      BY <1>2, <1>4, <1>6, <2>2, <3>2
  <2>3. CASE j # i /\ slot'[j].at = "pre"
    <3>1. PICK v : v = slot[j]
      OBVIOUS
    <3>2. slot'[j] = v /\ v.at = "pre"
      BY <1>2, <2>3, <3>1
    <3>3. Called(v)
      BY <1>1, <3>1, <3>2 DEF Idle
    <3>4. v.session \in Sessions
      <4>1. PICK u \in Uses : u = <<v.session, v.call>>
        BY <3>3 DEF Called
      <4>2. u[1] \in Sessions
        BY CallKinds
      <4> QED
        BY <4>1, <4>2
    <3>5. Flagged(p, v, since[v.session])
      BY <1>6, <3>1, <3>2 DEF LoopInv
    <3>6. since'[v.session] = since[v.session]
      <4>1. CASE v.session # z
        BY <1>4, <3>4, <4>1
      <4>2. CASE v.session = z
        <5>1. Of(slot[j], z)
          BY <3>1, <3>2, <4>2 DEF Of
        <5>2. ~Alone(slot, i, z)
          BY <2>3, <5>1 DEF Alone
        <5>3. q = since[z]
          BY <1>6, <3>2, <4>2, <5>2
        <5> QED
          BY <1>4, <4>2, <5>3
      <4> QED
        BY <4>1, <4>2
    <3> QED
      BY <3>2, <3>5, <3>6
  <2> QED
    BY <2>1, <2>2, <2>3
<1>7. p = LoadPolicy(rules'.policy)
  OBVIOUS
<1> QED
  BY <1>4, <1>5, <1>6, <1>7 DEF LoopInv

\* What is written down of one session says nothing of another.
Says(recs, z) == IsList(recs) /\ \A k \in DOMAIN recs : recs[k].session = z
Grows(l, l2, recs) == l2 = l \/ l2 = Append(l, Degraded) \/ l2 = l \o recs

LEMMA OthersUnheard ==
  ASSUME NEW l, IsList(l), NEW l2, NEW recs, NEW z, Says(recs, z), Grows(l, l2, recs),
         NEW s \in Sessions, s # z
  PROVE  Unheard(l, l2, s)
<1> SUFFICES ASSUME NEW h PROVE PriorSet(l2, s, h) = PriorSet(l, s, h)
  BY DEF Unheard
<1>0. IsList(recs) /\ \A k \in DOMAIN recs : recs[k].session = z
  BY DEF Says
<1>1. CASE l2 = Append(l, Degraded)
  <2>1. PICK t : t = <<Degraded>>
    OBVIOUS
  <2>2. IsList(t) /\ DOMAIN t = 1 .. 1 /\ t[1] = Degraded
    BY <2>1, OneIsList
  <2>3. l2 = l \o t
    BY <1>1, <2>1, JoinOne
  <2>4. Joined(l, t, l2)
    BY <2>2, <2>3, ConcatShape
  <2>5. Degraded.session # s
    BY GuardingAssumption DEF Degraded
  <2>6. \A k \in DOMAIN t : Beside(t[k], s, h)
    BY <2>2, <2>5 DEF Beside
  <2> QED
    BY <2>2, <2>4, <2>6, PriorSame
<1>2. CASE l2 = l \o recs
  <2>1. Joined(l, recs, l2)
    BY <1>0, <1>2, ConcatShape
  <2>2. \A k \in DOMAIN recs : Beside(recs[k], s, h)
    BY <1>0 DEF Beside
  <2> QED
    BY <1>0, <2>1, <2>2, PriorSame
<1> QED
  BY <1>1, <1>2 DEF Grows

LEMMA LoopAsks ==
  ASSUME TypesInv, WiringInv, LoopInv, NEW i \in Slots, NEW u \in Uses, Asks(i, u)
  PROVE  LoopInv'
<1>1. PICK y : Asked(i, u, y)
  BY AsksSlot
<1>2. PICK z : z = u[1]
  OBVIOUS
<1>3. PICK c : c = u[2]
  OBVIOUS
<1>4. z \in Sessions /\ <<z, c>> \in Uses
  BY <1>2, <1>3, CallKinds
<1>5. /\ slot' = [slot EXCEPT ![i] = y] /\ slot[i] = Idle /\ Called(y) /\ y.at = "pre" /\ y.session = z /\ y.call = c
      /\ y.judged = <<>> /\ y.todo = Starts(EditorOf[z], "pre", c.tool)
  BY <1>1, <1>2, <1>3 DEF Asked
<1>6. PICK q : q = IF y.todo = {} THEN since[z] ELSE IF Altering(c) THEN <<>> ELSE Append(since[z], c)
  OBVIOUS
<1>7. rules' = rules /\ log' = log
  BY DEF Asks
<1>8. since' = [since EXCEPT ![z] = q]
  <2>1. since' = IF y.todo = {} THEN since
                 ELSE IF Named(c) # {} /\ c.tool \notin Readers THEN [since EXCEPT ![z] = <<>>]
                 ELSE [since EXCEPT ![z] = Append(@, c)]
    BY <1>2, <1>3, <1>5 DEF Asks
  <2>2. since = [s \in Sessions |-> since[s]]
    BY DEF LoopInv
  <2> QED
    BY <1>4, <1>6, <2>1, <2>2 DEF Altering
<1>9. skewed' = IF \/ Cardinality(y.todo) > 1
                   \/ \E j \in Slots \ {i} : Busy(j) /\ slot[j].session = z
                THEN skewed \cup {z} ELSE skewed
  BY <1>2, <1>3, <1>5 DEF Asks
<1>10. IsList(since[z]) /\ IsList(log)
  BY <1>4 DEF LoopInv, TypesInv
<1>11. IsList(q)
  <2>1. CASE q = Append(since[z], c)
    <3>1. PICK w : w = since[z]
      OBVIOUS
    <3>2. Longer(w, c, q)
      BY <1>10, <2>1, <3>1, AppendIsLonger
    <3> QED
      BY <3>2 DEF Longer
  <2> QED
    BY <1>6, <1>10, <2>1, EmptyIsList
<1>12. \A s : s # z => ~Of(Idle, s) /\ ~Of(y, s)
  BY <1>5 DEF Of, Idle
<1>13. ASSUME z \notin skewed'
       PROVE  /\ Calm(slot', q, log', z) /\ Flagged(LoadPolicy(rules.policy), y, q)
              /\ Alone(slot, i, z)
  <2>1. /\ z \notin skewed /\ ~(Cardinality(y.todo) > 1)
        /\ \A j \in Slots \ {i} : ~(Busy(j) /\ slot[j].session = z)
    BY <1>9, <1>13
  <2>2. Cardinality(y.todo) <= 1
    <3>1. y.todo \subseteq OursOf(EditorOf[y.session])
      BY <1>5 DEF Called
    <3>2. IsFiniteSet(y.todo)
      BY <3>1, OursFinite, FS_Subset
    <3>3. Cardinality(y.todo) \in Nat
      BY <3>2, FS_CardinalityType
    <3> QED
      BY <2>1, <3>3
  <2>3. Alone(slot, i, z)
    BY <2>1 DEF Alone, Of, Busy
  <2>4. PICK w : w = since[z]
    OBVIOUS
  <2>5. PICK l : l = log
    OBVIOUS
  <2>6. Even(Idle, w, l, z)
    <3>1. Calm(slot, w, l, z)
      BY <1>4, <2>1, <2>4, <2>5 DEF LoopInv
    <3>2. \A j \in Slots : ~Of(slot[j], z)
      BY <1>5, <2>3 DEF Alone, Of, Idle
    <3> QED
      BY <3>1, <3>2 DEF Calm
  <2>7. PICK x : x = Idle
    OBVIOUS
  <2>8. ~Waits(x, z) /\ Even(x, w, l, z)
    BY <2>6, <2>7 DEF Waits, Idle
  <2>9. /\ y.todo = {} => q = w
        /\ y.todo # {} => q = IF Altering(y.call) THEN <<>> ELSE Append(w, y.call)
    BY <1>5, <1>6, <2>4
  <2>10. IsList(w) /\ IsList(l) /\ <<z, y.call>> \in Uses
    BY <1>4, <1>5, <1>10, <2>4, <2>5
  <2>11. Even(y, q, l, z)
    BY <1>5, <2>2, <2>8, <2>9, <2>10, EvenAsked
  <2>12. PICK sl : sl = slot'
    OBVIOUS
  <2>13. slot = [j \in Slots |-> slot[j]]
    BY DEF TypesInv
  <2>14. sl[i] = y /\ \A j \in Slots : j # i => sl[j] = slot[j]
    BY <1>5, <2>12, <2>13, SlotChanges
  <2>15. Alone(sl, i, z) /\ Of(y, z)
    BY <1>5, <2>3, <2>14 DEF Alone, Of
  <2>16. Calm(sl, q, l, z)
    BY <2>11, <2>14, <2>15, CalmOwn
  <2>17. Flagged(LoadPolicy(rules.policy), y, q)
    BY <1>5 DEF Flagged
  <2> QED
    BY <1>7, <2>3, <2>5, <2>12, <2>16, <2>17
<1>14. skewed \subseteq skewed'
  BY <1>9
<1>15. PICK l : l = log
  OBVIOUS
<1>16. PICK l2 : l2 = log'
  OBVIOUS
<1>17. \A s \in Sessions : s # z => Unheard(l, l2, s)
  BY <1>7, <1>15, <1>16 DEF Unheard
<1>18. PICK x : x = slot[i]
  OBVIOUS
<1>19. \A s : s # z => ~Of(x, s) /\ ~Of(y, s)
  BY <1>5, <1>12, <1>18
<1> QED
  BY <1>4, <1>5, <1>7, <1>8, <1>11, <1>13, <1>14, <1>17, <1>18, <1>19, <1>15, <1>16,
     LoopAgain

\* A step of one slot's call, with what it writes down.
StepOf(i, x, y, q, recs) ==
    /\ x = slot[i] /\ Called(x) /\ slot' = [slot EXCEPT ![i] = y] /\ (y = Idle \/ Of(y, x.session))
    /\ rules' = rules /\ skewed \subseteq skewed'
    /\ IsList(q) /\ since' = [since EXCEPT ![x.session] = q]
    /\ Says(recs, x.session) /\ Grows(log, log', recs)
Evens(x, y, w, q, l, l2, z) ==
    (z \notin skewed' /\ Even(x, w, l, z)) => Even(y, q, l2, z) /\ Flagged(LoadPolicy(rules.policy), y, q)

LEMMA LoopStep ==
  ASSUME TypesInv, LoopInv, NEW i \in Slots, NEW x, NEW y, NEW q, NEW recs, StepOf(i, x, y, q, recs),
         Evens(x, y, since[x.session], q, log, log', x.session)
  PROVE  LoopInv'
<1>1. PICK z : z = x.session
  OBVIOUS
<1>2. PICK w : w = since[z]
  OBVIOUS
<1>3. PICK l : l = log
  OBVIOUS
<1>4. PICK l2 : l2 = log'
  OBVIOUS
<1>5. /\ x = slot[i] /\ Called(x) /\ slot' = [slot EXCEPT ![i] = y] /\ (y = Idle \/ Of(y, z))
      /\ rules' = rules /\ skewed \subseteq skewed'
      /\ IsList(q) /\ since' = [since EXCEPT ![z] = q]
      /\ Says(recs, z) /\ Grows(l, l2, recs)
  BY <1>1, <1>3, <1>4 DEF StepOf
<1>6. (z \notin skewed' /\ Even(x, w, l, z)) => Even(y, q, l2, z) /\ Flagged(LoadPolicy(rules.policy), y, q)
  BY <1>1, <1>2, <1>3, <1>4 DEF Evens
<1>7. z \in Sessions /\ x.at # "idle" /\ Of(x, z)
  <2>1. PICK u \in Uses : u = <<x.session, x.call>>
    BY <1>5 DEF Called
  <2>2. u[1] \in Sessions
    BY CallKinds
  <2> QED
    BY <1>1, <1>5, <2>1, <2>2 DEF Called, Of
<1>8. \A s : s # z => ~Of(x, s) /\ ~Of(y, s)
  BY <1>7, <1>5 DEF Of, Idle
<1>9. \A s \in Sessions : s # z => Unheard(l, l2, s)
  <2>1. IsList(l)
    BY <1>3 DEF TypesInv
  <2> QED
    BY <1>5, <2>1, OthersUnheard
<1>10. ASSUME z \notin skewed'
      PROVE  /\ Calm(slot', q, log', z) /\ Flagged(LoadPolicy(rules.policy), y, q)
             /\ Alone(slot, i, z)
  <2>1. PICK sl : sl = slot
    OBVIOUS
  <2>2. Calm(sl, w, l, z)
    BY <1>7, <1>10, <1>2, <1>3, <1>5, <2>1 DEF LoopInv
  <2>3. Of(sl[i], z)
    BY <1>7, <1>5, <2>1
  <2>4. Alone(sl, i, z) /\ Even(sl[i], w, l, z)
    BY <2>2, <2>3, CalmUse
  <2>5. Even(y, q, l2, z) /\ Flagged(LoadPolicy(rules.policy), y, q)
    BY <1>10, <1>5, <1>6, <2>1, <2>4
  <2>6. PICK sl2 : sl2 = slot'
    OBVIOUS
  <2>7. sl = [j \in Slots |-> sl[j]]
    BY <2>1 DEF TypesInv
  <2>8. sl2[i] = y /\ \A j \in Slots : j # i => sl2[j] = sl[j]
    BY <1>5, <2>1, <2>6, <2>7
  <2>9. Alone(sl2, i, z)
    BY <2>4, <2>8 DEF Alone
  <2>10. Of(y, z) \/ ~Waits(y, z)
    BY <1>5 DEF Waits, Idle
  <2>11. Calm(sl2, q, l2, z)
    BY <2>5, <2>8, <2>9, <2>10, CalmOwn
  <2> QED
    BY <1>4, <2>1, <2>4, <2>5, <2>6, <2>11
<1> QED
  BY <1>7, <1>8, <1>9, <1>10, <1>3, <1>4, <1>5, LoopAgain

\* A call that is not waiting to be written down is as good as none.
LEMMA EvenOff ==
  ASSUME NEW x, NEW q, NEW l, NEW s, ~Waits(x, s), Even(x, q, l, s), NEW y, y.at # "pre"
  PROVE  Even(y, q, l, s)
<1>1. ~Waits(y, s)
  BY DEF Waits
<1> QED
  BY <1>1 DEF Even

LEMMA CallOf ==
  ASSUME NEW x, Called(x)
  PROVE  /\ x.session \in Sessions /\ x.at # "idle" /\ <<x.session, x.call>> \in Uses /\ IsFiniteSet(x.todo)
         /\ x.at = "post" => x.phase # "pre"
<1>1. PICK u \in Uses : u = <<x.session, x.call>>
  BY DEF Called
<1>2. u[1] \in Sessions
  BY CallKinds
<1>3. IsFiniteSet(x.todo)
  BY OursFinite, FS_Subset DEF Called
<1> QED
  BY <1>1, <1>2, <1>3 DEF Called

LEMMA LoopGoes ==
  ASSUME TypesInv, LoopInv, UNCHANGED <<rules, log, since, skewed>>, NEW i \in Slots, NEW x, x = slot[i],
         Called(x), x.at = "pre", x.todo = {}, NEW y, slot' = [slot EXCEPT ![i] = y],
         y = Idle \/ (y.at = "post" /\ y.session = x.session)
  PROVE  LoopInv'
<1>1. PICK z : z = x.session
  OBVIOUS
<1>2. PICK q : q = since[z]
  OBVIOUS
<1>3. PICK l : l = log
  OBVIOUS
<1>4. PICK recs : recs = <<>>
  OBVIOUS
<1>5. z \in Sessions
  BY <1>1, CallOf
<1>6. since = [s \in Sessions |-> since[s]] /\ IsList(q)
  BY <1>2, <1>5 DEF LoopInv
<1>7. since' = [since EXCEPT ![x.session] = q]
  BY <1>1, <1>2, <1>5, <1>6
<1>8. IsList(recs) /\ \A k \in DOMAIN recs : recs[k].session = x.session
  BY <1>4, EmptyIsList
<1>9. y.at # "pre" /\ (y = Idle \/ Of(y, x.session))
  BY DEF Of, Idle
<1>10. ASSUME Even(x, q, l, z) PROVE Even(y, q, l, z) /\ Flagged(LoadPolicy(rules.policy), y, q)
  <2>1. ~Waits(x, z)
    BY DEF Waits
  <2>2. Even(y, q, l, z)
    BY <1>9, <1>10, <2>1, EvenOff
  <2> QED
    BY <1>9, <2>2 DEF Flagged
<1>11. StepOf(i, x, y, q, recs)
  BY <1>6, <1>7, <1>8, <1>9 DEF StepOf, Says, Grows
<1>12. Evens(x, y, since[x.session], q, log, log', x.session)
  BY <1>1, <1>2, <1>3, <1>10 DEF Evens
<1> QED
  BY <1>11, <1>12, LoopStep

LEMMA LoopJudges ==
  ASSUME TypesInv, LoopInv, NEW i \in Slots, Judges(i)
  PROVE  LoopInv'
<1>1. PICK x, j, y : Judged(i, x, j, y)
  BY JudgesSlot
<1>2. PICK z : z = x.session
  OBVIOUS
<1>3. PICK q : q = since[z]
  OBVIOUS
<1>4. PICK l : l = log
  OBVIOUS
<1>5. PICK recs : recs = <<>>
  OBVIOUS
<1>6. PICK c : c = x.call
  OBVIOUS
<1>7. /\ slot' = [slot EXCEPT ![i] = y] /\ x = slot[i] /\ Called(x) /\ Called(y)
      /\ x.at = "pre" /\ x.judged = <<>> /\ y = [x EXCEPT !.judged = <<j>>] /\ JudgedWell(x, j)
      /\ DOMAIN j.recs = DOMAIN Fresh(z, "pre", c)
      /\ \A k \in DOMAIN j.recs : j.recs[k].guard = Judgement(Fresh(z, "pre", c)[k], z)
  BY <1>1, <1>2, <1>6 DEF Judged
<1>8. z \in Sessions /\ <<z, c>> \in Uses
  BY <1>2, <1>6, <1>7, CallOf
<1>9. since = [s \in Sessions |-> since[s]] /\ IsList(q)
  BY <1>3, <1>8 DEF LoopInv
<1>10. rules' = rules /\ log' = log /\ skewed' = skewed /\ since' = since
  BY DEF Judges, told
<1>11. since' = [since EXCEPT ![x.session] = q]
  BY <1>2, <1>3, <1>8, <1>9, <1>10
<1>12. IsList(recs) /\ \A k \in DOMAIN recs : recs[k].session = x.session
  BY <1>5, EmptyIsList
<1>13. y.at = "pre" /\ y.session = z /\ y.call = c /\ y.todo = x.todo /\ y.judged = <<j>>
  <2>1. x = [at |-> x.at, session |-> x.session, call |-> x.call, phase |-> x.phase, todo |-> x.todo,
             judged |-> x.judged, denied |-> x.denied, steady |-> x.steady, guarded |-> x.guarded]
    BY <1>7 DEF Called
  <2>2. y = [at |-> x.at, session |-> x.session, call |-> x.call, phase |-> x.phase, todo |-> x.todo,
             judged |-> <<j>>, denied |-> x.denied, steady |-> x.steady, guarded |-> x.guarded]
    BY <1>7, <2>1
  <2> QED
    BY <1>2, <1>6, <1>7, <2>2
<1>14. Of(y, x.session)
  BY <1>2, <1>13 DEF Of
<1>15. PICK p : p = LoadPolicy(rules.policy)
  OBVIOUS
<1>16. ASSUME Even(x, q, l, z) PROVE Even(y, q, l, z) /\ Flagged(p, y, q)
  <2>1. Waits(x, z) /\ Waits(y, z)
    BY <1>2, <1>7, <1>13 DEF Waits, JudgedWell
  <2>2. Even(y, q, l, z)
    BY <1>2, <1>6, <1>7, <1>13, <1>16, <2>1 DEF Even
  <2>3. ASSUME p # Null PROVE Looped(j.recs) <=> IsLoop(p, c, Count(q, c))
    <3>1. PICK u \in Uses : u = <<z, c>>
      BY <1>8
    <3>2. c = u[2] /\ z = u[1]
      BY <3>1
    <3>3. PICK fresh : fresh = Fresh(z, "pre", c)
      OBVIOUS
    <3>4. PICK out : out = j.recs
      OBVIOUS
    <3>5. DOMAIN out = DOMAIN fresh
      BY <1>7, <3>3, <3>4
    <3>6. \A k \in DOMAIN out : out[k].guard = Judgement(fresh[k], z)
      BY <1>7, <3>3, <3>4
    <3>7. Looped(out) <=> IsLoop(p, c, Prior(log, z, c.target.id) + 1)
      BY <1>15, <2>3, <3>2, <3>3, <3>5, <3>6, LoopJudged
    <3>8. CASE Plain(c)
      <4>1. Named(c) = {}
        BY <3>2, <3>8, CallKinds
      <4>2. ~Altering(x.call)
        BY <1>6, <4>1 DEF Altering
      <4>3. Count(q, c) = Prior(l, z, c.target.id) + 1
        BY <1>6, <1>8, <1>16, <2>1, <3>8, <4>2 DEF Even
      <4> QED
        BY <1>4, <3>4, <3>7, <4>3
    <3>9. CASE ~Plain(c)
      BY <3>4, <3>7, <3>9 DEF IsLoop
    <3> QED
      BY <3>8, <3>9
  <2>4. y.judged[1] = j
    BY <1>13
  <2> QED
    BY <1>13, <2>2, <2>3, <2>4 DEF Flagged
<1>17. StepOf(i, x, y, q, recs)
  BY <1>7, <1>9, <1>10, <1>11, <1>12, <1>14 DEF StepOf, Says, Grows
<1>18. Evens(x, y, since[x.session], q, log, log', x.session)
  BY <1>2, <1>3, <1>4, <1>10, <1>15, <1>16 DEF Evens
<1> QED
  BY <1>17, <1>18, LoopStep

LEMMA LoopTold ==
  ASSUME TypesInv, LoopInv, NEW i \in Slots, Records(i) \/ HookFails(i)
  PROVE  LoopInv'
<1>1. PICK x, j, y : /\ Through(i, x, j, y)
                     /\ \/ log' = log \o j.recs /\ skewed' = skewed
                        \/ Grows(log, log', j.recs) /\ skewed' = skewed \cup {x.session}
  <2>1. CASE Records(i)
    <3>1. PICK x, j, y : Through(i, x, j, y) /\ log' = log \o j.recs
      BY <2>1, RecordsSlot
    <3>2. skewed' = skewed
      BY <2>1 DEF Records
    <3> QED
      BY <3>1, <3>2
  <2>2. CASE HookFails(i)
    <3>1. PICK x, j, y : /\ Through(i, x, j, y) /\ y.guarded = "no"
                         /\ \/ log' \in {log, Append(log, Degraded)} /\ heard' = heard
                            \/ log' = log \o j.recs /\ heard' = heard \cup Named(x.call)
                         /\ skewed' = skewed \cup {x.session}
      BY <2>2, FailsSlot
    <3>2. Grows(log, log', j.recs)
      BY <3>1 DEF Grows
    <3> QED
      BY <3>1, <3>2
  <2> QED
    BY <2>1, <2>2
<1>2. PICK z : z = x.session
  OBVIOUS
<1>3. PICK q : q = since[z]
  OBVIOUS
<1>4. PICK l : l = log
  OBVIOUS
<1>5. PICK l2 : l2 = log'
  OBVIOUS
<1>6. PICK recs : recs = j.recs
  OBVIOUS
<1>7. PICK c : c = x.call
  OBVIOUS
<1>8. /\ slot' = [slot EXCEPT ![i] = y] /\ x = slot[i] /\ Called(x) /\ Called(y)
      /\ x.at = "pre" /\ JudgedWell(x, j)
      /\ y.at = "pre" /\ y.session = z /\ y.call = c /\ y.judged = <<>> /\ y.todo = x.todo \ {j.cmd}
  BY <1>1, <1>2, <1>7 DEF Through
<1>9. z \in Sessions /\ <<z, c>> \in Uses /\ IsFiniteSet(x.todo)
  BY <1>2, <1>7, <1>8, CallOf
<1>10. since = [s \in Sessions |-> since[s]] /\ IsList(q)
  BY <1>3, <1>9 DEF LoopInv
<1>11. rules' = rules /\ since' = since
  BY DEF Records, HookFails
<1>12. since' = [since EXCEPT ![x.session] = q]
  BY <1>2, <1>3, <1>9, <1>10, <1>11
<1>13. Tells(recs, z, "pre", c)
  BY <1>2, <1>6, <1>7, <1>8 DEF JudgedWell
<1>14. Says(recs, x.session) /\ Grows(log, log', recs)
  BY <1>1, <1>2, <1>6, <1>13 DEF Says, Tells, Grows
<1>15. ASSUME z \notin skewed', Even(x, q, l, z)
       PROVE  Even(y, q, l2, z) /\ Flagged(LoadPolicy(rules.policy), y, q)
  <2>1. l2 = l \o recs
    BY <1>1, <1>2, <1>4, <1>5, <1>6, <1>15
  <2>2. Cardinality(x.todo) <= 1
    BY <1>2, <1>8, <1>15 DEF Even
  <2>3. j.cmd \in x.todo
    BY <1>8 DEF JudgedWell
  <2>4. y.todo = {}
    BY <1>8, <1>9, <2>2, <2>3, EmptiedBy
  <2>5. x.session = z /\ x.todo # {} /\ IsList(l)
    BY <1>2, <1>4, <2>3 DEF TypesInv
  <2>6. Even(y, q, l2, z)
    BY <1>7, <1>8, <1>9, <1>13, <1>15, <2>1, <2>4, <2>5, EvenTold
  <2> QED
    BY <1>8, <2>6 DEF Flagged
<1>16. Of(y, x.session) /\ skewed \subseteq skewed'
  BY <1>1, <1>2, <1>8 DEF Of
<1>17. StepOf(i, x, y, q, recs)
  BY <1>8, <1>10, <1>11, <1>12, <1>14, <1>16 DEF StepOf
<1>18. Evens(x, y, since[x.session], q, log, log', x.session)
  BY <1>2, <1>3, <1>4, <1>5, <1>15 DEF Evens
<1> QED
  BY <1>17, <1>18, LoopStep

LEMMA LoopAfter ==
  ASSUME TypesInv, LoopInv, NEW i \in Slots, RecordsAfter(i)
  PROVE  LoopInv'
<1>1. PICK x, cmd, y, recs :
         /\ Afterwards(i, x, cmd, y) /\ Tells(recs, x.session, x.phase, x.call)
         /\ \/ /\ log' = log \o recs /\ heard' = heard \cup Named(x.call)
               /\ since' = IF \E r \in Range(recs) : Changes(r)
                           THEN [since EXCEPT ![x.session] = <<>>] ELSE since
               /\ skewed' = skewed
            \/ /\ log' \in {log, Append(log, Degraded)}
               /\ skewed' = skewed \cup {x.session} /\ heard' = heard /\ since' = since
  BY AfterSlot
<1>2. PICK z : z = x.session
  OBVIOUS
<1>3. PICK w : w = since[z]
  OBVIOUS
<1>4. PICK l : l = log
  OBVIOUS
<1>5. PICK l2 : l2 = log'
  OBVIOUS
<1>6. PICK ph : ph = x.phase
  OBVIOUS
<1>7. PICK c : c = x.call
  OBVIOUS
<1>8. /\ slot' = [slot EXCEPT ![i] = y] /\ x = slot[i] /\ Called(x) /\ x.at = "post"
      /\ y = Idle \/ (y.at = "post" /\ y.session = x.session)
  BY <1>1 DEF Afterwards
<1>9. z \in Sessions /\ <<z, c>> \in Uses /\ ph # "pre"
  BY <1>2, <1>6, <1>7, <1>8, CallOf
<1>10. since = [s \in Sessions |-> since[s]] /\ IsList(w)
  BY <1>3, <1>9 DEF LoopInv
<1>11. PICK q : q = IF skewed' = skewed /\ l2 = l \o recs /\ since' # since THEN <<>> ELSE w
  OBVIOUS
<1>12. since' = [since EXCEPT ![z] = q]
  <2>1. since' = since \/ (since' = [since EXCEPT ![z] = <<>>] /\ skewed' = skewed /\ l2 = l \o recs)
    BY <1>1, <1>2, <1>4, <1>5
  <2>2. CASE since' = since
    <3>1. q = w
      BY <1>11, <2>2
    <3>2. since = [since EXCEPT ![z] = w]
      BY <1>3, <1>9, <1>10
    <3> QED
      BY <2>2, <3>1, <3>2
  <2>3. CASE since' # since
    <3>1. q = <<>>
      BY <1>11, <2>1, <2>3
    <3> QED
      BY <2>1, <2>3, <3>1
  <2> QED
    BY <2>2, <2>3
<1>13. IsList(q)
  BY <1>10, <1>11, EmptyIsList
<1>14. Tells(recs, z, ph, c)
  BY <1>1, <1>2, <1>6, <1>7
<1>15. Says(recs, x.session) /\ Grows(log, log', recs)
  BY <1>1, <1>2, <1>14 DEF Says, Tells, Grows
<1>16. y.at # "pre" /\ (y = Idle \/ Of(y, x.session))
  BY <1>8 DEF Of, Idle
<1>17. ASSUME z \notin skewed', Even(x, w, l, z)
       PROVE  Even(y, q, l2, z) /\ Flagged(LoadPolicy(rules.policy), y, q)
  <2>1. /\ l2 = l \o recs /\ skewed' = skewed
        /\ since' = IF \E r \in Range(recs) : Changes(r) THEN [since EXCEPT ![z] = <<>>] ELSE since
    BY <1>1, <1>2, <1>4, <1>5, <1>17
  <2>2. PICK q2 : q2 = IF \E r \in Range(recs) : Changes(r) THEN <<>> ELSE w
    OBVIOUS
  <2>3. q2 = q
    <3>1. since'[z] = q2
      BY <1>3, <1>9, <1>10, <2>1, <2>2
    <3>2. since'[z] = q
      BY <1>9, <1>10, <1>12
    <3> QED
      BY <3>1, <3>2
  <2>4. IsList(l)
    BY <1>4 DEF TypesInv
  <2>5. Even(y, q2, l2, z)
    BY <1>8, <1>9, <1>14, <1>16, <1>17, <2>1, <2>2, <2>4, EvenAfter
  <2> QED
    BY <1>16, <2>3, <2>5 DEF Flagged
<1>18. rules' = rules /\ skewed \subseteq skewed'
  BY <1>1 DEF RecordsAfter
<1>19. StepOf(i, x, y, q, recs)
  BY <1>2, <1>8, <1>12, <1>13, <1>15, <1>16, <1>18 DEF StepOf
<1>20. Evens(x, y, since[x.session], q, log, log', x.session)
  BY <1>2, <1>3, <1>4, <1>5, <1>17 DEF Evens
<1> QED
  BY <1>19, <1>20, LoopStep

\* Slots that differ in what no count goes by.
Alike(x, y) ==
    /\ y.at = x.at /\ (x.at # "idle" => y.session = x.session /\ y.call = x.call /\ y.todo = x.todo)

LEMMA CalmAlike ==
  ASSUME NEW sl, NEW sl2, NEW q, NEW l, NEW s, Calm(sl, q, l, s), \A i \in Slots : Alike(sl[i], sl2[i])
  PROVE  Calm(sl2, q, l, s)
<1>1. \A i \in Slots : Of(sl2[i], s) <=> Of(sl[i], s)
  BY DEF Alike, Of
<1>2. ASSUME NEW i \in Slots, Of(sl2[i], s) PROVE Alone(sl2, i, s) /\ Even(sl2[i], q, l, s)
  <2>1. Alone(sl, i, s) /\ Even(sl[i], q, l, s)
    BY <1>1, <1>2 DEF Calm
  <2>2. Alone(sl2, i, s)
    BY <1>1, <2>1 DEF Alone
  <2>3. PICK x : x = sl[i]
    OBVIOUS
  <2>4. PICK y : y = sl2[i]
    OBVIOUS
  <2>5. y.at = x.at /\ y.session = x.session /\ y.call = x.call /\ y.todo = x.todo
    BY <1>2, <2>3, <2>4 DEF Alike, Of
  <2>6. Waits(x, s) <=> Waits(y, s)
    BY <2>5 DEF Waits
  <2>7. Even(x, q, l, s)
    BY <2>1, <2>3
  <2>8. Even(y, q, l, s)
    BY <2>5, <2>6, <2>7 DEF Even
  <2> QED
    BY <2>2, <2>4, <2>8
<1>3. ASSUME \A i \in Slots : ~Of(sl2[i], s) PROVE Even(Idle, q, l, s)
  BY <1>1, <1>3 DEF Calm
<1> QED
  BY <1>2, <1>3 DEF Calm

LEMMA LoopRules ==
  ASSUME TypesInv, LoopInv, RulesChange
  PROVE  LoopInv'
<1>1. /\ slot' = [i \in Slots |-> IF Busy(i) THEN [slot[i] EXCEPT !.steady = "no"] ELSE slot[i]]
      /\ log' = log /\ since' = since /\ skewed' = skewed
  BY DEF RulesChange, told
<1>2. ASSUME NEW i \in Slots PROVE Alike(slot[i], slot'[i]) /\ (slot'[i].at = "pre" => slot'[i].steady = "no")
  <2>1. PICK x : x = slot[i]
    OBVIOUS
  <2>2. x = Idle \/ Called(x)
    BY <2>1 DEF TypesInv
  <2>3. CASE x = Idle
    <3>1. slot'[i] = x
      BY <1>1, <2>1, <2>3 DEF Busy, Idle
    <3> QED
      BY <2>1, <2>3, <3>1 DEF Alike, Idle
  <2>4. CASE x # Idle
    <3>1. x = [at |-> x.at, session |-> x.session, call |-> x.call, phase |-> x.phase, todo |-> x.todo,
               judged |-> x.judged, denied |-> x.denied, steady |-> x.steady, guarded |-> x.guarded]
      BY <2>2, <2>4 DEF Called
    <3>2. x.at # "idle"
      BY <2>2, <2>4, CallOf
    <3>3. slot'[i] = [x EXCEPT !.steady = "no"]
      BY <1>1, <2>1, <3>2 DEF Busy
    <3>4. slot'[i] = [at |-> x.at, session |-> x.session, call |-> x.call, phase |-> x.phase, todo |-> x.todo,
               judged |-> x.judged, denied |-> x.denied, steady |-> "no", guarded |-> x.guarded]
      BY <3>1, <3>3
    <3> QED
      BY <2>1, <3>4 DEF Alike
  <2> QED
    BY <2>3, <2>4
<1>3. ASSUME NEW s \in Sessions, s \notin skewed PROVE Calm(slot', since[s], log, s)
  <2>1. Calm(slot, since[s], log, s)
    BY <1>3 DEF LoopInv
  <2>2. PICK sl : sl = slot
    OBVIOUS
  <2>3. PICK sl2 : sl2 = slot'
    OBVIOUS
  <2>4. Calm(sl, since[s], log, s)
    BY <2>1, <2>2
  <2>5. \A i \in Slots : Alike(sl[i], sl2[i])
    BY <1>2, <2>2, <2>3
  <2>6. Calm(sl2, since[s], log, s)
    BY <2>4, <2>5, CalmAlike
  <2> QED
    BY <2>3, <2>6
<1>4. \A i \in Slots : \A p, q : Flagged(p, slot'[i], q)
  BY <1>2 DEF Flagged
<1> QED
  BY <1>1, <1>3, <1>4 DEF LoopInv

LEMMA EvenNew ==
  ASSUME NEW s
  PROVE  Even(Idle, <<>>, <<>>, s)
<1>1. PICK e : e = <<>>
  OBVIOUS
<1>2. \A c : Count(e, c) = 0
  BY <1>1, CountNone
<1>3. \A h : Prior(e, s, h) = 0
  <2>1. \A h : PriorSet(e, s, h) = {}
    BY <1>1, EmptyIsList DEF PriorSet
  <2> QED
    BY <2>1, PriorIsCount, FS_EmptySet
<1>4. Even(Idle, e, e, s)
  BY <1>2, <1>3 DEF Even, Waits, Idle
<1> QED
  BY <1>1, <1>4

LEMMA LoopResets ==
  ASSUME TypesInv, LoopInv, ResetsLog
  PROVE  LoopInv'
<1>1. /\ slot' = slot /\ log' = <<>> /\ since' = [s \in Sessions |-> <<>>]
      /\ skewed' = skewed \cup {slot[i].session : i \in {i \in Slots : Busy(i)}}
  BY DEF ResetsLog
<1>2. \A i \in Slots : Busy(i) => slot[i].session \in skewed'
  BY <1>1
<1>3. ASSUME NEW s \in Sessions PROVE IsList(since'[s]) /\ (s \notin skewed' => Calm(slot', since'[s], log', s))
  <2>1. PICK e : e = <<>>
    OBVIOUS
  <2>2. since'[s] = e /\ log' = e /\ IsList(e)
    BY <1>1, <2>1, EmptyIsList
  <2>3. ASSUME s \notin skewed' PROVE Calm(slot', e, e, s)
    <3>1. \A i \in Slots : ~Of(slot'[i], s)
      BY <1>1, <1>2, <2>3 DEF Of, Busy
    <3>2. Even(Idle, e, e, s)
      BY <2>1, EvenNew
    <3> QED
      BY <3>1, <3>2 DEF Calm
  <2> QED
    BY <2>2, <2>3
<1>4. ASSUME NEW i \in Slots, slot'[i].session \notin skewed', NEW p, NEW q PROVE Flagged(p, slot'[i], q)
  BY <1>1, <1>2, <1>4 DEF Flagged, Busy
<1> QED
  BY <1>1, <1>3, <1>4 DEF LoopInv

LEMMA LoopInit ==
  ASSUME Init
  PROVE  LoopInv
<1>1. /\ since = [s \in Sessions |-> <<>>] /\ log = <<>> /\ \A i \in Slots : slot[i] = Idle
  BY DEF Init
<1>2. ASSUME NEW s \in Sessions PROVE IsList(since[s]) /\ Calm(slot, since[s], log, s)
  <2>1. PICK e : e = <<>>
    OBVIOUS
  <2>2. since[s] = e /\ log = e /\ IsList(e)
    BY <1>1, <2>1, EmptyIsList
  <2>3. \A i \in Slots : ~Of(slot[i], s)
    BY <1>1 DEF Of, Idle
  <2>4. Even(Idle, e, e, s)
    BY <2>1, EvenNew
  <2>5. Calm(slot, e, e, s)
    BY <2>3, <2>4 DEF Calm
  <2> QED
    BY <2>2, <2>5
<1>3. \A i \in Slots : \A p, q : Flagged(p, slot[i], q)
  BY <1>1 DEF Flagged, Idle
<1> QED
  BY <1>1, <1>2, <1>3 DEF LoopInv

LEMMA LoopNext ==
  ASSUME TypesInv, WiringInv, LoopInv, [Next]_vars
  PROVE  LoopInv'
<1>1. CASE UNCHANGED <<rules, slot, since, skewed, log>>
  BY <1>1 DEF LoopInv
<1>2. CASE UNCHANGED vars
  BY <1>1, <1>2 DEF vars, told
<1>3. ASSUME NEW i \in Slots, NEW u \in Uses, Asks(i, u) PROVE LoopInv'
  BY <1>3, LoopAsks
<1>4. ASSUME NEW i \in Slots, Judges(i) PROVE LoopInv'
  BY <1>4, LoopJudges
<1>5. ASSUME NEW i \in Slots, Records(i) \/ HookFails(i) PROVE LoopInv'
  BY <1>5, LoopTold
<1>6. ASSUME NEW i \in Slots, Refuses(i) PROVE LoopInv'
  <2>1. PICK x : x = slot[i]
    OBVIOUS
  <2>2. PICK y : y = Idle
    OBVIOUS
  <2>3. Answered(i) /\ slot' = [slot EXCEPT ![i] = y] /\ UNCHANGED <<rules, log, since, skewed>>
    BY <1>6, <2>2 DEF Refuses, told
  <2>4. Called(x) /\ x.at = "pre" /\ x.todo = {}
    BY <2>1, <2>3, AnsweredSlot DEF Answered
  <2> QED
    BY <2>1, <2>2, <2>3, <2>4, LoopGoes
<1>7. ASSUME NEW i \in Slots, Runs(i) \/ RunsInVain(i) PROVE LoopInv'
  <2>1. PICK ph \in {"post", "fail", "denied"} : Answered(i) /\ Goes(i, ph)
    BY <1>7 DEF Runs, RunsInVain
  <2>2. PICK x, y : GoesOn(i, x, y, ph)
    BY <2>1, GoesSlot
  <2>3. /\ slot' = [slot EXCEPT ![i] = y] /\ x = slot[i] /\ Called(x) /\ x.at = "pre" /\ x.todo = {}
        /\ y = Idle \/ (y.at = "post" /\ y.session = x.session)
    BY <2>2 DEF GoesOn
  <2>4. UNCHANGED <<rules, log, since, skewed>>
    BY <2>1 DEF Goes
  <2> QED
    BY <2>3, <2>4, LoopGoes
<1>8. ASSUME NEW i \in Slots, RecordsAfter(i) PROVE LoopInv'
  BY <1>8, LoopAfter
<1>9. CASE RulesChange
  BY <1>9, LoopRules
<1>10. CASE ResetsLog
  BY <1>10, LoopResets
<1>11. CASE Commits
  BY <1>1, <1>11 DEF Commits, told
<1>12. CASE Install \/ InstallCursor
  BY <1>1, <1>12 DEF Install, InstallCursor, Installs, told
<1>13. ASSUME NEW e \in Editors, Uninstall(e) \/ \E h \in HandMade : HandWires(e, h[2]) PROVE LoopInv'
  BY <1>1, <1>13 DEF Uninstall, HandWires, told
<1> QED
  BY <1>2, <1>3, <1>4, <1>5, <1>6, <1>7, <1>8, <1>9, <1>10, <1>11, <1>12, <1>13 DEF Next

LEMMA LoopIsFlagged ==
  ASSUME TypesInv, LoopInv
  PROVE  LoopFlagged
<1>1. SUFFICES ASSUME NEW i \in Slots, NEW x, x = slot[i], x.at = "pre", x.judged # <<>>, x.steady = "yes",
                      x.session \notin skewed, LoadPolicy(rules.policy) # Null
               PROVE  LET c == x.call
                          p == rules.policy
                          n == Cardinality({k \in DOMAIN since[x.session] : since[x.session][k] = c})
                          looped == \E r \in Range(x.judged[1].recs) : r.guard.rule[1] = "loop"
                      IN  looped <=> /\ c.tool \in Shells /\ ~c.target.net /\ c.target.dels = <<>>
                                     /\ c.target.kind \in LoopKinds \ p.forbidActions
                                     /\ p.loopRepeatThreshold # Null /\ n >= p.loopRepeatThreshold
  BY DEF LoopFlagged
<1>2. PICK q : q = since[x.session]
  OBVIOUS
<1>3. PICK p : p = rules.policy
  OBVIOUS
<1>4. PICK c : c = x.call
  OBVIOUS
<1>5. PICK recs : recs = x.judged[1].recs
  OBVIOUS
<1>6. LoadPolicy(rules.policy) = p /\ p # Null
  BY <1>1, <1>3 DEF LoadPolicy
<1>7. Flagged(p, x, q)
  BY <1>1, <1>2, <1>6 DEF LoopInv
<1>8. Looped(recs) <=> IsLoop(p, c, Count(q, c))
  BY <1>1, <1>4, <1>5, <1>6, <1>7 DEF Flagged
<1>9. Looped(recs) <=> \E r \in Range(recs) : r.guard.rule[1] = "loop"
  BY DEF Looped, Range
<1>10. Count(q, c) = Cardinality({k \in DOMAIN q : q[k] = c})
  BY DEF Count
<1>11. IsLoop(p, c, Count(q, c)) <=>
          /\ c.tool \in Shells /\ ~c.target.net /\ c.target.dels = <<>>
          /\ c.target.kind \in LoopKinds \ p.forbidActions
          /\ p.loopRepeatThreshold # Null /\ Count(q, c) >= p.loopRepeatThreshold
  BY DEF IsLoop, Plain
<1>12. (\E r \in Range(recs) : r.guard.rule[1] = "loop") <=>
          /\ c.tool \in Shells /\ ~c.target.net /\ c.target.dels = <<>>
          /\ c.target.kind \in LoopKinds \ p.forbidActions
          /\ p.loopRepeatThreshold # Null /\ Cardinality({k \in DOMAIN q : q[k] = c}) >= p.loopRepeatThreshold
  BY <1>8, <1>9, <1>10, <1>11
<1> QED
  BY <1>2, <1>3, <1>4, <1>5, <1>12

-----------------------------------------------------------------------------
(* What is written down, and what was tried                                *)

\* A record of what a call tries.
IsOf(r, c) ==
    \/ c.tool \in Shells /\ r.op = "command" /\ r.hash = c.target.id
    \/ c.tool \in Readers /\ r.op = "read" /\ r.path = c.target
    \/ c.tool \in Writers /\ r.op = "write" /\ r.path = c.target
Said(ph, c, l) == {k \in DOMAIN l : l[k].phase = ph /\ IsOf(l[k], c)}

\* A call of which an event of that kind may yet be written down.
OwedBy(ph, x, d) ==
    /\ x.at # "idle" /\ (ph = "pre" => x.at = "pre" /\ x.todo # {})
    /\ Deed(x.call) = d
Owed(ph, d, sl) == {i \in Slots : OwedBy(ph, sl[i], d)}

Balanced(ph, c, l, sl, m) == Cardinality(Said(ph, c, l)) + Cardinality(Owed(ph, Deed(c), sl)) <= m[Deed(c)]

LEMMA SaidFinite ==
  ASSUME NEW l, IsList(l), NEW ph, NEW c
  PROVE  /\ IsFiniteSet(Said(ph, c, l)) /\ Cardinality(Said(ph, c, l)) \in Nat
         /\ Len(l) + 1 \notin Said(ph, c, l)
<1>1. Len(l) \in Nat /\ DOMAIN l = 1 .. Len(l)
  BY SeqSpan
<1>2. Said(ph, c, l) \subseteq 1 .. Len(l)
  BY <1>1 DEF Said
<1>3. IsFiniteSet(1 .. Len(l))
  BY <1>1, FS_Interval
<1>4. IsFiniteSet(Said(ph, c, l))
  BY <1>2, <1>3, FS_Subset
<1>5. Cardinality(Said(ph, c, l)) \in Nat
  BY <1>4, FS_CardinalityType
<1> QED
  BY <1>1, <1>2, <1>4, <1>5

LEMMA OwedFinite ==
  ASSUME NEW ph, NEW d, NEW sl
  PROVE  IsFiniteSet(Owed(ph, d, sl)) /\ Cardinality(Owed(ph, d, sl)) \in Nat
<1>1. Owed(ph, d, sl) \subseteq Slots /\ IsFiniteSet(Slots)
  BY GuardingAssumption DEF Owed
<1>2. IsFiniteSet(Owed(ph, d, sl))
  BY <1>1, FS_Subset
<1> QED
  BY <1>2, FS_CardinalityType

LEMMA SaidSame ==
  ASSUME NEW l, NEW recs, NEW l2, IsList(l), IsList(recs), Joined(l, recs, l2), NEW ph, NEW c,
         \A k \in DOMAIN recs : ~(recs[k].phase = ph /\ IsOf(recs[k], c))
  PROVE  Said(ph, c, l2) = Said(ph, c, l)
<1>1. Len(l) \in Nat /\ DOMAIN l = 1 .. Len(l) /\ Len(recs) \in Nat /\ DOMAIN recs = 1 .. Len(recs)
  BY SeqSpan
<1>2. /\ DOMAIN l2 = 1 .. Len(l) + Len(recs)
      /\ \A k \in 1 .. Len(l) : l2[k] = l[k]
      /\ \A k \in 1 .. Len(recs) : l2[Len(l) + k] = recs[k]
  BY DEF Joined
<1>3. ASSUME NEW k \in DOMAIN l2, k \notin 1 .. Len(l) PROVE ~(l2[k].phase = ph /\ IsOf(l2[k], c))
  <2>1. k - Len(l) \in 1 .. Len(recs) /\ Len(l) + (k - Len(l)) = k
    BY <1>1, <1>2, <1>3
  <2>2. PICK m \in 1 .. Len(recs) : Len(l) + m = k
    BY <2>1
  <2>3. l2[k] = recs[m] /\ m \in DOMAIN recs
    BY <1>1, <1>2, <2>2
  <2> QED
    BY <2>3
<1>4. ASSUME NEW k \in 1 .. Len(l) PROVE k \in DOMAIN l2 /\ k \in DOMAIN l /\ l2[k] = l[k]
  BY <1>1, <1>2
<1> QED
  BY <1>1, <1>3, <1>4 DEF Said

LEMMA SaidMore ==
  ASSUME NEW l, NEW r, NEW l2, IsList(l), Longer(l, r, l2), NEW ph, NEW c, r.phase = ph, IsOf(r, c)
  PROVE  Cardinality(Said(ph, c, l2)) = Cardinality(Said(ph, c, l)) + 1
<1>1. Len(l) \in Nat /\ DOMAIN l = 1 .. Len(l)
  BY SeqSpan
<1>2. /\ DOMAIN l2 = 1 .. Len(l) + 1 /\ \A k \in 1 .. Len(l) : l2[k] = l[k]
      /\ l2[Len(l) + 1] = r
  BY DEF Longer
<1>3. PICK A : A = Said(ph, c, l)
  OBVIOUS
<1>4. PICK n : n = Len(l) + 1
  OBVIOUS
<1>5. Said(ph, c, l2) = A \cup {n}
  <2>1. ASSUME NEW k PROVE k \in Said(ph, c, l2) <=> k \in A \cup {n}
    <3>1. CASE k = n
      <4>1. k \in DOMAIN l2 /\ l2[k] = r
        BY <1>1, <1>2, <1>4, <3>1
      <4> QED
        BY <3>1, <4>1 DEF Said
    <3>2. CASE k # n /\ k \in 1 .. Len(l)
      <4>1. k \in DOMAIN l2 /\ l2[k] = l[k] /\ k \in DOMAIN l
        BY <1>1, <1>2, <3>2
      <4> QED
        BY <1>3, <3>2, <4>1 DEF Said
    <3>3. CASE k # n /\ k \notin 1 .. Len(l)
      <4>1. k \notin DOMAIN l2 /\ k \notin DOMAIN l
        BY <1>1, <1>2, <1>4, <3>3
      <4> QED
        BY <1>3, <3>3, <4>1 DEF Said
    <3> QED
      BY <3>1, <3>2, <3>3
  <2> QED
    BY <2>1
<1>6. IsFiniteSet(A) /\ n \notin A
  BY <1>3, <1>4, SaidFinite
<1>7. Cardinality(A \cup {n}) = Cardinality(A) + 1
  BY <1>6, FS_AddElement
<1> QED
  BY <1>3, <1>5, <1>7

LEMMA DeedIs ==
  ASSUME NEW c
  PROVE  /\ c.tool \in Shells => Deed(c) = [kind |-> "command", target |-> c.target]
         /\ c.tool \in Readers => Deed(c) = [kind |-> "read", target |-> c.target]
         /\ c.tool \in Writers => Deed(c) = [kind |-> "write", target |-> c.target]
<1>1. CASE c.tool \in Shells
  BY <1>1 DEF Deed, Shells, Readers, Writers
<1>2. CASE c.tool \in Readers
  BY <1>2 DEF Deed, Shells, Readers, Writers
<1>3. CASE c.tool \in Writers
  BY <1>3 DEF Deed, Shells, Readers, Writers
<1> QED
  BY <1>1, <1>2, <1>3

\* A call is written down as what it tries, once.
LEMMA OneRecord ==
  ASSUME NEW s, NEW c2, <<s, c2>> \in Uses, NEW ph, NEW recs, Tells(recs, s, ph, c2), NEW c \in Calls,
         NEW k \in DOMAIN recs, IsOf(recs[k], c)
  PROVE  Deed(c2) = Deed(c) /\ DOMAIN recs = 1 .. 1
<1>1. PICK o : o = OpsOf(c2)
  OBVIOUS
<1>2. DOMAIN recs = DOMAIN o /\ recs[k].op = o[k].op /\ recs[k].path = o[k].path /\ recs[k].hash = o[k].hash
  BY <1>1 DEF Tells
<1>3. PICK v \in Uses : v[2] = c
  BY DEF Calls
<1>4. PICK u \in Uses : u = <<s, c2>>
  OBVIOUS
<1>5. u[2] = c2
  BY <1>4
<1>6. Reader(c2) \/ Writer(c2) \/ Online(c2) \/ Plain(c2) \/ Deletes(c2) \/ Dull(c2)
  BY <1>5, CallKinds
<1>7. ASSUME NEW q, o = <<q>> PROVE DOMAIN o = 1 .. 1 /\ o[k] = q
  <2>1. DOMAIN o = 1 .. 1 /\ o[1] = q
    BY <1>7, OneIsList
  <2> QED
    BY <1>2, <2>1
<1>8. c.tool \in Shells => c.target.id # Null
  BY <1>3, CallAssumption
<1>9. CASE Reader(c2)
  <2>1. o = <<Op("read", c2.target, Null, Null)>>
    BY <1>1, <1>9, OpsAre DEF Reader
  <2>2. DOMAIN o = 1 .. 1 /\ o[k].op = "read" /\ o[k].path = c2.target
    BY <1>7, <2>1 DEF Op
  <2>3. c.tool \in Readers /\ c.target = c2.target
    BY <1>2, <2>2 DEF IsOf
  <2> QED
    BY <1>2, <1>9, <2>2, <2>3, DeedIs DEF Reader
<1>10. CASE Writer(c2)
  <2>1. o = <<Op("write", c2.target, Null, Null)>>
    BY <1>1, <1>10, OpsAre DEF Writer
  <2>2. DOMAIN o = 1 .. 1 /\ o[k].op = "write" /\ o[k].path = c2.target
    BY <1>7, <2>1 DEF Op
  <2>3. c.tool \in Writers /\ c.target = c2.target
    BY <1>2, <2>2 DEF IsOf
  <2> QED
    BY <1>2, <1>10, <2>2, <2>3, DeedIs DEF Writer
<1>11. CASE Online(c2)
  <2>1. o[k].op = "network"
    BY <1>1, <1>7, <1>11, OpsAre DEF Op
  <2> QED
    BY <1>2, <2>1 DEF IsOf
<1>12. CASE Plain(c2)
  <2>1. o = <<Op("command", Null, c2.target.id, c2.target.kind)>>
    BY <1>1, <1>12, OpsAre
  <2>2. DOMAIN o = 1 .. 1 /\ o[k].op = "command" /\ o[k].hash = c2.target.id
    BY <1>7, <2>1 DEF Op
  <2>3. c.tool \in Shells /\ c.target.id = c2.target.id
    BY <1>2, <2>2 DEF IsOf
  <2>4. c2.tool \in Shells
    BY <1>12 DEF Plain
  <2>5. c.target = c2.target
    BY <1>3, <1>5, <2>3, <2>4, CallAssumption
  <2> QED
    BY <1>2, <2>2, <2>3, <2>4, <2>5, DeedIs
<1>13. CASE Deletes(c2)
  <2>1. o[k].op = "delete"
    BY <1>1, <1>2, <1>13, OpsAre DEF Op
  <2> QED
    BY <1>2, <2>1 DEF IsOf
<1>14. CASE Dull(c2)
  <2>1. o = <<Op("command", Null, Null, Null)>>
    <3>1. o # <<>>
      BY <1>2, EmptyIsList
    <3> QED
      BY <1>1, <1>14, <3>1, OpsAre
  <2>2. o[k].op = "command" /\ o[k].hash = Null
    BY <1>7, <2>1 DEF Op
  <2> QED
    BY <1>2, <1>8, <2>2 DEF IsOf
<1> QED
  BY <1>6, <1>9, <1>10, <1>11, <1>12, <1>13, <1>14

Grew(ph, ph2, c, c2, l, l2) ==
    \/ Said(ph, c, l2) = Said(ph, c, l)
    \/ /\ ph = ph2 /\ Deed(c2) = Deed(c)
       /\ Cardinality(Said(ph, c, l2)) = Cardinality(Said(ph, c, l)) + 1

LEMMA SaidGrows ==
  ASSUME NEW s, NEW c2, <<s, c2>> \in Uses, NEW ph2, NEW recs, Tells(recs, s, ph2, c2), NEW c \in Calls,
         NEW l, IsList(l), NEW l2, l2 = l \o recs, NEW ph
  PROVE  Grew(ph, ph2, c, c2, l, l2)
<1>1. IsList(recs) /\ \A k \in DOMAIN recs : recs[k].phase = ph2
  BY DEF Tells
<1>2. Joined(l, recs, l2)
  BY <1>1, ConcatShape
<1>3. CASE \A k \in DOMAIN recs : ~(recs[k].phase = ph /\ IsOf(recs[k], c))
  BY <1>1, <1>2, <1>3, SaidSame DEF Grew
<1>4. CASE ~(\A k \in DOMAIN recs : ~(recs[k].phase = ph /\ IsOf(recs[k], c)))
  <2>1. PICK k \in DOMAIN recs : recs[k].phase = ph /\ IsOf(recs[k], c)
    BY <1>4
  <2>2. Deed(c2) = Deed(c) /\ DOMAIN recs = 1 .. 1
    BY <2>1, OneRecord
  <2>3. k = 1 /\ Len(recs) = 1
    BY <1>1, <2>2, SeqSpan
  <2>4. PICK r : r = recs[1]
    OBVIOUS
  <2>5. Longer(l, r, l2)
    BY <1>2, <2>3, <2>4 DEF Joined, Longer
  <2>6. r.phase = ph /\ IsOf(r, c)
    BY <2>1, <2>3, <2>4
  <2>7. Cardinality(Said(ph, c, l2)) = Cardinality(Said(ph, c, l)) + 1
    BY <2>5, <2>6, SaidMore
  <2> QED
    BY <1>1, <2>1, <2>2, <2>7 DEF Grew
<1> QED
  BY <1>3, <1>4

LEMMA OwedShrinks ==
  ASSUME NEW sl, NEW sl2, NEW i \in Slots, NEW x, x = sl[i], NEW y, sl2[i] = y,
         \A j \in Slots : j # i => sl2[j] = sl[j], NEW ph, NEW d, OwedBy(ph, y, d) => OwedBy(ph, x, d)
  PROVE  /\ Owed(ph, d, sl2) \subseteq Owed(ph, d, sl)
         /\ OwedBy(ph, x, d) <=> i \in Owed(ph, d, sl)
         /\ OwedBy(ph, y, d) <=> i \in Owed(ph, d, sl2)
<1>1. ASSUME NEW j \in Owed(ph, d, sl2) PROVE j \in Owed(ph, d, sl)
  <2>1. j \in Slots /\ OwedBy(ph, sl2[j], d)
    BY DEF Owed
  <2>2. OwedBy(ph, sl[j], d)
    BY <2>1
  <2> QED
    BY <2>1, <2>2 DEF Owed
<1> QED
  BY <1>1 DEF Owed

LEMMA BalanceKept ==
  ASSUME NEW l, IsList(l), NEW l2, IsList(l2), NEW sl, NEW sl2, NEW m, NEW ph, NEW c, m[Deed(c)] \in Nat,
         Balanced(ph, c, l, sl, m), Owed(ph, Deed(c), sl2) \subseteq Owed(ph, Deed(c), sl),
         \/ Said(ph, c, l2) = Said(ph, c, l)
         \/ /\ Cardinality(Said(ph, c, l2)) = Cardinality(Said(ph, c, l)) + 1
            /\ \E i \in Owed(ph, Deed(c), sl) : i \notin Owed(ph, Deed(c), sl2)
  PROVE  Balanced(ph, c, l2, sl2, m)
<1>1. PICK A : A = Owed(ph, Deed(c), sl)
  OBVIOUS
<1>2. PICK B : B = Owed(ph, Deed(c), sl2)
  OBVIOUS
<1>3. PICK a : a = Cardinality(Said(ph, c, l))
  OBVIOUS
<1>4. PICK b : b = Cardinality(Said(ph, c, l2))
  OBVIOUS
<1>5. a \in Nat /\ b \in Nat
  BY <1>3, <1>4, SaidFinite
<1>6. /\ IsFiniteSet(A) /\ Cardinality(A) \in Nat
      /\ IsFiniteSet(B) /\ Cardinality(B) \in Nat
  BY <1>1, <1>2, OwedFinite
<1>7. Cardinality(B) <= Cardinality(A)
  BY <1>1, <1>2, <1>6, FS_Subset
<1>8. PICK n \in Nat : n = m[Deed(c)]
  OBVIOUS
<1>9. a + Cardinality(A) <= n
  BY <1>1, <1>3, <1>8 DEF Balanced
<1>10. b + Cardinality(B) <= n
  <2>1. CASE a = b
    BY <1>5, <1>6, <1>7, <1>9, <2>1
  <2>2. CASE a # b
    <3>1. b = a + 1
      BY <1>3, <1>4, <2>2
    <3>2. PICK i \in A : i \notin B
      BY <1>1, <1>2, <1>3, <1>4, <2>2
    <3>3. B \subseteq A \ {i}
      BY <1>1, <1>2, <3>2
    <3>4. IsFiniteSet(A \ {i}) /\ Cardinality(A \ {i}) = Cardinality(A) - 1
      BY <1>6, <3>2, FS_RemoveElement
    <3>5. Cardinality(B) <= Cardinality(A \ {i})
      BY <3>3, <3>4, FS_Subset
    <3> QED
      BY <1>5, <1>6, <1>9, <3>1, <3>4, <3>5
  <2> QED
    BY <2>1, <2>2
<1> QED
  BY <1>2, <1>4, <1>8, <1>10 DEF Balanced

\* A writer's record is of a write.
Wrote(l) == \A k \in DOMAIN l : (l[k].tool \in Writers /\ l[k].path \in Paths) => l[k].op = "write"

WasteInv ==
    /\ made = [d \in Deeds |-> made[d]] /\ \A d \in Deeds : made[d] \in Nat
    /\ Wrote(log)
    /\ doubled = "no" =>
          /\ \A i \in Slots : slot[i].at # "idle" => Cardinality(slot[i].todo) <= 1
          /\ \A ph \in {"pre", "post", "fail"} : \A c \in Calls : Balanced(ph, c, log, slot, made)

\* A step of one slot, but for the asking.
Kept(x, y) ==
    \/ y.at = "idle"
    \/ x.at # "idle" /\ y.call = x.call /\ (y.at = "pre" /\ y.todo # {} => x.at = "pre" /\ x.todo # {})
Moves(i, x, y) ==
    /\ x = slot[i] /\ slot' = [slot EXCEPT ![i] = y] /\ Kept(x, y) /\ made' = made
    /\ doubled' = "no" => doubled = "no" /\ (y.at # "idle" => Cardinality(y.todo) <= 1)
Settles(l, l2, x, y, ph2) ==
    \A ph \in {"pre", "post", "fail"} : \A c \in Calls :
       \/ Said(ph, c, l2) = Said(ph, c, l)
       \/ /\ ph = ph2 /\ Deed(x.call) = Deed(c)
          /\ Cardinality(Said(ph, c, l2)) = Cardinality(Said(ph, c, l)) + 1
          /\ OwedBy(ph2, x, Deed(x.call)) /\ ~OwedBy(ph2, y, Deed(x.call))

LEMMA WasteMoves ==
  ASSUME TypesInv, WasteInv, NEW i \in Slots, NEW x, NEW y, Moves(i, x, y), IsList(log'), Wrote(log'),
         NEW ph2, doubled' = "no" => Settles(log, log', x, y, ph2)
  PROVE  WasteInv'
<1>1. PICK sl : sl = slot
  OBVIOUS
<1>2. PICK sl2 : sl2 = slot'
  OBVIOUS
<1>3. PICK l : l = log
  OBVIOUS
<1>4. PICK l2 : l2 = log'
  OBVIOUS
<1>5. PICK m : m = made
  OBVIOUS
<1>6. sl = [j \in Slots |-> sl[j]]
  BY <1>1 DEF TypesInv
<1>7. x = sl[i] /\ sl2[i] = y /\ \A j \in Slots : j # i => sl2[j] = sl[j]
  BY <1>1, <1>2, <1>6 DEF Moves
<1>8. ASSUME doubled' = "no", NEW j \in Slots, sl2[j].at # "idle" PROVE Cardinality(sl2[j].todo) <= 1
  <2>1. CASE j = i
    BY <1>7, <1>8, <2>1 DEF Moves
  <2>2. CASE j # i
    BY <1>1, <1>7, <1>8, <2>2 DEF Moves, WasteInv
  <2> QED
    BY <2>1, <2>2
<1>9. ASSUME doubled' = "no", NEW ph \in {"pre", "post", "fail"}, NEW c \in Calls
      PROVE  Balanced(ph, c, l2, sl2, m)
  <2>1. Balanced(ph, c, l, sl, m) /\ m[Deed(c)] \in Nat
    BY <1>1, <1>3, <1>5, <1>9 DEF Moves, WasteInv, Deeds
  <2>2. PICK d : d = Deed(c)
    OBVIOUS
  <2>3. OwedBy(ph, y, d) => OwedBy(ph, x, d)
    BY DEF Moves, Kept, OwedBy
  <2>4. /\ Owed(ph, d, sl2) \subseteq Owed(ph, d, sl)
        /\ OwedBy(ph, x, d) <=> i \in Owed(ph, d, sl)
        /\ OwedBy(ph, y, d) <=> i \in Owed(ph, d, sl2)
    BY <1>7, <2>3, OwedShrinks
  <2>5. \/ Said(ph, c, l2) = Said(ph, c, l)
        \/ /\ Cardinality(Said(ph, c, l2)) = Cardinality(Said(ph, c, l)) + 1
           /\ \E j \in Owed(ph, Deed(c), sl) : j \notin Owed(ph, Deed(c), sl2)
    <3>1. \/ Said(ph, c, l2) = Said(ph, c, l)
          \/ /\ Cardinality(Said(ph, c, l2)) = Cardinality(Said(ph, c, l)) + 1
             /\ OwedBy(ph, x, d) /\ ~OwedBy(ph, y, d)
      BY <1>3, <1>4, <1>9, <2>2 DEF Settles
    <3> QED
      BY <2>2, <2>4, <3>1
  <2>6. Owed(ph, Deed(c), sl2) \subseteq Owed(ph, Deed(c), sl)
    BY <2>2, <2>4
  <2>7. IsList(l) /\ IsList(l2)
    BY <1>3, <1>4 DEF TypesInv
  <2> QED
    BY <2>1, <2>5, <2>6, <2>7, BalanceKept
<1>10. made' = m /\ made = m
  BY <1>5 DEF Moves
<1>11. m = [d \in Deeds |-> m[d]] /\ \A d \in Deeds : m[d] \in Nat
  BY <1>5 DEF WasteInv
<1> QED
  BY <1>2, <1>4, <1>8, <1>9, <1>10, <1>11 DEF WasteInv

\* What a call writes down keeps the log so.
LEMMA WroteGrows ==
  ASSUME NEW l, IsList(l), Wrote(l), NEW s, NEW c, <<s, c>> \in Uses, NEW ph, NEW recs, Tells(recs, s, ph, c),
         NEW l2, Grows(l, l2, recs)
  PROVE  Wrote(l2)
<1>1. \A t : (IsList(t) /\ Wrote(t) /\ Joined(l, t, l2)) => Wrote(l2)
  <2> SUFFICES ASSUME NEW t, IsList(t), Wrote(t), Joined(l, t, l2), NEW k \in DOMAIN l2,
                      l2[k].tool \in Writers, l2[k].path \in Paths
               PROVE  l2[k].op = "write"
    BY DEF Wrote
  <2>1. Len(l) \in Nat /\ DOMAIN l = 1 .. Len(l) /\ Len(t) \in Nat /\ DOMAIN t = 1 .. Len(t)
    BY SeqSpan
  <2>2. /\ DOMAIN l2 = 1 .. Len(l) + Len(t)
        /\ \A n \in 1 .. Len(l) : l2[n] = l[n]
        /\ \A n \in 1 .. Len(t) : l2[Len(l) + n] = t[n]
    BY DEF Joined
  <2>3. CASE k \in 1 .. Len(l)
    BY <2>1, <2>2, <2>3 DEF Wrote
  <2>4. CASE k \notin 1 .. Len(l)
    <3>1. k - Len(l) \in 1 .. Len(t) /\ Len(l) + (k - Len(l)) = k
      BY <2>1, <2>2, <2>4
    <3>2. PICK n \in 1 .. Len(t) : Len(l) + n = k
      BY <3>1
    <3>3. l2[k] = t[n] /\ n \in DOMAIN t
      BY <2>1, <2>2, <3>2
    <3> QED
      BY <3>3 DEF Wrote
  <2> QED
    BY <2>3, <2>4
<1>2. CASE l2 = l
  BY <1>2
<1>3. CASE l2 = Append(l, Degraded)
  <2>1. PICK t : t = <<Degraded>>
    OBVIOUS
  <2>2. IsList(t) /\ DOMAIN t = 1 .. 1 /\ t[1] = Degraded
    BY <2>1, OneIsList
  <2>3. l2 = l \o t
    BY <1>3, <2>1, JoinOne
  <2>4. Joined(l, t, l2)
    BY <2>2, <2>3, ConcatShape
  <2>5. Degraded.path \notin Paths
    BY GuardingAssumption DEF Degraded
  <2>6. Wrote(t)
    BY <2>2, <2>5 DEF Wrote
  <2> QED
    BY <1>1, <2>2, <2>4, <2>6
<1>4. CASE l2 = l \o recs
  <2>1. IsList(recs)
    BY DEF Tells
  <2>2. Joined(l, recs, l2)
    BY <1>4, <2>1, ConcatShape
  <2>3. ASSUME NEW k \in DOMAIN recs, recs[k].tool \in Writers PROVE recs[k].op = "write"
    <3>1. PICK o : o = OpsOf(c)
      OBVIOUS
    <3>2. c.tool \in Writers /\ DOMAIN recs = DOMAIN o /\ recs[k].op = o[k].op
      BY <2>3, <3>1 DEF Tells
    <3>3. PICK q : q = Op("write", c.target, Null, Null)
      OBVIOUS
    <3>4. o = <<q>>
      BY <3>1, <3>2, <3>3, OpsAre
    <3>5. DOMAIN o = 1 .. 1 /\ o[1] = q
      BY <3>4, OneIsList
    <3>6. q.op = "write"
      BY <3>3 DEF Op
    <3> QED
      BY <3>2, <3>5, <3>6
  <2>4. Wrote(recs)
    BY <2>3 DEF Wrote
  <2> QED
    BY <1>1, <2>1, <2>2, <2>4
<1> QED
  BY <1>2, <1>3, <1>4 DEF Grows

\* A marker says nothing of any call.
LEMMA MarkerSaysNothing ==
  ASSUME NEW l, IsList(l), NEW l2, l2 = l \/ l2 = Append(l, Degraded), NEW ph, NEW c
  PROVE  Said(ph, c, l2) = Said(ph, c, l)
<1>1. CASE l2 = Append(l, Degraded)
  <2>1. PICK t : t = <<Degraded>>
    OBVIOUS
  <2>2. IsList(t) /\ DOMAIN t = 1 .. 1 /\ t[1] = Degraded
    BY <2>1, OneIsList
  <2>3. l2 = l \o t
    BY <1>1, <2>1, JoinOne
  <2>4. Joined(l, t, l2)
    BY <2>2, <2>3, ConcatShape
  <2>5. ~IsOf(Degraded, c)
    BY DEF IsOf, Degraded
  <2>6. \A k \in DOMAIN t : ~(t[k].phase = ph /\ IsOf(t[k], c))
    BY <2>2, <2>5
  <2> QED
    BY <2>2, <2>4, <2>6, SaidSame
<1> QED
  BY <1>1

LEMMA WasteQuiet ==
  ASSUME TypesInv, WasteInv, NEW i \in Slots, NEW x, NEW y, Moves(i, x, y), log' = log
  PROVE  WasteInv'
<1>1. IsList(log') /\ Wrote(log')
  BY DEF TypesInv, WasteInv
<1>2. PICK ph2 : ph2 = "pre"
  OBVIOUS
<1>3. doubled' = "no" => Settles(log, log', x, y, ph2)
  BY DEF Settles
<1> QED
  BY <1>1, <1>3, WasteMoves

LEMMA OneLeft ==
  ASSUME WasteInv, doubled = "no", NEW i \in Slots, NEW x, x = slot[i], Called(x), NEW cmd \in x.todo
  PROVE  x.todo \ {cmd} = {}
<1>1. IsFiniteSet(x.todo) /\ x.at # "idle"
  BY CallOf
<1>2. Cardinality(x.todo) <= 1
  BY <1>1 DEF WasteInv
<1> QED
  BY <1>1, <1>2, EmptiedBy

LEMMA WasteJudges ==
  ASSUME TypesInv, WasteInv, NEW i \in Slots, Judges(i)
  PROVE  WasteInv'
<1>1. PICK x, j, y : Judged(i, x, j, y)
  BY JudgesSlot
<1>2. /\ slot' = [slot EXCEPT ![i] = y] /\ x = slot[i] /\ Called(x)
      /\ x.at = "pre" /\ y = [x EXCEPT !.judged = <<j>>]
  BY <1>1 DEF Judged
<1>3. log' = log /\ made' = made /\ doubled' = doubled
  BY DEF Judges, told
<1>4. y.at = "pre" /\ y.call = x.call /\ y.todo = x.todo
  <2>1. x = [at |-> x.at, session |-> x.session, call |-> x.call, phase |-> x.phase, todo |-> x.todo,
             judged |-> x.judged, denied |-> x.denied, steady |-> x.steady, guarded |-> x.guarded]
    BY <1>2 DEF Called
  <2>2. y = [at |-> x.at, session |-> x.session, call |-> x.call, phase |-> x.phase, todo |-> x.todo,
             judged |-> <<j>>, denied |-> x.denied, steady |-> x.steady, guarded |-> x.guarded]
    BY <1>2, <2>1
  <2> QED
    BY <1>2, <2>2
<1>5. doubled = "no" => Cardinality(x.todo) <= 1
  BY <1>2 DEF WasteInv
<1>6. Moves(i, x, y)
  BY <1>2, <1>3, <1>4, <1>5 DEF Moves, Kept
<1> QED
  BY <1>3, <1>6, WasteQuiet

LEMMA WasteTold ==
  ASSUME TypesInv, WasteInv, NEW i \in Slots, Records(i) \/ HookFails(i)
  PROVE  WasteInv'
<1>1. PICK x, j, y : Through(i, x, j, y) /\ Grows(log, log', j.recs)
  <2>1. CASE Records(i)
    <3>1. PICK x, j, y : Through(i, x, j, y) /\ log' = log \o j.recs
      BY <2>1, RecordsSlot
    <3> QED
      BY <3>1 DEF Grows
  <2>2. CASE HookFails(i)
    <3>1. PICK x, j, y : /\ Through(i, x, j, y) /\ y.guarded = "no"
                         /\ \/ log' \in {log, Append(log, Degraded)} /\ heard' = heard
                            \/ log' = log \o j.recs /\ heard' = heard \cup Named(x.call)
                         /\ skewed' = skewed \cup {x.session}
      BY <2>2, FailsSlot
    <3>2. Grows(log, log', j.recs)
      BY <3>1 DEF Grows
    <3> QED
      BY <3>1, <3>2
  <2> QED
    BY <2>1, <2>2
<1>2. PICK l : l = log
  OBVIOUS
<1>3. PICK l2 : l2 = log'
  OBVIOUS
<1>4. PICK recs : recs = j.recs
  OBVIOUS
<1>5. PICK c2 : c2 = x.call
  OBVIOUS
<1>6. /\ slot' = [slot EXCEPT ![i] = y] /\ x = slot[i] /\ Called(x)
      /\ x.at = "pre" /\ JudgedWell(x, j) /\ j.cmd \in x.todo
      /\ y.at = "pre" /\ y.call = c2 /\ y.todo = x.todo \ {j.cmd}
  BY <1>1, <1>5 DEF Through, JudgedWell
<1>7. <<x.session, c2>> \in Uses
  BY <1>5, <1>6, CallOf
<1>8. Tells(recs, x.session, "pre", c2) /\ IsList(l)
  BY <1>2, <1>4, <1>5, <1>6 DEF JudgedWell, TypesInv
<1>9. Grows(l, l2, recs)
  BY <1>1, <1>2, <1>3, <1>4
<1>10. Wrote(l)
  BY <1>2 DEF WasteInv
<1>11. Wrote(l2)
  BY <1>7, <1>8, <1>9, <1>10, WroteGrows
<1>12. IsList(log')
  <2>1. IsList(recs) /\ IsList(log)
    BY <1>2, <1>8 DEF Tells
  <2>2. log' = log \/ log' = Append(log, Degraded) \/ log' = log \o recs
    BY <1>2, <1>3, <1>9 DEF Grows
  <2> QED
    BY <2>1, <2>2, LogStaysASeq
<1>13. made' = made /\ doubled' = doubled
  BY DEF Records, HookFails
<1>14. doubled = "no" => y.todo = {}
  BY <1>6, OneLeft
<1>15. Moves(i, x, y)
  <2>1. doubled = "no" => Cardinality(y.todo) <= 1
    BY <1>14, FS_EmptySet
  <2>2. Kept(x, y)
    BY <1>5, <1>6 DEF Kept
  <2> QED
    BY <1>6, <1>13, <2>1, <2>2 DEF Moves
<1>16. ASSUME doubled = "no" PROVE Settles(l, l2, x, y, "pre")
  <2>1. OwedBy("pre", x, Deed(c2)) /\ ~OwedBy("pre", y, Deed(c2))
    BY <1>5, <1>6, <1>14, <1>16 DEF OwedBy
  <2>2. CASE l2 = l \/ l2 = Append(l, Degraded)
    <3>1. ASSUME NEW ph, NEW c PROVE Said(ph, c, l2) = Said(ph, c, l)
      BY <1>8, <2>2, MarkerSaysNothing
    <3> QED
      BY <3>1 DEF Settles
  <2>3. CASE l2 = l \o recs
    <3>1. ASSUME NEW ph, NEW c \in Calls PROVE Grew(ph, "pre", c, c2, l, l2)
      BY <1>7, <1>8, <2>3, SaidGrows
    <3> QED
      BY <1>5, <2>1, <3>1 DEF Settles, Grew
  <2> QED
    BY <1>9, <2>2, <2>3 DEF Grows
<1>17. PICK ph2 : ph2 = "pre"
  OBVIOUS
<1>18. doubled' = "no" => Settles(log, log', x, y, ph2)
  BY <1>2, <1>3, <1>13, <1>16, <1>17
<1>19. Wrote(log')
  BY <1>3, <1>11
<1> QED
  BY <1>12, <1>15, <1>18, <1>19, WasteMoves

LEMMA WasteAfter ==
  ASSUME TypesInv, WasteInv, NEW i \in Slots, RecordsAfter(i)
  PROVE  WasteInv'
<1>1. PICK x, cmd, y, recs :
         /\ Afterwards(i, x, cmd, y) /\ Tells(recs, x.session, x.phase, x.call) /\ Grows(log, log', recs)
  <2>1. PICK x, cmd, y, recs :
           /\ Afterwards(i, x, cmd, y) /\ Tells(recs, x.session, x.phase, x.call)
           /\ \/ /\ log' = log \o recs /\ heard' = heard \cup Named(x.call)
                 /\ since' = IF \E r \in Range(recs) : Changes(r)
                             THEN [since EXCEPT ![x.session] = <<>>] ELSE since
                 /\ skewed' = skewed
              \/ /\ log' \in {log, Append(log, Degraded)}
                 /\ skewed' = skewed \cup {x.session} /\ heard' = heard /\ since' = since
    BY AfterSlot
  <2>2. Grows(log, log', recs)
    BY <2>1 DEF Grows
  <2> QED
    BY <2>1, <2>2
<1>2. PICK l : l = log
  OBVIOUS
<1>3. PICK l2 : l2 = log'
  OBVIOUS
<1>4. PICK ph2 : ph2 = x.phase
  OBVIOUS
<1>5. PICK c2 : c2 = x.call
  OBVIOUS
<1>6. /\ slot' = [slot EXCEPT ![i] = y] /\ x = slot[i] /\ Called(x) /\ x.at = "post" /\ cmd \in x.todo
      /\ \/ y = Idle
         \/ y.at = "post" /\ y.call = c2 /\ y.todo = x.todo \ {cmd} /\ y.todo # {}
  BY <1>1, <1>5 DEF Afterwards
<1>7. <<x.session, c2>> \in Uses /\ ph2 # "pre"
  BY <1>4, <1>5, <1>6, CallOf
<1>8. Tells(recs, x.session, ph2, c2) /\ IsList(l)
  BY <1>1, <1>2, <1>4, <1>5 DEF TypesInv
<1>9. Grows(l, l2, recs)
  BY <1>1, <1>2, <1>3
<1>10. Wrote(l)
  BY <1>2 DEF WasteInv
<1>11. Wrote(l2)
  BY <1>7, <1>8, <1>9, <1>10, WroteGrows
<1>12. IsList(log')
  <2>1. IsList(recs) /\ IsList(log)
    BY <1>2, <1>8 DEF Tells
  <2>2. log' = log \/ log' = Append(log, Degraded) \/ log' = log \o recs
    BY <1>2, <1>3, <1>9 DEF Grows
  <2> QED
    BY <2>1, <2>2, LogStaysASeq
<1>13. made' = made /\ doubled' = doubled
  BY DEF RecordsAfter
<1>14. doubled = "no" => y = Idle
  BY <1>6, OneLeft
<1>15. Moves(i, x, y)
  <2>1. doubled = "no" => y.at = "idle"
    BY <1>14 DEF Idle
  <2>2. Kept(x, y)
    BY <1>5, <1>6 DEF Kept, Idle
  <2> QED
    BY <1>6, <1>13, <2>1, <2>2 DEF Moves
<1>16. ASSUME doubled = "no" PROVE Settles(l, l2, x, y, ph2)
  <2>1. OwedBy(ph2, x, Deed(c2)) /\ ~OwedBy(ph2, y, Deed(c2))
    BY <1>5, <1>6, <1>7, <1>14, <1>16 DEF OwedBy, Idle
  <2>2. CASE l2 = l \/ l2 = Append(l, Degraded)
    <3>1. ASSUME NEW ph, NEW c PROVE Said(ph, c, l2) = Said(ph, c, l)
      BY <1>8, <2>2, MarkerSaysNothing
    <3> QED
      BY <3>1 DEF Settles
  <2>3. CASE l2 = l \o recs
    <3>1. ASSUME NEW ph, NEW c \in Calls PROVE Grew(ph, ph2, c, c2, l, l2)
      BY <1>7, <1>8, <2>3, SaidGrows
    <3> QED
      BY <1>5, <2>1, <3>1 DEF Settles, Grew
  <2> QED
    BY <1>9, <2>2, <2>3 DEF Grows
<1>17. doubled' = "no" => Settles(log, log', x, y, ph2)
  BY <1>2, <1>3, <1>13, <1>16
<1>18. Wrote(log')
  BY <1>3, <1>11
<1> QED
  BY <1>12, <1>15, <1>17, <1>18, WasteMoves

LEMMA WasteGoes ==
  ASSUME TypesInv, WasteInv, WiringInv, NEW i \in Slots, Refuses(i) \/ Runs(i) \/ RunsInVain(i)
  PROVE  WasteInv'
<1>1. CASE Refuses(i)
  <2>1. PICK x : x = slot[i]
    OBVIOUS
  <2>2. PICK y : y = Idle
    OBVIOUS
  <2>3. slot' = [slot EXCEPT ![i] = y] /\ log' = log /\ made' = made /\ doubled' = doubled
    BY <1>1, <2>2 DEF Refuses, told
  <2>4. Moves(i, x, y)
    BY <2>1, <2>2, <2>3 DEF Moves, Kept, Idle
  <2> QED
    BY <2>3, <2>4, WasteQuiet
<1>2. CASE Runs(i) \/ RunsInVain(i)
  <2>1. PICK ph \in {"post", "fail", "denied"} : Answered(i) /\ Goes(i, ph)
    BY <1>2 DEF Runs, RunsInVain
  <2>2. PICK x, y : GoesOn(i, x, y, ph)
    BY <2>1, GoesSlot
  <2>3. PICK todo : todo = Starts(EditorOf[x.session], ph, x.call.tool)
    OBVIOUS
  <2>4. /\ slot' = [slot EXCEPT ![i] = y] /\ x = slot[i] /\ x.at = "pre"
        /\ y = Idle \/ (Called(y) /\ y.at = "post" /\ y.call = x.call /\ y.todo = todo)
    BY <2>2, <2>3 DEF GoesOn
  <2>5. /\ doubled' = IF Cardinality(todo) > 1 THEN "yes" ELSE doubled
        /\ log' = log /\ made' = made
    BY <2>1, <2>3, <2>4 DEF Goes
  <2>6. ASSUME doubled' = "no" PROVE doubled = "no" /\ (y.at # "idle" => Cardinality(y.todo) <= 1)
    <3>1. doubled = "no" /\ ~(Cardinality(todo) > 1)
      BY <2>5, <2>6
    <3>2. ASSUME y.at # "idle" PROVE Cardinality(y.todo) <= 1
      <4>1. Called(y) /\ y.todo = todo
        BY <2>4, <3>2 DEF Idle
      <4>2. Cardinality(y.todo) \in Nat
        BY <4>1, CallOf, FS_CardinalityType
      <4> QED
        BY <3>1, <4>1, <4>2
    <3> QED
      BY <3>1, <3>2
  <2>7. Moves(i, x, y)
    BY <2>4, <2>5, <2>6 DEF Moves, Kept, Idle
  <2> QED
    BY <2>5, <2>7, WasteQuiet
<1> QED
  BY <1>1, <1>2

LEMMA WasteAsks ==
  ASSUME TypesInv, WiringInv, WasteInv, NEW i \in Slots, NEW u \in Uses, Asks(i, u)
  PROVE  WasteInv'
<1>1. PICK y : Asked(i, u, y)
  BY AsksSlot
<1>2. PICK c2 : c2 = u[2]
  OBVIOUS
<1>3. PICK e : e = Deed(c2)
  OBVIOUS
<1>4. e \in Deeds
  BY <1>2, <1>3 DEF Deeds, Calls
<1>5. /\ slot' = [slot EXCEPT ![i] = y] /\ slot[i] = Idle /\ Called(y) /\ y.call = c2
      /\ y.todo = Starts(EditorOf[u[1]], "pre", c2.tool)
  BY <1>1, <1>2 DEF Asked
<1>6. /\ made' = [made EXCEPT ![e] = @ + 1] /\ log' = log
      /\ doubled' = IF Cardinality(y.todo) > 1 THEN "yes" ELSE doubled
  BY <1>2, <1>3, <1>5 DEF Asks
<1>7. PICK sl : sl = slot
  OBVIOUS
<1>8. PICK sl2 : sl2 = slot'
  OBVIOUS
<1>9. PICK l : l = log
  OBVIOUS
<1>10. PICK m : m = made
  OBVIOUS
<1>11. PICK m2 : m2 = made'
  OBVIOUS
<1>12. m = [d \in Deeds |-> m[d]] /\ \A d \in Deeds : m[d] \in Nat
  BY <1>10 DEF WasteInv
<1>13. /\ m2 = [d \in Deeds |-> m2[d]] /\ m2[e] = m[e] + 1
       /\ \A d \in Deeds : d # e => m2[d] = m[d]
  BY <1>4, <1>6, <1>10, <1>11, <1>12
<1>14. \A d \in Deeds : m2[d] \in Nat
  BY <1>4, <1>12, <1>13
<1>15. sl = [j \in Slots |-> sl[j]]
  BY <1>7 DEF TypesInv
<1>16. sl[i] = Idle /\ sl2[i] = y /\ \A j \in Slots : j # i => sl2[j] = sl[j]
  BY <1>5, <1>7, <1>8, <1>15
<1>17. ASSUME doubled' = "no" PROVE doubled = "no" /\ Cardinality(y.todo) <= 1
  <2>1. doubled = "no" /\ ~(Cardinality(y.todo) > 1)
    BY <1>6, <1>17
  <2>2. Cardinality(y.todo) \in Nat
    BY <1>5, CallOf, FS_CardinalityType
  <2> QED
    BY <2>1, <2>2
<1>18. ASSUME doubled' = "no", NEW j \in Slots, sl2[j].at # "idle" PROVE Cardinality(sl2[j].todo) <= 1
  <2>1. CASE j = i
    BY <1>16, <1>17, <1>18, <2>1
  <2>2. CASE j # i
    BY <1>7, <1>16, <1>17, <1>18, <2>2 DEF WasteInv
  <2> QED
    BY <2>1, <2>2
<1>19. ASSUME doubled' = "no", NEW ph \in {"pre", "post", "fail"}, NEW c \in Calls
       PROVE  Balanced(ph, c, l, sl2, m2)
  <2>1. PICK d : d = Deed(c)
    OBVIOUS
  <2>2. d \in Deeds
    BY <2>1 DEF Deeds
  <2>3. Balanced(ph, c, l, sl, m)
    BY <1>7, <1>9, <1>10, <1>17, <1>19 DEF WasteInv
  <2>4. PICK A : A = Owed(ph, d, sl)
    OBVIOUS
  <2>5. PICK B : B = Owed(ph, d, sl2)
    OBVIOUS
  <2>6. PICK a : a = Cardinality(Said(ph, c, l))
    OBVIOUS
  <2>7. a \in Nat
    <3>1. IsList(l)
      BY <1>9 DEF TypesInv
    <3> QED
      BY <2>6, <3>1, SaidFinite
  <2>8. /\ IsFiniteSet(A) /\ Cardinality(A) \in Nat
        /\ IsFiniteSet(B) /\ Cardinality(B) \in Nat
    BY <2>4, <2>5, OwedFinite
  <2>9. a + Cardinality(A) <= m[d]
    BY <2>1, <2>3, <2>4, <2>6 DEF Balanced
  <2>10. i \notin A /\ B \subseteq A \cup {i} /\ (d # e => i \notin B)
    BY <1>2, <1>3, <1>5, <1>16, <2>4, <2>5 DEF Owed, OwedBy, Idle
  <2>11. a + Cardinality(B) <= m2[d]
    <3>1. CASE d = e
      <4>1. IsFiniteSet(A \cup {i}) /\ Cardinality(A \cup {i}) = Cardinality(A) + 1
        BY <2>8, <2>10, FS_AddElement
      <4>2. Cardinality(B) <= Cardinality(A \cup {i})
        BY <2>10, <4>1, FS_Subset
      <4>3. m2[d] = m[d] + 1 /\ m[d] \in Nat
        BY <1>12, <1>13, <2>2, <3>1
      <4> QED
        BY <2>7, <2>8, <2>9, <4>1, <4>2, <4>3
    <3>2. CASE d # e
      <4>1. B \subseteq A
        BY <2>10, <3>2
      <4>2. Cardinality(B) <= Cardinality(A)
        BY <2>8, <4>1, FS_Subset
      <4>3. m2[d] = m[d] /\ m[d] \in Nat
        BY <1>12, <1>13, <2>2, <3>2
      <4> QED
        BY <2>7, <2>8, <2>9, <4>2, <4>3
    <3> QED
      BY <3>1, <3>2
  <2> QED
    BY <2>1, <2>5, <2>6, <2>11 DEF Balanced
<1>20. Wrote(l)
  BY <1>9 DEF WasteInv
<1> QED
  BY <1>6, <1>8, <1>9, <1>11, <1>13, <1>14, <1>18, <1>19, <1>20 DEF WasteInv

LEMMA WasteRules ==
  ASSUME TypesInv, WasteInv, RulesChange
  PROVE  WasteInv'
<1>1. /\ slot' = [i \in Slots |-> IF Busy(i) THEN [slot[i] EXCEPT !.steady = "no"] ELSE slot[i]]
      /\ log' = log /\ made' = made /\ doubled' = doubled
  BY DEF RulesChange, told
<1>2. ASSUME NEW i \in Slots PROVE Alike(slot[i], slot'[i])
  <2>1. PICK x : x = slot[i]
    OBVIOUS
  <2>2. x = Idle \/ Called(x)
    BY <2>1 DEF TypesInv
  <2>3. CASE x = Idle
    <3>1. slot'[i] = x
      BY <1>1, <2>1, <2>3 DEF Busy, Idle
    <3> QED
      BY <2>1, <2>3, <3>1 DEF Alike, Idle
  <2>4. CASE x # Idle
    <3>1. x = [at |-> x.at, session |-> x.session, call |-> x.call, phase |-> x.phase, todo |-> x.todo,
               judged |-> x.judged, denied |-> x.denied, steady |-> x.steady, guarded |-> x.guarded]
      BY <2>2, <2>4 DEF Called
    <3>2. x.at # "idle"
      BY <2>2, <2>4, CallOf
    <3>3. slot'[i] = [x EXCEPT !.steady = "no"]
      BY <1>1, <2>1, <3>2 DEF Busy
    <3>4. slot'[i] = [at |-> x.at, session |-> x.session, call |-> x.call, phase |-> x.phase, todo |-> x.todo,
               judged |-> x.judged, denied |-> x.denied, steady |-> "no", guarded |-> x.guarded]
      BY <3>1, <3>3
    <3> QED
      BY <2>1, <3>4 DEF Alike
  <2> QED
    BY <2>3, <2>4
<1>3. PICK sl : sl = slot
  OBVIOUS
<1>4. PICK sl2 : sl2 = slot'
  OBVIOUS
<1>5. \A i \in Slots : Alike(sl[i], sl2[i])
  BY <1>2, <1>3, <1>4
<1>6. ASSUME NEW ph, NEW d PROVE Owed(ph, d, sl2) = Owed(ph, d, sl)
  <2>1. \A i \in Slots : OwedBy(ph, sl2[i], d) <=> OwedBy(ph, sl[i], d)
    BY <1>5 DEF Alike, OwedBy
  <2> QED
    BY <2>1 DEF Owed
<1>7. ASSUME NEW ph, NEW c, NEW l, NEW m, Balanced(ph, c, l, sl, m) PROVE Balanced(ph, c, l, sl2, m)
  BY <1>6, <1>7 DEF Balanced
<1>8. \A i \in Slots : sl2[i].at # "idle" => sl[i].at # "idle" /\ sl2[i].todo = sl[i].todo
  BY <1>5 DEF Alike
<1>9. PICK l : l = log
  OBVIOUS
<1>10. PICK m : m = made
  OBVIOUS
<1>11. ASSUME doubled = "no", NEW ph \in {"pre", "post", "fail"}, NEW c \in Calls PROVE Balanced(ph, c, l, sl2, m)
  <2>1. Balanced(ph, c, l, sl, m)
    BY <1>3, <1>9, <1>10, <1>11 DEF WasteInv
  <2> QED
    BY <1>7, <2>1
<1>12. ASSUME doubled = "no", NEW i \in Slots, sl2[i].at # "idle" PROVE Cardinality(sl2[i].todo) <= 1
  BY <1>3, <1>8, <1>12 DEF WasteInv
<1>13. Wrote(l) /\ m = [d \in Deeds |-> m[d]] /\ \A d \in Deeds : m[d] \in Nat
  BY <1>9, <1>10 DEF WasteInv
<1>14. slot' = sl2 /\ log' = l /\ made' = m /\ doubled' = doubled
  BY <1>1, <1>4, <1>9, <1>10
<1> QED
  BY <1>11, <1>12, <1>13, <1>14 DEF WasteInv

LEMMA NothingSaid ==
  ASSUME NEW l, l = <<>>, NEW ph, NEW c
  PROVE  Cardinality(Said(ph, c, l)) = 0 /\ Wrote(l)
<1>1. Said(ph, c, l) = {} /\ Wrote(l)
  BY EmptyIsList DEF Said, Wrote
<1> QED
  BY <1>1, FS_EmptySet

LEMMA WasteResets ==
  ASSUME TypesInv, WasteInv, ResetsLog
  PROVE  WasteInv'
<1>1. PICK e : e = <<>>
  OBVIOUS
<1>2. PICK sl : sl = slot
  OBVIOUS
<1>3. PICK m : m = made'
  OBVIOUS
<1>4. /\ slot' = sl /\ log' = e /\ doubled' = doubled
      /\ made' = [d \in Deeds |-> Cardinality({i \in Slots : Busy(i) /\ Deed(slot[i].call) = d})]
  BY <1>1, <1>2 DEF ResetsLog
<1>5. /\ m = [d \in Deeds |-> m[d]]
      /\ \A d \in Deeds : m[d] = Cardinality({i \in Slots : sl[i].at # "idle" /\ Deed(sl[i].call) = d})
  BY <1>2, <1>3, <1>4 DEF Busy
<1>6. ASSUME NEW d \in Deeds, NEW ph PROVE m[d] \in Nat /\ Cardinality(Owed(ph, d, sl)) <= m[d]
  <2>1. PICK S : S = {i \in Slots : sl[i].at # "idle" /\ Deed(sl[i].call) = d}
    OBVIOUS
  <2>2. IsFiniteSet(S)
    <3>1. S \subseteq Slots /\ IsFiniteSet(Slots)
      BY <2>1, GuardingAssumption
    <3> QED
      BY <3>1, FS_Subset
  <2>3. Cardinality(S) \in Nat
    BY <2>2, FS_CardinalityType
  <2>4. Owed(ph, d, sl) \subseteq S
    BY <2>1 DEF Owed, OwedBy
  <2>5. Cardinality(Owed(ph, d, sl)) <= Cardinality(S)
    BY <2>2, <2>4, FS_Subset
  <2>6. m[d] = Cardinality(S)
    BY <1>5, <2>1
  <2> QED
    BY <2>3, <2>5, <2>6
<1>7. ASSUME NEW ph, NEW c \in Calls PROVE Balanced(ph, c, e, sl, m)
  <2>1. PICK d : d = Deed(c)
    OBVIOUS
  <2>2. d \in Deeds
    BY <2>1 DEF Deeds
  <2>3. m[d] \in Nat /\ Cardinality(Owed(ph, d, sl)) <= m[d]
    BY <1>6, <2>2
  <2>4. Cardinality(Owed(ph, d, sl)) \in Nat
    BY OwedFinite
  <2>5. Cardinality(Said(ph, c, e)) = 0
    BY <1>1, NothingSaid
  <2> QED
    BY <2>1, <2>3, <2>4, <2>5 DEF Balanced
<1>8. Wrote(e)
  BY <1>1, NothingSaid
<1>9. \A d \in Deeds : m[d] \in Nat
  BY <1>6
<1>10. ASSUME doubled = "no", NEW i \in Slots, sl[i].at # "idle" PROVE Cardinality(sl[i].todo) <= 1
  BY <1>2, <1>10 DEF WasteInv
<1> QED
  BY <1>3, <1>4, <1>5, <1>7, <1>8, <1>9, <1>10 DEF WasteInv

LEMMA WasteInit ==
  ASSUME Init
  PROVE  WasteInv
<1>1. PICK e : e = <<>>
  OBVIOUS
<1>2. PICK sl : sl = slot
  OBVIOUS
<1>3. PICK m : m = made
  OBVIOUS
<1>4. log = e /\ m = [d \in Deeds |-> 0] /\ \A i \in Slots : sl[i] = Idle
  BY <1>1, <1>2, <1>3 DEF Init
<1>5. ASSUME NEW ph, NEW c \in Calls PROVE Balanced(ph, c, e, sl, m)
  <2>1. PICK d : d = Deed(c)
    OBVIOUS
  <2>2. m[d] = 0
    BY <1>4, <2>1 DEF Deeds
  <2>3. Owed(ph, d, sl) = {}
    BY <1>4 DEF Owed, OwedBy, Idle
  <2>4. Cardinality(Owed(ph, d, sl)) = 0
    BY <2>3, FS_EmptySet
  <2>5. Cardinality(Said(ph, c, e)) = 0
    BY <1>1, NothingSaid
  <2> QED
    BY <2>1, <2>2, <2>4, <2>5 DEF Balanced
<1>6. Wrote(e)
  BY <1>1, NothingSaid
<1>7. \A i \in Slots : sl[i].at = "idle"
  BY <1>4 DEF Idle
<1>8. m = [d \in Deeds |-> m[d]] /\ \A d \in Deeds : m[d] \in Nat
  BY <1>4
<1> QED
  BY <1>2, <1>3, <1>4, <1>5, <1>6, <1>7, <1>8 DEF WasteInv

LEMMA WasteNext ==
  ASSUME TypesInv, WiringInv, WasteInv, [Next]_vars
  PROVE  WasteInv'
<1>1. CASE UNCHANGED <<slot, made, doubled, log>>
  BY <1>1 DEF WasteInv
<1>2. CASE UNCHANGED vars
  BY <1>1, <1>2 DEF vars, told
<1>3. ASSUME NEW i \in Slots, NEW u \in Uses, Asks(i, u) PROVE WasteInv'
  BY <1>3, WasteAsks
<1>4. ASSUME NEW i \in Slots, Judges(i) PROVE WasteInv'
  BY <1>4, WasteJudges
<1>5. ASSUME NEW i \in Slots, Records(i) \/ HookFails(i) PROVE WasteInv'
  BY <1>5, WasteTold
<1>6. ASSUME NEW i \in Slots, Refuses(i) \/ Runs(i) \/ RunsInVain(i) PROVE WasteInv'
  BY <1>6, WasteGoes
<1>7. ASSUME NEW i \in Slots, RecordsAfter(i) PROVE WasteInv'
  BY <1>7, WasteAfter
<1>8. CASE RulesChange
  BY <1>8, WasteRules
<1>9. CASE ResetsLog
  BY <1>9, WasteResets
<1>10. CASE Commits
  BY <1>1, <1>10 DEF Commits, told
<1>11. CASE Install \/ InstallCursor
  BY <1>1, <1>11 DEF Install, InstallCursor, Installs, told
<1>12. ASSUME NEW e \in Editors, Uninstall(e) \/ \E h \in HandMade : HandWires(e, h[2]) PROVE WasteInv'
  BY <1>1, <1>12 DEF Uninstall, HandWires, told
<1> QED
  BY <1>2, <1>3, <1>4, <1>5, <1>6, <1>7, <1>8, <1>9, <1>10, <1>11, <1>12 DEF Next

LEMMA SaidOfMade ==
  ASSUME WasteInv, doubled = "no", NEW c \in Calls, IsList(log), NEW ph \in {"pre", "post", "fail"},
         NEW S, S \subseteq Said(ph, c, log)
  PROVE  /\ made[Deed(c)] \in Nat /\ IsFiniteSet(S) /\ Cardinality(S) \in Nat
         /\ Cardinality(S) <= made[Deed(c)]
<1>1. PICK n : n = made[Deed(c)]
  OBVIOUS
<1>2. PICK T : T = Said(ph, c, log)
  OBVIOUS
<1>3. PICK b : b = Cardinality(Owed(ph, Deed(c), slot))
  OBVIOUS
<1>4. n \in Nat /\ Cardinality(T) + b <= n
  BY <1>1, <1>2, <1>3 DEF WasteInv, Balanced, Deeds
<1>5. b \in Nat /\ IsFiniteSet(T) /\ Cardinality(T) \in Nat
  BY <1>2, <1>3, SaidFinite, OwedFinite
<1>6. IsFiniteSet(S) /\ Cardinality(S) <= Cardinality(T)
  BY <1>2, <1>5, FS_Subset
<1>7. Cardinality(S) \in Nat
  BY <1>6, FS_CardinalityType
<1> QED
  BY <1>1, <1>4, <1>5, <1>6, <1>7

\* analyzeWaste looks at the records of one event.
LEMMA ActsOfOne ==
  ASSUME NEW l
  PROVE  \E ph \in {"pre", "post", "fail"} : Acts(l) = {k \in DOMAIN l : l[k].phase = ph}
BY DEF Acts

LEMMA RereadsOfMade ==
  ASSUME WasteInv, doubled = "no", NEW c \in Calls, IsList(log), c.tool \in Readers
  PROVE  Rereads(log, c.target) <= IF made[Deed(c)] = 0 THEN 0 ELSE made[Deed(c)] - 1
<1>1. PICK ph \in {"pre", "post", "fail"} : Acts(log) = {k \in DOMAIN log : log[k].phase = ph}
  BY ActsOfOne
<1>2. PICK n : n = made[Deed(c)]
  OBVIOUS
<1>3. PICK S : S = {k \in Acts(log) : Reading(log[k], c.target)}
  OBVIOUS
<1>4. PICK R : R = {i \in Acts(log) :
                      /\ Reading(log[i], c.target)
                      /\ \E j \in Acts(log) :
                            /\ j < i /\ Reading(log[j], c.target)
                            /\ ~\E k \in Acts(log) \cap (j .. i) : Changes(log[k]) /\ log[k].path = c.target}
  OBVIOUS
<1>5. S \subseteq Said(ph, c, log)
  BY <1>1, <1>3 DEF Said, IsOf, Reading
<1>6. n \in Nat /\ IsFiniteSet(S) /\ Cardinality(S) \in Nat /\ Cardinality(S) <= n
  BY <1>2, <1>5, SaidOfMade
<1>7. R \subseteq S
  BY <1>3, <1>4
<1>8. CASE S = {}
  <2>1. R = {}
    BY <1>7, <1>8
  <2>2. Cardinality(R) = 0
    BY <2>1, FS_EmptySet
  <2>3. 0 <= IF n = 0 THEN 0 ELSE n - 1
    BY <1>6
  <2> QED
    BY <1>2, <1>4, <2>2, <2>3 DEF Rereads
<1>9. CASE S # {}
  <2>1. S \in SUBSET Nat
    <3>1. DOMAIN log = 1 .. Len(log) /\ Len(log) \in Nat
      BY SeqSpan
    <3> QED
      BY <1>1, <1>3, <3>1
  <2>2. PICK f \in S : \A y \in S : f <= y
    BY <1>9, <2>1, LeastNatural
  <2>3. f \notin R
    <3>1. SUFFICES ASSUME f \in R PROVE FALSE
      OBVIOUS
    <3>2. PICK j \in Acts(log) : j < f /\ Reading(log[j], c.target)
      BY <1>4, <3>1
    <3>3. j \in S
      BY <1>3, <3>2
    <3>4. f <= j /\ j \in Nat /\ f \in Nat
      BY <2>1, <2>2, <3>3
    <3> QED
      BY <3>2, <3>4
  <2>4. R \subseteq S \ {f}
    BY <1>7, <2>3
  <2>5. IsFiniteSet(S \ {f}) /\ Cardinality(S \ {f}) = Cardinality(S) - 1
    BY <1>6, <2>2, FS_RemoveElement
  <2>6. IsFiniteSet(R) /\ Cardinality(R) <= Cardinality(S \ {f})
    BY <2>4, <2>5, FS_Subset
  <2>7. Cardinality(R) \in Nat /\ Cardinality(S \ {f}) \in Nat
    BY <2>5, <2>6, FS_CardinalityType
  <2>8. n # 0 /\ Cardinality(R) <= n - 1
    BY <1>6, <2>5, <2>6, <2>7
  <2> QED
    BY <1>2, <1>4, <2>8 DEF Rereads
<1> QED
  BY <1>8, <1>9

LEMMA CommandsOfMade ==
  ASSUME WasteInv, doubled = "no", NEW c \in Calls, IsList(log), c.tool \in Shells
  PROVE  RepeatedCommand(log, c.target.id) <= made[Deed(c)]
<1>1. PICK ph \in {"pre", "post", "fail"} : Acts(log) = {k \in DOMAIN log : log[k].phase = ph}
  BY ActsOfOne
<1>2. PICK S : S = {i \in Acts(log) : log[i].op = "command" /\ log[i].hash = c.target.id}
  OBVIOUS
<1>3. S \subseteq Said(ph, c, log)
  BY <1>1, <1>2 DEF Said, IsOf
<1>4. made[Deed(c)] \in Nat /\ Cardinality(S) \in Nat /\ Cardinality(S) <= made[Deed(c)]
  BY <1>3, SaidOfMade
<1>5. RepeatedCommand(log, c.target.id) = IF Cardinality(S) >= 2 THEN Cardinality(S) ELSE 0
  BY <1>2 DEF RepeatedCommand
<1> QED
  BY <1>4, <1>5

LEMMA FailuresOfMade ==
  ASSUME WasteInv, doubled = "no", NEW c \in Calls, IsList(log), c.tool \in Writers
  PROVE  RepeatedFailure(log, <<c.tool, c.target, Null>>) <= made[Deed(c)]
<1>1. PICK S : S = {i \in DOMAIN log : /\ log[i].phase = "fail"
                                       /\ <<log[i].tool, log[i].path, log[i].hash>> = <<c.tool, c.target, Null>>}
  OBVIOUS
<1>2. c.target \in Paths
  BY CallAssumption DEF Calls
<1>3. ASSUME NEW i \in S PROVE i \in Said("fail", c, log)
  <2>1. i \in DOMAIN log /\ log[i].phase = "fail" /\ log[i].tool = c.tool /\ log[i].path = c.target
    BY <1>1
  <2>2. log[i].op = "write"
    BY <1>2, <2>1 DEF WasteInv, Wrote
  <2> QED
    BY <2>1, <2>2 DEF Said, IsOf
<1>4. S \subseteq Said("fail", c, log)
  BY <1>3
<1>5. made[Deed(c)] \in Nat /\ Cardinality(S) \in Nat /\ Cardinality(S) <= made[Deed(c)]
  BY <1>4, SaidOfMade
<1>6. RepeatedFailure(log, <<c.tool, c.target, Null>>) = IF Cardinality(S) >= 2 THEN Cardinality(S) ELSE 0
  BY <1>1 DEF RepeatedFailure
<1> QED
  BY <1>5, <1>6

LEMMA FailedOfMade ==
  ASSUME WasteInv, doubled = "no", NEW c \in Calls, IsList(log), c.tool \in Writers,
         NEW acts, acts = AggregateActions(log)
  PROVE  Cardinality({k \in DOMAIN acts : acts[k].op = "write" /\ acts[k].path = c.target /\ acts[k].failed})
            <= made[Deed(c)]
<1>1. PICK S : S = {k \in DOMAIN acts : acts[k].op = "write" /\ acts[k].path = c.target /\ acts[k].failed}
  OBVIOUS
<1>2. ASSUME NEW k \in DOMAIN acts
      PROVE  /\ k \in DOMAIN log /\ acts[k].op = log[k].op /\ acts[k].path = log[k].path
             /\ acts[k].failed <=> log[k].phase = "fail"
  <2>1. PICK D : D = {r.path : r \in {r \in Range(log) : r.op = "delete"}}
    OBVIOUS
  <2>2. k \in DOMAIN log
    BY DEF AggregateActions
  <2>3. acts[k] = [op |-> log[k].op, path |-> log[k].path, flag |-> Flag(log[k], D),
                   failed |-> log[k].phase = "fail", denied |-> log[k].phase = "denied"]
    BY <2>1 DEF AggregateActions
  <2>4. acts[k].op = log[k].op /\ acts[k].path = log[k].path
    BY <2>3
  <2>5. PICK v : v = (log[k].phase = "fail")
    OBVIOUS
  <2>6. PICK w : w = (log[k].phase = "denied")
    OBVIOUS
  <2>7. PICK f : f = Flag(log[k], D)
    OBVIOUS
  <2>8. acts[k] = [op |-> log[k].op, path |-> log[k].path, flag |-> f, failed |-> v, denied |-> w]
    BY <2>3, <2>5, <2>6, <2>7, Zenon
  <2>9. acts[k].failed = v
    BY <2>8
  <2> QED
    BY <2>2, <2>4, <2>5, <2>9, Zenon
<1>3. S \subseteq Said("fail", c, log)
  BY <1>1, <1>2 DEF Said, IsOf
<1>4. Cardinality(S) <= made[Deed(c)]
  BY <1>3, SaidOfMade
<1> QED
  BY <1>1, <1>4

LEMMA WasteIsWhole ==
  ASSUME TypesInv, WasteInv
  PROVE  WasteIsReal
<1>1. IsList(log)
  BY DEF TypesInv
<1>2. ASSUME doubled = "no", NEW c \in Calls
      PROVE  LET acts == AggregateActions(log)
                 n == made[Deed(c)]
             IN  /\ c.tool \in Shells => RepeatedCommand(log, c.target.id) <= n
                 /\ c.tool \in Readers => Rereads(log, c.target) <= IF n = 0 THEN 0 ELSE n - 1
                 /\ c.tool \in Writers =>
                       /\ RepeatedFailure(log, <<c.tool, c.target, Null>>) <= n
                       /\ Cardinality({k \in DOMAIN acts : /\ acts[k].op = "write" /\ acts[k].path = c.target
                                                           /\ acts[k].failed}) <= n
  <2>1. c.tool \in Shells => RepeatedCommand(log, c.target.id) <= made[Deed(c)]
    BY <1>1, <1>2, CommandsOfMade
  <2>2. c.tool \in Readers => Rereads(log, c.target) <= IF made[Deed(c)] = 0 THEN 0 ELSE made[Deed(c)] - 1
    BY <1>1, <1>2, RereadsOfMade
  <2>3. c.tool \in Writers => RepeatedFailure(log, <<c.tool, c.target, Null>>) <= made[Deed(c)]
    BY <1>1, <1>2, FailuresOfMade
  <2>4. PICK acts : acts = AggregateActions(log)
    OBVIOUS
  <2>5. c.tool \in Writers =>
           Cardinality({k \in DOMAIN acts : acts[k].op = "write" /\ acts[k].path = c.target /\ acts[k].failed})
              <= made[Deed(c)]
    BY <1>1, <1>2, <2>4, FailedOfMade
  <2> QED
    BY <2>1, <2>2, <2>3, <2>4, <2>5
<1> QED
  BY <1>2 DEF WasteIsReal

-----------------------------------------------------------------------------
(* The theorems                                                            *)

LEMMA TypesAndWiring == Spec => [](TypesInv /\ WiringInv)
<1>1. Init => TypesInv /\ WiringInv
  BY TypesInit, WiringInit
<1>2. TypesInv /\ WiringInv /\ [Next]_vars => TypesInv' /\ WiringInv'
  BY TypesNext, WiringNext
<1> QED
  BY <1>1, <1>2, PTL DEF Spec

\* The calls under way, the log and the rules are what the hooks and their
\* editor make of them: a call waits for hooks that are wired for its editor, and
\* its judgement is of the records its tool and target give (runCaptureIngest).
THEOREM GuardingTyping == Spec => []TypesInv
BY TypesAndWiring, PTL

\* In whatever state an install or an uninstall finds the settings, it leaves our
\* hook in every event or in none, and the entries of others where they were
\* (mergeCaptureHooks, mergeCursorCaptureHooks, removeCaptureHooks).
THEOREM WiringStaysWhole == Spec => []WiringIsWhole
<1>1. WiringInv => WiringIsWhole
  BY WiringHolds
<1> QED
  BY <1>1, TypesAndWiring, PTL

\* A call that standing rules in block mode forbid is refused by any hook that
\* gets to its end, and what policy check finds changed got there another way
\* (evalGuard, inferHookVendor, runPolicyCheck).
THEOREM ForbiddenIsRefused == Spec => []BlockHolds
<1>1. Init => BlockInv
  BY BlockInit
<1>2. TypesInv /\ WiringInv /\ BlockInv /\ [Next]_vars => BlockInv'
  BY BlockNext
<1>3. Spec => []BlockInv
  BY <1>1, <1>2, TypesAndWiring, PTL DEF Spec
<1>4. TypesInv /\ BlockInv => BlockHolds
  BY BlockIsHeld
<1> QED
  BY <1>3, <1>4, TypesAndWiring, PTL

\* Where a session's calls do not overlap and no hook of it failed, the scan of
\* the log counts what the session announced since its last change, and a loop is
\* marked by that count alone, whatever other sessions write (evalLoopGuard).
THEOREM LoopsAreFlagged == Spec => []LoopFlagged
<1>1. Init => LoopInv
  BY LoopInit
<1>2. TypesInv /\ WiringInv /\ LoopInv /\ [Next]_vars => LoopInv'
  BY LoopNext
<1>3. Spec => []LoopInv
  BY <1>1, <1>2, TypesAndWiring, PTL DEF Spec
<1>4. TypesInv /\ LoopInv => LoopFlagged
  BY LoopIsFlagged
<1> QED
  BY <1>3, <1>4, TypesAndWiring, PTL

\* What capture show says of the log is true of the calls: unexplained is what no
\* call named, and a command, a reading or a failure is not counted oftener than
\* the call was made (reconcileCapture, analyzeWaste, aggregateActions).
THEOREM ShowIsTrue == Spec => []ShownIsTrue
<1> DEFINE Heard == HeardIn(heard, log)
<1>1. Init => Heard /\ WasteInv
  BY HeardInit, WasteInit
<1>2. TypesInv /\ WiringInv /\ Heard /\ WasteInv /\ [Next]_vars => Heard' /\ WasteInv'
  BY HeardNext, WasteNext
<1>3. TypesInv /\ Heard /\ WasteInv => ShownIsTrue
  BY UnheardIsUnexplained, WasteIsWhole DEF ShownIsTrue
<1> HIDE DEF Heard
<1>4. Spec => [](Heard /\ WasteInv)
  BY <1>1, <1>2, TypesAndWiring, PTL DEF Spec
<1> QED
  BY <1>3, <1>4, TypesAndWiring, PTL
=============================================================================
