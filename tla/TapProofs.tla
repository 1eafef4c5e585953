----------------------------- MODULE TapProofs ------------------------------
(***************************************************************************)
(* Proofs about TapSession, TapWiring and TapLog.  First the session of one *)
(* tap, for any ids, limits and number of requests, with ids used twice and *)
(* a clock that goes back.  Then the wiring, for any number of files,       *)
(* servers, runs and edits: what is wrapped can be put back, no server is   *)
(* passed over, and no run but one that reverts a drift changes what a      *)
(* server starts with.  Then the log, for any limits, frames and processes, *)
(* with appends that fail and exits that overtake them: a break has a       *)
(* cause, a merged line counts what it stands for, no loss is silent.       *)
(***************************************************************************)
EXTENDS TapLog, TapSession, TapWiring, SequenceTheorems, FiniteSetTheorems,
        WellFoundedInduction, TLAPS

MapEntries == [id : Ids, n : DOMAIN sent, method : Methods, t : 0 .. MaxClock, at : DOMAIN sent]
Frames == [id : Ids, method : Methods, seen : {"yes", "no"}]

\* What is in the log: records about requests, and no record of an answer that
\* has not come.
LogHolds ==
    \A r \in log :
       \/ r.kind = "unpaired" /\ r.answer = 0 /\ r.of \in DOMAIN sent
       \/ r.kind = "paired" /\ r.of \in DOMAIN sent /\ r.answer \in DOMAIN sent \ unanswered
       \/ r.kind = "orphan" /\ r.of = 0 /\ r.answer \in DOMAIN sent \ unanswered

\* An entry of the map is a request that was seen; no two are the same request.
Known ==
    /\ \A e \in pending : /\ sent[e.n].seen = "yes" /\ sent[e.n].id = e.id
                          /\ sent[e.n].method = e.method
    /\ \A e, f \in pending : e.n = f.n => e = f

TypeInv == TypeOK /\ LogHolds /\ Known

NoTwins == "twice" \notin odd

\* As long as no id was used twice at a time: requests that wait for an answer
\* have ids of their own, an entry under the id of one is that request, and
\* one that was seen is in the map unless it was put out of it.
Fresh ==
    NoTwins =>
       /\ \A a, b \in unanswered : sent[a].id = sent[b].id => a = b
       /\ \A a \in unanswered : sent[a].seen = "yes" =>
             /\ \A e \in pending : e.id = sent[a].id => e.n = a
             /\ a \in put \/ InMap(a)

\* As long as nothing odd happened the order of the map is the order of time.
InOrder ==
    odd = {} =>
       /\ \A e \in pending : e.t <= now /\ e.at = e.n
       /\ \A e, f \in pending : e.at <= f.at => e.t <= f.t

-----------------------------------------------------------------------------
(* The operators                                                           *)

\* Sweeping and making room divide the map into what stays and what goes.
LEMMA Divides ==
  /\ Swept.map \cup Swept.out = pending /\ Swept.map \cap Swept.out = {}
  /\ WithRoom(Swept).map \cup WithRoom(Swept).out = pending
  /\ WithRoom(Swept).map \cap WithRoom(Swept).out = {}
  /\ WithRoom(Swept).map \subseteq Swept.map
BY DEF Swept, WithRoom, Stale, Oldest

\* The place of an entry is that of its key, or that of a new one.
LEMMA PlaceIs ==
  ASSUME NEW map, NEW id, NEW n
  PROVE  \/ Under(map, id) = {} /\ Place(map, id, n) = n
         \/ \E e \in Under(map, id) : Place(map, id, n) = e.at
BY DEF Place

-----------------------------------------------------------------------------
(* Typing                                                                  *)

\* The tap starts with an empty map and nothing recorded.
LEMMA TypeInit == Init => TypeInv
BY TapSessionAssumption DEF Init, TypeInv, TypeOK, LogHolds, Known

\* A request of the client keeps the types.
LEMMA RequestType ==
  ASSUME TypeInv, NEW id \in Ids, NEW m \in Methods, Request(id, m)
  PROVE  TypeInv'
<1> USE DEF TypeInv
<1> DEFINE n == Len(sent) + 1
           s == WithRoom(Swept)
           over == Under(s.map, id)
           new == [id |-> id, n |-> n, method |-> m, t |-> now, at |-> Place(s.map, id, n)]
<1>1. /\ sent' = Append(sent, [id |-> id, method |-> m, seen |-> "yes"])
      /\ pending' = (s.map \ over) \cup {new}
      /\ log' = log \cup Evicted(s.out)
      /\ put' = put \cup {e.n : e \in s.out \cup over}
      /\ odd' = odd \cup {"twice" : a \in Waiting(id)} \cup {"over" : e \in over}
      /\ unanswered' = unanswered \cup {n}
      /\ swept' = now /\ now' = now
  BY DEF Request, MapSet
<1>2. s.map \subseteq pending /\ s.out \subseteq pending /\ over \subseteq s.map
  BY Divides DEF Under
<1>3. /\ sent \in Seq(Frames) /\ sent' \in Seq(Frames)
      /\ Len(sent) \in Nat /\ DOMAIN sent = 1 .. Len(sent) /\ DOMAIN sent' = 1 .. n
      /\ sent'[n] = [id |-> id, method |-> m, seen |-> "yes"]
      /\ \A i \in DOMAIN sent : sent'[i] = sent[i]
  <2>1. [id |-> id, method |-> m, seen |-> "yes"] \in Frames
    BY DEF Frames
  <2>2. sent \in Seq(Frames)
    BY DEF TypeOK, Frames
  <2> QED
    BY <1>1, <2>1, <2>2
<1>4. pending \subseteq MapEntries
  BY DEF TypeOK, MapEntries
<1>5. new.at \in DOMAIN sent \/ (over = {} /\ new.at = n)
  BY <1>2, <1>4, PlaceIs DEF MapEntries
<1>6. new \in [id : Ids, n : 1 .. n, method : Methods, t : 0 .. MaxClock, at : 1 .. n]
  BY <1>3, <1>5 DEF TypeOK
<1>7. \A e \in s.map \ over : /\ e \in [id : Ids, n : 1 .. n, method : Methods, t : 0 .. MaxClock, at : 1 .. n]
                             /\ e \in pending /\ e.id # id /\ e.n # n
  BY <1>2, <1>3, <1>4 DEF MapEntries, Under
<1>8. TypeOK'
  <2>1. pending' \subseteq [id : Ids, n : DOMAIN sent', method : Methods, t : 0 .. MaxClock, at : DOMAIN sent']
    BY <1>1, <1>3, <1>6, <1>7
  <2>2. \A e \in s.map \ over : e.at # new.at
    <3>1. \A e \in s.map \ over : e.at \in DOMAIN sent
      BY <1>2, <1>4 DEF MapEntries
    <3>2. CASE over = {}
      BY <1>3, <3>1, <3>2, PlaceIs
    <3>3. CASE over # {}
      <4>1. PICK o \in over : new.at = o.at
        BY <3>3, PlaceIs
      <4> QED
        BY <1>2, <4>1 DEF TypeOK
    <3> QED
      BY <3>2, <3>3
  <2>3. \A e, f \in pending' : e.id = f.id \/ e.at = f.at => e = f
    <3>1. \A e, f \in pending : e.id = f.id \/ e.at = f.at => e = f
      BY DEF TypeOK
    <3>2. new.id = id
      OBVIOUS
    <3> HIDE DEF new, s, over
    <3> QED
      BY <1>1, <1>7, <2>2, <3>1, <3>2
  <2>4. unanswered' \cup put' \subseteq DOMAIN sent'
    BY <1>1, <1>2, <1>3, <1>4 DEF TypeOK, MapEntries
  <2>5. \A r \in log' : {r.of, r.answer} \subseteq 0 .. Len(sent')
    BY <1>1, <1>2, <1>3, <1>4 DEF TypeOK, MapEntries, Evicted, Unpaired
  <2>6. /\ now' \in 0 .. MaxClock /\ swept' \in 0 .. MaxClock
        /\ odd' \subseteq {"twice", "over", "clock"}
    BY <1>1 DEF TypeOK
  <2>7. sent' \in Seq([id : Ids, method : Methods, seen : {"yes", "no"}])
    BY <1>3 DEF Frames
  <2> QED
    BY <2>1, <2>3, <2>4, <2>5, <2>6, <2>7 DEF TypeOK
<1>9. LogHolds'
  <2>1. \A r \in Evicted(s.out) : r.kind = "unpaired" /\ r.answer = 0 /\ r.of \in DOMAIN sent
    BY <1>2, <1>4 DEF Evicted, Unpaired, MapEntries
  <2>2. DOMAIN sent \subseteq DOMAIN sent' /\ n \notin DOMAIN sent
    BY <1>3
  <2> HIDE DEF n, s
  <2> QED
    BY <1>1, <2>1, <2>2 DEF LogHolds
<1>10. Known'
  <2>1. \A e \in s.map \ over : /\ e.n \in DOMAIN sent /\ sent'[e.n] = sent[e.n] /\ e.n # n
                               /\ e \in pending
    BY <1>2, <1>3, <1>4 DEF MapEntries
  <2>2. new.n = n /\ new.id = id /\ new.method = m
    OBVIOUS
  <2>3. sent'[n].seen = "yes" /\ sent'[n].id = id /\ sent'[n].method = m
    BY <1>3
  <2> HIDE DEF new, s, over, n
  <2>4. \A e \in pending' : e = new \/ e \in s.map \ over
    BY <1>1
  <2>5. \A e \in pending' : /\ sent'[e.n].seen = "yes" /\ sent'[e.n].id = e.id
                           /\ sent'[e.n].method = e.method
    BY <2>1, <2>2, <2>3, <2>4 DEF Known
  <2>6. \A e, f \in pending' : e.n = f.n => e = f
    BY <2>1, <2>2, <2>4 DEF Known
  <2> QED
    BY <2>5, <2>6 DEF Known
<1> QED
  BY <1>8, <1>9, <1>10

\* So does an answer, a message that is not about a request, and all the rest.
LEMMA OthersType ==
  ASSUME TypeInv,
         \/ \E a \in unanswered : Answer(a) \/ OpaqueAnswer(a)
         \/ \E id \in Ids : OpaqueRequest(id)
         \/ Aside \/ Tick \/ ClockBack
  PROVE  TypeInv'
<1> USE DEF TypeInv
<1>0. /\ sent \in Seq(Frames) /\ Len(sent) \in Nat /\ DOMAIN sent = 1 .. Len(sent)
      /\ pending \subseteq MapEntries
      /\ Swept.map \subseteq pending /\ Swept.out \subseteq pending
  BY Divides DEF TypeOK, Frames, MapEntries
<1>1. \A r \in Evicted(Swept.out) : r.kind = "unpaired" /\ r.answer = 0 /\ r.of \in DOMAIN sent
  BY <1>0 DEF Evicted, Unpaired, MapEntries
<1>2. ASSUME NEW a \in unanswered, Answer(a) PROVE TypeInv'
  <2> DEFINE at == Under(Swept.map, sent[a].id)
  <2>1. /\ pending' = Swept.map \ at /\ unanswered' = unanswered \ {a}
        /\ log' = log \cup Evicted(Swept.out) \cup Outcome(a, at)
        /\ put' = put \cup {e.n : e \in Swept.out} /\ swept' = now
        /\ now' = now /\ sent' = sent /\ odd' = odd
    BY <1>2 DEF Answer, Leaves
  <2>2. \A r \in Outcome(a, at) : /\ r.answer = a
                                /\ \/ r.kind = "orphan" /\ r.of = 0
                                   \/ r.kind = "paired" /\ r.of \in DOMAIN sent
    <3>1. at \subseteq MapEntries
      BY <1>0 DEF Under
    <3> QED
      BY <3>1 DEF Outcome, Orphan, Paired, MapEntries
  <2>3. a \in DOMAIN sent /\ pending' \subseteq pending
    BY <1>0, <2>1 DEF TypeOK
  <2> HIDE DEF at
  <2>4. LogHolds'
    BY <1>1, <2>1, <2>2, <2>3 DEF LogHolds
  <2>5. Known'
    BY <2>1, <2>3 DEF Known
  <2>6. put' \subseteq DOMAIN sent
    BY <1>0, <2>1 DEF TypeOK, MapEntries
  <2>7. \A r \in log' : {r.of, r.answer} \subseteq 0 .. Len(sent)
    BY <1>0, <2>1, <2>4 DEF LogHolds
  <2> QED
    BY <2>1, <2>3, <2>4, <2>5, <2>6, <2>7 DEF TypeOK
<1>3. CASE Aside
  <2>1. /\ pending' = Swept.map /\ UNCHANGED <<now, sent, unanswered, odd>>
        /\ log' = log \cup Evicted(Swept.out)
        /\ put' = put \cup {e.n : e \in Swept.out} /\ swept' = now
    BY <1>3 DEF Aside, Leaves
  <2>2. LogHolds'
    BY <1>1, <2>1 DEF LogHolds
  <2>3. Known' /\ pending' \subseteq pending
    BY <1>0, <2>1 DEF Known
  <2>4. put' \subseteq DOMAIN sent
    BY <1>0, <2>1 DEF TypeOK, MapEntries
  <2>5. \A r \in log' : {r.of, r.answer} \subseteq 0 .. Len(sent)
    BY <1>0, <2>1, <2>2 DEF LogHolds, TypeOK
  <2> QED
    BY <2>1, <2>2, <2>3, <2>4, <2>5 DEF TypeOK
<1>4. ASSUME NEW id \in Ids, OpaqueRequest(id) PROVE TypeInv'
  <2> DEFINE f == [id |-> id, method |-> "call", seen |-> "no"]
             n == Len(sent) + 1
  <2>1. /\ sent' = Append(sent, f) /\ unanswered' = unanswered \cup {n}
        /\ odd' = odd \cup {"twice" : a \in Waiting(id)}
        /\ UNCHANGED <<pending, now, log, put, swept>>
    BY <1>4 DEF OpaqueRequest
  <2>2. /\ sent' \in Seq(Frames) /\ Len(sent') = n /\ DOMAIN sent' = 1 .. n /\ n \notin DOMAIN sent
        /\ DOMAIN sent \subseteq DOMAIN sent' /\ n \in DOMAIN sent'
        /\ \A i \in DOMAIN sent : sent'[i] = sent[i]
    <3>1. f \in Frames
      BY DEF Frames, Methods, Calls
    <3> QED
      BY <1>0, <2>1, <3>1
  <2> HIDE DEF n, f
  <2>3. LogHolds'
    BY <2>1, <2>2 DEF LogHolds
  <2>4. Known'
    BY <1>0, <2>1, <2>2 DEF Known, MapEntries
  <2>5. pending' \subseteq [id : Ids, n : DOMAIN sent', method : Methods, t : 0 .. MaxClock, at : DOMAIN sent']
    BY <1>0, <2>1, <2>2 DEF MapEntries
  <2>6. \A r \in log' : {r.of, r.answer} \subseteq 0 .. Len(sent')
    BY <2>2, <2>3 DEF LogHolds
  <2> QED
    BY <2>1, <2>2, <2>3, <2>4, <2>5, <2>6 DEF TypeOK, Frames
<1>5. ASSUME NEW a \in unanswered, OpaqueAnswer(a) PROVE TypeInv'
  BY <1>5 DEF OpaqueAnswer, TypeOK, LogHolds, Known
<1>6. CASE Tick \/ ClockBack
  <2>1. now' \in 0 .. MaxClock /\ odd' \subseteq {"twice", "over", "clock"}
    <3>1. now \in Int /\ MaxClock \in Int /\ 0 <= now /\ now <= MaxClock
      BY TapSessionAssumption DEF TypeOK
    <3>2. CASE Tick
      BY <3>1, <3>2 DEF Tick, TypeOK
    <3>3. CASE ClockBack
      <4>1. now > 0 /\ now' = now - 1 /\ odd' = odd \cup {"clock"}
        BY <3>3 DEF ClockBack
      <4> QED
        BY <3>1, <4>1 DEF TypeOK
    <3> QED
      BY <1>6, <3>2, <3>3
  <2>2. UNCHANGED <<pending, log, sent, unanswered, put, swept>>
    BY <1>6 DEF Tick, ClockBack
  <2> QED
    BY <2>1, <2>2 DEF TypeOK, LogHolds, Known
<1> QED
  BY <1>2, <1>3, <1>4, <1>5, <1>6

\* Every step keeps the types.
LEMMA TypeStep == TypeInv /\ [Next]_vars => TypeInv'
<1> SUFFICES ASSUME TypeInv, [Next]_vars PROVE TypeInv'
  OBVIOUS
<1>1. CASE UNCHANGED vars
  BY <1>1 DEF vars, TypeInv, TypeOK, LogHolds, Known
<1>2. CASE Next
  BY <1>2, RequestType, OthersType DEF Next
<1> QED
  BY <1>1, <1>2

\* The map is a map: no two entries are under one key or at one place, and an
\* entry is a request that was seen.
THEOREM Typing == Spec => []TypeOK
<1>1. TypeInv => TypeOK
  BY DEF TypeInv
<1> QED
  BY <1>1, TypeInit, TypeStep, PTL DEF Spec

-----------------------------------------------------------------------------
(* Every call is accounted for                                             *)

\* What becomes of request k when the entries out are given up and those in at
\* are answered by a, which adds the records recs: the argument for all messages.
LEMMA AccountsMove ==
  ASSUME TypeInv, NEW k \in DOMAIN sent,
         \/ InMap(k) /\ ~GivenUp(k) /\ AnswersOf(k) = {}
         \/ ~InMap(k) /\ GivenUp(k) /\ AnswersOf(k) = {}
         \/ ~InMap(k) /\ ~GivenUp(k) /\ \E r \in log : AnswersOf(k) = {r},
         sent[k].method \in Calls,
         NEW out \in SUBSET pending, NEW at \in SUBSET pending, NEW a, NEW recs, at \cap out = {},
         recs = Outcome(a, at) \/ (at = {} /\ recs = {}),
         log' = log \cup Evicted(out) \cup recs,
         \A e \in pending : e.n = k => (e \in pending' <=> e \notin out \cup at),
         \A e \in pending' \ pending : e.n # k
  PROVE  \/ InMap(k)' /\ ~GivenUp(k)' /\ AnswersOf(k)' = {}
         \/ ~InMap(k)' /\ GivenUp(k)' /\ AnswersOf(k)' = {}
         \/ ~InMap(k)' /\ ~GivenUp(k)' /\ \E r \in log' : AnswersOf(k)' = {r}
<1> USE DEF TypeInv
<1>1. /\ \A e \in pending : sent[e.n].method = e.method
      /\ \A e, f \in pending : e.n = f.n => e = f
  BY DEF Known
<1>2. Unpaired(k) \in Evicted(out) <=> \E e \in out : e.n = k
  <2>1. \A e \in out : e.n = k => e.method \in Calls
    BY <1>1
  <2> QED
    BY <2>1 DEF Evicted, Unpaired
<1>3. Unpaired(k) \notin recs
  BY DEF Unpaired, Outcome, Orphan, Paired
<1>4. {r \in Evicted(out) : r.kind = "paired" /\ r.of = k} = {}
  BY DEF Evicted, Unpaired
<1>5. {r \in recs : r.kind = "paired" /\ r.of = k} =
         IF \E e \in at : e.n = k THEN {Paired(k, a)} ELSE {}
  <2>1. \A e \in at : e.n = k => e.method \in Calls
    BY <1>1
  <2>2. CASE at = {}
    BY <2>2 DEF Outcome, Orphan
  <2>3. CASE at # {} /\ recs = Outcome(a, at)
    BY <2>1, <2>3 DEF Outcome, Paired
  <2> QED
    BY <2>2, <2>3
<1>6. AnswersOf(k)' = AnswersOf(k) \cup (IF \E e \in at : e.n = k THEN {Paired(k, a)} ELSE {})
  BY <1>4, <1>5 DEF AnswersOf
<1>7. GivenUp(k)' <=> GivenUp(k) \/ \E e \in out : e.n = k
  BY <1>2, <1>3 DEF GivenUp, Unpaired
<1>8. InMap(k)' <=> \E e \in pending : e.n = k /\ e \notin out \cup at
  BY DEF InMap
<1>9. CASE ~InMap(k)
  <2>1. ~InMap(k)' /\ (GivenUp(k)' <=> GivenUp(k)) /\ AnswersOf(k)' = AnswersOf(k)
    BY <1>6, <1>7, <1>8, <1>9 DEF InMap
  <2> QED
    BY <1>9, <2>1
<1>10. CASE InMap(k)
  <2>1. PICK e \in pending : e.n = k
    BY <1>10 DEF InMap
  <2>2. \A f \in pending : f.n = k => f = e
    BY <1>1, <2>1
  <2>3. AnswersOf(k) = {} /\ ~GivenUp(k)
    BY <1>10
  <2>4. CASE e \in out
    BY <1>6, <1>7, <1>8, <2>1, <2>2, <2>3, <2>4
  <2>5. CASE e \in at
    <3>1. AnswersOf(k)' = {Paired(k, a)}
      BY <1>6, <2>1, <2>3, <2>5
    <3>2. Paired(k, a) \in log'
      BY <3>1 DEF AnswersOf
    <3> QED
      BY <1>7, <1>8, <2>1, <2>2, <2>3, <2>5, <3>1, <3>2
  <2>6. CASE e \notin out \cup at
    BY <1>6, <1>7, <1>8, <2>1, <2>2, <2>3, <2>6
  <2> QED
    BY <2>4, <2>5, <2>6
<1> QED
  BY <1>9, <1>10

\* The same for a message that answers nothing.
LEMMA AccountsSwept ==
  ASSUME TypeInv, NEW k \in DOMAIN sent,
         \/ InMap(k) /\ ~GivenUp(k) /\ AnswersOf(k) = {}
         \/ ~InMap(k) /\ GivenUp(k) /\ AnswersOf(k) = {}
         \/ ~InMap(k) /\ ~GivenUp(k) /\ \E r \in log : AnswersOf(k) = {r},
         sent[k].method \in Calls,
         NEW out \in SUBSET pending,
         log' = log \cup Evicted(out),
         \A e \in pending : e.n = k => (e \in pending' <=> e \notin out),
         \A e \in pending' \ pending : e.n # k
  PROVE  \/ InMap(k)' /\ ~GivenUp(k)' /\ AnswersOf(k)' = {}
         \/ ~InMap(k)' /\ GivenUp(k)' /\ AnswersOf(k)' = {}
         \/ ~InMap(k)' /\ ~GivenUp(k)' /\ \E r \in log' : AnswersOf(k)' = {r}
<1> DEFINE at == {}
<1>1. /\ at \in SUBSET pending /\ at \cap out = {} /\ out \cup at = out
      /\ log' = log \cup Evicted(out) \cup at
  OBVIOUS
<1>2. \A e \in pending : e.n = k => (e \in pending' <=> e \notin out \cup at)
  BY <1>1
<1>3. ASSUME NEW a, NEW recs, recs = at PROVE recs = Outcome(a, at) \/ (at = {} /\ recs = {})
  BY <1>3
<1> HIDE DEF at
<1> QED
  BY <1>1, <1>2, <1>3, AccountsMove

\* A request opens an account, and those put out for it are closed or written over.
LEMMA RequestAccounted ==
  ASSUME TypeInv, CallsAccounted, NEW id \in Ids, NEW m \in Methods, Request(id, m)
  PROVE  CallsAccounted'
<1> USE DEF TypeInv
<1> DEFINE n == Len(sent) + 1
           s == WithRoom(Swept)
           over == Under(s.map, id)
           new == [id |-> id, n |-> n, method |-> m, t |-> now, at |-> Place(s.map, id, n)]
<1>1. /\ sent' = Append(sent, [id |-> id, method |-> m, seen |-> "yes"])
      /\ pending' = (s.map \ over) \cup {new}
      /\ log' = log \cup Evicted(s.out)
      /\ put' = put \cup {e.n : e \in s.out \cup over}
      /\ odd' = odd \cup {"twice" : a \in Waiting(id)} \cup {"over" : e \in over}
  BY DEF Request, MapSet
<1>2. /\ s.map \cup s.out = pending /\ s.map \cap s.out = {}
      /\ over \subseteq s.map /\ new.n = n
  BY Divides DEF Under
<1>3. /\ Len(sent) \in Nat /\ DOMAIN sent = 1 .. Len(sent) /\ DOMAIN sent' = 1 .. n
      /\ \A i \in DOMAIN sent : sent'[i] = sent[i]
      /\ n \notin DOMAIN sent /\ DOMAIN sent' = DOMAIN sent \cup {n}
  <2>1. sent \in Seq(Frames)
    BY DEF TypeOK, Frames
  <2> QED
    BY <1>1, <2>1
<1>4. \A e \in pending : e.n \in DOMAIN sent
  BY DEF TypeOK
<1> HIDE DEF new, s, n
<1>5. ASSUME NEW k, k = n
      PROVE  InMap(k)' /\ ~GivenUp(k)' /\ AnswersOf(k)' = {}
  <2>1. InMap(k)'
    BY <1>1, <1>2, <1>5 DEF InMap
  <2>2. \A r \in log : r.kind \in {"unpaired", "paired"} => r.of # k
    BY <1>3, <1>5 DEF LogHolds
  <2>3. \A r \in Evicted(s.out) : r.kind = "unpaired" /\ r.of # k
    BY <1>2, <1>3, <1>4, <1>5 DEF Evicted, Unpaired
  <2>4. ~GivenUp(k)'
    BY <1>1, <2>2, <2>3 DEF GivenUp, Unpaired
  <2> QED
    BY <1>1, <2>1, <2>2, <2>3, <2>4 DEF AnswersOf
<1>6. ASSUME NEW k \in DOMAIN sent, sent[k].seen = "yes", sent[k].method \in Calls
      PROVE  \/ InMap(k)' /\ ~GivenUp(k)' /\ AnswersOf(k)' = {}
             \/ ~InMap(k)' /\ GivenUp(k)' /\ AnswersOf(k)' = {}
             \/ ~InMap(k)' /\ ~GivenUp(k)' /\ \E r \in log' : AnswersOf(k)' = {r}
             \/ k \in put' /\ "over" \in odd'
  <2>1. CASE k \in put /\ "over" \in odd
    BY <1>1, <2>1
  <2>2. CASE \E e \in over : e.n = k
    BY <1>1, <2>2
  <2>3. CASE ~(k \in put /\ "over" \in odd) /\ \A e \in over : e.n # k
    <3>1. \/ InMap(k) /\ ~GivenUp(k) /\ AnswersOf(k) = {}
          \/ ~InMap(k) /\ GivenUp(k) /\ AnswersOf(k) = {}
          \/ ~InMap(k) /\ ~GivenUp(k) /\ \E r \in log : AnswersOf(k) = {r}
      BY <1>6, <2>3 DEF CallsAccounted
    <3>2. /\ s.out \in SUBSET pending
          /\ \A e \in pending : e.n = k => (e \in pending' <=> e \notin s.out)
          /\ \A e \in pending' \ pending : e.n # k
      <4>1. k # n
        BY <1>3
      <4> QED
        BY <1>1, <1>2, <2>3, <4>1
    <3> QED
      BY <1>1, <1>6, <3>1, <3>2, AccountsSwept
  <2> QED
    BY <2>1, <2>2, <2>3
<1> QED
  BY <1>3, <1>5, <1>6 DEF CallsAccounted

\* An answer moves the account of the call it answers, sweeping those of others.
LEMMA OthersAccounted ==
  ASSUME TypeInv, CallsAccounted,
         \/ \E a \in unanswered : Answer(a) \/ OpaqueAnswer(a)
         \/ \E id \in Ids : OpaqueRequest(id)
         \/ Aside \/ Tick \/ ClockBack
  PROVE  CallsAccounted'
<1> USE DEF TypeInv
<1>1. Swept.map \cup Swept.out = pending /\ Swept.map \cap Swept.out = {}
  BY Divides
<1>2. ASSUME NEW a \in unanswered, Answer(a) PROVE CallsAccounted'
  <2> DEFINE at == Under(Swept.map, sent[a].id)
  <2>1. /\ pending' = Swept.map \ at /\ sent' = sent /\ odd' = odd
        /\ log' = log \cup Evicted(Swept.out) \cup Outcome(a, at)
        /\ put' = put \cup {e.n : e \in Swept.out}
    BY <1>2 DEF Answer, Leaves
  <2>2. at \subseteq Swept.map
    BY DEF Under
  <2> HIDE DEF at
  <2>3. ASSUME NEW k \in DOMAIN sent, sent[k].seen = "yes", sent[k].method \in Calls,
               ~(k \in put /\ "over" \in odd)
        PROVE  \/ InMap(k)' /\ ~GivenUp(k)' /\ AnswersOf(k)' = {}
               \/ ~InMap(k)' /\ GivenUp(k)' /\ AnswersOf(k)' = {}
               \/ ~InMap(k)' /\ ~GivenUp(k)' /\ \E r \in log' : AnswersOf(k)' = {r}
    <3>1. \/ InMap(k) /\ ~GivenUp(k) /\ AnswersOf(k) = {}
          \/ ~InMap(k) /\ GivenUp(k) /\ AnswersOf(k) = {}
          \/ ~InMap(k) /\ ~GivenUp(k) /\ \E r \in log : AnswersOf(k) = {r}
      BY <2>3 DEF CallsAccounted
    <3>2. /\ Swept.out \in SUBSET pending /\ at \in SUBSET pending /\ at \cap Swept.out = {}
          /\ \A e \in pending : e.n = k => (e \in pending' <=> e \notin Swept.out \cup at)
          /\ \A e \in pending' \ pending : e.n # k
      BY <1>1, <2>1, <2>2
    <3> QED
      BY <2>1, <2>3, <3>1, <3>2, AccountsMove
  <2> QED
    BY <2>1, <2>3 DEF CallsAccounted
<1>3. CASE Aside
  <2>1. /\ pending' = Swept.map /\ UNCHANGED <<sent, odd>>
        /\ log' = log \cup Evicted(Swept.out)
        /\ put' = put \cup {e.n : e \in Swept.out}
    BY <1>3 DEF Aside, Leaves
  <2>2. ASSUME NEW k \in DOMAIN sent, sent[k].seen = "yes", sent[k].method \in Calls,
               ~(k \in put /\ "over" \in odd)
        PROVE  \/ InMap(k)' /\ ~GivenUp(k)' /\ AnswersOf(k)' = {}
               \/ ~InMap(k)' /\ GivenUp(k)' /\ AnswersOf(k)' = {}
               \/ ~InMap(k)' /\ ~GivenUp(k)' /\ \E r \in log' : AnswersOf(k)' = {r}
    <3>1. \/ InMap(k) /\ ~GivenUp(k) /\ AnswersOf(k) = {}
          \/ ~InMap(k) /\ GivenUp(k) /\ AnswersOf(k) = {}
          \/ ~InMap(k) /\ ~GivenUp(k) /\ \E r \in log : AnswersOf(k) = {r}
      BY <2>2 DEF CallsAccounted
    <3>2. /\ Swept.out \in SUBSET pending
          /\ \A e \in pending : e.n = k => (e \in pending' <=> e \notin Swept.out)
          /\ \A e \in pending' \ pending : e.n # k
      BY <1>1, <2>1
    <3> QED
      BY <2>1, <2>2, <3>1, <3>2, AccountsSwept
  <2> QED
    BY <2>1, <2>2 DEF CallsAccounted
<1>4. ASSUME NEW id \in Ids, OpaqueRequest(id) PROVE CallsAccounted'
  <2>1. /\ sent' = Append(sent, [id |-> id, method |-> "call", seen |-> "no"])
        /\ UNCHANGED <<pending, log, put>> /\ odd \subseteq odd'
    BY <1>4 DEF OpaqueRequest
  <2>2. /\ DOMAIN sent' = DOMAIN sent \cup {Len(sent) + 1}
        /\ \A i \in DOMAIN sent : sent'[i] = sent[i]
        /\ sent'[Len(sent) + 1].seen = "no"
    <3>1. sent \in Seq(Frames)
      BY DEF TypeOK, Frames
    <3> QED
      BY <2>1, <3>1
  <2> QED
    BY <2>1, <2>2 DEF CallsAccounted, InMap, GivenUp, AnswersOf
<1>5. CASE (\E a \in unanswered : OpaqueAnswer(a)) \/ Tick \/ ClockBack
  <2>1. UNCHANGED <<pending, log, sent, put>> /\ odd \subseteq odd'
    BY <1>5 DEF OpaqueAnswer, Tick, ClockBack
  <2> QED
    BY <2>1 DEF CallsAccounted, InMap, GivenUp, AnswersOf
<1> QED
  BY <1>2, <1>3, <1>4, <1>5

\* A call that was seen waits, is written down as answered, once, or is written
\* down as unpaired, and never two of these, unless its key was written over.
THEOREM Accounted == Spec => []CallsAccounted
<1>1. Init => CallsAccounted
  BY DEF Init, CallsAccounted
<1>2. TypeInv /\ CallsAccounted /\ [Next]_vars => CallsAccounted'
  <2> SUFFICES ASSUME TypeInv, CallsAccounted, [Next]_vars PROVE CallsAccounted'
    OBVIOUS
  <2>1. CASE UNCHANGED vars
    BY <2>1 DEF vars, CallsAccounted, InMap, GivenUp, AnswersOf
  <2>2. CASE Next
    BY <2>2, RequestAccounted, OthersAccounted DEF Next
  <2> QED
    BY <2>1, <2>2
<1> QED
  BY <1>1, <1>2, TypeInit, TypeStep, PTL DEF Spec

-----------------------------------------------------------------------------
(* Pairing                                                                 *)

Pairing == Fresh /\ PairedRight /\ OrphanHasCause

\* A request whose id nobody waits under has that id, and its key, to itself.
LEMMA RequestPairs ==
  ASSUME TypeInv, Pairing, NEW id \in Ids, NEW m \in Methods, Request(id, m)
  PROVE  Pairing'
<1> SUFFICES ASSUME NoTwins' PROVE Pairing'
  BY DEF Pairing, Fresh, PairedRight, OrphanHasCause, NoTwins
<1> USE DEF TypeInv
<1> DEFINE n == Len(sent) + 1
           s == WithRoom(Swept)
           over == Under(s.map, id)
           new == [id |-> id, n |-> n, method |-> m, t |-> now, at |-> Place(s.map, id, n)]
<1>1. /\ sent' = Append(sent, [id |-> id, method |-> m, seen |-> "yes"])
      /\ pending' = (s.map \ over) \cup {new}
      /\ log' = log \cup Evicted(s.out)
      /\ put' = put \cup {e.n : e \in s.out \cup over}
      /\ odd' = odd \cup {"twice" : a \in Waiting(id)} \cup {"over" : e \in over}
      /\ unanswered' = unanswered \cup {n}
  BY DEF Request, MapSet
<1>2. /\ s.map \cup s.out = pending /\ s.map \cap s.out = {} /\ over \subseteq s.map
      /\ \A e \in s.map \ over : e.id # id
      /\ new.n = n /\ new.id = id
  BY Divides DEF Under
<1>3. /\ \A i \in DOMAIN sent : sent'[i] = sent[i] /\ i # n
      /\ sent'[n].id = id
  <2>1. sent \in Seq(Frames)
    BY DEF TypeOK, Frames
  <2> QED
    BY <1>1, <2>1
<1>4. /\ NoTwins /\ \A a \in unanswered : sent[a].id # id
  <2>1. Waiting(id) = {} /\ NoTwins
    BY <1>1 DEF NoTwins
  <2> QED
    BY <2>1 DEF Waiting
<1>5. unanswered \subseteq DOMAIN sent
  BY DEF TypeOK
<1>6. /\ \A a, b \in unanswered : sent[a].id = sent[b].id => a = b
      /\ \A a \in unanswered : sent[a].seen = "yes" =>
             /\ \A e \in pending : e.id = sent[a].id => e.n = a
             /\ a \in put \/ InMap(a)
  BY <1>4 DEF Pairing, Fresh
<1> HIDE DEF new, s, over, n
<1>7. ASSUME NEW a \in unanswered', NEW b \in unanswered', sent'[a].id = sent'[b].id
      PROVE  a = b
  BY <1>1, <1>3, <1>4, <1>5, <1>6, <1>7
<1>8. ASSUME NEW a \in unanswered', sent'[a].seen = "yes", NEW e \in pending', e.id = sent'[a].id
      PROVE  e.n = a
  <2>1. e = new \/ (e \in s.map \ over /\ e \in pending)
    BY <1>1, <1>2
  <2>2. CASE a = n
    BY <1>2, <1>3, <1>8, <2>1, <2>2
  <2>3. CASE a # n
    <3>1. a \in unanswered /\ sent'[a] = sent[a] /\ sent[a].seen = "yes"
      BY <1>1, <1>3, <1>5, <1>8, <2>3
    <3>2. e # new
      BY <1>2, <1>4, <1>8, <3>1
    <3> QED
      BY <1>6, <1>8, <2>1, <3>1, <3>2
  <2> QED
    BY <2>2, <2>3
<1>9. ASSUME NEW a \in unanswered', sent'[a].seen = "yes" PROVE a \in put' \/ InMap(a)'
  <2>1. CASE a = n
    BY <1>1, <1>2, <2>1 DEF InMap
  <2>2. CASE a # n
    <3>1. a \in put \/ \E e \in pending : e.n = a
      BY <1>1, <1>3, <1>5, <1>6, <1>9, <2>2 DEF InMap
    <3> QED
      BY <1>1, <1>2, <3>1 DEF InMap
  <2> QED
    BY <2>1, <2>2
<1>10. Fresh'
  BY <1>7, <1>8, <1>9 DEF Fresh
<1>11. \A r \in log' : r \in log \/ r.kind = "unpaired"
  BY <1>1 DEF Evicted, Unpaired
<1>12. \A r \in log : r.kind \in {"paired", "orphan"} => sent'[r.answer] = sent[r.answer]
  BY <1>3 DEF LogHolds
<1>13. PairedRight'
  BY <1>4, <1>11, <1>12 DEF Pairing, PairedRight, NoTwins
<1>14. OrphanHasCause'
  BY <1>1, <1>4, <1>11, <1>12 DEF Pairing, OrphanHasCause, NoTwins
<1> QED
  BY <1>10, <1>13, <1>14 DEF Pairing

\* An answer finds its own request under its id, or none.
LEMMA AnswerPairs ==
  ASSUME TypeInv, Pairing, NEW a \in unanswered, Answer(a)
  PROVE  Pairing'
<1> SUFFICES ASSUME NoTwins' PROVE Pairing'
  BY DEF Pairing, Fresh, PairedRight, OrphanHasCause, NoTwins
<1> USE DEF TypeInv
<1> DEFINE at == Under(Swept.map, sent[a].id)
<1>1. /\ pending' = Swept.map \ at /\ sent' = sent /\ odd' = odd
      /\ log' = log \cup Evicted(Swept.out) \cup Outcome(a, at)
      /\ put' = put \cup {e.n : e \in Swept.out}
      /\ unanswered' = unanswered \ {a}
  BY DEF Answer, Leaves
<1>2. /\ Swept.map \cup Swept.out = pending /\ Swept.map \cap Swept.out = {}
      /\ at \subseteq Swept.map
      /\ \A e \in Swept.map : e \in at <=> e.id = sent[a].id
  BY Divides DEF Under
<1>3. \A e \in pending : sent[e.n].id = e.id
  BY DEF Known
<1>4. /\ \A c, b \in unanswered : sent[c].id = sent[b].id => c = b
      /\ \A b \in unanswered : sent[b].seen = "yes" =>
             /\ \A e \in pending : e.id = sent[b].id => e.n = b
             /\ b \in put \/ \E e \in pending : e.n = b
  BY <1>1 DEF Pairing, Fresh, NoTwins, InMap
<1> HIDE DEF at
<1>5. ASSUME NEW b \in unanswered', sent[b].seen = "yes" PROVE b \in put' \/ InMap(b)'
  <2>1. b # a /\ (b \in put \/ \E e \in pending : e.n = b)
    BY <1>1, <1>4, <1>5
  <2>2. ASSUME NEW e \in pending, e.n = b PROVE e \notin at
    BY <1>1, <1>2, <1>3, <1>4, <2>1, <2>2
  <2> QED
    BY <1>1, <1>2, <2>1, <2>2 DEF InMap
<1>6. Fresh'
  BY <1>1, <1>2, <1>4, <1>5 DEF Fresh
<1>7. \A r \in Evicted(Swept.out) : r.kind = "unpaired"
  BY DEF Evicted, Unpaired
<1>8. \A r \in Outcome(a, at) :
         /\ r.answer = a
         /\ \/ r.kind = "orphan" /\ at = {}
            \/ r.kind = "paired" /\ \E e \in at : r.of = e.n
  BY DEF Outcome, Orphan, Paired
<1>9. PairedRight'
  <2>1. \A e \in at : sent[a].seen = "yes" => e.n = a
    BY <1>2, <1>4
  <2>2. \A r \in log : (r.kind = "paired" /\ sent[r.answer].seen = "yes") => r.of = r.answer
    BY <1>1 DEF Pairing, PairedRight, NoTwins
  <2> QED
    BY <1>1, <1>7, <1>8, <2>1, <2>2 DEF PairedRight
<1>10. OrphanHasCause'
  <2>1. (sent[a].seen = "yes" /\ at = {}) => a \in put'
    BY <1>1, <1>2, <1>3, <1>4
  <2>2. \A r \in log : r.kind = "orphan" => r.answer \in put \/ sent[r.answer].seen = "no"
    BY <1>1 DEF Pairing, OrphanHasCause, NoTwins
  <2>3. sent[a].seen \in {"yes", "no"}
    <3>1. sent \in Seq(Frames) /\ a \in DOMAIN sent
      BY DEF TypeOK, Frames
    <3>2. sent[a] \in Frames
      BY <3>1
    <3> QED
      BY <3>2 DEF Frames
  <2> QED
    BY <1>1, <1>7, <1>8, <2>1, <2>2, <2>3 DEF OrphanHasCause
<1> QED
  BY <1>6, <1>9, <1>10 DEF Pairing

\* The rest changes no pairing.
LEMMA OthersPair ==
  ASSUME TypeInv, Pairing,
         \/ \E a \in unanswered : OpaqueAnswer(a)
         \/ \E id \in Ids : OpaqueRequest(id)
         \/ Aside \/ Tick \/ ClockBack
  PROVE  Pairing'
<1> SUFFICES ASSUME NoTwins' PROVE Pairing'
  BY DEF Pairing, Fresh, PairedRight, OrphanHasCause, NoTwins
<1> USE DEF TypeInv
<1>1. CASE Aside
  <2>1. /\ pending' = Swept.map /\ UNCHANGED <<sent, unanswered, odd>>
        /\ log' = log \cup Evicted(Swept.out)
        /\ put' = put \cup {e.n : e \in Swept.out}
    BY <1>1 DEF Aside, Leaves
  <2>2. Swept.map \cup Swept.out = pending
    BY Divides
  <2>3. \A r \in log' : r \in log \/ r.kind = "unpaired"
    BY <2>1 DEF Evicted, Unpaired
  <2>4. NoTwins
    BY <2>1 DEF NoTwins
  <2>5. Fresh'
    BY <2>1, <2>2, <2>4 DEF Pairing, Fresh, InMap
  <2>6. PairedRight' /\ OrphanHasCause'
    BY <2>1, <2>3, <2>4 DEF Pairing, PairedRight, OrphanHasCause, NoTwins
  <2> QED
    BY <2>5, <2>6 DEF Pairing
<1>2. ASSUME NEW id \in Ids, OpaqueRequest(id) PROVE Pairing'
  <2> DEFINE n == Len(sent) + 1
  <2>1. /\ sent' = Append(sent, [id |-> id, method |-> "call", seen |-> "no"])
        /\ unanswered' = unanswered \cup {n}
        /\ odd' = odd \cup {"twice" : a \in Waiting(id)}
        /\ UNCHANGED <<pending, log, put>>
    BY <1>2 DEF OpaqueRequest
  <2>2. /\ \A i \in DOMAIN sent : sent'[i] = sent[i] /\ i # n
        /\ sent'[n].id = id /\ sent'[n].seen = "no"
    <3>1. sent \in Seq(Frames)
      BY DEF TypeOK, Frames
    <3> QED
      BY <2>1, <3>1
  <2>3. NoTwins /\ Waiting(id) = {}
    BY <2>1 DEF NoTwins
  <2>4. unanswered \subseteq DOMAIN sent /\ \A a \in unanswered : sent[a].id # id
    BY <2>3 DEF TypeOK, Waiting
  <2> HIDE DEF n
  <2>5. Fresh'
    <3>1. ASSUME NEW a \in unanswered', NEW b \in unanswered', sent'[a].id = sent'[b].id
          PROVE  a = b
      BY <2>1, <2>2, <2>3, <2>4, <3>1 DEF Pairing, Fresh
    <3>2. ASSUME NEW a \in unanswered', sent'[a].seen = "yes"
          PROVE  /\ \A e \in pending' : e.id = sent'[a].id => e.n = a
                 /\ a \in put' \/ InMap(a)'
      <4>1. a # n
        BY <2>2, <3>2
      <4>2. a \in unanswered /\ sent'[a] = sent[a]
        BY <2>1, <2>2, <2>4, <4>1
      <4>3. /\ \A e \in pending : e.id = sent[a].id => e.n = a
            /\ a \in put \/ \E e \in pending : e.n = a
        BY <2>3, <3>2, <4>2 DEF Pairing, Fresh, InMap
      <4> QED
        BY <2>1, <4>2, <4>3 DEF InMap
    <3> QED
      BY <3>1, <3>2 DEF Fresh
  <2>6. \A r \in log : r.kind \in {"paired", "orphan"} => sent'[r.answer] = sent[r.answer]
    BY <2>2 DEF LogHolds
  <2>7. PairedRight' /\ OrphanHasCause'
    BY <2>1, <2>3, <2>6 DEF Pairing, PairedRight, OrphanHasCause, NoTwins
  <2> QED
    BY <2>5, <2>7 DEF Pairing
<1>3. CASE (\E a \in unanswered : OpaqueAnswer(a)) \/ Tick \/ ClockBack
  <2>1. /\ UNCHANGED <<pending, log, sent, put>> /\ unanswered' \subseteq unanswered
        /\ odd \subseteq odd'
    BY <1>3 DEF OpaqueAnswer, Tick, ClockBack
  <2> QED
    BY <2>1 DEF Pairing, Fresh, PairedRight, OrphanHasCause, NoTwins, InMap
<1> QED
  BY <1>1, <1>2, <1>3

\* The inductive invariant behind the two theorems below.
LEMMA PairingHolds == Spec => []Pairing
<1>1. Init => Pairing
  BY DEF Init, Pairing, Fresh, PairedRight, OrphanHasCause
<1>2. TypeInv /\ Pairing /\ [Next]_vars => Pairing'
  <2> SUFFICES ASSUME TypeInv, Pairing, [Next]_vars PROVE Pairing'
    OBVIOUS
  <2>1. CASE UNCHANGED vars
    BY <2>1 DEF vars, Pairing, Fresh, PairedRight, OrphanHasCause, NoTwins, InMap
  <2>2. CASE Next
    BY <2>2, RequestPairs, AnswerPairs, OthersPair DEF Next
  <2> QED
    BY <2>1, <2>2
<1> QED
  BY <1>1, <1>2, TypeInit, TypeStep, PTL DEF Spec

\* The answer to a request that was seen is paired with no other request.
THEOREM PairsRight == Spec => []PairedRight
<1>1. Pairing => PairedRight
  BY DEF Pairing
<1> QED
  BY <1>1, PairingHolds, PTL

\* An answer is called an orphan only if its request was not seen or was put out
\* of the map.
THEOREM OrphansHaveCause == Spec => []OrphanHasCause
<1>1. Pairing => OrphanHasCause
  BY DEF Pairing
<1> QED
  BY <1>1, PairingHolds, PTL

-----------------------------------------------------------------------------
(* The sweep and the limit                                                 *)

\* What a sweep leaves has not waited too long, if the order is that of time.
LEMMA SweepLeavesYoung ==
  ASSUME TypeInv, InOrder, odd = {}
  PROVE  \A e \in Swept.map : now - e.t <= Ttl
<1> SUFFICES ASSUME NEW e \in Swept.map PROVE now - e.t <= Ttl
  OBVIOUS
<1>1. e \in pending /\ e \notin Stale(pending)
  BY DEF Swept
<1>2. PICK f \in pending : f.at <= e.at /\ ~(now - f.t > Ttl)
  BY <1>1 DEF Stale
<1>3. f.t <= e.t
  BY <1>1, <1>2 DEF InOrder
<1>4. {now, f.t, e.t, Ttl} \subseteq Int
  <2>1. f.t \in 0 .. MaxClock /\ e.t \in 0 .. MaxClock /\ now \in 0 .. MaxClock
    BY <1>1 DEF TypeInv, TypeOK
  <2> QED
    BY <2>1, TapSessionAssumption
<1> QED
  BY <1>2, <1>3, <1>4

Sweeping == InOrder /\ SweepComplete

\* A new entry is the last in the map and the youngest.
LEMMA RequestSweeps ==
  ASSUME TypeInv, Sweeping, NEW id \in Ids, NEW m \in Methods, Request(id, m)
  PROVE  Sweeping'
<1> SUFFICES ASSUME odd' = {} PROVE Sweeping'
  BY DEF Sweeping, InOrder, SweepComplete
<1> USE DEF TypeInv
<1> DEFINE n == Len(sent) + 1
           s == WithRoom(Swept)
           over == Under(s.map, id)
           new == [id |-> id, n |-> n, method |-> m, t |-> now, at |-> Place(s.map, id, n)]
<1>1. /\ pending' = (s.map \ over) \cup {new} /\ now' = now /\ swept' = now
      /\ odd' = odd \cup {"twice" : a \in Waiting(id)} \cup {"over" : e \in over}
  BY DEF Request, MapSet
<1>2. odd = {} /\ over = {}
  BY <1>1
<1>3. new.at = n /\ new.n = n /\ new.t = now
  BY <1>2, PlaceIs
<1>4. s.map \subseteq pending /\ s.map \subseteq Swept.map
  BY Divides
<1>5. \A e \in pending : e.at \in 1 .. Len(sent) /\ e.t \in 0 .. MaxClock
  <2>1. DOMAIN sent = 1 .. Len(sent)
    BY DEF TypeOK
  <2> QED
    BY <2>1 DEF TypeOK
<1>6. Len(sent) \in Nat /\ now \in Nat /\ Ttl \in Nat /\ n = Len(sent) + 1
  BY TapSessionAssumption DEF TypeOK
<1>7. /\ \A e \in pending : e.t <= now /\ e.at = e.n
      /\ \A e, f \in pending : e.at <= f.at => e.t <= f.t
  BY <1>2 DEF Sweeping, InOrder
<1>8. \A e \in s.map : now - e.t <= Ttl
  BY <1>2, <1>4, SweepLeavesYoung DEF Sweeping
<1> HIDE DEF new, s, over, n
<1>9. \A e \in pending' : e = new \/ (e \in pending /\ e \in s.map)
  BY <1>1, <1>4
<1>10. InOrder'
  <2>1. \A e \in pending' : e.t <= now' /\ e.at = e.n
    BY <1>1, <1>3, <1>6, <1>7, <1>9
  <2>2. ASSUME NEW e \in pending', NEW f \in pending', e.at <= f.at PROVE e.t <= f.t
    <3>1. CASE f = new
      BY <1>1, <1>3, <2>1, <3>1
    <3>2. CASE e = new /\ f # new
      <4>1. f.at \in 1 .. Len(sent) /\ e.at = n
        BY <1>3, <1>5, <1>9, <3>2
      <4> QED
        BY <1>6, <2>2, <4>1
    <3>3. CASE e # new /\ f # new
      BY <1>7, <1>9, <2>2, <3>3
    <3> QED
      BY <3>1, <3>2, <3>3
  <2> QED
    BY <2>1, <2>2 DEF InOrder
<1>11. SweepComplete'
  BY <1>1, <1>3, <1>6, <1>8, <1>9 DEF SweepComplete
<1> QED
  BY <1>10, <1>11 DEF Sweeping

\* Nothing else adds an entry, and time only goes on.
LEMMA OthersSweep ==
  ASSUME TypeInv, Sweeping,
         \/ \E a \in unanswered : Answer(a) \/ OpaqueAnswer(a)
         \/ \E id \in Ids : OpaqueRequest(id)
         \/ Aside \/ Tick \/ ClockBack
  PROVE  Sweeping'
<1> SUFFICES ASSUME odd' = {} PROVE Sweeping'
  BY DEF Sweeping, InOrder, SweepComplete
<1>1. CASE (\E a \in unanswered : Answer(a)) \/ Aside
  <2>1. pending' \subseteq Swept.map /\ UNCHANGED <<now, odd>> /\ swept' = now
    BY <1>1 DEF Answer, Aside, Leaves
  <2>2. pending' \subseteq pending
    BY <2>1, Divides
  <2>3. SweepComplete'
    BY <2>1, SweepLeavesYoung DEF Sweeping, SweepComplete
  <2>4. InOrder'
    BY <2>1, <2>2 DEF Sweeping, InOrder
  <2> QED
    BY <2>3, <2>4 DEF Sweeping
<1>2. CASE (\E a \in unanswered : OpaqueAnswer(a)) \/ (\E id \in Ids : OpaqueRequest(id))
  <2>1. UNCHANGED <<pending, now, swept>> /\ odd \subseteq odd'
    BY <1>2 DEF OpaqueAnswer, OpaqueRequest
  <2> QED
    BY <2>1 DEF Sweeping, InOrder, SweepComplete
<1>3. CASE Tick
  <2>1. /\ now' = now + 1 /\ UNCHANGED <<pending, swept, odd>>
    BY <1>3 DEF Tick
  <2>2. now \in Int /\ \A e \in pending : e.t \in Int
    <3>1. now \in 0 .. MaxClock /\ \A e \in pending : e.t \in 0 .. MaxClock
      BY DEF TypeInv, TypeOK
    <3> QED
      BY <3>1
  <2> QED
    BY <2>1, <2>2 DEF Sweeping, InOrder, SweepComplete
<1>4. CASE ClockBack
  BY <1>4 DEF ClockBack
<1> QED
  BY <1>1, <1>2, <1>3, <1>4

\* After a message nothing in the map has waited longer than the limit, as long
\* as no key was written over and the clock was not set back.
THEOREM SweepsAll == Spec => []SweepComplete
<1>1. Init => Sweeping
  BY DEF Init, Sweeping, InOrder, SweepComplete
<1>2. TypeInv /\ Sweeping /\ [Next]_vars => Sweeping'
  <2> SUFFICES ASSUME TypeInv, Sweeping, [Next]_vars PROVE Sweeping'
    OBVIOUS
  <2>1. CASE UNCHANGED vars
    BY <2>1 DEF vars, Sweeping, InOrder, SweepComplete
  <2>2. CASE Next
    BY <2>2, RequestSweeps, OthersSweep DEF Next
  <2> QED
    BY <2>1, <2>2
<1>3. Sweeping => SweepComplete
  BY DEF Sweeping
<1> QED
  BY <1>1, <1>2, <1>3, TypeInit, TypeStep, PTL DEF Spec

Bounded == IsFiniteSet(pending) /\ MapBounded

\* A map with entries has an oldest one.
LEMMA SomeOldest ==
  ASSUME TypeInv, NEW map \in SUBSET pending, map # {}
  PROVE  Oldest(map) # {}
<1> DEFINE T == {e.at : e \in map}
<1>1. T \in SUBSET Nat /\ T # {}
  <2>1. \A e \in pending : e.at \in DOMAIN sent
    BY DEF TypeInv, TypeOK
  <2>2. DOMAIN sent \subseteq Nat
    BY DEF TypeInv, TypeOK
  <2> QED
    BY <2>1, <2>2
<1>2. PICK x \in T : \A y \in T : x <= y
  <2> DEFINE R == {s \in Nat \X Nat : s[1] < s[2]}
  <2>1. IsWellFoundedOn(R, Nat)
    BY NatLessThanWellFounded, Zenon DEF OpToRel
  <2> HIDE DEF T
  <2>2. PICK x \in T : \A y \in T : ~(<<y, x>> \in R)
    <3> HIDE DEF R
    <3> QED
      BY <1>1, <2>1, WFMin
  <2>3. ASSUME NEW y \in T PROVE x <= y
    <3>1. x \in Nat /\ y \in Nat /\ ~(<<y, x>> \in R)
      BY <1>1, <2>2
    <3> QED
      BY <3>1
  <2> QED
    BY <2>3
<1>3. PICK e \in map : e.at = x
  OBVIOUS
<1> QED
  BY <1>2, <1>3 DEF Oldest

\* A request finds room: the map it is put into is below its limit.
LEMMA RoomMade ==
  ASSUME TypeInv, Bounded
  PROVE  /\ IsFiniteSet(WithRoom(Swept).map)
         /\ Cardinality(WithRoom(Swept).map) < Cap
<1> DEFINE s == WithRoom(Swept)
<1>1. /\ IsFiniteSet(Swept.map) /\ Cardinality(Swept.map) <= Cardinality(pending)
      /\ Swept.map \in SUBSET pending
  <2>1. Swept.map \in SUBSET pending
    BY Divides
  <2> QED
    BY <2>1, FS_Subset DEF Bounded
<1>2. /\ Cardinality(Swept.map) \in Nat /\ Cardinality(pending) \in Nat
      /\ Cardinality(pending) <= Cap /\ Cap \in Nat \ {0}
  BY <1>1, FS_CardinalityType, TapSessionAssumption DEF Bounded, MapBounded
<1>3. CASE Cardinality(Swept.map) < Cap
  <2>1. s = Swept
    BY <1>2, <1>3 DEF WithRoom
  <2> QED
    BY <1>1, <1>3, <2>1
<1>4. CASE Cardinality(Swept.map) >= Cap
  <2>1. s.map = Swept.map \ Oldest(Swept.map)
    BY <1>4 DEF WithRoom
  <2>2. Swept.map # {}
    BY <1>2, <1>4, FS_EmptySet
  <2>3. PICK o \in Swept.map : o \in Oldest(Swept.map)
    BY <1>1, <2>2, SomeOldest DEF Oldest
  <2>4. /\ IsFiniteSet(Swept.map \ {o})
        /\ Cardinality(Swept.map \ {o}) = Cardinality(Swept.map) - 1
    BY <1>1, <2>3, FS_RemoveElement
  <2>5. s.map \in SUBSET (Swept.map \ {o})
    BY <2>1, <2>3
  <2>6. IsFiniteSet(s.map) /\ Cardinality(s.map) <= Cardinality(Swept.map \ {o})
    BY <2>4, <2>5, FS_Subset
  <2>7. Cardinality(s.map) \in Nat
    BY <2>6, FS_CardinalityType
  <2> QED
    BY <1>1, <1>2, <2>4, <2>6, <2>7
<1> QED
  BY <1>2, <1>3, <1>4

\* The map stays within pendingCap, for any limit and any use of ids.
THEOREM StaysBounded == Spec => []MapBounded
<1>1. Init => Bounded
  BY FS_EmptySet, TapSessionAssumption DEF Init, Bounded, MapBounded
<1>2. TypeInv /\ Bounded /\ [Next]_vars => Bounded'
  <2> SUFFICES ASSUME TypeInv, Bounded, [Next]_vars PROVE Bounded'
    OBVIOUS
  <2>1. ASSUME NEW id \in Ids, NEW m \in Methods, Request(id, m) PROVE Bounded'
    <3> DEFINE s == WithRoom(Swept)
               new == [id |-> id, n |-> Len(sent) + 1, method |-> m, t |-> now,
                       at |-> Place(s.map, id, Len(sent) + 1)]
               rest == s.map \ Under(s.map, id)
    <3>1. pending' = rest \cup {new}
      BY <2>1 DEF Request, MapSet
    <3>2. IsFiniteSet(s.map) /\ Cardinality(s.map) < Cap
      BY RoomMade
    <3>3. rest \in SUBSET s.map
      OBVIOUS
    <3> HIDE DEF s, new, rest
    <3>4. IsFiniteSet(rest) /\ Cardinality(rest) <= Cardinality(s.map)
      BY <3>2, <3>3, FS_Subset
    <3>5. /\ IsFiniteSet(pending')
          /\ Cardinality(pending') = IF new \in rest THEN Cardinality(rest) ELSE Cardinality(rest) + 1
      BY <3>1, <3>4, FS_AddElement
    <3>6. Cardinality(rest) \in Nat /\ Cardinality(s.map) \in Nat /\ Cap \in Nat
      BY <3>2, <3>4, FS_CardinalityType, TapSessionAssumption
    <3> QED
      BY <3>2, <3>4, <3>5, <3>6 DEF Bounded, MapBounded
  <2>2. CASE ~\E id \in Ids, m \in Methods : Request(id, m)
    <3>1. pending' \in SUBSET pending
      BY <2>2, Divides DEF Next, vars, Answer, OpaqueAnswer, OpaqueRequest, Aside, Tick, ClockBack
    <3>2. /\ IsFiniteSet(pending') /\ Cardinality(pending') <= Cardinality(pending)
          /\ Cardinality(pending) <= Cap
      BY <3>1, FS_Subset DEF Bounded, MapBounded
    <3>3. {Cardinality(pending'), Cardinality(pending), Cap} \subseteq Nat
      BY <3>2, FS_CardinalityType, TapSessionAssumption DEF Bounded
    <3> QED
      BY <3>2, <3>3 DEF Bounded, MapBounded
  <2> QED
    BY <2>1, <2>2
<1>3. Bounded => MapBounded
  BY DEF Bounded
<1> QED
  BY <1>1, <1>2, <1>3, TypeInit, TypeStep, PTL DEF Spec

-----------------------------------------------------------------------------
(***************************************************************************)
(* The wiring.                                                             *)
(***************************************************************************)

Sides == [orig : [Slots -> Commands \cup {None}],
          excluded : SUBSET Slots, unwrapped : SUBSET Slots]
Runs == [pc : {"idle", "next", "write"}, op : {"install", "uninstall"},
         cs : SUBSET Configs, todo : SUBSET Configs, at : Configs \cup {None},
         saw : SUBSET Configs, except : SUBSET Names, mine : Sides,
         copy : [Slots -> Entries], stale : SUBSET Slots]

WiringTypeOK ==
    /\ file \in [Slots -> Entries] /\ side \in Sides /\ run \in Runs
    /\ edits \in Nat /\ covered \subseteq Slots /\ marred \subseteq Slots

\* Where a run is: the configuration it has in memory has been seen and is
\* still to do, and no other is both.
Course ==
    /\ run.pc # "write" => run.at = None
    /\ run.pc = "write" => run.at \in run.todo \cap run.saw
    /\ run.pc # "idle" => run.saw \cap run.todo \subseteq {run.at}
    /\ run.pc # "idle" /\ run.op = "uninstall" => run.mine = side

Noted(m) == Recorded(m) \cup m.excluded \cup m.unwrapped

\* install only adds to what the sidecar says.
Grows == Recorded(side) \subseteq Recorded(run.mine) /\ Noted(side) \subseteq Noted(run.mine)

\* What is wrapped on disk is in the sidecar, or noted by an install that has
\* written that configuration.
Backed ==
    \A s \in Slots \ marred : file[s].kind = "wrapped" =>
       \/ s \in Recorded(side)
       \/ /\ run.pc # "idle" /\ run.op = "install"
          /\ s \in Recorded(run.mine) /\ Config(s) \in run.saw \ {run.at}

\* The entries in memory, once on disk, are backed too; and an uninstall leaves
\* nothing wrapped behind it.
Ahead ==
    /\ \A s \in Slots \ marred :
          (run.pc = "write" /\ Config(s) = run.at /\ run.copy[s].kind = "wrapped") =>
             run.op = "install" /\ s \in Recorded(run.mine)
    /\ \A s \in Slots \ marred :
          (run.pc # "idle" /\ run.op = "uninstall" /\ Config(s) \in run.cs \ run.todo) =>
             file[s].kind # "wrapped"

\* What install has looked at it has noted, unless it has changed since.
Looked ==
    \A s \in Slots \ marred :
       (run.pc # "idle" /\ run.op = "install" /\ Config(s) \in run.saw /\ s \notin run.stale) =>
          /\ Config(s) # run.at /\ file[s].kind # "absent" => s \in Noted(run.mine)
          /\ Config(s) = run.at /\ run.copy[s].kind # "absent" => s \in Noted(run.mine)

\* Entries come and go by edits alone.
Stays ==
    \A s \in covered :
       /\ (s \notin marred /\ file[s].kind # "absent") => s \in Declared
       /\ (run.pc = "write" /\ Config(s) = run.at /\ run.copy[s].kind # "absent") =>
             file[s].kind # "absent"

\* The command in memory is the one on disk, or the one that was recorded.
SameCommand ==
    \A s \in Slots :
       (run.pc = "write" /\ Config(s) = run.at /\ s \notin run.stale) =>
          \/ run.copy[s].cmd = file[s].cmd
          \/ /\ run.op = "uninstall" /\ s \in Recorded(side)
             /\ run.copy[s].cmd = side.orig[s]

IInv ==
    /\ WiringTypeOK /\ Course
    /\ (run.pc # "idle" /\ run.op = "install") => Grows
    /\ Backed /\ Ahead /\ Looked /\ Stays /\ SameCommand

-----------------------------------------------------------------------------
(* What the pure parts do                                                  *)

LEMMA EntryShape ==
    ASSUME NEW e \in Entries
    PROVE  /\ e.kind \in {"absent", "bare", "plain", "wrapped"}
           /\ e.kind \in {"plain", "wrapped"} => e.cmd \in Commands
           /\ e.kind = "plain" => Wrapped(e.cmd) \in Entries
           /\ e.cmd \in Commands \cup {None}
  BY DEF Entries, UserEntries, Wrapped, Entry

LEMMA EmptySide == Empty \in Sides /\ Recorded(Empty) = {}
  BY DEF Empty, Sides, Recorded

LEMMA WrapKeeps ==
    ASSUME NEW s, NEW e \in Entries, NEW except
    PROVE  /\ Wrap(s, e, except) \in Entries
           /\ Wrap(s, e, except).cmd = e.cmd
           /\ Wrap(s, e, except).kind = "absent" <=> e.kind = "absent"
           /\ Wrap(s, e, except).kind = "wrapped" =>
                 e.kind = "wrapped" \/ (e.kind = "plain" /\ Name(s) \notin except)
<1>1. Wrapped(e.cmd).kind = "wrapped" /\ Wrapped(e.cmd).cmd = e.cmd
  BY DEF Wrapped, Entry
<1>2. QED
  BY <1>1, EntryShape DEF Wrap

LEMMA RestoreKeeps ==
    ASSUME NEW s \in Slots, NEW e \in Entries, NEW m \in Sides
    PROVE  /\ Restore(s, e, m) \in Entries
           /\ Restore(s, e, m).kind = "absent" <=> e.kind = "absent"
           /\ Restore(s, e, m).kind = "wrapped" => e.kind = "wrapped" /\ s \notin Recorded(m)
           /\ Restore(s, e, m).cmd = e.cmd \/ (s \in Recorded(m) /\ Restore(s, e, m).cmd = m.orig[s])
<1>1. CASE s \in Recorded(m) /\ e.kind = "wrapped"
  <2>1. m.orig[s] \in Commands
    BY <1>1 DEF Recorded, Sides
  <2>2. Restore(s, e, m) = Entry("plain", m.orig[s])
    BY <1>1 DEF Restore
  <2>3. QED
    BY <1>1, <2>1, <2>2 DEF Entries, UserEntries, Entry
<1>2. CASE ~(s \in Recorded(m) /\ e.kind = "wrapped")
  BY <1>2 DEF Restore
<1>3. QED
  BY <1>1, <1>2

LEMMA NotingAdds ==
    ASSUME NEW m \in Sides, NEW c, NEW e \in [Slots -> Entries], NEW except
    PROVE  LET n == NoteInstall(m, c, e, except)
           IN  /\ n \in Sides
               /\ Recorded(m) \subseteq Recorded(n)
               /\ Noted(m) \subseteq Noted(n)
               /\ \A s \in Slots : Config(s) = c =>
                     /\ e[s].kind = "plain" /\ Name(s) \notin except => s \in Recorded(n)
                     /\ e[s].kind \in {"plain", "bare"} => s \in Noted(n)
<1> DEFINE new == {s \in In(c) : e[s].kind = "plain" /\ Name(s) \notin except}
           orig == [s \in Slots |-> IF s \in new THEN e[s].cmd ELSE m.orig[s]]
           exc == m.excluded \cup {s \in In(c) : e[s].kind = "plain" /\ Name(s) \in except}
           unw == m.unwrapped \cup {s \in In(c) : e[s].kind = "bare"}
           n == NoteInstall(m, c, e, except)
<1>1. In(c) \subseteq Slots /\ \A s \in Slots : s \in In(c) <=> Config(s) = c
  BY DEF In
<1>2. n = [orig |-> orig, excluded |-> exc, unwrapped |-> unw]
  <2>1. DOMAIN m = {"orig", "excluded", "unwrapped"}
    BY DEF Sides
  <2>2. /\ DOMAIN n = {"orig", "excluded", "unwrapped"}
        /\ n.orig = orig /\ n.excluded = exc /\ n.unwrapped = unw
    BY <2>1, Zenon DEF NoteInstall
  <2>3. n = [x \in DOMAIN n |-> n[x]]
    BY DEF NoteInstall
  <2>4. QED
    BY <2>2, <2>3
<1>3. \A s \in Slots : e[s].kind = "plain" => e[s].cmd \in Commands
  BY EntryShape
<1>4. orig \in [Slots -> Commands \cup {None}]
  BY <1>1, <1>3 DEF Sides
<1>5. n \in Sides
  BY <1>1, <1>2, <1>4 DEF Sides
<1>6. \A s \in Slots : (s \in new \/ m.orig[s] # None) => orig[s] # None
  BY <1>1, <1>3, WiringAssumption
<1>7. Recorded(n) = {s \in Slots : orig[s] # None}
  BY <1>2 DEF Recorded
<1> HIDE DEF orig
<1>8. Recorded(m) \subseteq Recorded(n)
  BY <1>6, <1>7 DEF Recorded
<1>9. Noted(m) \subseteq Noted(n)
  BY <1>2, <1>8 DEF Noted
<1>10. \A s \in Slots : Config(s) = c =>
          /\ e[s].kind = "plain" /\ Name(s) \notin except => s \in Recorded(n)
          /\ e[s].kind \in {"plain", "bare"} => s \in Noted(n)
  BY <1>1, <1>2, <1>6, <1>7 DEF Noted
<1>11. QED
  BY <1>5, <1>8, <1>9, <1>10

LEMMA CleanDrops ==
    ASSUME NEW m \in Sides, NEW cs
    PROVE  /\ Clean(m, cs) \in Sides
           /\ Recorded(Clean(m, cs)) = {s \in Recorded(m) : Config(s) \notin cs}
           /\ Clean(m, cs).excluded = m.excluded /\ Clean(m, cs).unwrapped = m.unwrapped
<1> DEFINE orig == [s \in Slots |-> IF Config(s) \in cs THEN None ELSE m.orig[s]]
<1>1. Clean(m, cs) = [orig |-> orig, excluded |-> m.excluded, unwrapped |-> m.unwrapped]
  BY DEF Clean, Sides
<1>2. QED
  BY <1>1 DEF Sides, Recorded

-----------------------------------------------------------------------------
(* Types and the course of a run                                           *)

LEMMA IdleIsRun == Idle \in Runs /\ Nothing \in [Slots -> Entries]
<1>1. Nothing \in [Slots -> Entries]
  BY DEF Nothing, Entries, UserEntries
<1>2. QED
  BY <1>1, EmptySide DEF Idle, Runs

LEMMA Starting == WiringInit => IInv
<1> SUFFICES ASSUME WiringInit PROVE IInv
  OBVIOUS
<1>1. \A s \in Slots : file[s].kind # "wrapped" /\ file \in [Slots -> Entries]
  BY DEF WiringInit, Entries, UserEntries, Entry
<1>2. WiringTypeOK
  <2>1. file \in [Slots -> Entries]
    BY DEF WiringInit, Entries
  <2>2. QED
    BY <2>1, IdleIsRun, EmptySide DEF WiringInit, WiringTypeOK
<1>3. run.pc = "idle" /\ run.at = None
  BY DEF WiringInit, Idle
<1>4. QED
  BY <1>1, <1>2, <1>3
     DEF WiringInit, IInv, Course, Backed, Ahead, Looked, Stays, SameCommand

\* What a run may do to its own record, without the proofs looking into it.
LEMMA RunFields ==
    ASSUME run \in Runs
    PROVE  run = [pc |-> run.pc, op |-> run.op, cs |-> run.cs, todo |-> run.todo, at |-> run.at,
                  saw |-> run.saw, except |-> run.except, mine |-> run.mine,
                  copy |-> run.copy, stale |-> run.stale]
  BY DEF Runs

LEMMA StartingInstall ==
    ASSUME IInv, NEW cs \in SUBSET Configs, NEW except \in SUBSET Names, StartInstall(cs, except)
    PROVE  IInv'
<1>0. run' = [pc |-> "next", op |-> "install", cs |-> cs, todo |-> cs, at |-> None,
              saw |-> {}, except |-> except, mine |-> side, copy |-> Nothing, stale |-> {}]
  BY DEF StartInstall, Idle
<1>1. /\ run'.pc = "next" /\ run'.op = "install" /\ run'.cs = cs /\ run'.todo = cs
      /\ run'.at = None /\ run'.saw = {} /\ run'.mine = side
  BY <1>0
<1>2. WiringTypeOK'
  BY <1>0, IdleIsRun DEF IInv, WiringTypeOK, StartInstall, Runs
<1>3. Course' /\ Grows'
  <2>1. run'.saw \cap run'.todo = {}
    BY <1>1
  <2>2. side' = side /\ run'.mine = side'
    BY <1>1 DEF StartInstall
  <2>3. QED
    BY <1>1, <2>1, <2>2 DEF Course, Grows
<1>4. Backed'
  BY <1>1 DEF IInv, Backed, StartInstall
<1>5. Ahead' /\ Looked' /\ SameCommand'
  BY <1>1 DEF Ahead, Looked, SameCommand
<1>6. Stays'
  BY <1>1 DEF IInv, Stays, StartInstall, Declared
<1>7. QED
  BY <1>2, <1>3, <1>4, <1>5, <1>6 DEF IInv

LEMMA StartingUninstall ==
    ASSUME IInv, NEW cs \in SUBSET Configs, StartUninstall(cs)
    PROVE  IInv'
<1> DEFINE targets == {s \in Recorded(side) : Config(s) \in cs}
           todo == {Config(s) : s \in targets}
<1>0. run' = [pc |-> "next", op |-> "uninstall", cs |-> cs, todo |-> todo, at |-> None,
              saw |-> {}, except |-> {}, mine |-> side, copy |-> Nothing, stale |-> {}]
  BY DEF StartUninstall, Idle
<1>1. /\ run'.pc = "next" /\ run'.op = "uninstall" /\ run'.cs = cs /\ run'.todo = todo
      /\ run'.at = None /\ run'.saw = {} /\ run'.mine = side
  BY <1>0
<1>2. todo \subseteq Configs
  BY DEF Recorded, Configs
<1>3. WiringTypeOK'
  BY <1>0, <1>2, IdleIsRun DEF IInv, WiringTypeOK, StartUninstall, Runs
<1>4. Course'
  <2>1. run'.saw \cap run'.todo = {}
    BY <1>1
  <2>2. QED
    BY <1>1, <2>1 DEF Course, StartUninstall
<1>5. Backed'
  BY <1>1 DEF IInv, Backed, StartUninstall
<1>6. Ahead'
  <2>1. ASSUME NEW s \in Slots \ marred, Config(s) \in cs \ todo
        PROVE  file[s].kind # "wrapped"
    <3>1. s \notin Recorded(side)
      BY <2>1
    <3>2. QED
      BY <2>1, <3>1 DEF IInv, Backed, StartUninstall
  <2> HIDE DEF todo
  <2>2. QED
    BY <1>1, <2>1 DEF Ahead, StartUninstall
<1>7. Looked' /\ SameCommand'
  BY <1>1 DEF Looked, SameCommand
<1>8. Stays'
  BY <1>1 DEF IInv, Stays, StartUninstall, Declared
<1>9. QED
  BY <1>1, <1>3, <1>4, <1>5, <1>6, <1>7, <1>8 DEF IInv

LEMMA Reading ==
    ASSUME IInv, NEW c \in Configs, Read(c)
    PROVE  IInv'
<1> DEFINE copy == [s \in Slots |->
                      IF Config(s) # c THEN Nothing[s]
                      ELSE IF run.op = "install" THEN Wrap(s, file[s], run.except)
                      ELSE Restore(s, file[s], run.mine)]
           mine == IF run.op = "install" THEN NoteInstall(run.mine, c, file, run.except)
                   ELSE run.mine
<1>0. run' = [pc |-> "write", op |-> run.op, cs |-> run.cs, todo |-> run.todo, at |-> c,
              saw |-> run.saw \cup {c}, except |-> run.except, mine |-> mine,
              copy |-> copy, stale |-> run.stale]
  <2>1. run' = [run EXCEPT !.pc = "write", !.at = c, !.saw = @ \cup {c}, !.copy = copy, !.mine = mine]
    BY DEF Read, IInv, WiringTypeOK, Runs
  <2>2. QED
    BY <2>1, RunFields DEF IInv, WiringTypeOK
<1> HIDE DEF copy, mine
<1>1. /\ run'.pc = "write" /\ run'.op = run.op /\ run'.cs = run.cs /\ run'.todo = run.todo
      /\ run'.at = c /\ run'.saw = run.saw \cup {c} /\ run'.mine = mine
      /\ run'.copy = copy /\ run'.stale = run.stale
      /\ UNCHANGED <<file, side, edits, covered, marred>>
  <2>1. UNCHANGED <<file, side, edits, covered, marred>>
    BY DEF Read
  <2>2. QED
    BY <1>0, <2>1
<1> USE DEF copy, mine
<1>2. run \in Runs /\ file \in [Slots -> Entries] /\ side \in Sides /\ run.mine \in Sides
  BY DEF IInv, WiringTypeOK, Runs
<1>3. /\ run.op \in {"install", "uninstall"}
      /\ run.op = "install" =>
            /\ mine \in Sides
            /\ Recorded(run.mine) \subseteq Recorded(mine) /\ Noted(run.mine) \subseteq Noted(mine)
            /\ \A s \in Slots : Config(s) = c =>
                  /\ file[s].kind = "plain" /\ Name(s) \notin run.except => s \in Recorded(mine)
                  /\ file[s].kind \in {"plain", "bare"} => s \in Noted(mine)
      /\ run.op = "uninstall" => mine = run.mine
  BY <1>2, NotingAdds DEF Runs
<1>4. \A s \in Slots : Config(s) = c =>
         /\ copy[s].kind = "absent" <=> file[s].kind = "absent"
         /\ run.op = "install" =>
               /\ copy[s].cmd = file[s].cmd
               /\ copy[s].kind = "wrapped" => file[s].kind = "wrapped" \/ s \in Recorded(mine)
         /\ run.op = "uninstall" =>
               /\ copy[s].kind = "wrapped" => file[s].kind = "wrapped" /\ s \notin Recorded(run.mine)
               /\ copy[s].cmd = file[s].cmd
                     \/ (s \in Recorded(run.mine) /\ copy[s].cmd = run.mine.orig[s])
  <2> SUFFICES ASSUME NEW s \in Slots, Config(s) = c
               PROVE  /\ copy[s].kind = "absent" <=> file[s].kind = "absent"
                      /\ run.op = "install" =>
                            /\ copy[s].cmd = file[s].cmd
                            /\ copy[s].kind = "wrapped" => file[s].kind = "wrapped" \/ s \in Recorded(mine)
                      /\ run.op = "uninstall" =>
                            /\ copy[s].kind = "wrapped" => file[s].kind = "wrapped" /\ s \notin Recorded(run.mine)
                            /\ copy[s].cmd = file[s].cmd
                                  \/ (s \in Recorded(run.mine) /\ copy[s].cmd = run.mine.orig[s])
    OBVIOUS
  <2>1. CASE run.op = "install"
    <3>1. copy[s] = Wrap(s, file[s], run.except)
      BY <2>1
    <3> HIDE DEF copy, mine
    <3>2. file[s] \in Entries
      BY <1>2
    <3> DEFINE w == Wrap(s, file[s], run.except)
    <3>3. /\ w.cmd = file[s].cmd
          /\ w.kind = "absent" <=> file[s].kind = "absent"
          /\ w.kind = "wrapped" =>
                file[s].kind = "wrapped" \/ (file[s].kind = "plain" /\ Name(s) \notin run.except)
      BY <3>2, WrapKeeps
    <3>4. copy[s] = w
      BY <3>1
    <3> HIDE DEF w
    <3>5. QED
      BY <1>3, <2>1, <3>3, <3>4
  <2>2. CASE run.op = "uninstall"
    <3>1. copy[s] = Restore(s, file[s], run.mine)
      BY <2>2
    <3> HIDE DEF copy, mine
    <3>2. QED
      BY <1>2, <1>3, <2>2, <3>1, RestoreKeeps
  <2>3. QED
    BY <1>3, <2>1, <2>2
<1>5. copy \in [Slots -> Entries]
  <2> SUFFICES ASSUME NEW s \in Slots PROVE copy[s] \in Entries
    OBVIOUS
  <2>1. Nothing[s] \in Entries
    BY IdleIsRun
  <2>2. Wrap(s, file[s], run.except) \in Entries
    BY <1>2, WrapKeeps
  <2>3. Restore(s, file[s], run.mine) \in Entries
    BY <1>2, RestoreKeeps
  <2>4. QED
    BY <2>1, <2>2, <2>3
<1> HIDE DEF copy, mine
<1>6. mine \in Sides
  BY <1>2, <1>3
<1>7. WiringTypeOK'
  BY <1>0, <1>1, <1>2, <1>5, <1>6 DEF IInv, WiringTypeOK, Runs
<1>8. c \in run.todo /\ c \notin run.saw /\ run.pc = "next" /\ run.at = None /\ c # None
  BY WiringAssumption DEF Read, IInv, Course
<1>9. Course'
  <2>1. run'.saw \cap run'.todo \subseteq {run'.at}
    <3>1. run.todo \subseteq Configs /\ None \notin Configs
      BY <1>2, WiringAssumption DEF Runs
    <3>2. run.saw \cap run.todo \subseteq {None}
      BY <1>8 DEF IInv, Course
    <3>3. QED
      BY <1>1, <3>1, <3>2
  <2>2. run'.at \in run'.todo \cap run'.saw
    BY <1>1, <1>8
  <2>3. run'.op = "uninstall" => run'.mine = side'
    BY <1>1, <1>3, <1>8 DEF IInv, Course
  <2>4. QED
    BY <1>1, <2>1, <2>2, <2>3 DEF Course
<1>10. run.op = "install" => Grows'
  <2>1. ASSUME run.op = "install"
        PROVE  Recorded(side) \subseteq Recorded(mine) /\ Noted(side) \subseteq Noted(mine)
    BY <1>3, <1>8, <2>1 DEF IInv, Grows
  <2>2. QED
    BY <1>1, <2>1 DEF Grows
<1>11. Backed'
  <2> SUFFICES ASSUME NEW s \in Slots \ marred, file[s].kind = "wrapped", s \notin Recorded(side)
               PROVE  run.op = "install" /\ s \in Recorded(mine) /\ Config(s) \in run.saw \cup {c} /\ Config(s) # c
    BY <1>1 DEF Backed
  <2>1. run.op = "install" /\ s \in Recorded(run.mine) /\ Config(s) \in run.saw
    BY <1>8 DEF IInv, Backed
  <2>2. QED
    BY <1>3, <1>8, <2>1
<1>12. Ahead'
  <2>1. ASSUME NEW s \in Slots \ marred, Config(s) = c, copy[s].kind = "wrapped"
        PROVE  run.op = "install" /\ s \in Recorded(mine)
    <3>1. s \in Recorded(side) \/ file[s].kind # "wrapped"
      BY <1>8, <2>1 DEF IInv, Backed
    <3>2. CASE run.op = "install"
      BY <1>3, <1>4, <1>8, <2>1, <3>1, <3>2 DEF IInv, Grows
    <3>3. CASE run.op = "uninstall"
      BY <1>4, <1>8, <2>1, <3>1, <3>3 DEF IInv, Course
    <3>4. QED
      BY <1>3, <3>2, <3>3
  <2>2. QED
    BY <1>1, <1>8, <2>1 DEF IInv, Ahead
<1>13. Looked'
  <2>1. ASSUME NEW s \in Slots \ marred, run.op = "install", Config(s) = c, copy[s].kind # "absent"
        PROVE  s \in Noted(mine)
    <3>1. file[s].kind \in {"plain", "bare", "wrapped"}
      BY <1>2, <1>4, <2>1, EntryShape
    <3>2. CASE file[s].kind = "wrapped"
      <4>1. s \in Recorded(side)
        BY <1>8, <2>1, <3>2 DEF IInv, Backed
      <4>2. QED
        BY <1>3, <1>8, <2>1, <4>1 DEF IInv, Grows, Noted
    <3>3. QED
      BY <1>3, <2>1, <3>1, <3>2
  <2>2. ASSUME NEW s \in Slots \ marred, run.op = "install", Config(s) \in run.saw,
               s \notin run.stale, file[s].kind # "absent"
        PROVE  s \in Noted(mine)
    <3>1. Config(s) # run.at
      BY <1>8, <2>2, WiringAssumption DEF Configs
    <3>2. s \in Noted(run.mine)
      BY <1>8, <2>2, <3>1 DEF IInv, Looked
    <3>3. QED
      BY <1>3, <2>2, <3>2
  <2>3. QED
    BY <1>1, <2>1, <2>2 DEF Looked
<1>14. Stays'
  <2>1. Declared' = Declared
    BY <1>1 DEF Declared
  <2>2. QED
    BY <1>1, <1>4, <2>1 DEF IInv, WiringTypeOK, Stays
<1>15. SameCommand'
  <2>1. ASSUME NEW s \in Slots, Config(s) = c
        PROVE  \/ copy[s].cmd = file[s].cmd
               \/ run.op = "uninstall" /\ s \in Recorded(side) /\ copy[s].cmd = side.orig[s]
    BY <1>3, <1>4, <1>8, <2>1 DEF IInv, Course
  <2>2. QED
    BY <1>1, <2>1 DEF SameCommand
<1>16. QED
  BY <1>1, <1>7, <1>9, <1>10, <1>11, <1>12, <1>13, <1>14, <1>15 DEF IInv

LEMMA Misreading ==
    ASSUME IInv, NEW c \in Configs, Misread(c)
    PROVE  IInv'
<1>0. run' = [pc |-> run.pc, op |-> run.op, cs |-> run.cs, todo |-> run.todo \ {c}, at |-> run.at,
              saw |-> run.saw, except |-> run.except, mine |-> run.mine,
              copy |-> run.copy, stale |-> run.stale]
  <2>1. run' = [run EXCEPT !.todo = @ \ {c}]
    BY DEF Misread
  <2>2. QED
    BY <2>1, RunFields DEF IInv, WiringTypeOK
<1>1. /\ run'.pc = run.pc /\ run'.op = run.op /\ run'.cs = run.cs /\ run'.todo = run.todo \ {c}
      /\ run'.at = run.at /\ run'.saw = run.saw /\ run'.mine = run.mine
      /\ run'.copy = run.copy /\ run'.stale = run.stale
  BY <1>0
<1>2. /\ UNCHANGED <<file, side, edits, covered>>
      /\ marred' = marred \cup (IF run.op = "uninstall" THEN In(c) ELSE {})
      /\ run.pc = "next"
  BY DEF Misread
<1>3. marred \subseteq marred' /\ marred' \subseteq Slots
  BY <1>2 DEF In, IInv, WiringTypeOK
<1>4. WiringTypeOK'
  BY <1>0, <1>2, <1>3 DEF IInv, WiringTypeOK, Runs
<1>5. Course' /\ (run.op = "install" => Grows')
  BY <1>1, <1>2 DEF IInv, Course, Grows
<1>6. Backed'
  BY <1>1, <1>2, <1>3 DEF IInv, Backed
<1>7. Ahead'
  <2>1. ASSUME NEW s \in Slots \ marred', run.op = "uninstall", Config(s) \in run.cs \ run'.todo
        PROVE  file[s].kind # "wrapped"
    <3>1. Config(s) # c
      BY <1>2, <2>1 DEF In
    <3>2. Config(s) \in run.cs \ run.todo /\ s \in Slots \ marred
      BY <1>1, <1>3, <2>1, <3>1
    <3>3. QED
      BY <1>2, <2>1, <3>2 DEF IInv, Ahead
  <2>2. QED
    BY <1>1, <1>2, <2>1 DEF Ahead
<1>8. Looked' /\ SameCommand'
  BY <1>1, <1>2, <1>3 DEF IInv, Looked, SameCommand
<1>9. Stays'
  <2>1. Declared' = Declared
    BY <1>2 DEF Declared
  <2>2. QED
    BY <1>1, <1>2, <1>3, <2>1 DEF IInv, Stays
<1>10. QED
  BY <1>1, <1>4, <1>5, <1>6, <1>7, <1>8, <1>9 DEF IInv

LEMMA Writing ==
    ASSUME IInv, Write
    PROVE  IInv'
<1>0. run' = [pc |-> "next", op |-> run.op, cs |-> run.cs, todo |-> run.todo \ {run.at}, at |-> None,
              saw |-> run.saw, except |-> run.except, mine |-> run.mine,
              copy |-> Nothing, stale |-> run.stale]
  <2>1. run' = [run EXCEPT !.pc = "next", !.todo = @ \ {run.at}, !.at = None, !.copy = Nothing]
    BY DEF Write
  <2>2. QED
    BY <2>1, RunFields DEF IInv, WiringTypeOK
<1>1. /\ run'.pc = "next" /\ run'.op = run.op /\ run'.cs = run.cs /\ run'.todo = run.todo \ {run.at}
      /\ run'.at = None /\ run'.saw = run.saw /\ run'.mine = run.mine /\ run'.stale = run.stale
  BY <1>0
<1>2. run.pc = "write" /\ UNCHANGED <<side, edits, covered, marred>>
  BY DEF Write
<1>3. \A s \in Slots : file'[s] = IF Config(s) = run.at THEN run.copy[s] ELSE file[s]
  BY DEF Write
<1>4. WiringTypeOK'
  <2>1. file' \in [Slots -> Entries]
    BY DEF Write, IInv, WiringTypeOK, Runs
  <2>2. QED
    BY <1>0, <1>2, <2>1, IdleIsRun DEF IInv, WiringTypeOK, Runs
<1>5. run.at \in run.todo \cap run.saw /\ run.saw \cap run.todo \subseteq {run.at}
  BY <1>2 DEF IInv, Course
<1>6. \A s \in Slots : Config(s) # None
  BY WiringAssumption DEF Configs
<1>7. Course' /\ (run.op = "install" => Grows')
  <2>1. run'.saw \cap run'.todo \subseteq {run'.at}
    BY <1>1, <1>5
  <2>2. QED
    BY <1>1, <1>2, <2>1 DEF IInv, Course, Grows
<1>8. Backed'
  <2> SUFFICES ASSUME NEW s \in Slots \ marred, file'[s].kind = "wrapped", s \notin Recorded(side)
               PROVE  run.op = "install" /\ s \in Recorded(run.mine) /\ Config(s) \in run.saw
    BY <1>1, <1>2, <1>6 DEF Backed
  <2>1. CASE Config(s) = run.at
    BY <1>2, <1>3, <1>5, <2>1 DEF IInv, Ahead
  <2>2. CASE Config(s) # run.at
    BY <1>2, <1>3, <2>2 DEF IInv, Backed
  <2>3. QED
    BY <2>1, <2>2
<1>9. Ahead'
  <2>1. ASSUME NEW s \in Slots \ marred, run.op = "uninstall", Config(s) \in run.cs \ run'.todo
        PROVE  file'[s].kind # "wrapped"
    <3>1. CASE Config(s) = run.at
      BY <1>2, <1>3, <2>1, <3>1 DEF IInv, Ahead
    <3>2. CASE Config(s) # run.at
      BY <1>1, <1>2, <1>3, <2>1, <3>2 DEF IInv, Ahead
    <3>3. QED
      BY <3>1, <3>2
  <2>2. QED
    BY <1>1, <1>2, <2>1 DEF Ahead
<1>10. Looked'
  <2>1. ASSUME NEW s \in Slots \ marred, run.op = "install", Config(s) \in run.saw,
               s \notin run.stale, file'[s].kind # "absent"
        PROVE  s \in Noted(run.mine)
    <3>1. CASE Config(s) = run.at
      BY <1>2, <1>3, <2>1, <3>1 DEF IInv, Looked
    <3>2. CASE Config(s) # run.at
      BY <1>2, <1>3, <2>1, <3>2 DEF IInv, Looked
    <3>3. QED
      BY <3>1, <3>2
  <2>2. QED
    BY <1>1, <1>2, <1>6, <2>1 DEF Looked
<1>11. Stays'
  <2>1. Declared' = Declared
    BY <1>2 DEF Declared
  <2>2. ASSUME NEW s \in covered, s \notin marred, file'[s].kind # "absent"
        PROVE  s \in Declared
    <3>1. s \in Slots
      BY DEF IInv, WiringTypeOK
    <3>2. file[s].kind # "absent"
      BY <1>2, <1>3, <2>2, <3>1 DEF IInv, Stays
    <3>3. QED
      BY <2>2, <3>2 DEF IInv, Stays
  <2>3. QED
    BY <1>1, <1>2, <2>1, <2>2 DEF Stays
<1>12. SameCommand'
  BY <1>1 DEF SameCommand
<1>13. QED
  BY <1>1, <1>4, <1>7, <1>8, <1>9, <1>10, <1>11, <1>12 DEF IInv

\* Between runs only Backed and the first half of Stays say something.
LEMMA IdleHolds ==
    ASSUME WiringTypeOK', run'.pc = "idle", run'.at = None, Backed',
           \A s \in covered' \ marred' : file'[s].kind # "absent" => s \in Declared'
    PROVE  IInv'
  BY DEF IInv, Course, Ahead, Looked, Stays, SameCommand

LEMMA Saving ==
    ASSUME IInv, Save
    PROVE  IInv'
<1>1. /\ run' = Idle /\ run'.pc = "idle" /\ run'.at = None
      /\ run.pc = "next" /\ run.todo = {} /\ run.at = None
      /\ UNCHANGED <<file, edits, marred>>
  BY DEF Save, Idle, IInv, Course
<1>2. /\ side' = IF run.op = "install" THEN run.mine ELSE Clean(run.mine, run.cs)
      /\ covered' = IF run.op = "install"
                    THEN covered \cup {s \in Slots : Config(s) \in run.saw /\ s \notin run.stale}
                    ELSE {s \in covered : Config(s) \notin run.cs}
  BY DEF Save
<1>3. run \in Runs /\ run.mine \in Sides /\ Clean(run.mine, run.cs) \in Sides
      /\ covered \subseteq Slots
  BY CleanDrops DEF IInv, WiringTypeOK, Runs
<1>4. WiringTypeOK'
  <2>1. side' \in Sides
    BY <1>2, <1>3
  <2>2. covered' \subseteq Slots
    BY <1>2, <1>3
  <2>3. QED
    BY <1>1, <2>1, <2>2, IdleIsRun DEF IInv, WiringTypeOK
<1>5. CASE run.op = "install"
  <2>1. side' = run.mine /\ Grows
    BY <1>1, <1>2, <1>5 DEF IInv
  <2>2. Backed'
    BY <1>1, <1>5, <2>1 DEF IInv, Backed, Grows
  <2>3. Declared' = Noted(run.mine) /\ Declared = Noted(side)
    BY <2>1 DEF Declared, Noted
  <2>4. ASSUME NEW s \in covered' \ marred, file[s].kind # "absent"
        PROVE  s \in Noted(run.mine)
    <3>1. CASE s \in covered
      BY <2>1, <2>3, <2>4, <3>1 DEF IInv, Stays, Grows
    <3>2. CASE s \notin covered
      <4>1. s \in Slots /\ Config(s) \in run.saw /\ s \notin run.stale
        BY <1>2, <1>5, <2>4, <3>2
      <4>2. Config(s) # run.at
        BY <1>1, <4>1, WiringAssumption DEF Configs
      <4>3. QED
        BY <1>1, <1>5, <2>4, <4>1, <4>2 DEF IInv, Looked
    <3>3. QED
      BY <3>1, <3>2
  <2>5. QED
    BY <1>1, <1>4, <2>2, <2>3, <2>4, IdleHolds
<1>6. CASE run.op = "uninstall"
  <2>1. side' = Clean(side, run.cs) /\ side \in Sides
    BY <1>1, <1>2, <1>6 DEF IInv, Course, WiringTypeOK
  <2>2. /\ Recorded(side') = {s \in Recorded(side) : Config(s) \notin run.cs}
        /\ side'.excluded = side.excluded /\ side'.unwrapped = side.unwrapped
    BY <2>1, CleanDrops
  <2>3. Backed'
    <3> SUFFICES ASSUME NEW s \in Slots \ marred, file[s].kind = "wrapped"
                 PROVE  s \in Recorded(side')
      BY <1>1 DEF Backed
    <3>1. Config(s) \notin run.cs
      BY <1>1, <1>6 DEF IInv, Ahead
    <3>2. s \in Recorded(side)
      BY <1>1, <1>6 DEF IInv, Backed
    <3>3. QED
      BY <2>2, <3>1, <3>2
  <2>4. ASSUME NEW s \in covered' \ marred, file[s].kind # "absent"
        PROVE  s \in Declared'
    <3>1. s \in covered /\ Config(s) \notin run.cs
      BY <1>2, <1>6, <2>4
    <3>2. s \in Declared
      BY <2>4, <3>1 DEF IInv, Stays
    <3>3. QED
      BY <2>2, <3>1, <3>2 DEF Declared
  <2>5. QED
    BY <1>1, <1>4, <2>3, <2>4, IdleHolds
<1>7. QED
  BY <1>3, <1>5, <1>6 DEF Runs

LEMMA Dying ==
    ASSUME IInv, Die \/ DieSaving
    PROVE  IInv'
<1>1. run' = Idle /\ run'.pc = "idle" /\ run'.at = None /\ UNCHANGED <<file, edits>>
  BY DEF Die, DieSaving, Idle
<1>2. CASE Die
  <2>1. /\ run.pc # "idle" /\ marred' = marred \cup Unsaved
        /\ UNCHANGED <<side, covered>>
    BY <1>2 DEF Die
  <2>2. WiringTypeOK'
    BY <1>1, <2>1, IdleIsRun DEF IInv, WiringTypeOK, Unsaved
  <2>3. Backed'
    <3> SUFFICES ASSUME NEW s \in Slots \ marred', file[s].kind = "wrapped", s \notin Recorded(side)
                 PROVE  FALSE
      BY <1>1, <2>1 DEF Backed
    <3>1. s \in Recorded(run.mine) /\ Config(s) \in run.saw \ {run.at}
      BY <2>1 DEF IInv, Backed
    <3>2. s \in Unsaved
      BY <3>1 DEF Unsaved, Recorded
    <3>3. QED
      BY <2>1, <3>2
  <2>4. \A s \in covered' \ marred' : file'[s].kind # "absent" => s \in Declared'
    BY <1>1, <2>1 DEF IInv, Stays, Declared
  <2>5. QED
    BY <1>1, <2>2, <2>3, <2>4, IdleHolds
<1>3. CASE DieSaving
  <2>1. side' = Empty /\ marred' = Slots /\ covered' = {}
    BY <1>3 DEF DieSaving
  <2>2. WiringTypeOK'
    BY <1>1, <2>1, IdleIsRun, EmptySide DEF IInv, WiringTypeOK
  <2>3. Backed'
    BY <2>1 DEF Backed
  <2>4. QED
    BY <1>1, <2>1, <2>2, <2>3, IdleHolds
<1>4. QED
  BY <1>2, <1>3

LEMMA Editing ==
    ASSUME IInv, NEW t \in Slots, NEW e \in Entries, Edit(t, e)
    PROVE  IInv'
<1> DEFINE stale == IF Config(t) \in run.saw THEN run.stale \cup {t} ELSE run.stale
<1>0. run' = [pc |-> run.pc, op |-> run.op, cs |-> run.cs, todo |-> run.todo, at |-> run.at,
              saw |-> run.saw, except |-> run.except, mine |-> run.mine,
              copy |-> run.copy, stale |-> stale]
  <2>1. CASE Config(t) \in run.saw
    <3>1. run' = [run EXCEPT !.stale = @ \cup {t}]
      BY <2>1 DEF Edit
    <3>2. QED
      BY <2>1, <3>1, RunFields DEF IInv, WiringTypeOK
  <2>2. CASE Config(t) \notin run.saw
    BY <2>2, RunFields DEF Edit, IInv, WiringTypeOK
  <2>3. QED
    BY <2>1, <2>2
<1> HIDE DEF stale
<1>1. /\ run'.pc = run.pc /\ run'.op = run.op /\ run'.cs = run.cs /\ run'.todo = run.todo
      /\ run'.at = run.at /\ run'.saw = run.saw /\ run'.mine = run.mine
      /\ run'.copy = run.copy /\ run'.stale = stale
  BY <1>0
<1>2. /\ run.stale \subseteq stale /\ stale \subseteq Slots
      /\ Config(t) \in run.saw => t \in stale
  BY DEF stale, IInv, WiringTypeOK, Runs
<1>3. /\ e.kind = "wrapped" => file[t].kind = "wrapped"
      /\ file' = [file EXCEPT ![t] = e]
      /\ edits' = edits + 1
      /\ covered' = covered \ {t}
      /\ marred' = IF e.kind = "wrapped" \/ run.at = Config(t) THEN marred ELSE marred \ {t}
      /\ UNCHANGED side
  BY DEF Edit
<1>4. /\ file'[t] = e
      /\ \A s \in Slots : s # t => file'[s] = file[s]
      /\ \A s \in Slots \ marred' : s # t => s \notin marred
      /\ t \notin marred' => t \notin marred \/ (e.kind # "wrapped" /\ run.at # Config(t))
  BY <1>3 DEF IInv, WiringTypeOK
<1>5. WiringTypeOK'
  <2>1. file' \in [Slots -> Entries] /\ covered' \subseteq Slots /\ marred' \subseteq Slots /\ edits' \in Nat
    BY <1>3 DEF IInv, WiringTypeOK
  <2>2. run' \in Runs
    BY <1>0, <1>2 DEF IInv, WiringTypeOK, Runs
  <2>3. QED
    BY <1>3, <2>1, <2>2 DEF IInv, WiringTypeOK
<1>6. Course' /\ (run.pc # "idle" /\ run.op = "install" => Grows')
  BY <1>1, <1>3 DEF IInv, Course, Grows
<1>7. Backed'
  <2> SUFFICES ASSUME NEW s \in Slots \ marred', file'[s].kind = "wrapped"
               PROVE  \/ s \in Recorded(side)
                      \/ /\ run.pc # "idle" /\ run.op = "install"
                         /\ s \in Recorded(run.mine) /\ Config(s) \in run.saw \ {run.at}
    BY <1>1, <1>3 DEF Backed
  <2>1. s \notin marred /\ file[s].kind = "wrapped"
    BY <1>3, <1>4
  <2>2. QED
    BY <2>1 DEF IInv, Backed
<1>8. Ahead'
  <2>1. ASSUME NEW s \in Slots \ marred', run.pc = "write", Config(s) = run.at, run.copy[s].kind = "wrapped"
        PROVE  run.op = "install" /\ s \in Recorded(run.mine)
    <3>1. s \notin marred
      BY <1>4, <2>1
    <3>2. QED
      BY <2>1, <3>1 DEF IInv, Ahead
  <2>2. ASSUME NEW s \in Slots \ marred', run.pc # "idle", run.op = "uninstall",
               Config(s) \in run.cs \ run.todo, file'[s].kind = "wrapped"
        PROVE  FALSE
    <3>1. s \notin marred /\ file[s].kind = "wrapped"
      BY <1>3, <1>4, <2>2
    <3>2. QED
      BY <2>2, <3>1 DEF IInv, Ahead
  <2>3. QED
    BY <1>1, <1>3, <2>1, <2>2 DEF Ahead
<1>9. Looked'
  <2>1. ASSUME NEW s \in Slots \ marred', run.pc # "idle", run.op = "install",
               Config(s) \in run.saw, s \notin stale
        PROVE  /\ Config(s) # run.at /\ file'[s].kind # "absent" => s \in Noted(run.mine)
               /\ Config(s) = run.at /\ run.copy[s].kind # "absent" => s \in Noted(run.mine)
    <3>1. s # t /\ s \notin run.stale
      BY <1>2, <2>1
    <3>2. s \notin marred /\ file'[s] = file[s]
      BY <1>4, <2>1, <3>1
    <3>3. QED
      BY <2>1, <3>1, <3>2 DEF IInv, Looked
  <2>2. QED
    BY <1>1, <2>1 DEF Looked
<1>10. Stays'
  <2>1. Declared' = Declared
    BY <1>3 DEF Declared
  <2>2. ASSUME NEW s \in covered'
        PROVE  s \in covered /\ file'[s] = file[s] /\ (s \notin marred' => s \notin marred)
    BY <1>3, <1>4, <2>2 DEF IInv, WiringTypeOK
  <2>3. QED
    BY <1>1, <2>1, <2>2 DEF IInv, Stays
<1>11. SameCommand'
  <2>1. ASSUME NEW s \in Slots, run.pc = "write", Config(s) = run.at, s \notin stale
        PROVE  s \notin run.stale /\ file'[s] = file[s]
    <3>1. run.at \in run.saw
      BY <2>1 DEF IInv, Course
    <3>2. s # t
      BY <1>2, <2>1, <3>1
    <3>3. QED
      BY <1>2, <1>4, <2>1, <3>2
  <2>2. QED
    BY <1>1, <1>3, <2>1 DEF IInv, SameCommand
<1>12. QED
  BY <1>1, <1>5, <1>6, <1>7, <1>8, <1>9, <1>10, <1>11 DEF IInv

LEMMA Stepping == IInv /\ [WiringNext]_wiringVars => IInv'
<1> SUFFICES ASSUME IInv, [WiringNext]_wiringVars PROVE IInv'
  OBVIOUS
<1>1. ASSUME NEW cs \in Asked, StartUninstall(cs) PROVE IInv'
  BY <1>1, StartingUninstall DEF Asked
<1>2. ASSUME NEW cs \in Asked, NEW except \in SUBSET Names, StartInstall(cs, except) PROVE IInv'
  BY <1>2, StartingInstall DEF Asked
<1>3. ASSUME NEW c \in Configs, Read(c) \/ Misread(c) PROVE IInv'
  BY <1>3, Reading, Misreading
<1>4. CASE Write \/ Save \/ Die \/ DieSaving
  BY <1>4, Writing, Saving, Dying
<1>5. ASSUME NEW s \in Slots, NEW e \in Entries, Edit(s, e) PROVE IInv'
  BY <1>5, Editing
<1>6. CASE UNCHANGED wiringVars
  BY <1>6 DEF wiringVars, IInv, WiringTypeOK, Course, Grows, Backed, Ahead, Looked, Stays, SameCommand, Declared
<1>7. QED
  BY <1>1, <1>2, <1>3, <1>4, <1>5, <1>6 DEF WiringNext

LEMMA Inductive == WiringSpec => []IInv
  BY Starting, Stepping, PTL DEF WiringSpec

-----------------------------------------------------------------------------

\* The files, the sidecar and the run stay within their types, whatever is
\* edited, torn or unreadable.
THEOREM WiringTyping == WiringSpec => []WiringTypeOK
<1>1. IInv => WiringTypeOK
  BY DEF IInv
<1>2. QED
  BY Inductive, <1>1, PTL

\* tap install and tap uninstall keep every original that is needed to put a
\* server back, and pass over none in silence, with the exceptions that
\* Restorable names; for any number of files, servers, runs and edits.
THEOREM CanBePutBack == WiringSpec => []Restorable
<1>1. IInv => Restorable
  <2> SUFFICES ASSUME IInv PROVE Restorable
    OBVIOUS
  <2>1. ASSUME run.pc = "idle", NEW s \in Slots \ marred, file[s].kind = "wrapped"
        PROVE  s \in Recorded(side)
    BY <2>1 DEF IInv, Backed
  <2>2. ASSUME NEW s \in covered \ marred, file[s].kind # "absent"
        PROVE  s \in Declared
    BY <2>2 DEF IInv, Stays
  <2>3. QED
    BY <2>1, <2>2 DEF Restorable
<1>2. QED
  BY Inductive, <1>1, PTL

\* Neither of them changes what a server is started with, but for a drift that
\* uninstall reverts and an edit that came between reading and writing.
THEOREM CommandsStay == WiringSpec => OnlyDriftReverts
<1> DEFINE Same ==
      \A s \in Slots :
         (file'[s].cmd # file[s].cmd /\ edits' = edits)
            => s \in run.stale \/ (run.op = "uninstall" /\ Drifted(s))
<1>1. IInv /\ [WiringNext]_wiringVars => [Same]_wiringVars
  <2> SUFFICES ASSUME IInv, WiringNext, NEW s \in Slots, file'[s].cmd # file[s].cmd,
                      edits' = edits, s \notin run.stale
               PROVE  run.op = "uninstall" /\ Drifted(s)
    OBVIOUS
  <2>1. ASSUME NEW t \in Slots, NEW e \in Entries, Edit(t, e) PROVE FALSE
    BY <2>1 DEF Edit, IInv, WiringTypeOK
  <2>2. CASE Write
    <3>1. run.pc = "write" /\ file'[s] = IF Config(s) = run.at THEN run.copy[s] ELSE file[s]
      BY <2>2 DEF Write
    <3>2. Config(s) = run.at /\ file'[s] = run.copy[s]
      BY <3>1
    <3>3. QED
      BY <3>1, <3>2 DEF IInv, SameCommand, Drifted
  <2>3. ASSUME ~Write, \A t \in Slots, e \in Entries : ~Edit(t, e) PROVE file' = file
    BY <2>3 DEF WiringNext, StartInstall, StartUninstall, Read, Misread, Save, Die, DieSaving
  <2>4. QED
    BY <2>1, <2>2, <2>3
<1>2. QED
  BY Inductive, <1>1, PTL DEF WiringSpec, OnlyDriftReverts

-----------------------------------------------------------------------------
(* The log of the tap                                                       *)

TapLines == Written \cup {Corrupt}

Queue(m) == m.inflight \o m.pending

\* The file as it will be when all that is queued has been appended.
Flow(m) == tapFile \o Queue(m)

Mems == [seq : Int, last : Nat, pending : Seq(Written), inflight : Seq(Written), dropped : Nat]
Windows == [kind : Reads, first : Nat \ {0}, last : Nat, repeat : Nat] \cup {NoWindow}

TapTypeOK ==
    /\ tapFile \in Seq(TapLines) /\ closed \in {"yes", "no"}
    /\ phase \in {"off", "up", "ending"}
    /\ mem \in Mems /\ window \in Windows
    /\ observed \subseteq Nat \X Nat /\ boots \in Nat /\ stamp \in Nat
    /\ phase = "off" => mem = NoMem /\ window = NoWindow
    /\ phase # "off" => mem.seq \in Nat /\ mem.last = stamp

\* A file whose last line is unfinished ends with what does not parse.
TornOK == closed = "no" => tapFile # <<>> /\ tapFile[Len(tapFile)] = Corrupt

\* What is queued is of the process that runs; the last of it has the hash the
\* next line will name, and the first that waits names the last being written.
QueueOK(m, st, b) ==
    /\ m.inflight = <<>> => m.pending = <<>>
    /\ Queue(m) # <<>> => Queue(m)[Len(Queue(m))].hash = st
    /\ m.pending # <<>> => m.pending[1].prev = m.inflight[Len(m.inflight)].hash
    /\ \A i \in DOMAIN m.pending : m.pending[i].first > 0
    /\ \A i \in DOMAIN Queue(m) : Queue(m)[i].boot = b

Counted(first, last, b, obs) == Cardinality({n \in first .. last : <<b, n>> \in obs})

\* Each line by itself: it is of a process up to now, has no number and no
\* hash that was not given, stands for as many frames as it says, and closes
\* its process's part when it is a shutdown record.
LineOK(l, b, obs, ph, seq, st) ==
    /\ l.first <= l.last /\ l.boot <= b
    /\ ph # "off" /\ l.boot = b => l.last <= seq
    /\ l.prev < l.hash /\ l.hash <= st
    /\ l.kind \in Kinds => l.repeat = Counted(l.first, l.last, l.boot, obs)
    /\ ~LateFrames /\ l.kind = "shutdown" =>
          /\ \A f \in obs : f[1] = l.boot => f[2] <= l.last
          /\ l.boot = b => ph # "up"

LinesOK(ls, b, obs, ph, seq, st) ==
    \A i \in DOMAIN ls : IsRecord(ls[i]) => LineOK(ls[i], b, obs, ph, seq, st)

\* No two lines have one hash, and what stands between a line and the one it
\* names is newer than it.
Ordered(ls) ==
    /\ \A i, j \in DOMAIN ls :
          (IsRecord(ls[i]) /\ IsRecord(ls[j]) /\ i < j) => ls[i].hash # ls[j].hash
    /\ \A k, i, j \in DOMAIN ls :
          (/\ IsRecord(ls[k]) /\ IsRecord(ls[i]) /\ IsRecord(ls[j])
           /\ k < i /\ i < j /\ ls[j].prev = ls[k].hash)
             => ls[j].hash < ls[i].hash

\* The lines of process b are newer than those before them.
Rising(ls, b) ==
    \A i, j \in DOMAIN ls :
       (IsRecord(ls[i]) /\ IsRecord(ls[j]) /\ i < j /\ ls[j].boot = b) => ls[i].hash < ls[j].hash

\* A line with this hash is the last one that parses.
Latest(ls, hash) ==
    \A k, i \in DOMAIN ls : (IsRecord(ls[k]) /\ ls[k].hash = hash /\ k < i) => ~IsRecord(ls[i])

\* When the next line will join the last one, that is a line of process b,
\* about numbers below n.
Below(ls, hash, b, n) ==
    LET l == ls[Len(ls)]
    IN  (ls # <<>> /\ IsRecord(l) /\ l.hash = hash) => l.boot = b /\ l.kind # "marker" /\ l.last < n

\* `tap verify` has nothing to say against the first j lines.
Sound(ls, j) ==
    \A i \in 1 .. j :
       /\ IsRecord(ls[i])
       /\ i = 1 => ls[i].first = 0
       /\ i > 1 => ls[i].prev = ls[i - 1].hash /\ ls[i].first = ls[i - 1].last + 1

\* Then what was observed up to the last of them is in them, and that line is
\* of the process of the one before, or begins another.
Accounts(ls, obs, j) ==
    /\ \A f \in obs : (f[1] = ls[j].boot /\ f[2] <= ls[j].last) =>
          \E i \in 1 .. j : Covers(ls[i], f[1], f[2])
    /\ j > 1 /\ ls[j].kind # "meta" => ls[j].boot = ls[j - 1].boot

AllAccounted(ls, obs) == \A j \in DOMAIN ls : Sound(ls, j) => Accounts(ls, obs, j)

\* The open window counts what it stands for, and nothing was observed since.
WindowOK(w, b, seq, obs) ==
    w # NoWindow =>
       /\ w.first <= w.last /\ w.last <= seq
       /\ w.repeat = Counted(w.first, w.last, b, obs)
       /\ \A f \in obs : f[1] = b => f[2] <= w.last

\* A frame of this process is in a line or in a record at hand, or its loss
\* has been or will be told.
Told(ls, hand, dropped, b, obs) ==
    \A f \in obs :
       \/ f[1] # b
       \/ \E i \in DOMAIN ls : IsRecord(ls[i]) /\ Covers(ls[i], b, f[2])
       \/ \E r \in hand : r.first <= f[2] /\ f[2] <= r.last
       \/ dropped > 0
       \/ \E i \in DOMAIN ls : IsRecord(ls[i]) /\ ls[i].kind = "marker" /\ ls[i].boot = b
       \/ \E i \in DOMAIN tapFile : ~IsRecord(tapFile[i])

AtHand(w) == IF w = NoWindow THEN {} ELSE {w}

NumbersOK(b, obs, ph, seq) ==
    \A f \in obs : f[1] <= b /\ (ph # "off" /\ f[1] = b => f[2] <= seq)

\* Of a process that runs.
Running ==
    phase # "off" =>
       /\ Rising(Flow(mem), boots) /\ Latest(Flow(mem), stamp)
       /\ Below(Flow(mem), stamp, boots, mem.seq + 1)
       /\ window # NoWindow => Below(Flow(mem), stamp, boots, window.first)
       /\ Told(Flow(mem), AtHand(window), mem.dropped, boots, observed)

TapInv ==
    /\ TapTypeOK /\ TornOK /\ QueueOK(mem, stamp, boots)
    /\ Len(mem.pending) <= QueueCap + 1
    /\ LinesOK(Flow(mem), boots, observed, phase, mem.seq, stamp)
    /\ Ordered(Flow(mem)) /\ Running
    /\ ~LateFrames => AllAccounted(Flow(mem), observed)
    /\ WindowOK(window, boots, mem.seq, observed)
    /\ NumbersOK(boots, observed, phase, mem.seq)

-----------------------------------------------------------------------------
(* Positions of sequences, and what the operators of HashChain return      *)

\* A set of natural numbers has a least one.
LEMMA LeastNatural ==
  ASSUME NEW T \in SUBSET Nat, T # {}
  PROVE  \E x \in T : \A y \in T : x <= y
<1> DEFINE R == {s \in Nat \X Nat : s[1] < s[2]}
<1>1. IsWellFoundedOn(R, Nat)
  BY NatLessThanWellFounded, Zenon DEF OpToRel
<1>2. \E x \in T : \A y \in T : ~(<<y, x>> \in R)
  <2> HIDE DEF R
  <2> QED
    BY <1>1, WFMin
<1>3. PICK x \in T : \A y \in T : ~(<<y, x>> \in R)
  BY <1>2
<1>4. ASSUME NEW y \in T PROVE x <= y
  <2>1. x \in Nat /\ y \in Nat /\ ~(<<y, x>> \in R)
    BY <1>3
  <2> QED
    BY <2>1
<1> QED
  BY <1>4

\* A set of positions of a sequence has a greatest one.
LEMMA GreatestPosition ==
  ASSUME NEW n \in Nat, NEW T \in SUBSET (1 .. n), T # {}
  PROVE  \E x \in T : \A y \in T : y <= x
<1> DEFINE D == {n - t : t \in T}
<1>1. D \in SUBSET Nat /\ D # {}
  <2>1. \A t \in T : n - t \in Nat
    OBVIOUS
  <2>2. D \subseteq Nat
    BY <2>1
  <2>3. PICK t \in T : TRUE
    OBVIOUS
  <2>4. n - t \in D
    OBVIOUS
  <2> QED
    BY <2>2, <2>4
<1>2. PICK d \in D : \A e \in D : d <= e
  BY <1>1, LeastNatural
<1>3. PICK x \in T : d = n - x
  OBVIOUS
<1>4. ASSUME NEW y \in T PROVE y <= x
  <2>1. n - y \in D
    OBVIOUS
  <2>2. n - x <= n - y /\ x \in 1 .. n /\ y \in 1 .. n
    BY <1>2, <1>3, <2>1
  <2> QED
    BY <2>2
<1> QED
  BY <1>4

\* LastRecord returns the last line that parses, or the default.
LEMMA LastRecordIsLast ==
  ASSUME NEW S, NEW lines \in Seq(S), NEW d
  PROVE  /\ (\A i \in DOMAIN lines : ~IsRecord(lines[i])) => LastRecord(lines, d) = d
         /\ (\E i \in DOMAIN lines : IsRecord(lines[i])) =>
               \E i \in DOMAIN lines :
                  /\ IsRecord(lines[i]) /\ LastRecord(lines, d) = lines[i]
                  /\ \A k \in DOMAIN lines : k > i => ~IsRecord(lines[k])
<1>1. Len(lines) \in Nat /\ DOMAIN lines = 1 .. Len(lines)
  OBVIOUS
<1>2. (\A i \in DOMAIN lines : ~IsRecord(lines[i])) => LastRecord(lines, d) = d
  BY DEF LastRecord
<1>3. ASSUME \E i \in DOMAIN lines : IsRecord(lines[i])
      PROVE  \E i \in DOMAIN lines :
                /\ IsRecord(lines[i]) /\ LastRecord(lines, d) = lines[i]
                /\ \A k \in DOMAIN lines : k > i => ~IsRecord(lines[k])
  <2> DEFINE P(i) == IsRecord(lines[i]) /\ \A k \in DOMAIN lines : k > i => ~IsRecord(lines[k])
             T == {i \in DOMAIN lines : IsRecord(lines[i])}
  <2>1. T \in SUBSET (1 .. Len(lines)) /\ T # {}
    BY <1>1, <1>3
  <2>2. PICK x \in T : \A y \in T : y <= x
    BY <1>1, <2>1, GreatestPosition
  <2>3. x \in DOMAIN lines /\ P(x)
    <3>1. x \in DOMAIN lines /\ IsRecord(lines[x])
      OBVIOUS
    <3>2. ASSUME NEW k \in DOMAIN lines, k > x PROVE ~IsRecord(lines[k])
      <4>1. IsRecord(lines[k]) => k <= x
        BY <2>2
      <4> QED
        BY <1>1, <3>2, <4>1
    <3> QED
      BY <3>1, <3>2
  <2> HIDE DEF P
  <2>4. (CHOOSE i \in DOMAIN lines : P(i)) \in DOMAIN lines /\ P(CHOOSE i \in DOMAIN lines : P(i))
    BY <2>3
  <2>5. LastRecord(lines, d) = lines[CHOOSE i \in DOMAIN lines : P(i)]
    BY <1>3 DEF LastRecord, P
  <2> QED
    BY <2>4, <2>5 DEF P
<1> QED
  BY <1>2, <1>3

\* A write cut after k lines leaves these lines and one that does not parse.
LEMMA CutShape ==
  ASSUME NEW S, Corrupt \in S, NEW lines \in Seq(S), NEW k \in 0 .. Len(lines) - 1
  PROVE  /\ Cut(lines, k) \in Seq(S) /\ Len(Cut(lines, k)) = k + 1
         /\ \A i \in 1 .. k + 1 : Cut(lines, k)[i] = IF i <= k THEN lines[i] ELSE Corrupt
<1> DEFINE s == SubSeq(lines, 1, k)
           c == <<Corrupt>>
<1>1. k \in Nat /\ Len(lines) \in Nat /\ k <= Len(lines)
  OBVIOUS
<1>2. s \in Seq(S) /\ Len(s) = k /\ \A i \in 1 .. k : s[i] = lines[i]
  <2>1. 1 \in Int /\ k \in Int /\ \A i \in 1 .. k : lines[i] \in S
    BY <1>1, ElementOfSeq
  <2>2. /\ s \in Seq(S)
        /\ Len(s) = (IF 1 <= k THEN k - 1 + 1 ELSE 0)
        /\ \A i \in 1 .. k - 1 + 1 : s[i] = lines[1 + i - 1]
    BY <2>1, SubSeqProperties
  <2> HIDE DEF s
  <2> QED
    BY <1>1, <2>2
<1>3. c \in Seq(S) /\ Len(c) = 1 /\ c[1] = Corrupt
  OBVIOUS
<1> HIDE DEF s, c
<1>4. /\ s \o c \in Seq(S) /\ Len(s \o c) = k + 1
      /\ \A i \in 1 .. k + 1 : (s \o c)[i] = IF i <= k THEN s[i] ELSE c[i - k]
  <2>1. /\ s \o c \in Seq(S) /\ Len(s \o c) = Len(s) + Len(c)
        /\ \A i \in 1 .. Len(s) + Len(c) :
              (s \o c)[i] = IF i <= Len(s) THEN s[i] ELSE c[i - Len(s)]
    BY <1>2, <1>3, ConcatProperties
  <2> QED
    BY <1>2, <1>3, <2>1
<1>5. ASSUME NEW i \in 1 .. k + 1
      PROVE  (s \o c)[i] = IF i <= k THEN lines[i] ELSE Corrupt
  <2>1. CASE i <= k
    BY <1>1, <1>2, <1>4, <2>1
  <2>2. CASE ~(i <= k)
    <3>1. i - k = 1
      BY <1>1, <2>2
    <3> QED
      BY <1>3, <1>4, <2>2, <3>1
  <2> QED
    BY <2>1, <2>2
<1>6. Cut(lines, k) = s \o c
  BY DEF Cut, s, c
<1> QED
  BY <1>4, <1>5, <1>6

\* A reader gets every line of a file without a broken one.
LEMMA ParsedWhole ==
  ASSUME NEW S, NEW lines \in Seq(S), \A i \in DOMAIN lines : IsRecord(lines[i])
  PROVE  Parsed(lines) = lines
<1> DEFINE n == Len(lines)
           F == [i \in 0 .. n |-> SubSeq(lines, 1, i)]
           G(f) == [i \in 0 .. n |->
                      IF i = 0 THEN <<>>
                      ELSE IF IsRecord(lines[i]) THEN Append(f[i - 1], lines[i]) ELSE f[i - 1]]
           H == CHOOSE f : f = G(f)
<1>1. n \in Nat /\ DOMAIN lines = 1 .. n /\ n \in 0 .. n
  OBVIOUS
<1>2. Parsed(lines) = H[n]
  BY DEF Parsed
<1>3. ASSUME NEW i \in 0 .. n, i # 0
      PROVE  SubSeq(lines, 1, i) = Append(SubSeq(lines, 1, i - 1), lines[i])
  <2>1. i \in 1 .. n /\ IsRecord(lines[i])
    BY <1>1, <1>3
  <2> QED
    BY <2>1
<1>4. ASSUME NEW i \in 0 .. n
      PROVE  F[i] = IF i = 0 THEN <<>>
                    ELSE IF IsRecord(lines[i]) THEN Append(F[i - 1], lines[i]) ELSE F[i - 1]
  <2>1. CASE i = 0
    BY <2>1
  <2>2. CASE i # 0
    <3>1. i \in 1 .. n /\ i - 1 \in 0 .. n /\ IsRecord(lines[i])
      BY <1>1, <2>2
    <3> QED
      BY <1>3, <2>2, <3>1
  <2> QED
    BY <2>1, <2>2
<1>5. F = G(F)
  BY <1>4
<1> HIDE DEF F
<1>6. H = G(H)
  BY <1>5
<1> HIDE DEF H
<1>7. \A i \in 0 .. n : H[i] = SubSeq(lines, 1, i)
  <2> DEFINE T == {i \in 0 .. n : H[i] # SubSeq(lines, 1, i)}
  <2> SUFFICES ASSUME T # {} PROVE FALSE
    OBVIOUS
  <2>0. T \in SUBSET Nat
    BY <1>1
  <2>1. PICK x \in T : \A y \in T : x <= y
    <3> HIDE DEF T
    <3> QED
      BY <2>0, LeastNatural
  <2>2. x \in 0 .. n /\ H[x] # SubSeq(lines, 1, x)
    BY <2>1
  <2>3. H[0] = <<>> /\ SubSeq(lines, 1, 0) = <<>>
    BY <1>1, <1>6
  <2>4. x # 0 /\ x - 1 \in 0 .. n /\ x \in 1 .. n
    <3>1. x # 0
      BY <2>2, <2>3
    <3> QED
      BY <1>1, <2>2, <3>1
  <2>5. H[x - 1] = SubSeq(lines, 1, x - 1)
    BY <2>1, <2>4
  <2>6. H[x] = Append(H[x - 1], lines[x])
    BY <1>1, <1>6, <2>4
  <2> QED
    BY <1>3, <2>2, <2>4, <2>5, <2>6
<1>8. SubSeq(lines, 1, n) = lines
  BY <1>1
<1> QED
  BY <1>1, <1>2, <1>7, <1>8

-----------------------------------------------------------------------------
(* Thinning: lines of a file, in their order, with others left out and     *)
(* with lines put in that do not parse.                                    *)

Thinned(out, ls) ==
    \E h \in [DOMAIN out -> Nat] :
       /\ \A i \in DOMAIN out : IsRecord(out[i]) => h[i] \in DOMAIN ls /\ ls[h[i]] = out[i]
       /\ \A i, j \in DOMAIN out : (IsRecord(out[i]) /\ IsRecord(out[j]) /\ i < j) => h[i] < h[j]

LEMMA ThinnedSelf == ASSUME NEW ls \in Seq(TapLines) PROVE Thinned(ls, ls)
<1> DEFINE h == [i \in DOMAIN ls |-> i]
<1>1. DOMAIN ls = 1 .. Len(ls) /\ Len(ls) \in Nat
  OBVIOUS
<1>2. h \in [DOMAIN ls -> Nat]
  BY <1>1
<1>3. \A i \in DOMAIN ls : h[i] = i
  OBVIOUS
<1> HIDE DEF h
<1> QED
  BY <1>2, <1>3 DEF Thinned

LEMMA ThinnedEmpty == ASSUME NEW ls \in Seq(TapLines) PROVE Thinned(<<>>, ls)
<1> DEFINE h == [i \in DOMAIN <<>> |-> 0]
<1>1. DOMAIN <<>> = {}
  OBVIOUS
<1>2. h \in [DOMAIN <<>> -> Nat]
  BY <1>1
<1> HIDE DEF h
<1> QED
  BY <1>1, <1>2 DEF Thinned

LEMMA ThinnedTail == ASSUME NEW ls \in Seq(TapLines), ls # <<>> PROVE Thinned(Tail(ls), ls)
<1> DEFINE t == Tail(ls)
           h == [i \in DOMAIN t |-> i + 1]
<1>1. t \in Seq(TapLines) /\ Len(t) = Len(ls) - 1 /\ \A i \in 1 .. Len(t) : t[i] = ls[i + 1]
  BY HeadTailProperties
<1> HIDE DEF t
<1>2. DOMAIN t = 1 .. Len(t) /\ DOMAIN ls = 1 .. Len(ls) /\ Len(ls) \in Nat /\ Len(t) \in Nat
  BY <1>1
<1>3. h \in [DOMAIN t -> Nat]
  BY <1>2
<1>4. \A i \in DOMAIN t : h[i] = i + 1 /\ i + 1 \in DOMAIN ls /\ ls[i + 1] = t[i]
  BY <1>1, <1>2
<1>5. \A i, j \in DOMAIN t : i < j => i + 1 < j + 1
  BY <1>2
<1> HIDE DEF h
<1>6. Thinned(t, ls)
  BY <1>3, <1>4, <1>5 DEF Thinned
<1> QED
  BY <1>6 DEF t

LEMMA ThinnedCut ==
  ASSUME NEW ls \in Seq(Written), NEW k \in 0 .. Len(ls) - 1
  PROVE  Cut(ls, k) \in Seq(TapLines) /\ Cut(ls, k) # <<>> /\ Thinned(Cut(ls, k), ls)
<1> DEFINE c == Cut(ls, k)
           h == [i \in DOMAIN c |-> i]
<1>1. ls \in Seq(TapLines) /\ Corrupt \in TapLines
  BY SeqMonotonic DEF TapLines
<1>2. /\ c \in Seq(TapLines) /\ Len(c) = k + 1
      /\ \A i \in 1 .. k + 1 : c[i] = IF i <= k THEN ls[i] ELSE Corrupt
  BY <1>1, CutShape
<1> HIDE DEF c
<1>3. DOMAIN c = 1 .. k + 1 /\ DOMAIN ls = 1 .. Len(ls) /\ k + 1 \in Nat /\ Len(ls) \in Nat /\ k < Len(ls)
  BY <1>2
<1>4. h \in [DOMAIN c -> Nat]
  BY <1>3
<1>5. \A i \in DOMAIN c : h[i] = i
  OBVIOUS
<1>6. \A i \in DOMAIN c : IsRecord(c[i]) => i \in DOMAIN ls /\ ls[i] = c[i]
  BY <1>2, <1>3 DEF IsRecord
<1> HIDE DEF h
<1>7. Thinned(c, ls)
  BY <1>4, <1>5, <1>6 DEF Thinned
<1>8. c # <<>>
  BY <1>2, <1>3
<1> QED
  BY <1>2, <1>7, <1>8 DEF c

LEMMA ThinnedThinned ==
  ASSUME NEW a \in Seq(TapLines), NEW b \in Seq(TapLines), NEW c \in Seq(TapLines),
         Thinned(a, b), Thinned(b, c)
  PROVE  Thinned(a, c)
<1>1. PICK g \in [DOMAIN a -> Nat] :
         /\ \A i \in DOMAIN a : IsRecord(a[i]) => g[i] \in DOMAIN b /\ b[g[i]] = a[i]
         /\ \A i, j \in DOMAIN a : (IsRecord(a[i]) /\ IsRecord(a[j]) /\ i < j) => g[i] < g[j]
  BY DEF Thinned
<1>2. PICK h \in [DOMAIN b -> Nat] :
         /\ \A i \in DOMAIN b : IsRecord(b[i]) => h[i] \in DOMAIN c /\ c[h[i]] = b[i]
         /\ \A i, j \in DOMAIN b : (IsRecord(b[i]) /\ IsRecord(b[j]) /\ i < j) => h[i] < h[j]
  BY DEF Thinned
<1> DEFINE e == [i \in DOMAIN a |-> IF IsRecord(a[i]) THEN h[g[i]] ELSE 0]
<1>3. \A i \in DOMAIN a : IsRecord(a[i]) => g[i] \in DOMAIN b /\ IsRecord(b[g[i]]) /\ b[g[i]] = a[i]
  BY <1>1
<1>4. \A i \in DOMAIN a : IsRecord(a[i]) => h[g[i]] \in DOMAIN c /\ c[h[g[i]]] = a[i] /\ h[g[i]] \in Nat
  BY <1>2, <1>3
<1>5. e \in [DOMAIN a -> Nat]
  BY <1>4
<1>6. \A i \in DOMAIN a : IsRecord(a[i]) => e[i] = h[g[i]]
  OBVIOUS
<1> HIDE DEF e
<1>7. ASSUME NEW i \in DOMAIN a, NEW j \in DOMAIN a, IsRecord(a[i]), IsRecord(a[j]), i < j
      PROVE  e[i] < e[j]
  <2>1. g[i] < g[j]
    BY <1>1, <1>7
  <2>2. h[g[i]] < h[g[j]]
    BY <1>2, <1>3, <1>7, <2>1
  <2> QED
    BY <1>6, <1>7, <2>2
<1>8. \A i \in DOMAIN a : IsRecord(a[i]) => e[i] \in DOMAIN c /\ c[e[i]] = a[i]
  BY <1>4, <1>6
<1> QED
  BY <1>5, <1>7, <1>8 DEF Thinned

LEMMA ThinnedConcat ==
  ASSUME NEW a \in Seq(TapLines), NEW b \in Seq(TapLines),
         NEW c \in Seq(TapLines), NEW d \in Seq(TapLines), Thinned(a, b), Thinned(c, d)
  PROVE  Thinned(a \o c, b \o d)
<1>1. PICK g \in [DOMAIN a -> Nat] :
         /\ \A i \in DOMAIN a : IsRecord(a[i]) => g[i] \in DOMAIN b /\ b[g[i]] = a[i]
         /\ \A i, j \in DOMAIN a : (IsRecord(a[i]) /\ IsRecord(a[j]) /\ i < j) => g[i] < g[j]
  BY DEF Thinned
<1>2. PICK h \in [DOMAIN c -> Nat] :
         /\ \A i \in DOMAIN c : IsRecord(c[i]) => h[i] \in DOMAIN d /\ d[h[i]] = c[i]
         /\ \A i, j \in DOMAIN c : (IsRecord(c[i]) /\ IsRecord(c[j]) /\ i < j) => h[i] < h[j]
  BY DEF Thinned
<1> DEFINE o == a \o c
           w == b \o d
           e == [i \in DOMAIN o |-> IF i <= Len(a) THEN g[i] ELSE Len(b) + h[i - Len(a)]]
<1>3. /\ o \in Seq(TapLines) /\ Len(o) = Len(a) + Len(c)
      /\ \A i \in 1 .. Len(a) + Len(c) : o[i] = IF i <= Len(a) THEN a[i] ELSE c[i - Len(a)]
  BY ConcatProperties
<1>4. /\ w \in Seq(TapLines) /\ Len(w) = Len(b) + Len(d)
      /\ \A i \in 1 .. Len(b) + Len(d) : w[i] = IF i <= Len(b) THEN b[i] ELSE d[i - Len(b)]
  BY ConcatProperties
<1> HIDE DEF o, w
<1>5. /\ DOMAIN o = 1 .. Len(a) + Len(c) /\ DOMAIN w = 1 .. Len(b) + Len(d)
      /\ DOMAIN a = 1 .. Len(a) /\ DOMAIN b = 1 .. Len(b)
      /\ DOMAIN c = 1 .. Len(c) /\ DOMAIN d = 1 .. Len(d)
      /\ Len(a) \in Nat /\ Len(b) \in Nat /\ Len(c) \in Nat /\ Len(d) \in Nat
  BY <1>3, <1>4
<1>6. \A i \in DOMAIN o : i <= Len(a) => i \in DOMAIN a /\ o[i] = a[i] /\ e[i] = g[i] /\ g[i] \in Nat
  BY <1>3, <1>5
<1>7. ASSUME NEW i \in DOMAIN o, ~(i <= Len(a))
      PROVE  /\ i - Len(a) \in DOMAIN c /\ o[i] = c[i - Len(a)] /\ e[i] = Len(b) + h[i - Len(a)]
             /\ h[i - Len(a)] \in Nat
  <2>1. i - Len(a) \in DOMAIN c
    BY <1>5, <1>7
  <2> QED
    BY <1>3, <1>5, <1>7, <2>1
<1>8. e \in [DOMAIN o -> Nat]
  <2>1. \A i \in DOMAIN o : e[i] \in Nat
    BY <1>5, <1>6, <1>7
  <2>2. \A i \in DOMAIN o : (IF i <= Len(a) THEN g[i] ELSE Len(b) + h[i - Len(a)]) \in Nat
    BY <2>1
  <2> QED
    BY <2>2
<1> HIDE DEF e
<1>9. ASSUME NEW i \in DOMAIN o, IsRecord(o[i]) PROVE e[i] \in DOMAIN w /\ w[e[i]] = o[i]
  <2>1. CASE i <= Len(a)
    <3>1. g[i] \in DOMAIN b /\ b[g[i]] = a[i] /\ e[i] = g[i]
      BY <1>1, <1>6, <1>9, <2>1
    <3>2. e[i] \in 1 .. Len(b) + Len(d) /\ e[i] <= Len(b)
      BY <1>5, <3>1
    <3> QED
      BY <1>4, <1>5, <1>6, <2>1, <3>1, <3>2
  <2>2. CASE ~(i <= Len(a))
    <3> DEFINE x == i - Len(a)
    <3>1. x \in DOMAIN c /\ o[i] = c[x] /\ e[i] = Len(b) + h[x]
      BY <1>7, <2>2
    <3> HIDE DEF x
    <3>2. h[x] \in DOMAIN d /\ d[h[x]] = c[x]
      BY <1>2, <1>9, <3>1
    <3>3. e[i] \in 1 .. Len(b) + Len(d) /\ ~(e[i] <= Len(b)) /\ e[i] - Len(b) = h[x]
      BY <1>5, <3>1, <3>2
    <3> QED
      BY <1>4, <1>5, <3>1, <3>2, <3>3
  <2> QED
    BY <2>1, <2>2
<1>10. ASSUME NEW i \in DOMAIN o, NEW j \in DOMAIN o, IsRecord(o[i]), IsRecord(o[j]), i < j
       PROVE  e[i] < e[j]
  <2>1. CASE j <= Len(a)
    <3>1. i <= Len(a)
      BY <1>5, <1>10, <2>1
    <3> QED
      BY <1>1, <1>6, <1>10, <2>1, <3>1
  <2>2. CASE i <= Len(a) /\ ~(j <= Len(a))
    <3>1. g[i] \in DOMAIN b /\ e[i] = g[i]
      BY <1>1, <1>6, <1>10, <2>2
    <3>2. j - Len(a) \in DOMAIN c /\ o[j] = c[j - Len(a)] /\ e[j] = Len(b) + h[j - Len(a)]
      BY <1>7, <2>2
    <3>3. h[j - Len(a)] \in DOMAIN d
      BY <1>2, <1>10, <3>2
    <3> QED
      BY <1>5, <3>1, <3>2, <3>3
  <2>3. CASE ~(i <= Len(a))
    <3>1. ~(j <= Len(a)) /\ i - Len(a) < j - Len(a)
      BY <1>5, <1>10, <2>3
    <3>2. i - Len(a) \in DOMAIN c /\ o[i] = c[i - Len(a)] /\ e[i] = Len(b) + h[i - Len(a)]
          /\ h[i - Len(a)] \in Nat
      BY <1>7, <2>3
    <3>3. j - Len(a) \in DOMAIN c /\ o[j] = c[j - Len(a)] /\ e[j] = Len(b) + h[j - Len(a)]
          /\ h[j - Len(a)] \in Nat
      BY <1>7, <3>1
    <3>4. h[i - Len(a)] < h[j - Len(a)]
      BY <1>2, <1>10, <3>1, <3>2, <3>3
    <3> QED
      BY <1>5, <3>2, <3>3, <3>4
  <2> QED
    BY <1>5, <2>1, <2>2, <2>3
<1>11. Thinned(o, w)
  BY <1>8, <1>9, <1>10 DEF Thinned
<1> QED
  BY <1>11 DEF o, w

\* Thinning keeps what is known of the lines.
LEMMA ThinnedKeeps ==
  ASSUME NEW out \in Seq(TapLines), NEW ls \in Seq(TapLines), Thinned(out, ls)
  PROVE  /\ \A b, obs, ph, seq, st :
               LinesOK(ls, b, obs, ph, seq, st) => LinesOK(out, b, obs, ph, seq, st)
         /\ Ordered(ls) => Ordered(out)
         /\ \A b : Rising(ls, b) => Rising(out, b)
         /\ \A hash : Latest(ls, hash) => Latest(out, hash)
<1>1. PICK h \in [DOMAIN out -> Nat] :
         /\ \A i \in DOMAIN out : IsRecord(out[i]) => h[i] \in DOMAIN ls /\ ls[h[i]] = out[i]
         /\ \A i, j \in DOMAIN out : (IsRecord(out[i]) /\ IsRecord(out[j]) /\ i < j) => h[i] < h[j]
  BY DEF Thinned
<1>2. ASSUME NEW b, NEW obs, NEW ph, NEW seq, NEW st, LinesOK(ls, b, obs, ph, seq, st)
      PROVE  LinesOK(out, b, obs, ph, seq, st)
  BY <1>1, <1>2 DEF LinesOK
<1>3. ASSUME Ordered(ls) PROVE Ordered(out)
  <2>1. ASSUME NEW i \in DOMAIN out, NEW j \in DOMAIN out, IsRecord(out[i]), IsRecord(out[j]), i < j
        PROVE  out[i].hash # out[j].hash
    <3>1. h[i] \in DOMAIN ls /\ ls[h[i]] = out[i] /\ h[j] \in DOMAIN ls /\ ls[h[j]] = out[j] /\ h[i] < h[j]
      BY <1>1, <2>1
    <3> QED
      BY <1>3, <2>1, <3>1 DEF Ordered
  <2>2. ASSUME NEW k \in DOMAIN out, NEW i \in DOMAIN out, NEW j \in DOMAIN out,
               IsRecord(out[k]), IsRecord(out[i]), IsRecord(out[j]), k < i, i < j,
               out[j].prev = out[k].hash
        PROVE  out[j].hash < out[i].hash
    <3>1. h[k] \in DOMAIN ls /\ ls[h[k]] = out[k] /\ h[i] \in DOMAIN ls /\ ls[h[i]] = out[i]
          /\ h[j] \in DOMAIN ls /\ ls[h[j]] = out[j] /\ h[k] < h[i] /\ h[i] < h[j]
      BY <1>1, <2>2
    <3> QED
      BY <1>3, <2>2, <3>1 DEF Ordered
  <2> QED
    BY <2>1, <2>2 DEF Ordered
<1>4. ASSUME NEW b, Rising(ls, b) PROVE Rising(out, b)
  BY <1>1, <1>4 DEF Rising
<1>5. ASSUME NEW hash, Latest(ls, hash) PROVE Latest(out, hash)
  <2>1. ASSUME NEW k \in DOMAIN out, NEW i \in DOMAIN out, IsRecord(out[k]), out[k].hash = hash,
               k < i, IsRecord(out[i])
        PROVE  FALSE
    <3>1. h[k] \in DOMAIN ls /\ ls[h[k]] = out[k] /\ h[i] \in DOMAIN ls /\ ls[h[i]] = out[i] /\ h[k] < h[i]
      BY <1>1, <2>1
    <3> QED
      BY <1>5, <2>1, <3>1 DEF Latest
  <2> QED
    BY <2>1 DEF Latest
<1> QED
  BY <1>2, <1>3, <1>4, <1>5

-----------------------------------------------------------------------------
(* One more line                                                           *)

LEMMA AppendShape ==
  ASSUME NEW ls \in Seq(TapLines), NEW l \in Written
  PROVE  /\ Append(ls, l) \in Seq(TapLines) /\ Len(Append(ls, l)) = Len(ls) + 1
         /\ Len(ls) \in Nat /\ DOMAIN ls = 1 .. Len(ls)
         /\ DOMAIN Append(ls, l) = 1 .. Len(ls) + 1
         /\ \A i \in DOMAIN ls : i \in DOMAIN Append(ls, l) /\ Append(ls, l)[i] = ls[i]
         /\ Append(ls, l)[Len(ls) + 1] = l
         /\ \A i \in DOMAIN Append(ls, l) : i \in DOMAIN ls \/ i = Len(ls) + 1
         /\ l # Corrupt /\ IsRecord(l)
  BY TapAssumption DEF TapLines, IsRecord

\* A line with a new hash that names the last one keeps the order.
LEMMA AppendKeepsOrder ==
  ASSUME NEW ls \in Seq(TapLines), NEW l \in Written, NEW st \in Nat, NEW b,
         \A i \in DOMAIN ls : IsRecord(ls[i]) => ls[i].hash <= st,
         l.hash = st + 1, Ordered(ls), Latest(ls, l.prev)
  PROVE  /\ Ordered(Append(ls, l)) /\ Latest(Append(ls, l), st + 1)
         /\ (Rising(ls, b) \/ \A i \in DOMAIN ls : IsRecord(ls[i]) => ls[i].boot # b)
               => Rising(Append(ls, l), b)
<1> DEFINE o == Append(ls, l)
           n == Len(ls) + 1
<1>1. /\ o \in Seq(TapLines) /\ n \in Nat /\ DOMAIN ls = 1 .. n - 1 /\ DOMAIN o = 1 .. n
      /\ \A i \in DOMAIN ls : i \in DOMAIN o /\ o[i] = ls[i]
      /\ o[n] = l /\ IsRecord(l)
      /\ \A i \in DOMAIN o : i \in DOMAIN ls \/ i = n
  BY AppendShape
<1> HIDE DEF o, n
<1>2. \A i \in DOMAIN ls : i < n /\ i \in Nat
  BY <1>1
<1>3. \A i \in DOMAIN ls : IsRecord(ls[i]) => ls[i].hash < st + 1 /\ ls[i].hash \in Nat
  <2> TAKE i \in DOMAIN ls
  <2> HAVE IsRecord(ls[i])
  <2>1. ls[i] \in Written
    BY <1>1 DEF TapLines, IsRecord
  <2>2. ls[i].hash \in Nat
    BY <2>1 DEF Written
  <2> QED
    BY <2>2
<1>4. ASSUME NEW i \in DOMAIN o, NEW j \in DOMAIN o, IsRecord(o[i]), IsRecord(o[j]), i < j
      PROVE  i \in DOMAIN ls /\ (j \in DOMAIN ls \/ (j = n /\ o[i].hash < o[j].hash))
  BY <1>1, <1>2, <1>3, <1>4
<1>5. Ordered(o)
  <2>1. ASSUME NEW i \in DOMAIN o, NEW j \in DOMAIN o, IsRecord(o[i]), IsRecord(o[j]), i < j
        PROVE  o[i].hash # o[j].hash
    <3>1. CASE j \in DOMAIN ls
      BY <1>1, <1>4, <2>1, <3>1 DEF Ordered
    <3>2. CASE j = n /\ o[i].hash < o[j].hash
      <4>1. o[i].hash \in Nat /\ o[j].hash = st + 1
        BY <1>1, <1>3, <1>4, <2>1, <3>2
      <4> QED
        BY <3>2, <4>1
    <3> QED
      BY <1>4, <2>1, <3>1, <3>2
  <2>2. ASSUME NEW k \in DOMAIN o, NEW i \in DOMAIN o, NEW j \in DOMAIN o,
               IsRecord(o[k]), IsRecord(o[i]), IsRecord(o[j]), k < i, i < j, o[j].prev = o[k].hash
        PROVE  o[j].hash < o[i].hash
    <3>1. k \in DOMAIN ls /\ i \in DOMAIN ls
      BY <1>4, <2>2
    <3>2. CASE j \in DOMAIN ls
      BY <1>1, <2>2, <3>1, <3>2 DEF Ordered
    <3>3. CASE j = n
      BY <1>1, <2>2, <3>1, <3>3 DEF Latest
    <3> QED
      BY <1>1, <3>2, <3>3
  <2> QED
    BY <2>1, <2>2 DEF Ordered
<1>6. Latest(o, st + 1)
  <2>1. ASSUME NEW k \in DOMAIN o, NEW i \in DOMAIN o, IsRecord(o[k]), IsRecord(o[i]),
               o[k].hash = st + 1, k < i
        PROVE  FALSE
    <3>1. k \in DOMAIN ls /\ o[k] = ls[k]
      BY <1>1, <1>4, <2>1
    <3>2. ls[k].hash < st + 1 /\ ls[k].hash \in Nat
      BY <1>3, <2>1, <3>1
    <3> QED
      BY <2>1, <3>1, <3>2
  <2> QED
    BY <2>1 DEF Latest
<1>7. ASSUME Rising(ls, b) \/ \A i \in DOMAIN ls : IsRecord(ls[i]) => ls[i].boot # b
      PROVE  Rising(o, b)
  <2>1. ASSUME NEW i \in DOMAIN o, NEW j \in DOMAIN o, IsRecord(o[i]), IsRecord(o[j]), i < j,
               o[j].boot = b
        PROVE  o[i].hash < o[j].hash
    <3>1. CASE j \in DOMAIN ls
      BY <1>1, <1>4, <1>7, <2>1, <3>1 DEF Rising
    <3> QED
      BY <1>4, <2>1, <3>1
  <2> QED
    BY <2>1 DEF Rising
<1> QED
  BY <1>5, <1>6, <1>7 DEF o

\* What is known of the lines before, with later numbers and hashes.
LEMMA AppendKeepsLines ==
  ASSUME NEW ls \in Seq(TapLines), NEW l \in Written, NEW b, NEW obs, NEW ph,
         NEW seq \in Int, NEW t \in Int, seq <= t, NEW st \in Nat, NEW u \in Nat, st <= u,
         LinesOK(ls, b, obs, ph, seq, st), LineOK(l, b, obs, ph, t, u)
  PROVE  LinesOK(Append(ls, l), b, obs, ph, t, u)
<1>1. ASSUME NEW i \in DOMAIN ls, IsRecord(ls[i]) PROVE LineOK(ls[i], b, obs, ph, t, u)
  <2>1. ls[i] \in Written /\ LineOK(ls[i], b, obs, ph, seq, st)
    BY <1>1 DEF LinesOK, TapLines, IsRecord
  <2>2. ls[i].last \in Nat /\ ls[i].hash \in Nat
    BY <2>1 DEF Written
  <2> QED
    BY <2>1, <2>2 DEF LineOK
<1> QED
  BY <1>1, AppendShape DEF LinesOK

LEMMA AppendAccounts ==
  ASSUME NEW ls \in Seq(TapLines), NEW l \in Written, NEW obs, AllAccounted(ls, obs),
         Sound(Append(ls, l), Len(ls) + 1) => Accounts(Append(ls, l), obs, Len(ls) + 1)
  PROVE  AllAccounted(Append(ls, l), obs)
<1> DEFINE o == Append(ls, l)
           n == Len(ls) + 1
<1>1. /\ n \in Nat /\ DOMAIN ls = 1 .. n - 1 /\ DOMAIN o = 1 .. n
      /\ \A i \in DOMAIN ls : o[i] = ls[i]
      /\ \A i \in DOMAIN o : i \in DOMAIN ls \/ i = n
  BY AppendShape
<1> HIDE DEF o, n
<1>2. ASSUME NEW j \in DOMAIN ls, Sound(o, j) PROVE Accounts(o, obs, j)
  <2>1. \A i \in 1 .. j : i \in DOMAIN ls /\ o[i] = ls[i] /\ (i > 1 => i - 1 \in DOMAIN ls /\ o[i - 1] = ls[i - 1])
    BY <1>1
  <2>2. Sound(ls, j)
    BY <1>2, <2>1 DEF Sound
  <2>3. Accounts(ls, obs, j)
    BY <2>2 DEF AllAccounted
  <2>4. j \in 1 .. j
    BY <1>1
  <2> QED
    BY <2>1, <2>3, <2>4 DEF Accounts
<1>3. \A j \in DOMAIN o : Sound(o, j) => Accounts(o, obs, j)
  BY <1>1, <1>2 DEF o, n
<1> QED
  BY <1>3 DEF AllAccounted, o

\* A later line shows no less than what showed.
LEMMA AppendKeepsTold ==
  ASSUME NEW ls \in Seq(TapLines), NEW l \in Written, NEW hand, NEW dropped, NEW b, NEW obs,
         Told(ls, hand, dropped, b, obs)
  PROVE  Told(Append(ls, l), hand, dropped, b, obs)
<1> SUFFICES ASSUME NEW f \in obs, f[1] = b
             PROVE  \/ \E i \in DOMAIN Append(ls, l) : /\ IsRecord(Append(ls, l)[i])
                                                       /\ Covers(Append(ls, l)[i], b, f[2])
                    \/ \E r \in hand : r.first <= f[2] /\ f[2] <= r.last
                    \/ dropped > 0
                    \/ \E i \in DOMAIN Append(ls, l) : /\ IsRecord(Append(ls, l)[i])
                                                       /\ Append(ls, l)[i].kind = "marker"
                                                       /\ Append(ls, l)[i].boot = b
                    \/ \E i \in DOMAIN tapFile : ~IsRecord(tapFile[i])
  BY DEF Told
<1>1. \A i \in DOMAIN ls : i \in DOMAIN Append(ls, l) /\ Append(ls, l)[i] = ls[i]
  BY AppendShape
<1> QED
  BY <1>1 DEF Told

-----------------------------------------------------------------------------
(* chainPush                                                               *)

\* What is known of the queue of a process while it handles a callback: m and
\* st are TapLog's fields and the last hash, obs what has been observed.
Core(m, st, obs, ph) ==
    /\ m \in Mems /\ m.seq \in Nat /\ m.last = st /\ st \in Nat
    /\ QueueOK(m, st, boots)
    /\ LinesOK(Flow(m), boots, obs, ph, m.seq, st)
    /\ Ordered(Flow(m)) /\ Rising(Flow(m), boots) /\ Latest(Flow(m), st)
    /\ ~LateFrames => AllAccounted(Flow(m), obs)

\* A record of this process, with numbers up to seq.
RecordOK(rec, obs, ph, seq) ==
    /\ rec.kind \in Kinds \cup {"marker", "shutdown"}
    /\ rec.first \in Nat \ {0} /\ rec.last \in Nat /\ rec.repeat \in Nat
    /\ rec.first <= rec.last /\ rec.last <= seq
    /\ rec.kind \in Kinds => rec.repeat = Counted(rec.first, rec.last, boots, obs)
    /\ ~LateFrames /\ rec.kind = "shutdown" =>
          ph # "up" /\ \A f \in obs : f[1] = boots => f[2] <= rec.last

LEMMA QueueTypes ==
  ASSUME tapFile \in Seq(TapLines), NEW m \in Mems
  PROVE  Queue(m) \in Seq(Written) /\ Queue(m) \in Seq(TapLines) /\ Flow(m) \in Seq(TapLines)
<1>1. m.inflight \in Seq(Written) /\ m.pending \in Seq(Written)
  BY DEF Mems
<1>2. Queue(m) \in Seq(Written)
  BY <1>1, ConcatProperties DEF Queue
<1>3. Queue(m) \in Seq(TapLines)
  BY <1>2, SeqMonotonic DEF TapLines
<1> QED
  BY <1>2, <1>3, ConcatProperties DEF Flow

LEMMA AppendIs ==
  ASSUME NEW S, NEW ls \in Seq(S), NEW l \in S
  PROVE  /\ Append(ls, l) \in Seq(S) /\ Len(Append(ls, l)) = Len(ls) + 1 /\ Append(ls, l) # <<>>
         /\ Len(ls) \in Nat /\ DOMAIN ls = 1 .. Len(ls)
         /\ DOMAIN Append(ls, l) = 1 .. Len(ls) + 1
         /\ \A i \in DOMAIN ls : Append(ls, l)[i] = ls[i]
         /\ Append(ls, l)[Len(ls) + 1] = l
         /\ \A i \in DOMAIN Append(ls, l) : i \in DOMAIN ls \/ i = Len(ls) + 1
         /\ ls # <<>> => 1 \in DOMAIN ls
  OBVIOUS

\* The queue after a push is the queue and the new line.
LEMMA PushShape ==
  ASSUME NEW m \in Mems, m.inflight = <<>> => m.pending = <<>>, NEW l \in Written,
         NEW n, n = Kick([m EXCEPT !.pending = Append(m.pending, l), !.last = l.hash])
  PROVE  /\ n \in Mems /\ n.seq = m.seq /\ n.last = l.hash /\ n.dropped = m.dropped
         /\ n.inflight # <<>>
         /\ m.inflight = <<>> => n.inflight = <<l>> /\ n.pending = <<>>
         /\ m.inflight # <<>> => n.inflight = m.inflight /\ n.pending = Append(m.pending, l)
         /\ Queue(n) = Append(Queue(m), l)
         /\ Len(n.pending) <= Len(m.pending) + 1
<1> DEFINE k == [m EXCEPT !.pending = Append(m.pending, l), !.last = l.hash]
<1>1. /\ m = [seq |-> m.seq, last |-> m.last, pending |-> m.pending,
              inflight |-> m.inflight, dropped |-> m.dropped]
      /\ m.seq \in Int /\ m.last \in Nat /\ m.dropped \in Nat
      /\ m.pending \in Seq(Written) /\ m.inflight \in Seq(Written) /\ l.hash \in Nat
  BY DEF Mems, Written
<1>2. Append(m.pending, l) \in Seq(Written) /\ Len(Append(m.pending, l)) = Len(m.pending) + 1
      /\ Len(m.pending) \in Nat
  BY <1>1
<1>3. /\ k \in Mems /\ k.seq = m.seq /\ k.last = l.hash /\ k.dropped = m.dropped
      /\ k.inflight = m.inflight /\ k.pending = Append(m.pending, l)
  BY <1>1, <1>2 DEF Mems
<1>0. n = Kick(k)
  OBVIOUS
<1> HIDE DEF k
<1>4. CASE m.inflight = <<>>
  <2>5. Append(<<>>, l) = <<l>> /\ <<l>> # <<>> /\ Len(<<>>) = 0 /\ 0 <= 0 + 1
    OBVIOUS
  <2>1. k.pending = <<l>> /\ m.pending = <<>>
    <3>1. m.pending = <<>>
      BY <1>4
    <3> QED
      BY <1>3, <2>5, <3>1, Zenon
  <2>2. n = [k EXCEPT !.inflight = k.pending, !.pending = <<>>]
    BY <1>0, <1>3, <1>4 DEF Kick
  <2>3. /\ n \in Mems /\ n.seq = k.seq /\ n.last = k.last /\ n.dropped = k.dropped
        /\ n.inflight = <<l>> /\ n.pending = <<>>
    BY <1>3, <2>1, <2>2 DEF Mems
  <2>4. Queue(n) = <<l>> /\ Queue(m) = <<>>
    <3>1. <<l>> \o <<>> = <<l>> /\ <<>> \o <<>> = <<>>
      OBVIOUS
    <3> QED
      BY <1>4, <2>1, <2>3, <3>1, Zenon DEF Queue
  <2>6. Queue(n) = Append(Queue(m), l)
    BY <2>4, <2>5, Zenon
  <2>7. Len(n.pending) <= Len(m.pending) + 1
    BY <2>1, <2>3, <2>5
  <2>8. n.seq = m.seq /\ n.last = l.hash /\ n.dropped = m.dropped
    BY <1>3, <2>3
  <2>9. n.inflight = <<l>> /\ n.pending = <<>> /\ n.inflight # <<>>
    BY <2>3, <2>5, Zenon
  <2> QED
    BY <1>4, <2>3, <2>6, <2>7, <2>8, <2>9
<1>5. CASE m.inflight # <<>>
  <2>1. n = k
    BY <1>0, <1>3, <1>5 DEF Kick
  <2>2. m.inflight \o Append(m.pending, l) = Append(m.inflight \o m.pending, l)
    BY <1>1
  <2>3. Queue(n) = Append(Queue(m), l)
    BY <1>3, <2>1, <2>2, Zenon DEF Queue
  <2>4. n.inflight = m.inflight /\ n.pending = Append(m.pending, l) /\ n.inflight # <<>>
    BY <1>3, <1>5, <2>1
  <2>5. Len(n.pending) <= Len(m.pending) + 1
    BY <1>2, <2>4
  <2>6. n \in Mems /\ n.seq = m.seq /\ n.last = l.hash /\ n.dropped = m.dropped
    BY <1>3, <2>1
  <2> QED
    BY <1>5, <2>3, <2>4, <2>5, <2>6
<1> QED
  BY <1>4, <1>5

LEMMA FlowAppend ==
  ASSUME tapFile \in Seq(TapLines), NEW m \in Mems, NEW n \in Mems, NEW l \in Written,
         Queue(n) = Append(Queue(m), l)
  PROVE  Flow(n) = Append(Flow(m), l)
<1>1. Queue(m) \in Seq(TapLines) /\ l \in TapLines
  BY QueueTypes DEF TapLines
<1>2. tapFile \o Append(Queue(m), l) = Append(tapFile \o Queue(m), l)
  BY <1>1
<1> QED
  BY <1>2 DEF Flow

\* What becomes of m when line l is pushed.
PushedLine(m, n, l, st, obs, ph) ==
    /\ Flow(n) = Append(Flow(m), l) /\ Core(n, st + 1, obs, ph)
    /\ n.seq = m.seq /\ n.dropped = m.dropped /\ Len(n.pending) <= Len(m.pending) + 1

LEMMA PushKeeps ==
  ASSUME tapFile \in Seq(TapLines), boots \in Nat,
         NEW m, NEW st, NEW obs, NEW ph, NEW rec, NEW count \in Nat,
         Core(m, st, obs, ph), RecordOK(rec, obs, ph, m.seq),
         NEW l, l = Line(rec, st + 1, m.last, count),
         NEW n, n = ChainPush(m, rec, st + 1, count),
         ~LateFrames => (Sound(Append(Flow(m), l), Len(Flow(m)) + 1)
                            => Accounts(Append(Flow(m), l), obs, Len(Flow(m)) + 1))
  PROVE  PushedLine(m, n, l, st, obs, ph)
<1>1. /\ m \in Mems /\ m.seq \in Nat /\ m.last = st /\ st \in Nat
      /\ m.inflight \in Seq(Written) /\ m.pending \in Seq(Written)
      /\ QueueOK(m, st, boots)
  BY DEF Core, Mems
<1>2. /\ l \in Written /\ l.hash = st + 1 /\ l.prev = st /\ l.boot = boots
      /\ l.first = rec.first /\ l.last = rec.last /\ l.kind = rec.kind /\ l.repeat = rec.repeat
  <2>1. st + 1 \in Nat /\ m.last \in Nat
    BY <1>1
  <2>2. rec.kind \in Kinds \cup {"meta", "marker", "shutdown"} /\ rec.first \in Nat
        /\ rec.last \in Nat /\ rec.repeat \in Nat
    BY DEF RecordOK
  <2>3. l = Line(rec, st + 1, m.last, count)
    OBVIOUS
  <2> QED
    BY <1>1, <2>1, <2>2, <2>3 DEF Line, Written
<1>3. m.inflight = <<>> => m.pending = <<>>
  BY <1>1 DEF QueueOK
<1>4. n = Kick([m EXCEPT !.pending = Append(m.pending, l), !.last = l.hash])
  <2>1. l = Line(rec, st + 1, m.last, count) /\ l.hash = st + 1 /\ n = ChainPush(m, rec, st + 1, count)
    BY <1>2
  <2> QED
    BY <2>1 DEF ChainPush
<1>5. /\ n \in Mems /\ n.seq = m.seq /\ n.last = l.hash /\ n.dropped = m.dropped
      /\ n.inflight # <<>>
      /\ m.inflight = <<>> => n.inflight = <<l>> /\ n.pending = <<>>
      /\ m.inflight # <<>> => n.inflight = m.inflight /\ n.pending = Append(m.pending, l)
      /\ Queue(n) = Append(Queue(m), l)
      /\ Len(n.pending) <= Len(m.pending) + 1
  <2>1. m \in Mems /\ l \in Written
    BY <1>1, <1>2
  <2> QED
    BY <1>3, <1>4, <2>1, PushShape, Zenon
<1>6. Flow(n) = Append(Flow(m), l) /\ Flow(m) \in Seq(TapLines) /\ Queue(m) \in Seq(Written)
  BY <1>1, <1>2, <1>5, FlowAppend, QueueTypes
<1>7. LineOK(l, boots, obs, ph, m.seq, st + 1)
  <2>1. l.first <= l.last /\ l.last <= m.seq /\ l.boot <= boots
    BY <1>2 DEF RecordOK
  <2>2. l.prev < l.hash /\ l.hash <= st + 1
    BY <1>1, <1>2
  <2> QED
    BY <1>2, <2>1, <2>2 DEF LineOK, RecordOK, Kinds
<1>8. LinesOK(Flow(n), boots, obs, ph, n.seq, st + 1)
  <2>1. LinesOK(Flow(m), boots, obs, ph, m.seq, st) /\ m.seq \in Int /\ m.seq <= m.seq
        /\ st + 1 \in Nat /\ st <= st + 1
    BY <1>1 DEF Core
  <2> QED
    <3>1. LinesOK(Append(Flow(m), l), boots, obs, ph, m.seq, st + 1)
      BY <1>1, <1>2, <1>6, <1>7, <2>1, AppendKeepsLines, Zenon
    <3> QED
      BY <1>5, <1>6, <3>1
<1>9. Ordered(Flow(n)) /\ Rising(Flow(n), boots) /\ Latest(Flow(n), st + 1)
  <2>1. \A i \in DOMAIN Flow(m) : IsRecord(Flow(m)[i]) => Flow(m)[i].hash <= st
    BY DEF Core, LinesOK, LineOK
  <2>2. Ordered(Flow(m)) /\ Latest(Flow(m), l.prev) /\ Rising(Flow(m), boots)
    BY <1>2 DEF Core
  <2> QED
    <3>1. /\ Ordered(Append(Flow(m), l)) /\ Latest(Append(Flow(m), l), st + 1)
          /\ Rising(Append(Flow(m), l), boots)
      BY <1>1, <1>2, <1>6, <2>1, <2>2, AppendKeepsOrder, Zenon
    <3> QED
      BY <1>6, <3>1
<1>10. ~LateFrames => AllAccounted(Flow(n), obs)
  BY <1>2, <1>6, AppendAccounts DEF Core
<1>11. QueueOK(n, st + 1, boots)
  <2> DEFINE q == Queue(m)
             r == Queue(n)
  <2>0. q \in Seq(Written) /\ r = Append(q, l)
    BY <1>5, <1>6
  <2> HIDE DEF q, r
  <2>1. /\ q \in Seq(Written) /\ r = Append(q, l) /\ r \in Seq(Written) /\ Len(r) = Len(q) + 1
        /\ Len(q) \in Nat /\ DOMAIN r = 1 .. Len(q) + 1 /\ DOMAIN q = 1 .. Len(q)
        /\ \A i \in DOMAIN q : r[i] = q[i]
        /\ r[Len(q) + 1] = l
    BY <1>2, <2>0, AppendIs
  <2>2. r[Len(r)].hash = st + 1
    BY <1>2, <2>1
  <2>3. \A i \in DOMAIN r : r[i].boot = boots
    <3>1. \A i \in DOMAIN q : q[i].boot = boots
      BY <1>1 DEF QueueOK, q
    <3>2. \A i \in DOMAIN r : i \in DOMAIN q \/ i = Len(q) + 1
      BY <2>1
    <3> QED
      BY <1>2, <2>1, <3>1, <3>2
  <2>4. \A i \in DOMAIN n.pending : n.pending[i].first > 0
    <3>1. CASE m.inflight = <<>>
      <4>1. DOMAIN n.pending = {}
        BY <1>5, <3>1
      <4> QED
        BY <4>1
    <3>2. CASE m.inflight # <<>>
      <4>0. n.pending = Append(m.pending, l)
        BY <1>5, <3>2
      <4>1. /\ n.pending = Append(m.pending, l) /\ DOMAIN n.pending = 1 .. Len(m.pending) + 1
            /\ DOMAIN m.pending = 1 .. Len(m.pending) /\ Len(m.pending) \in Nat
            /\ n.pending[Len(m.pending) + 1] = l
            /\ \A i \in DOMAIN m.pending : n.pending[i] = m.pending[i]
        <5> DEFINE p == m.pending
                   x == Append(p, l)
        <5>1. p \in Seq(Written) /\ l \in Written
          BY <1>1, <1>2
        <5> HIDE DEF p
        <5>2. /\ DOMAIN x = 1 .. Len(p) + 1 /\ DOMAIN p = 1 .. Len(p) /\ Len(p) \in Nat
              /\ x[Len(p) + 1] = l /\ \A i \in DOMAIN p : x[i] = p[i]
          BY <5>1, AppendIs
        <5> QED
          BY <4>0, <5>2 DEF p
      <4>2. \A i \in DOMAIN n.pending : i \in DOMAIN m.pending \/ i = Len(m.pending) + 1
        BY <4>1
      <4>3. l.first > 0
        BY <1>2 DEF RecordOK
      <4> QED
        BY <1>1, <4>1, <4>2, <4>3 DEF QueueOK
    <3> QED
      BY <3>1, <3>2
  <2>5. n.pending # <<>> => n.pending[1].prev = n.inflight[Len(n.inflight)].hash
    <3> SUFFICES ASSUME n.pending # <<>> PROVE n.pending[1].prev = n.inflight[Len(n.inflight)].hash
      OBVIOUS
    <3>1. m.inflight # <<>> /\ n.inflight = m.inflight /\ n.pending = Append(m.pending, l)
      BY <1>5
    <3>2. CASE m.pending = <<>>
      <4>1. n.pending[1] = l
        BY <3>1, <3>2
      <4>2. q = m.inflight /\ q # <<>>
        BY <1>1, <3>1, <3>2 DEF q, Queue
      <4>3. q[Len(q)].hash = st
        BY <1>1, <4>2 DEF QueueOK, q
      <4> QED
        BY <1>2, <3>1, <4>1, <4>2, <4>3
    <3>3. CASE m.pending # <<>>
      <4>1. n.pending[1] = m.pending[1]
        <5> DEFINE p == m.pending
                   x == Append(p, l)
        <5>1. p \in Seq(Written) /\ l \in Written /\ p # <<>>
          BY <1>1, <1>2, <3>3
        <5> HIDE DEF p
        <5>2. 1 \in DOMAIN p /\ \A i \in DOMAIN p : x[i] = p[i]
          BY <5>1, AppendIs
        <5> QED
          BY <3>1, <5>2 DEF p
      <4> QED
        BY <1>1, <3>1, <3>3, <4>1 DEF QueueOK
    <3> QED
      BY <3>2, <3>3
  <2> QED
    BY <1>5, <2>2, <2>3, <2>4, <2>5 DEF QueueOK, r
<1>12. n.last = st + 1 /\ st + 1 \in Nat /\ n.seq \in Nat
  BY <1>1, <1>2, <1>5
<1>13. Core(n, st + 1, obs, ph)
  BY <1>5, <1>8, <1>9, <1>10, <1>11, <1>12 DEF Core
<1> QED
  BY <1>5, <1>6, <1>13 DEF PushedLine

-----------------------------------------------------------------------------
(* append                                                                  *)

\* When the new line is sound with those before it, it joins the last one.
LEMMA SoundJoins ==
  ASSUME NEW ls \in Seq(TapLines), NEW l \in Written,
         Sound(Append(ls, l), Len(ls) + 1)
  PROVE  /\ ls = <<>> => l.first = 0
         /\ ls # <<>> => /\ Sound(ls, Len(ls)) /\ Len(ls) \in DOMAIN ls /\ IsRecord(ls[Len(ls)])
                         /\ l.prev = ls[Len(ls)].hash /\ l.first = ls[Len(ls)].last + 1
<1> DEFINE o == Append(ls, l)
           n == Len(ls) + 1
<1>1. /\ n \in Nat /\ n >= 1 /\ DOMAIN ls = 1 .. n - 1 /\ Len(ls) = n - 1
      /\ \A i \in DOMAIN ls : o[i] = ls[i]
      /\ o[n] = l /\ Sound(o, n)
  BY AppendShape
<1> HIDE DEF o, n
<1>2. ASSUME ls = <<>> PROVE l.first = 0
  <2>1. n = 1
    BY <1>2 DEF n
  <2> QED
    BY <1>1, <2>1 DEF Sound
<1>3. ASSUME ls # <<>>
      PROVE  /\ Sound(ls, Len(ls)) /\ Len(ls) \in DOMAIN ls /\ IsRecord(ls[Len(ls)])
             /\ l.prev = ls[Len(ls)].hash /\ l.first = ls[Len(ls)].last + 1
  <2>1. n - 1 \in DOMAIN ls /\ n - 1 \in Nat /\ n > 1 /\ n \in 1 .. n /\ n - 1 \in 1 .. n
    <3>1. Len(ls) # 0
      BY <1>3
    <3> QED
      BY <1>1, <3>1
  <2>2. l.prev = ls[n - 1].hash /\ l.first = ls[n - 1].last + 1 /\ IsRecord(ls[n - 1])
    BY <1>1, <2>1 DEF Sound
  <2>3. \A i \in 1 .. n - 1 : i \in 1 .. n /\ o[i] = ls[i] /\ (i > 1 => i - 1 \in DOMAIN ls /\ o[i - 1] = ls[i - 1])
    BY <1>1
  <2>4. Sound(ls, n - 1)
    BY <1>1, <2>3 DEF Sound
  <2> QED
    BY <1>1, <2>1, <2>2, <2>4
<1> QED
  BY <1>2, <1>3

\* The line of a record that joins the last one accounts for what was observed.
LEMMA JoinedAccounts ==
  ASSUME NEW ls \in Seq(TapLines), NEW l \in Written, NEW obs, obs \subseteq Nat \X Nat,
         AllAccounted(ls, obs), Below(ls, l.prev, l.boot, l.first), l.first # 0, l.kind # "marker",
         Sound(Append(ls, l), Len(ls) + 1)
  PROVE  Accounts(Append(ls, l), obs, Len(ls) + 1)
<1> DEFINE o == Append(ls, l)
           n == Len(ls) + 1
           p == ls[Len(ls)]
<1>1. ls # <<>>
  BY SoundJoins
<1>2. /\ Sound(ls, Len(ls)) /\ Len(ls) \in DOMAIN ls /\ IsRecord(p)
      /\ l.prev = p.hash /\ l.first = p.last + 1
  BY <1>1, SoundJoins
<1>3. p.boot = l.boot /\ p.last < l.first
  BY <1>1, <1>2 DEF Below
<1>4. Accounts(ls, obs, Len(ls))
  BY <1>2 DEF AllAccounted
<1>5. /\ n \in Nat /\ Len(ls) \in Nat /\ DOMAIN ls = 1 .. Len(ls)
      /\ \A i \in DOMAIN ls : o[i] = ls[i]
      /\ o[n] = l /\ n - 1 = Len(ls)
  BY AppendShape
<1>6. p \in Written /\ p.last \in Nat /\ l.last \in Nat /\ l.first \in Nat
  <2>1. p \in Written
    BY <1>2 DEF TapLines, IsRecord
  <2> QED
    BY <2>1 DEF Written
<1> HIDE DEF o
<1>7. ASSUME NEW f \in obs, f[1] = l.boot, f[2] <= l.last
      PROVE  \E i \in 1 .. n : Covers(o[i], f[1], f[2])
  <2>0. f[2] \in Nat
    OBVIOUS
  <2>1. CASE f[2] <= p.last
    <3>1. PICK i \in 1 .. Len(ls) : Covers(ls[i], f[1], f[2])
      BY <1>3, <1>4, <1>7, <2>1 DEF Accounts
    <3>2. i \in 1 .. n /\ o[i] = ls[i]
      BY <1>5
    <3> QED
      BY <3>1, <3>2
  <2>2. CASE ~(f[2] <= p.last)
    <3>1. l.first <= f[2]
      BY <1>2, <1>6, <2>0, <2>2
    <3>2. Covers(l, f[1], f[2])
      BY <1>7, <3>1 DEF Covers
    <3>3. n \in 1 .. n
      BY <1>5
    <3> QED
      BY <1>5, <3>2, <3>3
  <2> QED
    BY <2>1, <2>2
<1>8. o[n - 1] = p
  BY <1>2, <1>5
<1>9. Accounts(o, obs, n)
  BY <1>3, <1>5, <1>7, <1>8 DEF Accounts
<1> QED
  BY <1>9 DEF o

\* More numbers given and another count of losses change nothing.
LEMMA SameFlow ==
  ASSUME NEW k, NEW m, k.inflight = m.inflight, k.pending = m.pending
  PROVE  Flow(k) = Flow(m) /\ Queue(k) = Queue(m)
BY DEF Flow, Queue

LEMMA CoreLater ==
  ASSUME NEW m, NEW st, NEW obs, NEW ph, Core(m, st, obs, ph), boots \in Nat,
         tapFile \in Seq(TapLines),
         NEW seq \in Nat, m.seq <= seq, NEW dropped \in Nat,
         NEW k, k = [m EXCEPT !.seq = seq, !.dropped = dropped]
  PROVE  Core(k, st, obs, ph)
<1>1. /\ m \in Mems /\ m.seq \in Nat /\ m.last = st /\ st \in Nat
      /\ m = [seq |-> m.seq, last |-> m.last, pending |-> m.pending,
               inflight |-> m.inflight, dropped |-> m.dropped]
  BY DEF Core, Mems
<1>2. /\ k \in Mems /\ k.seq = seq /\ k.dropped = dropped /\ k.last = m.last
      /\ k.pending = m.pending /\ k.inflight = m.inflight
  <2>1. k = [seq |-> seq, last |-> m.last, pending |-> m.pending,
             inflight |-> m.inflight, dropped |-> dropped]
    BY <1>1
  <2> QED
    BY <1>1, <2>1 DEF Mems
<1>3. Queue(k) = Queue(m)
  BY <1>2 DEF Queue
<1>4. Flow(k) = Flow(m)
  BY <1>3 DEF Flow
<1>5. QueueOK(k, st, boots)
  BY <1>2, <1>3 DEF Core, QueueOK
<1>6. LinesOK(Flow(k), boots, obs, ph, seq, st)
  <2>1. ASSUME NEW i \in DOMAIN Flow(m), IsRecord(Flow(m)[i])
        PROVE  LineOK(Flow(m)[i], boots, obs, ph, seq, st)
    <3>1. Flow(m)[i] \in Written
      BY <1>1, <2>1, QueueTypes DEF TapLines, IsRecord
    <3>2. Flow(m)[i].last \in Nat
      BY <3>1 DEF Written
    <3> QED
      BY <1>1, <2>1, <3>2 DEF Core, LinesOK, LineOK
  <2> QED
    BY <1>4, <2>1 DEF LinesOK
<1> QED
  BY <1>1, <1>2, <1>4, <1>5, <1>6 DEF Core

\* A record that can be given to the log, and what becomes of the log.
Fits(m, st, obs, ph, rec) ==
    /\ Core(m, st, obs, ph) /\ RecordOK(rec, obs, ph, m.seq) /\ rec.kind # "marker"
    /\ Below(Flow(m), st, boots, rec.first) /\ Len(m.pending) <= QueueCap + 1
    /\ obs \subseteq Nat \X Nat

Taken(m, obs, ph, rec, t) ==
    /\ Core(t.m, t.stamp, obs, ph) /\ Len(t.m.pending) <= QueueCap + 1
    /\ m.seq <= t.m.seq /\ Below(Flow(t.m), t.stamp, boots, rec.last + 1)
    /\ t = [m |-> t.m, stamp |-> t.stamp]
    /\ \A hand : Told(Flow(m), hand \cup {rec}, m.dropped, boots, obs)
                    => Told(Flow(t.m), hand, t.m.dropped, boots, obs)

LEMMA AppendRecKeeps ==
  ASSUME tapFile \in Seq(TapLines), boots \in Nat,
         NEW m, NEW st, NEW obs, NEW ph, NEW rec, Fits(m, st, obs, ph, rec),
         NEW t, t = AppendRec([m |-> m, stamp |-> st], rec)
  PROVE  Taken(m, obs, ph, rec, t)
<1> USE DEF Fits
<1>1. /\ m \in Mems /\ m.seq \in Nat /\ m.last = st /\ st \in Nat /\ m.dropped \in Nat
      /\ m.pending \in Seq(Written) /\ Len(m.pending) \in Nat
  BY DEF Core, Mems
<1>2. /\ rec.first \in Nat \ {0} /\ rec.last \in Nat /\ rec.first <= rec.last /\ rec.last <= m.seq
  BY DEF RecordOK
<1>3. QueueCap \in Nat
  BY TapAssumption
<1>4. Flow(m) \in Seq(TapLines) /\ Len(Flow(m)) \in Nat
  BY <1>1, QueueTypes
<1>5. CASE Len(m.pending) >= QueueCap
  <2> DEFINE k == [m EXCEPT !.seq = m.seq, !.dropped = m.dropped + 1]
  <2>1. t = [m |-> k, stamp |-> st]
    <3>1. [m EXCEPT !.dropped = m.dropped + 1] = k
      BY <1>1 DEF Mems
    <3> QED
      BY <1>5, <3>1 DEF AppendRec
  <2>2. k = [m EXCEPT !.seq = m.seq, !.dropped = m.dropped + 1] /\ m.seq <= m.seq /\ m.dropped + 1 \in Nat
    BY <1>1
  <2> HIDE DEF k
  <2>3. /\ Core(k, st, obs, ph) /\ Flow(k) = Flow(m) /\ k.seq = m.seq /\ k.dropped = m.dropped + 1
        /\ k.pending = m.pending
    <3>1. Core(k, st, obs, ph)
      BY <1>1, <2>2, CoreLater, Zenon
    <3>2. /\ k.seq = m.seq /\ k.dropped = m.dropped + 1 /\ k.inflight = m.inflight
          /\ k.pending = m.pending /\ k.last = m.last
      BY <1>1, <2>2 DEF Mems
    <3> QED
      BY <1>1, <3>1, <3>2, SameFlow
  <2>4. t.m = k /\ t.stamp = st
    BY <2>1
  <2>5. Below(Flow(m), st, boots, rec.last + 1)
    <3> SUFFICES ASSUME Flow(m) # <<>>, IsRecord(Flow(m)[Len(Flow(m))]), Flow(m)[Len(Flow(m))].hash = st
                 PROVE  /\ Flow(m)[Len(Flow(m))].boot = boots /\ Flow(m)[Len(Flow(m))].kind # "marker"
                        /\ Flow(m)[Len(Flow(m))].last < rec.last + 1
      BY DEF Below
    <3>1. Flow(m)[Len(Flow(m))] \in Written
      BY <1>4 DEF TapLines, IsRecord
    <3>2. Flow(m)[Len(Flow(m))].last \in Nat
      BY <3>1 DEF Written
    <3> QED
      BY <1>2, <3>2 DEF Below
  <2>6. \A hand : Told(Flow(k), hand, k.dropped, boots, obs)
    BY <1>1, <2>3 DEF Told
  <2> QED
    BY <1>1, <2>1, <2>3, <2>4, <2>5, <2>6 DEF Taken
<1>6. CASE ~(Len(m.pending) >= QueueCap) /\ m.dropped > 0
  <2> DEFINE k == [m EXCEPT !.seq = m.seq + 1, !.dropped = 0]
             mark == Plain("marker", m.seq + 1)
             m1 == ChainPush(k, mark, st + 1, m.dropped)
             l1 == Line(mark, st + 1, k.last, m.dropped)
             m2 == ChainPush(m1, rec, st + 2, 0)
             l2 == Line(rec, st + 2, m1.last, 0)
  <2>1. t = [m |-> m2, stamp |-> st + 2]
    BY <1>1, <1>6 DEF AppendRec
  <2>2. k = [m EXCEPT !.seq = m.seq + 1, !.dropped = 0] /\ m.seq <= m.seq + 1 /\ m.seq + 1 \in Nat /\ 0 \in Nat
    BY <1>1
  <2> HIDE DEF k
  <2>3. /\ Core(k, st, obs, ph) /\ Flow(k) = Flow(m) /\ k.seq = m.seq + 1 /\ k.dropped = 0
        /\ k.pending = m.pending /\ k.last = st
    <3>1. Core(k, st, obs, ph)
      BY <1>1, <2>2, CoreLater, Zenon
    <3>2. /\ k.seq = m.seq + 1 /\ k.dropped = 0 /\ k.inflight = m.inflight
          /\ k.pending = m.pending /\ k.last = m.last
      BY <1>1, <2>2 DEF Mems
    <3> QED
      BY <1>1, <3>1, <3>2, SameFlow
  <2>4. /\ mark.kind = "marker" /\ mark.first = m.seq + 1 /\ mark.last = m.seq + 1 /\ mark.repeat = 1
    BY DEF Plain
  <2> HIDE DEF mark
  <2>5. RecordOK(mark, obs, ph, k.seq)
    BY <1>1, <2>3, <2>4 DEF RecordOK, Kinds, Reads
  <2>6. l1.first = m.seq + 1 /\ l1.prev = st /\ l1.kind = "marker" /\ l1.boot = boots /\ l1.hash = st + 1
    BY <2>3, <2>4 DEF Line
  <2>7. l1 \in Written
    BY <1>1, <2>3, <2>4 DEF Line, Written
  <2>8. l1 = Line(mark, st + 1, k.last, m.dropped) /\ m1 = ChainPush(k, mark, st + 1, m.dropped)
    OBVIOUS
  <2> HIDE DEF l1, m1
  <2>9. ~Sound(Append(Flow(k), l1), Len(Flow(k)) + 1)
    <3> SUFFICES ASSUME Sound(Append(Flow(m), l1), Len(Flow(m)) + 1) PROVE FALSE
      BY <2>3
    <3> DEFINE p == Flow(m)[Len(Flow(m))]
    <3>1. Flow(m) # <<>>
      BY <1>1, <1>4, <2>6, <2>7, SoundJoins
    <3>2. Len(Flow(m)) \in DOMAIN Flow(m) /\ IsRecord(p) /\ p.hash = st /\ m.seq + 1 = p.last + 1
      BY <1>4, <2>6, <2>7, <3>1, SoundJoins
    <3>3. p.last < rec.first
      BY <3>1, <3>2 DEF Below
    <3>4. p.last \in Nat
      <4>1. p \in Written
        BY <1>4, <3>2 DEF TapLines, IsRecord
      <4> QED
        BY <4>1 DEF Written
    <3> QED
      BY <1>1, <1>2, <3>2, <3>3, <3>4
  <2>10. /\ Flow(m1) = Append(Flow(k), l1) /\ Core(m1, st + 1, obs, ph)
         /\ m1.seq = k.seq /\ m1.dropped = k.dropped /\ Len(m1.pending) <= Len(k.pending) + 1
    <3>1. PushedLine(k, m1, l1, st, obs, ph)
      BY <1>1, <2>3, <2>5, <2>8, <2>9, PushKeeps, Zenon
    <3> QED
      BY <3>1 DEF PushedLine
  <2>11. Flow(m1) = Append(Flow(m), l1) /\ Flow(m1) \in Seq(TapLines) /\ Len(Flow(m1)) = Len(Flow(m)) + 1
         /\ Flow(m1) # <<>>
    <3>1. Flow(m1) = Append(Flow(m), l1)
      BY <2>3, <2>10
    <3>2. Append(Flow(m), l1) \in Seq(TapLines) /\ Len(Append(Flow(m), l1)) = Len(Flow(m)) + 1
      BY <1>4, <2>7, AppendShape
    <3> QED
      BY <1>4, <3>1, <3>2
  <2>12. RecordOK(rec, obs, ph, m1.seq)
    <3>1. m1.seq = m.seq + 1
      BY <2>3, <2>10
    <3>2. rec.last <= m1.seq
      BY <1>1, <1>2, <3>1
    <3> QED
      BY <3>2 DEF RecordOK
  <2>13. m1.last = st + 1 /\ (st + 1) + 1 = st + 2
    BY <1>1, <2>10 DEF Core
  <2>14. l2 = Line(rec, (st + 1) + 1, m1.last, 0) /\ m2 = ChainPush(m1, rec, (st + 1) + 1, 0)
    BY <2>13
  <2>15. l2 \in Written /\ l2.last = rec.last /\ l2.boot = boots /\ l2.kind = rec.kind
    <3>1. rec.kind \in Kinds \cup {"meta", "marker", "shutdown"} /\ rec.repeat \in Nat
      BY DEF RecordOK
    <3>2. m1.last \in Nat /\ st + 2 \in Nat
      BY <1>1, <2>13
    <3> QED
      BY <1>2, <3>1, <3>2 DEF Line, Written
  <2> HIDE DEF l2, m2
  <2>16. ~Sound(Append(Flow(m1), l2), Len(Flow(m1)) + 1)
    <3> SUFFICES ASSUME Sound(Append(Flow(m1), l2), Len(Flow(m1)) + 1) PROVE FALSE
      OBVIOUS
    <3>1. Sound(Flow(m1), Len(Flow(m1)))
      BY <2>11, <2>15, SoundJoins
    <3>2. Sound(Append(Flow(k), l1), Len(Flow(k)) + 1)
      BY <2>3, <2>10, <2>11, <3>1
    <3> QED
      BY <2>9, <3>2
  <2>17. /\ Flow(m2) = Append(Flow(m1), l2) /\ Core(m2, (st + 1) + 1, obs, ph)
         /\ m2.seq = m1.seq /\ m2.dropped = m1.dropped /\ Len(m2.pending) <= Len(m1.pending) + 1
    <3>1. PushedLine(m1, m2, l2, st + 1, obs, ph)
      BY <2>10, <2>12, <2>14, <2>16, PushKeeps, Zenon
    <3> QED
      BY <3>1 DEF PushedLine
  <2>18. Len(m2.pending) <= QueueCap + 1
    <3>1. m1 \in Mems /\ m2 \in Mems
      BY <2>10, <2>17 DEF Core
    <3>2. m1.pending \in Seq(Written) /\ m2.pending \in Seq(Written)
      BY <3>1 DEF Mems
    <3>3. Len(m1.pending) \in Nat /\ Len(m2.pending) \in Nat
      BY <3>2
    <3> QED
      BY <1>1, <1>3, <1>6, <2>3, <2>10, <2>17, <3>3
  <2>19. m.seq <= m2.seq
    BY <1>1, <2>3, <2>10, <2>17
  <2>20. Below(Flow(m2), st + 2, boots, rec.last + 1)
    <3>1. Flow(m2)[Len(Flow(m2))] = l2
      BY <2>11, <2>15, <2>17, AppendShape
    <3>2. rec.last < rec.last + 1
      BY <1>2
    <3> QED
      BY <2>15, <3>1, <3>2 DEF Below
  <2>21. \A hand : Told(Flow(m2), hand, m2.dropped, boots, obs)
    <3> DEFINE i == Len(Flow(m)) + 1
    <3>1. i \in DOMAIN Flow(m1) /\ Flow(m1)[i] = l1
      <4>1. i \in DOMAIN Append(Flow(m), l1) /\ Append(Flow(m), l1)[i] = l1
        <5>1. DOMAIN Append(Flow(m), l1) = 1 .. Len(Flow(m)) + 1 /\ Append(Flow(m), l1)[Len(Flow(m)) + 1] = l1
          BY <1>4, <2>7, AppendShape
        <5> QED
          BY <1>4, <5>1
      <4> QED
        BY <2>11, <4>1
    <3>2. i \in DOMAIN Flow(m2) /\ Flow(m2)[i] = l1
      BY <2>11, <2>15, <2>17, <3>1, AppendShape
    <3>3. IsRecord(l1)
      BY <2>7, TapAssumption DEF IsRecord
    <3> HIDE DEF i
    <3> QED
      BY <2>6, <3>2, <3>3 DEF Told
  <2>22. t.m = m2 /\ t.stamp = st + 2 /\ t = [m |-> t.m, stamp |-> t.stamp]
    BY <2>1
  <2> QED
    BY <2>13, <2>17, <2>18, <2>19, <2>20, <2>21, <2>22 DEF Taken
<1>7. CASE ~(Len(m.pending) >= QueueCap) /\ ~(m.dropped > 0)
  <2> DEFINE n == ChainPush(m, rec, st + 1, 0)
             l == Line(rec, st + 1, m.last, 0)
  <2>1. t = [m |-> n, stamp |-> st + 1]
    BY <1>1, <1>7 DEF AppendRec
  <2>2. /\ l \in Written /\ l.last = rec.last /\ l.first = rec.first /\ l.boot = boots
        /\ l.kind = rec.kind /\ l.prev = st
    <3>1. rec.kind \in Kinds \cup {"meta", "marker", "shutdown"} /\ rec.repeat \in Nat
      BY DEF RecordOK
    <3>2. m.last \in Nat /\ st + 1 \in Nat
      BY <1>1
    <3> QED
      BY <1>1, <1>2, <3>1, <3>2 DEF Line, Written
  <2>3. l = Line(rec, st + 1, m.last, 0) /\ n = ChainPush(m, rec, st + 1, 0) /\ 0 \in Nat
    OBVIOUS
  <2> HIDE DEF l, n
  <2>4. ~LateFrames => (Sound(Append(Flow(m), l), Len(Flow(m)) + 1)
                            => Accounts(Append(Flow(m), l), obs, Len(Flow(m)) + 1))
    <3> SUFFICES ASSUME ~LateFrames, Sound(Append(Flow(m), l), Len(Flow(m)) + 1)
                 PROVE  Accounts(Append(Flow(m), l), obs, Len(Flow(m)) + 1)
      OBVIOUS
    <3>1. AllAccounted(Flow(m), obs)
      BY DEF Core
    <3>2. Below(Flow(m), l.prev, l.boot, l.first)
      BY <2>2
    <3>3. l.first # 0 /\ l.kind # "marker"
      BY <1>2, <2>2
    <3> QED
      BY <1>4, <2>2, <3>1, <3>2, <3>3, JoinedAccounts
  <2>5. /\ Flow(n) = Append(Flow(m), l) /\ Core(n, st + 1, obs, ph)
        /\ n.seq = m.seq /\ n.dropped = m.dropped /\ Len(n.pending) <= Len(m.pending) + 1
    <3>1. PushedLine(m, n, l, st, obs, ph)
      BY <2>3, <2>4, PushKeeps, Zenon
    <3> QED
      BY <3>1 DEF PushedLine
  <2>6. Len(n.pending) <= QueueCap + 1
    <3>1. Len(n.pending) \in Nat
      BY <2>5 DEF Core, Mems
    <3> QED
      BY <1>1, <1>3, <1>7, <2>5, <3>1
  <2>7. Below(Flow(n), st + 1, boots, rec.last + 1)
    <3>1. Flow(n)[Len(Flow(n))] = l
      BY <1>4, <2>2, <2>5, AppendShape
    <3>2. rec.last < rec.last + 1
      BY <1>2
    <3> QED
      BY <2>2, <3>1, <3>2 DEF Below
  <2>8. ASSUME NEW hand, Told(Flow(m), hand \cup {rec}, m.dropped, boots, obs)
        PROVE  Told(Flow(n), hand, n.dropped, boots, obs)
    <3>1. Told(Flow(n), hand \cup {rec}, n.dropped, boots, obs)
      BY <1>4, <2>2, <2>5, <2>8, AppendKeepsTold
    <3>2. Len(Flow(m)) + 1 \in DOMAIN Flow(n) /\ Flow(n)[Len(Flow(m)) + 1] = l
      <4>1. DOMAIN Append(Flow(m), l) = 1 .. Len(Flow(m)) + 1 /\ Append(Flow(m), l)[Len(Flow(m)) + 1] = l
        BY <1>4, <2>2, AppendShape
      <4> QED
        BY <1>4, <2>5, <4>1
    <3>3. IsRecord(l)
      BY <2>2, TapAssumption DEF IsRecord
    <3>4. \A f \in obs : (f[1] = boots /\ rec.first <= f[2] /\ f[2] <= rec.last) => Covers(l, boots, f[2])
      BY <2>2 DEF Covers
    <3> QED
      BY <3>1, <3>2, <3>3, <3>4 DEF Told
  <2>9. t.m = n /\ t.stamp = st + 1 /\ t = [m |-> t.m, stamp |-> t.stamp]
    BY <2>1
  <2>10. \A hand : Told(Flow(m), hand \cup {rec}, m.dropped, boots, obs)
                      => Told(Flow(t.m), hand, t.m.dropped, boots, obs)
    BY <2>8, <2>9
  <2>11. m.seq <= n.seq
    BY <1>1, <2>5
  <2> QED
    BY <2>5, <2>6, <2>7, <2>9, <2>10, <2>11 DEF Taken
<1> QED
  BY <1>5, <1>6, <1>7 DEF Taken

-----------------------------------------------------------------------------
(* A process between two callbacks                                         *)

Quiet(m, st, w, obs, ph) ==
    /\ Core(m, st, obs, ph) /\ Len(m.pending) <= QueueCap + 1
    /\ w \in Windows /\ obs \subseteq Nat \X Nat
    /\ Below(Flow(m), st, boots, m.seq + 1)
    /\ w # NoWindow => Below(Flow(m), st, boots, w.first)
    /\ Told(Flow(m), AtHand(w), m.dropped, boots, obs)
    /\ WindowOK(w, boots, m.seq, obs) /\ NumbersOK(boots, obs, ph, m.seq)

LEMMA BelowLater ==
  ASSUME NEW m, NEW st, NEW obs, NEW ph, Core(m, st, obs, ph), tapFile \in Seq(TapLines),
         NEW x \in Nat, NEW y \in Nat, x <= y, Below(Flow(m), st, boots, x)
  PROVE  Below(Flow(m), st, boots, y)
<1>1. m \in Mems
  BY DEF Core
<1>2. Flow(m) \in Seq(TapLines)
  BY <1>1, QueueTypes
<1>3. SUFFICES ASSUME Flow(m) # <<>>, IsRecord(Flow(m)[Len(Flow(m))]),
                      Flow(m)[Len(Flow(m))].hash = st
               PROVE  /\ Flow(m)[Len(Flow(m))].boot = boots
                      /\ Flow(m)[Len(Flow(m))].kind # "marker"
                      /\ Flow(m)[Len(Flow(m))].last < y
  BY DEF Below
<1>4. Flow(m)[Len(Flow(m))] \in Written
  BY <1>2, <1>3 DEF TapLines, IsRecord
<1>5. Flow(m)[Len(Flow(m))].last \in Nat
  BY <1>4 DEF Written
<1> QED
  BY <1>3, <1>5 DEF Below

LEMMA CountedOne ==
  ASSUME NEW n \in Nat, NEW b, NEW obs
  PROVE  Counted(n, n, b, obs \cup {<<b, n>>}) = 1
<1>1. {x \in n .. n : <<b, x>> \in obs \cup {<<b, n>>}} = {n}
  OBVIOUS
<1>2. Cardinality({n}) = 1
  BY FS_Singleton
<1> QED
  BY <1>1, <1>2 DEF Counted

LEMMA CountedNext ==
  ASSUME NEW first \in Nat, NEW last \in Nat, NEW n \in Nat, first <= last, last < n, NEW b, NEW obs,
         obs \subseteq Nat \X Nat, \A f \in obs : f[1] = b => f[2] <= last
  PROVE  Counted(first, n, b, obs \cup {<<b, n>>}) = Counted(first, last, b, obs) + 1
<1> DEFINE S == {x \in first .. last : <<b, x>> \in obs}
           T == {x \in first .. n : <<b, x>> \in obs \cup {<<b, n>>}}
<1>1. T = S \cup {n}
  <2>1. ASSUME NEW x \in T PROVE x \in S \cup {n}
    <3>1. CASE x = n
      BY <3>1
    <3>2. CASE x # n
      <4>1. <<b, x>> \in obs
        BY <3>2
      <4>2. x <= last
        BY <4>1
      <4> QED
        BY <4>1, <4>2
    <3> QED
      BY <3>1, <3>2
  <2>2. ASSUME NEW x \in S PROVE x \in T
    OBVIOUS
  <2>3. n \in T
    OBVIOUS
  <2> QED
    BY <2>1, <2>2, <2>3
<1>2. IsFiniteSet(S) /\ n \notin S
  <2>1. IsFiniteSet(first .. last)
    BY FS_Interval
  <2> QED
    <3>1. S \subseteq first .. last /\ n \notin first .. last
      OBVIOUS
    <3> QED
      BY <2>1, <3>1, FS_Subset
<1>3. Cardinality(S \cup {n}) = Cardinality(S) + 1
  BY <1>2, FS_AddElement
<1> QED
  BY <1>1, <1>3 DEF Counted

LEMMA CoreObserves ==
  ASSUME tapFile \in Seq(TapLines), boots \in Nat,
         NEW m, NEW st, NEW obs, NEW ph, Core(m, st, obs, ph), obs \subseteq Nat \X Nat,
         ph # "off", ph = "up" \/ LateFrames,
         NEW n, n = m.seq + 1, NEW o, o = obs \cup {<<boots, n>>},
         NEW k, k = [m EXCEPT !.seq = n]
  PROVE  Core(k, st, o, ph)
<1>1. m \in Mems /\ m.seq \in Nat /\ n \in Nat
  BY DEF Core
<1>2. /\ k \in Mems /\ k.seq = n /\ k.last = m.last /\ k.pending = m.pending
      /\ k.inflight = m.inflight /\ k.dropped = m.dropped
  <2>1. m = [seq |-> m.seq, last |-> m.last, pending |-> m.pending,
             inflight |-> m.inflight, dropped |-> m.dropped]
    BY <1>1 DEF Mems
  <2>2. k = [seq |-> n, last |-> m.last, pending |-> m.pending,
             inflight |-> m.inflight, dropped |-> m.dropped]
    BY <2>1
  <2> QED
    BY <1>1, <2>2 DEF Mems
<1>3. Flow(k) = Flow(m) /\ Queue(k) = Queue(m)
  BY <1>2, SameFlow
<1>4. Flow(m) \in Seq(TapLines)
  BY <1>1, QueueTypes
<1>5. ASSUME NEW i \in DOMAIN Flow(m), IsRecord(Flow(m)[i])
      PROVE  LineOK(Flow(m)[i], boots, o, ph, n, st) /\ (Flow(m)[i].boot = boots => Flow(m)[i].last < n)
  <2> DEFINE l == Flow(m)[i]
  <2>1. LineOK(l, boots, obs, ph, m.seq, st)
    BY <1>5 DEF Core, LinesOK
  <2>2. l \in Written
    BY <1>4, <1>5 DEF TapLines, IsRecord
  <2>3. l.first \in Nat /\ l.last \in Nat
    BY <2>2 DEF Written
  <2>4. l.boot = boots => l.last <= m.seq
    BY <2>1 DEF LineOK
  <2>5. l.boot # boots \/ n \notin l.first .. l.last
    BY <1>1, <2>3, <2>4
  <2>6. Counted(l.first, l.last, l.boot, o) = Counted(l.first, l.last, l.boot, obs)
    <3>1. \A x \in l.first .. l.last : <<l.boot, x>> \in o <=> <<l.boot, x>> \in obs
      BY <2>5
    <3>2. {x \in l.first .. l.last : <<l.boot, x>> \in o} = {x \in l.first .. l.last : <<l.boot, x>> \in obs}
      BY <3>1
    <3> QED
      BY <3>2 DEF Counted
  <2>7. ASSUME ~LateFrames, l.kind = "shutdown", NEW f \in o, f[1] = l.boot PROVE f[2] <= l.last
    <3>1. l.boot # boots
      BY <2>1, <2>7 DEF LineOK
    <3>2. f \in obs
      BY <2>7, <3>1
    <3> QED
      BY <2>1, <2>7, <3>2 DEF LineOK
  <2>8. LineOK(l, boots, o, ph, n, st)
    BY <1>1, <2>1, <2>3, <2>4, <2>6, <2>7 DEF LineOK
  <2> QED
    BY <1>1, <2>3, <2>4, <2>8
<1>6. LinesOK(Flow(m), boots, o, ph, n, st)
  BY <1>5 DEF LinesOK
<1>7. ~LateFrames => AllAccounted(Flow(m), o)
  <2>1. SUFFICES ASSUME ~LateFrames, NEW j \in DOMAIN Flow(m), Sound(Flow(m), j)
                 PROVE  Accounts(Flow(m), o, j)
    BY DEF AllAccounted
  <2>2. Accounts(Flow(m), obs, j)
    BY <2>1 DEF Core, AllAccounted
  <2>3. IsRecord(Flow(m)[j])
    BY <1>4, <2>1 DEF Sound
  <2>4. Flow(m)[j] \in Written
    BY <1>4, <2>3 DEF TapLines, IsRecord
  <2>5. Flow(m)[j].last \in Nat
    BY <2>4 DEF Written
  <2>6. ASSUME NEW f \in o, f[1] = Flow(m)[j].boot, f[2] <= Flow(m)[j].last PROVE f \in obs
    <3>1. Flow(m)[j].boot = boots => Flow(m)[j].last < n
      BY <1>5, <2>3
    <3> QED
      BY <1>1, <2>5, <2>6, <3>1
  <2> QED
    BY <2>2, <2>6 DEF Accounts
<1>8. QueueOK(k, st, boots)
  BY <1>2, <1>3 DEF Core, QueueOK
<1> QED
  BY <1>1, <1>2, <1>3, <1>6, <1>7, <1>8 DEF Core

-----------------------------------------------------------------------------
(* The coalescer's records reach the log                                   *)

\* A record that is to be given to the log, with hand still to come.
Gives(m, st, obs, ph, rec, hand) ==
    Fits(m, st, obs, ph, rec) /\ Told(Flow(m), hand \cup {rec}, m.dropped, boots, obs)

\* What is left when it has been given.
Given(m, obs, ph, rec, hand, t) ==
    /\ Core(t.m, t.stamp, obs, ph) /\ Len(t.m.pending) <= QueueCap + 1
    /\ m.seq <= t.m.seq /\ t.m.seq \in Nat /\ t = [m |-> t.m, stamp |-> t.stamp]
    /\ \A x \in Nat : rec.last < x => Below(Flow(t.m), t.stamp, boots, x)
    /\ Told(Flow(t.m), hand, t.m.dropped, boots, obs)

LEMMA GiveKeeps ==
  ASSUME tapFile \in Seq(TapLines), boots \in Nat,
         NEW m, NEW st, NEW obs, NEW ph, NEW rec, NEW hand, Gives(m, st, obs, ph, rec, hand),
         NEW t, t = AppendRec([m |-> m, stamp |-> st], rec)
  PROVE  Given(m, obs, ph, rec, hand, t)
<1>1. Fits(m, st, obs, ph, rec)
  BY DEF Gives
<1>2. Taken(m, obs, ph, rec, t)
  BY <1>1, AppendRecKeeps, Zenon
<1>3. Told(Flow(t.m), hand, t.m.dropped, boots, obs)
  BY <1>2 DEF Taken, Gives
<1>4. Core(t.m, t.stamp, obs, ph) /\ t.m.seq \in Nat
  BY <1>2 DEF Taken, Core
<1>5. rec.last \in Nat /\ rec.last + 1 \in Nat
  BY <1>1 DEF Fits, RecordOK
<1>6. ASSUME NEW x \in Nat, rec.last < x PROVE Below(Flow(t.m), t.stamp, boots, x)
  <2>1. Below(Flow(t.m), t.stamp, boots, rec.last + 1)
    BY <1>2 DEF Taken
  <2>2. rec.last + 1 <= x
    BY <1>5, <1>6
  <2> QED
    BY <1>4, <1>5, <2>1, <2>2, BelowLater, Zenon
<1> QED
  BY <1>2, <1>3, <1>4, <1>6 DEF Given, Taken

LEMMA GivenQuiet ==
  ASSUME NEW m, NEW obs, NEW ph, NEW rec, NEW w \in Windows, NEW t,
         Given(m, obs, ph, rec, AtHand(w), t), obs \subseteq Nat \X Nat,
         rec.last \in Nat, rec.last <= m.seq, m.seq \in Nat, boots \in Nat,
         w # NoWindow => w.first \in Nat /\ w.last \in Nat /\ rec.last < w.first,
         WindowOK(w, boots, m.seq, obs), NumbersOK(boots, obs, ph, m.seq)
  PROVE  Quiet(t.m, t.stamp, w, obs, ph)
<1>1. m.seq <= t.m.seq /\ t.m.seq \in Nat
  BY DEF Given
<1>2. Below(Flow(t.m), t.stamp, boots, t.m.seq + 1)
  <2>1. t.m.seq + 1 \in Nat /\ rec.last < t.m.seq + 1
    BY <1>1
  <2> QED
    BY <2>1 DEF Given
<1>3. w # NoWindow => Below(Flow(t.m), t.stamp, boots, w.first)
  BY DEF Given
<1>4. WindowOK(w, boots, t.m.seq, obs)
  BY <1>1 DEF WindowOK
<1>5. NumbersOK(boots, obs, ph, t.m.seq)
  <2>1. \A f \in obs : f[1] \in Nat /\ f[2] \in Nat
    OBVIOUS
  <2> QED
    BY <1>1, <2>1 DEF NumbersOK
<1> QED
  BY <1>2, <1>3, <1>4, <1>5 DEF Given, Quiet

\* The record of the open window, when it is closed; o may hold one frame more.
LEMMA WindowGives ==
  ASSUME tapFile \in Seq(TapLines), boots \in Nat,
         NEW m, NEW st, NEW w, NEW obs, NEW ph, Quiet(m, st, w, obs, ph), w # NoWindow,
         NEW k, NEW o, NEW hand, Core(k, st, o, ph), o \subseteq Nat \X Nat,
         k.pending = m.pending, k.inflight = m.inflight, k.dropped = m.dropped, m.seq <= k.seq,
         w.repeat = Counted(w.first, w.last, boots, o),
         \A f \in o : f \in obs \/ \E r \in hand : r.first <= f[2] /\ f[2] <= r.last
  PROVE  Gives(k, st, o, ph, w, hand)
<1>1. Flow(k) = Flow(m)
  BY SameFlow
<1>2. w \in [kind : Reads, first : Nat \ {0}, last : Nat, repeat : Nat]
  BY DEF Quiet, Windows
<1>3. k.seq \in Nat /\ m.seq \in Nat
  BY DEF Quiet, Core
<1>4. RecordOK(w, o, ph, k.seq)
  <2>1. w.first <= w.last /\ w.last <= m.seq
    BY DEF Quiet, WindowOK
  <2>2. w.kind \in Reads /\ w.kind # "shutdown"
    BY <1>2 DEF Reads
  <2>3. w.first \in Nat \ {0} /\ w.last \in Nat /\ w.repeat \in Nat
    BY <1>2
  <2>4. w.last <= k.seq
    BY <1>3, <2>1, <2>3
  <2> QED
    BY <2>1, <2>2, <2>3, <2>4 DEF RecordOK, Kinds
<1>5. w.kind # "marker"
  BY <1>2 DEF Reads
<1>6. Below(Flow(k), st, boots, w.first)
  BY <1>1 DEF Quiet
<1>7. Len(k.pending) <= QueueCap + 1
  BY DEF Quiet
<1>8. Told(Flow(k), hand \cup {w}, k.dropped, boots, o)
  <2>1. Told(Flow(m), {w}, m.dropped, boots, obs)
    BY DEF Quiet, AtHand
  <2>2. ASSUME NEW f \in o, f \notin obs
        PROVE  \E r \in hand \cup {w} : r.first <= f[2] /\ f[2] <= r.last
    BY <2>2
  <2> QED
    BY <1>1, <2>1, <2>2 DEF Told
<1> QED
  BY <1>4, <1>5, <1>6, <1>7, <1>8 DEF Gives, Fits

\* A frame that was just observed is told of when its record is at hand.
LEMMA ToldObserves ==
  ASSUME NEW ls, NEW hand, NEW dropped, NEW obs, NEW n \in Nat, NEW rec,
         rec.first = n, rec.last = n, Told(ls, hand, dropped, boots, obs)
  PROVE  Told(ls, hand \cup {rec}, dropped, boots, obs \cup {<<boots, n>>})
<1>1. ASSUME NEW f \in obs \cup {<<boots, n>>}, f \notin obs
      PROVE  \E r \in hand \cup {rec} : r.first <= f[2] /\ f[2] <= r.last
  <2>1. f[2] = n
    BY <1>1
  <2>2. rec.first <= f[2] /\ f[2] <= rec.last
    BY <2>1
  <2> QED
    BY <2>2
<1> QED
  BY <1>1 DEF Told

-----------------------------------------------------------------------------
(* A frame is observed                                                     *)

LEMMA SinkIs ==
  ASSUME NEW m, NEW r
  PROVE  /\ Sink(m, <<>>) = [m |-> m, stamp |-> stamp]
         /\ Sink(m, <<r>>) = AppendRec([m |-> m, stamp |-> stamp], r)
<1>1. Len(<<>>) # 2 /\ Len(<<r>>) # 2
  OBVIOUS
<1>2. <<r>> # <<>> /\ <<r>>[1] = r
  OBVIOUS
<1> QED
  BY <1>1, <1>2 DEF Sink

LEMMA GrownIs ==
  ASSUME NEW v, v = [kind |-> v.kind, first |-> v.first, last |-> v.last, repeat |-> v.repeat],
         NEW y
  PROVE  [v EXCEPT !.repeat = @ + 1, !.last = y]
            = [kind |-> v.kind, first |-> v.first, last |-> y, repeat |-> v.repeat + 1]
<1>1. PICK x : x = v.repeat + 1
  OBVIOUS
<1>2. [v EXCEPT !.repeat = x] = [kind |-> v.kind, first |-> v.first, last |-> v.last, repeat |-> x]
  OBVIOUS
<1>3. [[kind |-> v.kind, first |-> v.first, last |-> v.last, repeat |-> x] EXCEPT !.last = y]
         = [kind |-> v.kind, first |-> v.first, last |-> y, repeat |-> x]
  OBVIOUS
<1> QED
  BY <1>1, <1>2, <1>3

\* The record of one frame can be given to the log.
LEMMA FrameGives ==
  ASSUME tapFile \in Seq(TapLines), boots \in Nat,
         NEW k, NEW st, NEW o, NEW ph, Core(k, st, o, ph), o \subseteq Nat \X Nat,
         NEW n \in Nat, n = k.seq, n > 0, Len(k.pending) <= QueueCap + 1,
         NEW kind \in Kinds, NEW rec, rec = Plain(kind, n), Counted(n, n, boots, o) = 1,
         Below(Flow(k), st, boots, n), Told(Flow(k), {rec}, k.dropped, boots, o)
  PROVE  Gives(k, st, o, ph, rec, {})
<1>1. rec.kind = kind /\ rec.first = n /\ rec.last = n /\ rec.repeat = 1
  BY DEF Plain
<1>2. RecordOK(rec, o, ph, k.seq)
  BY <1>1 DEF RecordOK, Kinds, Reads
<1>3. rec.kind # "marker"
  BY <1>1 DEF Kinds, Reads
<1>4. {} \cup {rec} = {rec}
  OBVIOUS
<1> QED
  BY <1>1, <1>2, <1>3, <1>4 DEF Gives, Fits

LEMMA Observed ==
  ASSUME tapFile \in Seq(TapLines), boots \in Nat, phase # "off", phase = "up" \/ LateFrames,
         NEW w, Quiet(mem, stamp, w, observed, phase), NEW kind \in Kinds,
         NEW n, n = mem.seq + 1, NEW rec, rec = Plain(kind, n),
         NEW o, o = observed \cup {<<boots, n>>}, NEW k, k = [mem EXCEPT !.seq = n],
         NEW p, p = Pushed(w, rec), NEW s, s = Sink(k, p.out)
  PROVE  Quiet(s.m, s.stamp, p.window, o, phase)
<1>1. /\ Core(mem, stamp, observed, phase) /\ observed \subseteq Nat \X Nat
      /\ Len(mem.pending) <= QueueCap + 1 /\ w \in Windows
      /\ Below(Flow(mem), stamp, boots, n) /\ NumbersOK(boots, observed, phase, mem.seq)
      /\ w # NoWindow => Below(Flow(mem), stamp, boots, w.first)
      /\ Told(Flow(mem), AtHand(w), mem.dropped, boots, observed)
      /\ WindowOK(w, boots, mem.seq, observed)
  BY DEF Quiet
<1>2. /\ mem.seq \in Nat /\ n \in Nat /\ n > 0 /\ mem \in Mems /\ stamp \in Nat
  BY <1>1 DEF Core
<1>3. Core(k, stamp, o, phase)
  BY <1>1, CoreObserves, Zenon
<1>4. /\ k.seq = n /\ k.pending = mem.pending /\ k.inflight = mem.inflight /\ k.dropped = mem.dropped
  BY <1>2 DEF Mems
<1>5. Flow(k) = Flow(mem)
  BY <1>4, SameFlow
<1>6. o \subseteq Nat \X Nat
  BY <1>1, <1>2
<1>7. rec.kind = kind /\ rec.first = n /\ rec.last = n /\ rec.repeat = 1
  BY DEF Plain
<1>8. Counted(n, n, boots, o) = 1
  BY <1>2, CountedOne
<1>9. Told(Flow(k), AtHand(w) \cup {rec}, k.dropped, boots, o)
  <2>1. Told(Flow(k), AtHand(w), k.dropped, boots, observed)
    BY <1>1, <1>4, <1>5
  <2>2. Told(Flow(k), AtHand(w) \cup {rec}, k.dropped, boots, observed \cup {<<boots, n>>})
    BY <1>2, <1>7, <2>1, ToldObserves, Zenon
  <2> QED
    BY <2>2
<1>10. NumbersOK(boots, o, phase, n)
  <2>1. \A f \in observed : f[1] \in Nat /\ f[2] \in Nat
    BY <1>1
  <2> QED
    BY <1>1, <1>2, <2>1 DEF NumbersOK
<1>11. rec \in Windows \/ kind \notin Reads
  BY <1>2, <1>7 DEF Windows, Plain
<1>12. WindowOK(rec, boots, n, o)
  <2>1. \A f \in observed : f[1] = boots => f[2] <= mem.seq /\ f[2] \in Nat
    BY <1>1 DEF NumbersOK
  <2>2. \A f \in o : f[1] = boots => f[2] <= n
    BY <1>2, <2>1
  <2> QED
    BY <1>2, <1>7, <1>8, <2>2 DEF WindowOK
<1>13. WindowOK(NoWindow, boots, n, o) /\ NoWindow \in Windows /\ AtHand(NoWindow) = {}
  BY DEF WindowOK, Windows, AtHand
<1>14. rec # NoWindow /\ AtHand(rec) = {rec}
  BY <1>2, <1>7 DEF NoWindow, AtHand
<1>15. ASSUME w # NoWindow
       PROVE  /\ w.kind \in Reads /\ w.first \in Nat \ {0} /\ w.last \in Nat /\ w.repeat \in Nat
              /\ w.first <= w.last /\ w.last <= mem.seq /\ w.last < n
              /\ w.repeat = Counted(w.first, w.last, boots, o)
              /\ w = [kind |-> w.kind, first |-> w.first, last |-> w.last, repeat |-> w.repeat]
              /\ Gives(k, stamp, o, phase, w, {rec})
              /\ \A f \in observed : f[1] = boots => f[2] <= w.last
  <2>1. /\ w.kind \in Reads /\ w.first \in Nat \ {0} /\ w.last \in Nat /\ w.repeat \in Nat
        /\ w = [kind |-> w.kind, first |-> w.first, last |-> w.last, repeat |-> w.repeat]
    BY <1>1, <1>15 DEF Windows
  <2>2. /\ w.first <= w.last /\ w.last <= mem.seq /\ w.repeat = Counted(w.first, w.last, boots, observed)
        /\ \A f \in observed : f[1] = boots => f[2] <= w.last
    BY <1>1, <1>15 DEF WindowOK
  <2>3. w.last < n /\ n \notin w.first .. w.last
    BY <1>2, <2>1, <2>2
  <2>4. w.repeat = Counted(w.first, w.last, boots, o)
    <3>1. \A x \in w.first .. w.last : <<boots, x>> \in o <=> <<boots, x>> \in observed
      BY <2>3
    <3>2. {x \in w.first .. w.last : <<boots, x>> \in o} = {x \in w.first .. w.last : <<boots, x>> \in observed}
      BY <3>1
    <3> QED
      BY <2>2, <3>2 DEF Counted
  <2>5. \A f \in o : f \in observed \/ \E r \in {rec} : r.first <= f[2] /\ f[2] <= r.last
    BY <1>2, <1>7
  <2>6. mem.seq <= k.seq
    BY <1>2, <1>4
  <2>7. Gives(k, stamp, o, phase, w, {rec})
    BY <1>3, <1>4, <1>6, <1>15, <2>4, <2>5, <2>6, WindowGives, Zenon
  <2> QED
    BY <2>1, <2>2, <2>3, <2>4, <2>7
<1>16. CASE kind \notin Reads
  <2>1. p.window = NoWindow /\ p.out = Append(Flushed(w), rec)
    BY <1>7, <1>16 DEF Pushed
  <2>2. CASE w = NoWindow
    <3>1. p.out = <<rec>>
      BY <2>1, <2>2 DEF Flushed
    <3>2. s = AppendRec([m |-> k, stamp |-> stamp], rec)
      BY <3>1, SinkIs
    <3>3. AtHand(w) \cup {rec} = {rec}
      BY <2>2 DEF AtHand
    <3>4. Told(Flow(k), {rec}, k.dropped, boots, o)
      BY <1>9, <3>3
    <3>5. Len(k.pending) <= QueueCap + 1 /\ n = k.seq /\ Below(Flow(k), stamp, boots, n)
      BY <1>1, <1>4, <1>5
    <3>6. Gives(k, stamp, o, phase, rec, {})
      BY <1>2, <1>3, <1>6, <1>8, <3>4, <3>5, FrameGives, Zenon
    <3>7. Given(k, o, phase, rec, {}, s)
      BY <3>2, <3>6, GiveKeeps, Zenon
    <3>8. Given(k, o, phase, rec, AtHand(NoWindow), s)
      BY <1>13, <3>7
    <3>9. rec.last \in Nat /\ rec.last <= k.seq /\ k.seq \in Nat
      BY <1>2, <1>4, <1>7
    <3>10. Quiet(s.m, s.stamp, NoWindow, o, phase)
      BY <1>4, <1>6, <1>10, <1>13, <3>8, <3>9, GivenQuiet
    <3> QED
      BY <2>1, <3>10
  <2>3. CASE w # NoWindow
    <3> DEFINE one == AppendRec([m |-> k, stamp |-> stamp], w)
    <3>1. p.out = <<w, rec>>
      BY <2>1, <2>3 DEF Flushed
    <3>2. s = AppendRec(one, rec)
      <4>1. PICK out : out = p.out
        OBVIOUS
      <4>2. out = <<w, rec>>
        BY <3>1, <4>1
      <4>3. out # <<>> /\ Len(out) = 2 /\ out[1] = w /\ out[2] = rec
        BY <4>2
      <4>4. Sink(k, out) = AppendRec(one, rec)
        BY <4>3 DEF Sink
      <4> QED
        BY <4>1, <4>4
    <3>3. Given(k, o, phase, w, {rec}, one)
      BY <1>15, <2>3, GiveKeeps, Zenon
    <3> HIDE DEF one
    <3>4. /\ one = [m |-> one.m, stamp |-> one.stamp] /\ Core(one.m, one.stamp, o, phase)
          /\ Len(one.m.pending) <= QueueCap + 1 /\ n <= one.m.seq /\ one.m.seq \in Nat
          /\ Below(Flow(one.m), one.stamp, boots, n)
          /\ Told(Flow(one.m), {rec}, one.m.dropped, boots, o)
      BY <1>2, <1>4, <1>15, <2>3, <3>3 DEF Given
    <3>5. Gives(one.m, one.stamp, o, phase, rec, {})
      <4>1. RecordOK(rec, o, phase, one.m.seq)
        BY <1>2, <1>7, <1>8, <3>4 DEF RecordOK, Kinds, Reads
      <4>2. rec.kind # "marker" /\ {} \cup {rec} = {rec}
        BY <1>7 DEF Kinds, Reads
      <4> QED
        BY <1>6, <1>7, <3>4, <4>1, <4>2 DEF Gives, Fits
    <3>6. s = AppendRec([m |-> one.m, stamp |-> one.stamp], rec)
      BY <3>2, <3>4
    <3>7. Given(one.m, o, phase, rec, {}, s)
      BY <3>5, <3>6, GiveKeeps, Zenon
    <3>8. Given(one.m, o, phase, rec, AtHand(NoWindow), s)
      BY <1>13, <3>7
    <3>9. rec.last \in Nat /\ rec.last <= one.m.seq /\ one.m.seq \in Nat
      BY <1>2, <1>7, <3>4
    <3>10. NumbersOK(boots, o, phase, one.m.seq) /\ WindowOK(NoWindow, boots, one.m.seq, o)
      <4>1. \A f \in o : f[1] \in Nat /\ f[2] \in Nat
        BY <1>6
      <4> QED
        BY <1>2, <1>10, <3>4, <4>1 DEF NumbersOK, WindowOK
    <3>11. Quiet(s.m, s.stamp, NoWindow, o, phase)
      BY <1>6, <1>13, <3>8, <3>9, <3>10, GivenQuiet
    <3> QED
      BY <2>1, <3>11
  <2> QED
    BY <2>2, <2>3
<1>17. CASE kind \in Reads /\ w.kind # kind
  <2>1. p.window = rec /\ p.out = Flushed(w)
    BY <1>7, <1>17 DEF Pushed
  <2>2. CASE w = NoWindow
    <3>1. s.m = k /\ s.stamp = stamp
      <4>1. p.out = <<>>
        BY <2>1, <2>2 DEF Flushed
      <4>2. s = [m |-> k, stamp |-> stamp]
        BY <4>1, SinkIs, Zenon
      <4> QED
        BY <4>2
    <3>2. AtHand(w) \cup {rec} = AtHand(rec)
      BY <1>14, <2>2 DEF AtHand
    <3>3. Told(Flow(k), AtHand(rec), k.dropped, boots, o)
      BY <1>9, <3>2
    <3>4. Below(Flow(k), stamp, boots, k.seq + 1)
      <4>1. n + 1 \in Nat /\ n <= n + 1 /\ k.seq + 1 = n + 1
        BY <1>2, <1>4
      <4>2. Below(Flow(k), stamp, boots, n)
        BY <1>1, <1>5
      <4>3. Below(Flow(k), stamp, boots, n + 1)
        BY <1>2, <1>3, <4>1, <4>2, BelowLater, Zenon
      <4> QED
        BY <4>1, <4>3
    <3>5. Quiet(k, stamp, rec, o, phase)
      BY <1>1, <1>3, <1>4, <1>5, <1>6, <1>7, <1>10, <1>11, <1>12, <1>17, <3>3, <3>4
         DEF Quiet
    <3> QED
      BY <2>1, <3>1, <3>5
  <2>3. CASE w # NoWindow
    <3>1. p.out = <<w>>
      BY <2>1, <2>3 DEF Flushed
    <3>2. s = AppendRec([m |-> k, stamp |-> stamp], w)
      BY <3>1, SinkIs
    <3>3. Given(k, o, phase, w, {rec}, s)
      BY <1>15, <2>3, <3>2, GiveKeeps, Zenon
    <3>4. Given(k, o, phase, w, AtHand(rec), s)
      BY <1>14, <3>3
    <3>5. w.last \in Nat /\ w.last <= k.seq /\ k.seq \in Nat /\ rec.first \in Nat /\ rec.last \in Nat
          /\ w.last < rec.first
      BY <1>2, <1>4, <1>7, <1>15, <2>3
    <3>6. rec \in Windows
      BY <1>11, <1>17
    <3>7. Quiet(s.m, s.stamp, rec, o, phase)
      BY <1>4, <1>6, <1>10, <1>12, <3>4, <3>5, <3>6, GivenQuiet
    <3> QED
      BY <2>1, <3>7
  <2> QED
    BY <2>2, <2>3
<1>18. CASE kind \in Reads /\ w.kind = kind
  <2> DEFINE grown == [kind |-> w.kind, first |-> w.first, last |-> n, repeat |-> w.repeat + 1]
  <2>1. w # NoWindow
    BY <1>18 DEF NoWindow, Reads
  <2>2. grown = [w EXCEPT !.repeat = @ + 1, !.last = rec.last]
    <3>1. w = [kind |-> w.kind, first |-> w.first, last |-> w.last, repeat |-> w.repeat]
      BY <1>15, <2>1
    <3>2. [w EXCEPT !.repeat = @ + 1, !.last = n] = grown
      BY <3>1, GrownIs, Zenon
    <3> QED
      BY <1>7, <3>2
  <2>3. IF grown.repeat >= RepeatCap THEN p = [window |-> NoWindow, out |-> <<grown>>]
        ELSE p = [window |-> grown, out |-> <<>>]
    BY <1>7, <1>18, <2>2 DEF Pushed
  <2>4. grown \in Windows /\ grown # NoWindow /\ AtHand(grown) = {grown}
    BY <1>2, <1>15, <2>1 DEF Windows, NoWindow, AtHand
  <2>5. /\ grown.first = w.first /\ grown.last = n /\ grown.kind = kind
        /\ grown.repeat = Counted(w.first, n, boots, o) /\ grown.repeat \in Nat
    <3>1. /\ w.first \in Nat /\ w.last \in Nat /\ w.first <= w.last /\ w.last < n
          /\ \A f \in observed : f[1] = boots => f[2] <= w.last
      BY <1>15, <2>1
    <3>2. Counted(w.first, n, boots, observed \cup {<<boots, n>>})
             = Counted(w.first, w.last, boots, observed) + 1
      BY <1>1, <1>2, <3>1, CountedNext
    <3> QED
      BY <1>1, <1>15, <1>18, <2>1, <3>2 DEF WindowOK
  <2>6. Told(Flow(k), {} \cup {grown}, k.dropped, boots, o)
    <3>1. Told(Flow(k), {w, rec}, k.dropped, boots, o)
      BY <1>9, <2>1 DEF AtHand
    <3>2. ASSUME NEW f \in o, NEW r \in {w, rec}, r.first <= f[2], f[2] <= r.last
          PROVE  grown.first <= f[2] /\ f[2] <= grown.last
      <4>1. f[2] \in Nat
        BY <1>6
      <4> QED
        BY <1>2, <1>7, <1>15, <2>1, <2>5, <3>2, <4>1
    <3>3. \A f \in o : (\E r \in {w, rec} : r.first <= f[2] /\ f[2] <= r.last)
                          => \E r \in {} \cup {grown} : r.first <= f[2] /\ f[2] <= r.last
      BY <3>2
    <3> HIDE DEF grown
    <3> QED
      BY <3>1, <3>3 DEF Told
  <2>7. Below(Flow(k), stamp, boots, grown.first)
    BY <1>1, <1>5, <2>1, <2>5
  <2>8. \A f \in o : f[1] = boots => f[2] <= n
    BY <1>12, <1>14, <1>7 DEF WindowOK
  <2>9. grown.first <= grown.last
    BY <1>2, <1>15, <2>1, <2>5
  <2> HIDE DEF grown
  <2>10. CASE grown.repeat >= RepeatCap
    <3>1. p.window = NoWindow /\ p.out = <<grown>>
      BY <2>3, <2>10
    <3>2. s = AppendRec([m |-> k, stamp |-> stamp], grown)
      BY <3>1, SinkIs
    <3>3. Gives(k, stamp, o, phase, grown, {})
      <4>1. RecordOK(grown, o, phase, k.seq)
        <5>1. grown.kind \in Kinds /\ grown.kind # "shutdown"
          BY <1>18, <2>5 DEF Kinds, Reads
        <5>2. grown.first \in Nat \ {0} /\ grown.last \in Nat /\ grown.last <= k.seq
          BY <1>2, <1>4, <1>15, <2>1, <2>5
        <5> QED
          BY <2>5, <2>9, <5>1, <5>2 DEF RecordOK
      <4>2. grown.kind # "marker" /\ Len(k.pending) <= QueueCap + 1
        BY <1>1, <1>4, <1>18, <2>5 DEF Reads
      <4> QED
        BY <1>3, <1>6, <2>6, <2>7, <4>1, <4>2 DEF Gives, Fits
    <3>4. Given(k, o, phase, grown, {}, s)
      BY <3>2, <3>3, GiveKeeps, Zenon
    <3>5. Given(k, o, phase, grown, AtHand(NoWindow), s)
      BY <1>13, <3>4
    <3>6. grown.last \in Nat /\ grown.last <= k.seq /\ k.seq \in Nat
      BY <1>2, <1>4, <2>5
    <3>7. Quiet(s.m, s.stamp, NoWindow, o, phase)
      BY <1>4, <1>6, <1>10, <1>13, <3>5, <3>6, GivenQuiet
    <3> QED
      BY <3>1, <3>7
  <2>11. CASE ~(grown.repeat >= RepeatCap)
    <3>1. p.window = grown /\ p.out = <<>>
      BY <2>3, <2>11
    <3>2. s.m = k /\ s.stamp = stamp
      <4>1. s = [m |-> k, stamp |-> stamp]
        BY <3>1, SinkIs, Zenon
      <4> QED
        BY <4>1
    <3>3. Told(Flow(k), AtHand(grown), k.dropped, boots, o)
      <4>1. {} \cup {grown} = AtHand(grown)
        BY <2>4
      <4> QED
        BY <2>6, <4>1
    <3>4. Below(Flow(k), stamp, boots, k.seq + 1)
      <4>1. n + 1 \in Nat /\ n <= n + 1 /\ k.seq + 1 = n + 1
        BY <1>2, <1>4
      <4>2. Below(Flow(k), stamp, boots, n)
        BY <1>1, <1>5
      <4>3. Below(Flow(k), stamp, boots, n + 1)
        BY <1>2, <1>3, <4>1, <4>2, BelowLater, Zenon
      <4> QED
        BY <4>1, <4>3
    <3>5. WindowOK(grown, boots, k.seq, o)
      BY <1>2, <1>4, <2>5, <2>8, <2>9 DEF WindowOK
    <3>6. Quiet(k, stamp, grown, o, phase)
      BY <1>1, <1>3, <1>4, <1>6, <1>10, <2>4, <2>7, <3>3, <3>4, <3>5 DEF Quiet
    <3> QED
      BY <3>1, <3>2, <3>6
  <2> QED
    BY <2>10, <2>11
<1> QED
  BY <1>16, <1>17, <1>18

-----------------------------------------------------------------------------
(* Steps of a process that leave the file as it is                         *)

LEMMA InvQuiet ==
  ASSUME TapInv, phase # "off"
  PROVE  /\ tapFile \in Seq(TapLines) /\ closed \in {"yes", "no"} /\ boots \in Nat /\ TornOK
         /\ Quiet(mem, stamp, window, observed, phase)
<1>1. /\ tapFile \in Seq(TapLines) /\ closed \in {"yes", "no"} /\ boots \in Nat /\ TornOK
      /\ mem \in Mems /\ window \in Windows /\ observed \subseteq Nat \X Nat /\ stamp \in Nat
      /\ mem.seq \in Nat /\ mem.last = stamp
  BY DEF TapInv, TapTypeOK
<1>2. Core(mem, stamp, observed, phase)
  BY <1>1 DEF TapInv, Running, Core
<1> QED
  BY <1>1, <1>2 DEF TapInv, Running, Quiet

LEMMA QuietInv ==
  ASSUME tapFile \in Seq(TapLines), closed \in {"yes", "no"}, boots \in Nat, TornOK,
         NEW m, NEW st, NEW w, NEW obs, NEW ph, Quiet(m, st, w, obs, ph), ph \in {"up", "ending"},
         mem' = m, stamp' = st, window' = w, observed' = obs, phase' = ph,
         UNCHANGED <<tapFile, closed, boots>>
  PROVE  TapInv'
<1>1. tapFile' = tapFile /\ closed' = closed /\ boots' = boots
  OBVIOUS
<1>2. Queue(mem)' = Queue(m) /\ Flow(mem)' = Flow(m)
  BY <1>1 DEF Queue, Flow
<1>3. /\ m \in Mems /\ m.seq \in Nat /\ m.last = st /\ st \in Nat /\ QueueOK(m, st, boots)
      /\ LinesOK(Flow(m), boots, obs, ph, m.seq, st)
      /\ Ordered(Flow(m)) /\ Rising(Flow(m), boots) /\ Latest(Flow(m), st)
      /\ ~LateFrames => AllAccounted(Flow(m), obs)
  BY DEF Quiet, Core
<1>4. /\ Len(m.pending) <= QueueCap + 1 /\ w \in Windows /\ obs \subseteq Nat \X Nat
      /\ Below(Flow(m), st, boots, m.seq + 1)
      /\ w # NoWindow => Below(Flow(m), st, boots, w.first)
      /\ Told(Flow(m), AtHand(w), m.dropped, boots, obs)
      /\ WindowOK(w, boots, m.seq, obs) /\ NumbersOK(boots, obs, ph, m.seq)
  BY DEF Quiet
<1>5. TapTypeOK'
  BY <1>1, <1>3, <1>4 DEF TapTypeOK
<1>6. TornOK'
  BY <1>1 DEF TornOK
<1>7. QueueOK(mem, stamp, boots)' /\ (Len(mem.pending) <= QueueCap + 1)'
  BY <1>1, <1>2, <1>3, <1>4 DEF QueueOK
<1>8. LinesOK(Flow(mem), boots, observed, phase, mem.seq, stamp)' /\ Ordered(Flow(mem))'
  BY <1>1, <1>2, <1>3 DEF LinesOK, LineOK, Ordered
<1>9. Running'
  <2>1. Rising(Flow(mem), boots)' /\ Latest(Flow(mem), stamp)'
    BY <1>1, <1>2, <1>3 DEF Rising, Latest
  <2>2. Below(Flow(mem), stamp, boots, mem.seq + 1)'
        /\ (window # NoWindow => Below(Flow(mem), stamp, boots, window.first))'
    BY <1>1, <1>2, <1>4 DEF Below
  <2>3. Told(Flow(mem), AtHand(window), mem.dropped, boots, observed)'
    BY <1>1, <1>2, <1>4 DEF Told, AtHand
  <2> QED
    BY <2>1, <2>2, <2>3 DEF Running
<1>10. (~LateFrames => AllAccounted(Flow(mem), observed))'
  BY <1>2, <1>3 DEF AllAccounted, Sound, Accounts
<1>11. WindowOK(window, boots, mem.seq, observed)' /\ NumbersOK(boots, observed, phase, mem.seq)'
  BY <1>1, <1>4 DEF WindowOK, NumbersOK
<1> QED
  BY <1>5, <1>6, <1>7, <1>8, <1>9, <1>10, <1>11 DEF TapInv

LEMMA ObserveKeeps == ASSUME TapInv, NEW kind \in Kinds, Observe(kind) PROVE TapInv'
<1>1. phase # "off" /\ (phase = "up" \/ LateFrames) /\ phase \in {"up", "ending"}
  BY DEF Observe
<1>2. /\ tapFile \in Seq(TapLines) /\ closed \in {"yes", "no"} /\ boots \in Nat /\ TornOK
      /\ Quiet(mem, stamp, window, observed, phase)
  BY <1>1, InvQuiet
<1>3. PICK n, rec, o, k : /\ n = mem.seq + 1 /\ rec = Plain(kind, n)
                          /\ o = observed \cup {<<boots, n>>} /\ k = [mem EXCEPT !.seq = n]
  OBVIOUS
<1>4. PICK p : p = Pushed(window, rec)
  OBVIOUS
<1>5. PICK s : s = Sink(k, p.out)
  OBVIOUS
<1>6. /\ mem' = s.m /\ stamp' = s.stamp /\ window' = p.window /\ observed' = o
      /\ UNCHANGED <<tapFile, closed, phase, boots>>
  BY <1>3, <1>4, <1>5 DEF Observe
<1>7. PICK v : v = window
  OBVIOUS
<1>8. Quiet(mem, stamp, v, observed, phase) /\ p = Pushed(v, rec)
  BY <1>2, <1>4, <1>7
<1>9. Quiet(s.m, s.stamp, p.window, o, phase)
  BY <1>1, <1>2, <1>3, <1>5, <1>8, Observed, Zenon
<1>10. phase' = phase /\ UNCHANGED <<tapFile, closed, boots>>
  BY <1>6
<1> QED
  BY <1>1, <1>2, <1>6, <1>9, <1>10, QuietInv

-----------------------------------------------------------------------------
(* The child exits                                                         *)

LEMMA EndingQuiet ==
  ASSUME NEW m, NEW st, NEW w, NEW obs, Quiet(m, st, w, obs, "up")
  PROVE  Quiet(m, st, w, obs, "ending")
<1>1. LinesOK(Flow(m), boots, obs, "ending", m.seq, st)
  BY DEF Quiet, Core, LinesOK, LineOK
<1>2. NumbersOK(boots, obs, "ending", m.seq)
  BY DEF Quiet, NumbersOK
<1>3. Core(m, st, obs, "ending")
  BY <1>1 DEF Quiet, Core
<1> QED
  BY <1>2, <1>3 DEF Quiet

LEMMA WindowCloses ==
  ASSUME tapFile \in Seq(TapLines), boots \in Nat,
         NEW w, Quiet(mem, stamp, w, observed, "ending"), NEW e, e = Sink(mem, Flushed(w))
  PROVE  Quiet(e.m, e.stamp, NoWindow, observed, "ending") /\ e = [m |-> e.m, stamp |-> e.stamp]
<1>1. CASE w = NoWindow
  <2>1. e = [m |-> mem, stamp |-> stamp]
    BY <1>1, SinkIs, Zenon DEF Flushed
  <2> QED
    BY <1>1, <2>1
<1>2. CASE w # NoWindow
  <2>1. e = AppendRec([m |-> mem, stamp |-> stamp], w)
    <3>1. Flushed(w) = <<w>>
      BY <1>2 DEF Flushed
    <3> QED
      BY <3>1, SinkIs
  <2>2. /\ Core(mem, stamp, observed, "ending") /\ observed \subseteq Nat \X Nat
        /\ w.repeat = Counted(w.first, w.last, boots, observed)
        /\ w.first <= w.last /\ w.last <= mem.seq /\ w \in Windows
        /\ NumbersOK(boots, observed, "ending", mem.seq)
    BY <1>2 DEF Quiet, WindowOK
  <2>3. mem.seq \in Nat /\ mem.seq <= mem.seq
    BY <2>2 DEF Core
  <2>4. \A f \in observed : f \in observed \/ \E r \in {} : r.first <= f[2] /\ f[2] <= r.last
    OBVIOUS
  <2>5. Gives(mem, stamp, observed, "ending", w, {})
    BY <1>2, <2>2, <2>3, <2>4, WindowGives, Zenon
  <2>6. Given(mem, observed, "ending", w, {}, e)
    BY <2>1, <2>5, GiveKeeps, Zenon
  <2>7. AtHand(NoWindow) = {} /\ NoWindow \in Windows /\ WindowOK(NoWindow, boots, mem.seq, observed)
    BY DEF AtHand, Windows, WindowOK
  <2>8. Given(mem, observed, "ending", w, AtHand(NoWindow), e)
    BY <2>6, <2>7
  <2>9. w.last \in Nat
    BY <1>2, <2>2 DEF Windows
  <2>10. Quiet(e.m, e.stamp, NoWindow, observed, "ending")
    BY <2>2, <2>3, <2>7, <2>8, <2>9, GivenQuiet
  <2> QED
    BY <2>6, <2>10 DEF Given
<1> QED
  BY <1>1, <1>2

LEMMA ShutdownKeeps ==
  ASSUME tapFile \in Seq(TapLines), boots \in Nat,
         NEW m, NEW st, NEW obs, Quiet(m, st, NoWindow, obs, "ending"),
         NEW n, n = m.seq + 1, NEW k, k = [m EXCEPT !.seq = n], NEW rec, rec = Plain("shutdown", n),
         NEW s, s = AppendRec([m |-> k, stamp |-> st], rec)
  PROVE  Quiet(s.m, s.stamp, NoWindow, obs, "ending")
<1>1. /\ Core(m, st, obs, "ending") /\ obs \subseteq Nat \X Nat /\ Len(m.pending) <= QueueCap + 1
      /\ Below(Flow(m), st, boots, n) /\ NumbersOK(boots, obs, "ending", m.seq)
      /\ Told(Flow(m), AtHand(NoWindow), m.dropped, boots, obs)
  BY DEF Quiet
<1>2. m \in Mems /\ m.seq \in Nat /\ n \in Nat /\ n > 0 /\ m.seq <= n /\ m.dropped \in Nat
  BY <1>1 DEF Core, Mems
<1>3. PICK d : d = m.dropped
  OBVIOUS
<1>4. PICK g : g = [m EXCEPT !.seq = n, !.dropped = d]
  OBVIOUS
<1>5. k = g /\ k.seq = n /\ k.pending = m.pending /\ k.inflight = m.inflight /\ k.dropped = m.dropped
  <2>1. m = [seq |-> m.seq, last |-> m.last, pending |-> m.pending,
             inflight |-> m.inflight, dropped |-> m.dropped]
    BY <1>2 DEF Mems
  <2>2. k = [seq |-> n, last |-> m.last, pending |-> m.pending,
             inflight |-> m.inflight, dropped |-> m.dropped]
    BY <2>1
  <2>3. g = [seq |-> n, last |-> m.last, pending |-> m.pending,
             inflight |-> m.inflight, dropped |-> d]
    BY <1>4, <2>1
  <2> QED
    BY <1>3, <2>2, <2>3
<1>6. Core(g, st, obs, "ending") /\ Core(k, st, obs, "ending")
  <2>1. d \in Nat
    BY <1>2, <1>3
  <2>2. Core(g, st, obs, "ending")
    BY <1>1, <1>2, <1>4, <2>1, CoreLater, Zenon
  <2> QED
    BY <1>5, <2>2
<1>7. Flow(k) = Flow(m)
  BY <1>5, SameFlow
<1>8. rec.kind = "shutdown" /\ rec.first = n /\ rec.last = n /\ rec.repeat = 1
  BY DEF Plain
<1>9. \A f \in obs : f[1] = boots => f[2] <= n
  <2>1. \A f \in obs : f[2] \in Nat
    BY <1>1
  <2> QED
    BY <1>1, <1>2, <2>1 DEF NumbersOK
<1>10. RecordOK(rec, obs, "ending", k.seq)
  BY <1>2, <1>5, <1>8, <1>9 DEF RecordOK, Kinds, Reads
<1>11. AtHand(NoWindow) = {} /\ NoWindow \in Windows /\ WindowOK(NoWindow, boots, n, obs)
  BY DEF AtHand, Windows, WindowOK
<1>12. Told(Flow(k), {} \cup {rec}, k.dropped, boots, obs)
  BY <1>1, <1>5, <1>7, <1>11 DEF Told
<1>13. Gives(k, st, obs, "ending", rec, {})
  BY <1>1, <1>5, <1>6, <1>7, <1>8, <1>10, <1>12 DEF Gives, Fits
<1>14. Given(k, obs, "ending", rec, {}, s)
  BY <1>13, GiveKeeps, Zenon
<1>15. Given(k, obs, "ending", rec, AtHand(NoWindow), s)
  BY <1>11, <1>14
<1>16. NumbersOK(boots, obs, "ending", n)
  BY <1>1, <1>9 DEF NumbersOK
<1>17. rec.last \in Nat /\ rec.last <= k.seq /\ k.seq \in Nat
  BY <1>2, <1>5, <1>8
<1> QED
  BY <1>1, <1>5, <1>11, <1>15, <1>16, <1>17, GivenQuiet

LEMMA ChildExitsKeeps == ASSUME TapInv, ChildExits PROVE TapInv'
<1>1. phase = "up"
  BY DEF ChildExits
<1>2. /\ tapFile \in Seq(TapLines) /\ closed \in {"yes", "no"} /\ boots \in Nat /\ TornOK
      /\ Quiet(mem, stamp, window, observed, "up")
  BY <1>1, InvQuiet
<1>3. PICK v : v = window
  OBVIOUS
<1>4. Quiet(mem, stamp, v, observed, "ending")
  BY <1>2, <1>3, EndingQuiet
<1>5. PICK e : e = Sink(mem, Flushed(v))
  OBVIOUS
<1>6. Quiet(e.m, e.stamp, NoWindow, observed, "ending") /\ e = [m |-> e.m, stamp |-> e.stamp]
  BY <1>2, <1>4, <1>5, WindowCloses
<1>7. PICK n : n = e.m.seq + 1
  OBVIOUS
<1>8. PICK k, rec : k = [e.m EXCEPT !.seq = n] /\ rec = Plain("shutdown", n)
  OBVIOUS
<1>9. PICK s : s = AppendRec([m |-> k, stamp |-> e.stamp], rec)
  OBVIOUS
<1>10. [e EXCEPT !.m = k] = [m |-> k, stamp |-> e.stamp]
  BY <1>6
<1>11. /\ mem' = s.m /\ stamp' = s.stamp /\ window' = NoWindow /\ phase' = "ending"
       /\ observed' = observed /\ UNCHANGED <<tapFile, closed, boots>>
  BY <1>3, <1>5, <1>7, <1>8, <1>9, <1>10 DEF ChildExits
<1>12. PICK x, t : x = e.m /\ t = e.stamp
  OBVIOUS
<1>13. /\ Quiet(x, t, NoWindow, observed, "ending") /\ n = x.seq + 1 /\ k = [x EXCEPT !.seq = n]
       /\ s = AppendRec([m |-> k, stamp |-> t], rec)
  BY <1>6, <1>7, <1>8, <1>9, <1>12
<1>14. Quiet(s.m, s.stamp, NoWindow, observed, "ending")
  BY <1>2, <1>8, <1>13, ShutdownKeeps, Zenon
<1>15. "ending" \in {"up", "ending"}
  OBVIOUS
<1> QED
  BY <1>2, <1>11, <1>14, <1>15, QuietInv

-----------------------------------------------------------------------------
(* What a write leaves in the file                                         *)

Joined(a, c, o) ==
    /\ o \in Seq(TapLines) /\ Len(o) = Len(a) + Len(c) /\ Len(a) \in Nat /\ Len(c) \in Nat
    /\ DOMAIN a = 1 .. Len(a) /\ DOMAIN c = 1 .. Len(c) /\ DOMAIN o = 1 .. Len(a) + Len(c)
    /\ \A i \in DOMAIN a : i \in DOMAIN o /\ o[i] = a[i]
    /\ \A i \in DOMAIN c : Len(a) + i \in DOMAIN o /\ o[Len(a) + i] = c[i]
    /\ \A i \in DOMAIN o : i \in DOMAIN a \/ (i - Len(a) \in DOMAIN c /\ o[i] = c[i - Len(a)])
    /\ c # <<>> => o # <<>> /\ o[Len(o)] = c[Len(c)]
    /\ c = <<>> => o = a

LEMMA JoinShape ==
  ASSUME NEW a \in Seq(TapLines), NEW c \in Seq(TapLines), NEW o, o = a \o c
  PROVE  Joined(a, c, o)
<1>1. /\ o \in Seq(TapLines) /\ Len(o) = Len(a) + Len(c)
      /\ \A i \in 1 .. Len(a) + Len(c) : o[i] = IF i <= Len(a) THEN a[i] ELSE c[i - Len(a)]
  BY ConcatProperties
<1>2. /\ Len(a) \in Nat /\ Len(c) \in Nat /\ DOMAIN a = 1 .. Len(a) /\ DOMAIN c = 1 .. Len(c)
      /\ DOMAIN o = 1 .. Len(a) + Len(c)
  BY <1>1
<1>3. \A i \in DOMAIN a : i \in DOMAIN o /\ o[i] = a[i]
  BY <1>1, <1>2
<1>4. \A i \in DOMAIN c : Len(a) + i \in DOMAIN o /\ o[Len(a) + i] = c[i]
  BY <1>1, <1>2
<1>5. \A i \in DOMAIN o : i \in DOMAIN a \/ (i - Len(a) \in DOMAIN c /\ o[i] = c[i - Len(a)])
  BY <1>1, <1>2
<1>6. c # <<>> => o # <<>> /\ o[Len(o)] = c[Len(c)]
  <2>1. c # <<>> => Len(c) \in DOMAIN c /\ Len(c) > 0
    BY <1>2
  <2> QED
    BY <1>1, <1>2, <1>4, <2>1
<1>7. c = <<>> => o = a
  OBVIOUS
<1> QED
  BY <1>1, <1>2, <1>3, <1>4, <1>5, <1>6, <1>7 DEF Joined

\* The file ends with what does not parse when its last line is unfinished.
Torn(f, c) == c = "no" => f # <<>> /\ f[Len(f)] = Corrupt

\* The first of the lines is spoilt when it joins an unfinished one.
Left(c, ls) == IF c = "yes" THEN ls ELSE Tail(ls)

LEMMA AppendLinesIs ==
  ASSUME NEW f \in Seq(TapLines), NEW c \in {"yes", "no"}, Torn(f, c), NEW ls \in Seq(TapLines), ls # <<>>
  PROVE  AppendLines(f, c, ls) = f \o Left(c, ls)
<1>1. CASE c = "yes"
  BY <1>1 DEF AppendLines, Left
<1>2. CASE c = "no"
  <2> DEFINE k == Len(f) - 1
             g == Cut(f, k)
  <2>1. f # <<>> /\ f[Len(f)] = Corrupt /\ Len(f) \in Nat /\ Len(f) > 0
    BY <1>2 DEF Torn
  <2>2. Front(f) \o <<Corrupt>> = g
    BY DEF Front, Cut
  <2>3. k \in 0 .. Len(f) - 1 /\ k + 1 = Len(f) /\ Corrupt \in TapLines
    BY <2>1 DEF TapLines
  <2> HIDE DEF k
  <2>4. /\ g \in Seq(TapLines) /\ Len(g) = k + 1
        /\ \A i \in 1 .. k + 1 : g[i] = IF i <= k THEN f[i] ELSE Corrupt
    BY <2>3, CutShape
  <2>5. \A i \in 1 .. Len(f) : ~(i <= k) => i = Len(f)
    BY <2>1, <2>3
  <2>6. Len(g) = Len(f) /\ \A i \in 1 .. Len(f) : g[i] = f[i]
    BY <2>1, <2>3, <2>4, <2>5
  <2> HIDE DEF g
  <2>7. g = f
    BY <2>4, <2>6
  <2>8. AppendLines(f, c, ls) = g \o Tail(ls)
    BY <1>2, <2>1, <2>2 DEF AppendLines
  <2> QED
    BY <1>2, <2>7, <2>8 DEF Left
<1> QED
  BY <1>1, <1>2

LEMMA LeftThinned ==
  ASSUME NEW c, NEW ls \in Seq(TapLines), ls # <<>>
  PROVE  Left(c, ls) \in Seq(TapLines) /\ Thinned(Left(c, ls), ls)
<1>1. Tail(ls) \in Seq(TapLines)
  OBVIOUS
<1> QED
  BY <1>1, ThinnedSelf, ThinnedTail DEF Left

LEMMA WrittenLines == ASSUME NEW ls \in Seq(Written) PROVE ls \in Seq(TapLines)
BY SeqMonotonic DEF TapLines

LEMMA WholeIs ==
  ASSUME NEW f \in Seq(TapLines), NEW c \in {"yes", "no"}, Torn(f, c), NEW ls \in Seq(Written),
         ls # <<>>
  PROVE  Whole([file |-> f, closed |-> c], ls) = [file |-> f \o Left(c, ls), closed |-> "yes"]
<1>1. AppendLines(f, c, ls) = f \o Left(c, ls)
  BY AppendLinesIs, WrittenLines
<1> QED
  BY <1>1 DEF Whole

LEMMA CutIs ==
  ASSUME NEW f \in Seq(TapLines), NEW c \in {"yes", "no"}, Torn(f, c),
         NEW ls \in Seq(Written), NEW k \in 0 .. Len(ls) - 1, NEW x, x = Left(c, Cut(ls, k))
  PROVE  /\ AppendLines(f, c, Cut(ls, k)) = f \o x
         /\ x \in Seq(TapLines) /\ Thinned(x, ls) /\ Torn(f \o x, "no")
<1> DEFINE u == Cut(ls, k)
<1>1. ls \in Seq(TapLines) /\ u \in Seq(TapLines) /\ u # <<>> /\ Thinned(u, ls)
  BY ThinnedCut, WrittenLines
<1>2. k \in Nat /\ Len(u) = k + 1 /\ u[k + 1] = Corrupt
  <2>1. Corrupt \in TapLines /\ k + 1 \in 1 .. k + 1 /\ ~(k + 1 <= k) /\ k \in Nat
    BY DEF TapLines
  <2>2. /\ Len(u) = k + 1
        /\ \A i \in 1 .. k + 1 : u[i] = IF i <= k THEN ls[i] ELSE Corrupt
    BY <1>1, <2>1, CutShape
  <2> QED
    BY <2>1, <2>2
<1> HIDE DEF u
<1>3. x = Left(c, u) /\ AppendLines(f, c, u) = f \o x
  BY <1>1, AppendLinesIs DEF u
<1>4. x \in Seq(TapLines) /\ Thinned(x, ls)
  <2>1. x \in Seq(TapLines) /\ Thinned(x, u)
    BY <1>1, <1>3, LeftThinned
  <2> QED
    BY <1>1, <2>1, ThinnedThinned
<1>5. Torn(f \o x, "no")
  <2>1. PICK o : o = f \o x
    OBVIOUS
  <2>2. x # <<>> => x[Len(x)] = Corrupt
    <3>1. CASE c = "yes"
      BY <1>2, <1>3, <3>1 DEF Left
    <3>2. CASE c # "yes"
      <4>1. x = Tail(u)
        BY <1>3, <3>2 DEF Left
      <4>2. /\ Len(x) = Len(u) - 1 /\ \A i \in 1 .. Len(x) : x[i] = u[i + 1]
        BY <1>1, <4>1, HeadTailProperties
      <4>3. Len(x) = k
        BY <1>2, <4>2
      <4>4. x # <<>> => k \in 1 .. Len(x)
        BY <1>2, <1>4, <4>3
      <4> QED
        BY <1>2, <4>2, <4>3, <4>4
    <3> QED
      BY <3>1, <3>2
  <2>3. CASE x # <<>>
    <3>1. Joined(f, x, o)
      BY <1>4, <2>1, JoinShape, Zenon
    <3> QED
      BY <2>1, <2>2, <2>3, <3>1 DEF Joined, Torn
  <2>4. CASE x = <<>>
    <3>1. c = "no"
      BY <1>1, <1>3, <2>4 DEF Left
    <3>2. o = f
      BY <2>1, <2>4
    <3> QED
      BY <2>1, <3>1, <3>2 DEF Torn
  <2> QED
    BY <2>3, <2>4
<1> QED
  BY <1>3, <1>4, <1>5 DEF u

-----------------------------------------------------------------------------
(* What becomes of the queue                                               *)

\* A shorter flow still ends with the last line, or with another that the
\* next one does not name.
LEMMA ThinnedBelow ==
  ASSUME NEW a \in Seq(TapLines), NEW c \in Seq(TapLines), Thinned(c, a), Ordered(a),
         NEW hash, NEW b, NEW x, a # <<>>, IsRecord(a[Len(a)]), a[Len(a)].hash = hash,
         Below(a, hash, b, x)
  PROVE  Below(c, hash, b, x)
<1>1. SUFFICES ASSUME c # <<>>, IsRecord(c[Len(c)]), c[Len(c)].hash = hash
               PROVE  c[Len(c)].boot = b /\ c[Len(c)].kind # "marker" /\ c[Len(c)].last < x
  BY DEF Below
<1>2. PICK h : \A i \in DOMAIN c : IsRecord(c[i]) => h[i] \in DOMAIN a /\ a[h[i]] = c[i]
  BY DEF Thinned
<1>3. Len(c) \in DOMAIN c /\ Len(a) \in DOMAIN a
  BY <1>1
<1>4. PICK p \in DOMAIN a : a[p] = c[Len(c)]
  BY <1>1, <1>2, <1>3
<1>5. p = Len(a)
  <2>1. ~(p < Len(a))
    BY <1>1, <1>3, <1>4 DEF Ordered
  <2> QED
    BY <1>4, <2>1
<1> QED
  BY <1>1, <1>4, <1>5 DEF Below

LEMMA AgreeAccounts ==
  ASSUME NEW a \in Seq(TapLines), NEW c \in Seq(TapLines), NEW obs, AllAccounted(a, obs),
         \A j \in DOMAIN c : Sound(c, j) => j \in DOMAIN a /\ \A i \in 1 .. j : c[i] = a[i]
  PROVE  AllAccounted(c, obs)
<1>1. SUFFICES ASSUME NEW j \in DOMAIN c, Sound(c, j) PROVE Accounts(c, obs, j)
  BY DEF AllAccounted
<1>2. j \in DOMAIN a /\ (\A i \in 1 .. j : c[i] = a[i]) /\ j \in Nat /\ j \in 1 .. j
  BY <1>1
<1>3. \A i \in 1 .. j : i > 1 => i - 1 \in 1 .. j
  BY <1>2
<1>4. Sound(a, j)
  BY <1>1, <1>2, <1>3 DEF Sound
<1>5. Accounts(a, obs, j)
  BY <1>2, <1>4 DEF AllAccounted
<1> QED
  BY <1>2, <1>3, <1>5 DEF Accounts

Fate(y) ==
    \/ y = Queue(mem) \/ y = <<>> \/ closed = "no"
    \/ \E k \in 0 .. Len(mem.inflight) - 1, z \in Seq(TapLines) : y = Cut(mem.inflight, k) \o z
    \/ mem.pending # <<>> /\ \E z \in Seq(TapLines) : y = mem.pending \o z

\* The lines up to a gap that a lost or overtaken write leaves are as they
\* would have been, and the gap shows.
LEMMA FateAccounts ==
  ASSUME TapInv, phase # "off", ~LateFrames, NEW y \in Seq(TapLines), Fate(y)
  PROVE  AllAccounted(tapFile \o y, observed)
<1> DEFINE I == mem.inflight
           P == mem.pending
           Q == Queue(mem)
           N == Len(tapFile)
<1>1. /\ tapFile \in Seq(TapLines) /\ Torn(tapFile, closed) /\ mem \in Mems
      /\ QueueOK(mem, stamp, boots) /\ Ordered(Flow(mem)) /\ AllAccounted(Flow(mem), observed)
  BY DEF TapInv, TapTypeOK, TornOK, Torn
<1>2. I \in Seq(TapLines) /\ P \in Seq(TapLines) /\ I \in Seq(Written) /\ P \in Seq(Written)
  BY <1>1, WrittenLines DEF Mems
<1>3. PICK f : f = Flow(mem)
  OBVIOUS
<1>4. Q \in Seq(TapLines) /\ Q = I \o P /\ f = tapFile \o Q
  BY <1>1, <1>3, QueueTypes DEF Queue, Flow
<1>5. PICK c : c = tapFile \o y
  OBVIOUS
<1> HIDE DEF Q
<1>6. /\ Len(tapFile) \in Nat /\ f \in Seq(TapLines) /\ c \in Seq(TapLines)
      /\ DOMAIN tapFile = 1 .. N
      /\ \A i \in DOMAIN tapFile : i \in DOMAIN f /\ f[i] = tapFile[i] /\ i \in DOMAIN c /\ c[i] = tapFile[i]
      /\ \A i \in DOMAIN Q : N + i \in DOMAIN f /\ f[N + i] = Q[i]
      /\ \A i \in DOMAIN y : N + i \in DOMAIN c /\ c[N + i] = y[i]
      /\ \A i \in DOMAIN c : i \in DOMAIN tapFile \/ i - N \in DOMAIN y
  <2>1. Joined(tapFile, Q, f) /\ Joined(tapFile, y, c)
    BY <1>1, <1>4, <1>5, JoinShape
  <2> QED
    BY <2>1 DEF Joined
<1>7. \A i \in DOMAIN I : i \in DOMAIN Q /\ Q[i] = I[i]
  <2>1. Joined(I, P, Q)
    BY <1>2, <1>4, JoinShape, Zenon
  <2> QED
    BY <2>1 DEF Joined
<1>8. SUFFICES ASSUME NEW j \in DOMAIN c, Sound(c, j)
               PROVE  j \in DOMAIN f /\ \A i \in 1 .. j : c[i] = f[i]
  BY <1>1, <1>3, <1>5, <1>6, AgreeAccounts
<1>9. j \in Nat /\ DOMAIN y = 1 .. Len(y) /\ Len(y) \in Nat /\ j >= 1
  BY <1>6, <1>8
<1>10. CASE j <= N
  BY <1>6, <1>9, <1>10
<1>11. CASE j > N
  <2>1. CASE y = Q
    BY <1>4, <1>5, <1>8, <2>1
  <2>2. CASE y = <<>>
    BY <1>6, <1>8, <1>9, <1>11, <2>2
  <2>3. CASE closed = "no"
    <3>1. tapFile # <<>> /\ tapFile[N] = Corrupt
      BY <1>1, <2>3 DEF Torn
    <3>2. N \in DOMAIN tapFile /\ N \in 1 .. j
      BY <1>6, <1>9, <1>11, <3>1
    <3> QED
      BY <1>6, <1>8, <3>1, <3>2 DEF Sound, IsRecord
  <2>4. ASSUME NEW k \in 0 .. Len(I) - 1, NEW z \in Seq(TapLines), y = Cut(I, k) \o z
        PROVE  j \in DOMAIN f /\ \A i \in 1 .. j : c[i] = f[i]
    <3>1. PICK u : u = Cut(I, k)
      OBVIOUS
    <3>2. k \in Nat /\ Len(I) \in Nat /\ k < Len(I) /\ Corrupt \in TapLines /\ DOMAIN I = 1 .. Len(I)
      BY <1>2 DEF TapLines
    <3>3. /\ u \in Seq(TapLines) /\ Len(u) = k + 1
          /\ \A i \in 1 .. k + 1 : u[i] = IF i <= k THEN I[i] ELSE Corrupt
      BY <1>2, <3>1, <3>2, CutShape
    <3>4. \A i \in 1 .. k + 1 : i \in DOMAIN y /\ y[i] = u[i]
      <4>1. Joined(u, z, y)
        BY <2>4, <3>1, <3>3, JoinShape, Zenon
      <4> QED
        BY <3>2, <3>3, <4>1 DEF Joined
    <3>5. j <= N + k
      <4>1. SUFFICES ASSUME j >= N + (k + 1) PROVE FALSE
        BY <1>6, <1>9, <3>2
      <4>2. k + 1 \in 1 .. k + 1 /\ ~(k + 1 <= k) /\ N + (k + 1) \in 1 .. j
        BY <1>6, <1>9, <3>2, <4>1
      <4>3. c[N + (k + 1)] = Corrupt
        BY <1>6, <3>3, <3>4, <4>2
      <4> QED
        BY <1>8, <4>2, <4>3 DEF Sound, IsRecord
    <3>6. ASSUME NEW i \in 1 .. j PROVE i \in DOMAIN f /\ c[i] = f[i]
      <4>1. CASE i <= N
        <5>1. i \in DOMAIN tapFile
          BY <1>6, <1>9, <4>1
        <5> QED
          BY <1>6, <5>1
      <4>2. CASE i > N
        <5>1. PICK q : q = i - N
          OBVIOUS
        <5>2. q \in 1 .. k + 1 /\ q <= k /\ N + q = i /\ q \in DOMAIN I
          BY <1>6, <1>9, <3>2, <3>5, <4>2, <5>1
        <5>3. c[N + q] = u[q] /\ u[q] = I[q]
          BY <1>6, <3>3, <3>4, <5>2
        <5>4. N + q \in DOMAIN f /\ f[N + q] = I[q]
          BY <1>6, <1>7, <5>2
        <5> QED
          BY <5>2, <5>3, <5>4
      <4> QED
        BY <1>6, <4>1, <4>2
    <3> QED
      BY <1>9, <3>6
  <2>5. ASSUME P # <<>>, NEW z \in Seq(TapLines), y = P \o z PROVE FALSE
    <3>1. P[1].prev = I[Len(I)].hash /\ P[1].first > 0 /\ I # <<>>
      <4>1. 1 \in DOMAIN P
        BY <1>2, <2>5
      <4> QED
        BY <1>1, <2>5, <4>1 DEF QueueOK
    <3>2. 1 \in DOMAIN P /\ 1 \in DOMAIN y /\ y[1] = P[1]
      <4>1. 1 \in DOMAIN P
        BY <1>2, <2>5
      <4>2. Joined(P, z, y)
        BY <1>2, <2>5, JoinShape, Zenon
      <4> QED
        BY <4>1, <4>2 DEF Joined
    <3>3. c[N + 1] = P[1] /\ N + 1 \in 1 .. j
      BY <1>6, <1>9, <1>11, <3>2
    <3>4. P[1] \in Written /\ P[1].first \in Nat
      <4>1. P[1] \in Written
        BY <1>2, <3>2
      <4> QED
        BY <4>1 DEF Written
    <3>5. N # 0
      BY <1>8, <3>1, <3>3, <3>4 DEF Sound
    <3>6. IsRecord(tapFile[N]) /\ P[1].prev = tapFile[N].hash /\ N \in DOMAIN tapFile
      <4>1. N \in 1 .. j /\ N \in DOMAIN tapFile /\ N + 1 > 1 /\ (N + 1) - 1 = N
        BY <1>6, <1>9, <1>11, <3>5
      <4>2. IsRecord(c[N]) /\ c[N + 1].prev = c[N].hash
        BY <1>8, <3>3, <4>1 DEF Sound
      <4> QED
        BY <1>6, <3>3, <4>1, <4>2
    <3>7. Len(I) \in DOMAIN I /\ Len(I) > 0 /\ Len(I) \in Nat
      BY <1>2, <3>1
    <3>8. /\ N + Len(I) \in DOMAIN f /\ f[N + Len(I)] = I[Len(I)]
          /\ N \in DOMAIN f /\ f[N] = tapFile[N] /\ N < N + Len(I)
      BY <1>6, <1>7, <3>6, <3>7
    <3>9. I[Len(I)] \in Written /\ IsRecord(I[Len(I)])
      BY <1>2, <3>7, TapAssumption DEF IsRecord
    <3> QED
      BY <1>1, <1>3, <3>1, <3>6, <3>8, <3>9 DEF Ordered
  <2> QED
    BY <2>1, <2>2, <2>3, <2>4, <2>5 DEF Fate, Q
<1> QED
  BY <1>6, <1>9, <1>10, <1>11

\* A queue that overtakes the lines being written leaves what the order of
\* the file says.
LEMMA OvertakenOrder ==
  ASSUME NEW f \in Seq(TapLines), NEW I \in Seq(Written), NEW P \in Seq(Written), NEW b,
         Ordered(f \o (I \o P)), Rising(f \o (I \o P), b),
         \A i \in DOMAIN P : P[i].boot = b, \A i \in DOMAIN I : I[i].prev < I[i].hash
  PROVE  Ordered(f \o (P \o I))
<1>1. PICK q, r, a, c : q = I \o P /\ r = P \o I /\ a = f \o q /\ c = f \o r
  OBVIOUS
<1> DEFINE N == Len(f)
           M == Len(I)
           K == Len(P)
<1>2. I \in Seq(TapLines) /\ P \in Seq(TapLines) /\ Joined(I, P, q) /\ Joined(P, I, r)
  BY <1>1, JoinShape, WrittenLines
<1>3. q \in Seq(TapLines) /\ r \in Seq(TapLines)
  BY <1>2 DEF Joined
<1>4. Joined(f, q, a) /\ Joined(f, r, c)
  BY <1>1, <1>3, JoinShape
<1>5. Ordered(a) /\ Rising(a, b)
  BY <1>1
<1>6. /\ N \in Nat /\ M \in Nat /\ K \in Nat /\ DOMAIN c = 1 .. N + (K + M) /\ DOMAIN a = 1 .. N + (M + K)
      /\ DOMAIN I = 1 .. M /\ DOMAIN P = 1 .. K
  BY <1>2, <1>4 DEF Joined
<1>7. \A x \in 1 .. N : x \in DOMAIN a /\ a[x] = c[x]
  BY <1>4 DEF Joined
<1>8. \A x \in 1 .. K : c[N + x] = P[x] /\ a[N + (M + x)] = P[x] /\ N + (M + x) \in DOMAIN a
  BY <1>2, <1>4 DEF Joined
<1>9. \A x \in 1 .. M : c[N + (K + x)] = I[x] /\ a[N + x] = I[x] /\ N + x \in DOMAIN a
  BY <1>2, <1>4 DEF Joined
<1> DEFINE g == [x \in DOMAIN c |-> IF x <= N THEN x ELSE IF x <= N + K THEN x + M ELSE x - K]
<1> HIDE DEF N, M, K
<1>10. ASSUME NEW x \in DOMAIN c
       PROVE  /\ x \in Nat /\ g[x] \in DOMAIN a /\ g[x] \in Nat /\ a[g[x]] = c[x]
              /\ x <= N => g[x] = x
              /\ N < x /\ x <= N + K => g[x] = x + M /\ c[x].boot = b
              /\ N + K < x => g[x] = x - K /\ c[x].prev < c[x].hash
  <2>1. x \in 1 .. N + (K + M)
    BY <1>6
  <2>2. CASE x <= N
    BY <1>6, <1>7, <2>1, <2>2
  <2>3. CASE N < x /\ x <= N + K
    <3>1. PICK w : w = x - N
      OBVIOUS
    <3>2. w \in 1 .. K /\ x = N + w /\ N + (M + w) = x + M /\ x + M \in Nat
      BY <1>6, <2>1, <2>3, <3>1
    <3>3. c[x] = P[w] /\ a[x + M] = P[w] /\ x + M \in DOMAIN a
      BY <1>8, <3>2
    <3>4. g[x] = x + M
      BY <1>6, <2>1, <2>3
    <3> QED
      BY <1>6, <2>1, <2>3, <3>2, <3>3, <3>4
  <2>4. CASE N + K < x
    <3>1. PICK w \in 1 .. M : x = N + (K + w)
      <4>1. x - (N + K) \in 1 .. M /\ x = N + (K + (x - (N + K)))
        BY <1>6, <2>1, <2>4
      <4> QED
        BY <4>1
    <3>2. N + w = x - K /\ x - K \in Nat /\ w \in 1 .. M /\ x = N + (K + w)
      BY <1>6, <3>1
    <3>3. c[x] = I[w] /\ a[x - K] = I[w] /\ x - K \in DOMAIN a
      BY <1>9, <3>2
    <3>4. g[x] = x - K
      BY <1>6, <2>1, <2>4
    <3> QED
      BY <1>6, <2>1, <2>4, <3>2, <3>3, <3>4
  <2> QED
    BY <1>6, <2>1, <2>2, <2>3, <2>4
<1> HIDE DEF g
\* Only a line of the queue and one that was being written change places.
<1> DEFINE Turned(x, y) == N < x /\ x <= N + K /\ N + K < y
<1>11. ASSUME NEW x \in DOMAIN c, NEW y \in DOMAIN c, x < y
       PROVE  g[x] # g[y] /\ (Turned(x, y) => g[y] < g[x]) /\ (~Turned(x, y) => g[x] < g[y])
  <2>1. x \in Nat /\ y \in Nat /\ y <= N + (K + M)
    BY <1>6
  <2>2. CASE Turned(x, y)
    <3>1. g[x] = x + M /\ g[y] = y - K
      BY <1>10, <2>2
    <3> QED
      BY <1>6, <2>1, <2>2, <3>1
  <2>3. CASE ~Turned(x, y)
    <3>1. CASE x <= N
      <4>1. g[x] = x /\ (y <= N => g[y] = y) /\ (N < y /\ y <= N + K => g[y] = y + M)
            /\ (N + K < y => g[y] = y - K)
        BY <1>10, <3>1
      <4>2. x < g[y]
        BY <1>6, <1>11, <2>1, <3>1, <4>1
      <4> QED
        BY <1>6, <2>1, <2>3, <4>1, <4>2
    <3>2. CASE N < x /\ y <= N + K
      BY <1>6, <1>10, <1>11, <2>1, <2>3, <3>2
    <3>3. CASE N + K < x
      BY <1>6, <1>10, <1>11, <2>1, <2>3, <3>3
    <3> QED
      BY <1>6, <2>1, <2>3, <3>1, <3>2, <3>3
  <2> QED
    BY <2>2, <2>3
<1>12. ASSUME NEW x \in DOMAIN c, NEW y \in DOMAIN c, Turned(x, y), IsRecord(c[x]), IsRecord(c[y])
       PROVE  c[y].hash < c[x].hash /\ c[y].prev < c[y].hash
  <2>1. x < y
    BY <1>6, <1>12
  <2>2. g[y] < g[x] /\ c[x].boot = b /\ c[y].prev < c[y].hash
    BY <1>10, <1>11, <1>12, <2>1
  <2> QED
    BY <1>5, <1>10, <1>12, <2>2 DEF Rising
<1>13. ASSUME NEW i \in DOMAIN c, NEW j \in DOMAIN c, IsRecord(c[i]), IsRecord(c[j]), i < j
       PROVE  c[i].hash # c[j].hash
  <2>1. g[i] < g[j] \/ g[j] < g[i]
    BY <1>11, <1>13
  <2> QED
    BY <1>5, <1>10, <1>13, <2>1 DEF Ordered
<1>14. ASSUME NEW k \in DOMAIN c, NEW i \in DOMAIN c, NEW j \in DOMAIN c,
              IsRecord(c[k]), IsRecord(c[i]), IsRecord(c[j]), k < i, i < j, c[j].prev = c[k].hash
       PROVE  c[j].hash < c[i].hash
  <2>1. CASE Turned(i, j)
    BY <1>12, <1>14, <2>1
  <2>2. ~Turned(k, j)
    <3>1. SUFFICES ASSUME Turned(k, j) PROVE FALSE
      OBVIOUS
    <3>2. c[j].hash < c[k].hash /\ c[k].hash < c[j].hash
      BY <1>12, <1>14, <3>1
    <3>3. c[j] \in Written /\ c[k] \in Written
      BY <1>4, <1>14 DEF Joined, TapLines, IsRecord
    <3>4. c[j].hash \in Nat /\ c[k].hash \in Nat
      BY <3>3 DEF Written
    <3> QED
      BY <3>2, <3>4
  <2>3. CASE ~Turned(i, j)
    <3>1. ~Turned(k, i)
      BY <1>6, <1>14, <2>2
    <3>2. k < j
      BY <1>6, <1>14
    <3>3. g[k] < g[i] /\ g[i] < g[j]
      BY <1>11, <1>14, <2>3, <3>1
    <3> QED
      BY <1>5, <1>10, <1>14, <3>3 DEF Ordered
  <2> QED
    BY <2>1, <2>3
<1>15. Ordered(c)
  BY <1>13, <1>14 DEF Ordered
<1> QED
  BY <1>1, <1>15

-----------------------------------------------------------------------------
(* Steps that write the file                                               *)

\* x has been added to the file, which is closed or torn as it says.
Added(x) ==
    /\ x \in Seq(TapLines) /\ tapFile' = tapFile \o x
    /\ closed' \in {"yes", "no"} /\ TornOK'

LEMMA InvDisk ==
  ASSUME TapInv
  PROVE  /\ tapFile \in Seq(TapLines) /\ closed \in {"yes", "no"} /\ Torn(tapFile, closed)
         /\ mem \in Mems /\ mem.inflight \in Seq(Written) /\ mem.pending \in Seq(Written)
         /\ mem.inflight \in Seq(TapLines) /\ mem.pending \in Seq(TapLines)
         /\ Queue(mem) = mem.inflight \o mem.pending /\ Queue(mem) \in Seq(TapLines)
         /\ Flow(mem) = tapFile \o Queue(mem) /\ Flow(mem) \in Seq(TapLines)
         /\ boots \in Nat /\ stamp \in Nat /\ observed \subseteq Nat \X Nat
<1>1. /\ tapFile \in Seq(TapLines) /\ closed \in {"yes", "no"} /\ Torn(tapFile, closed)
      /\ mem \in Mems /\ boots \in Nat /\ stamp \in Nat /\ observed \subseteq Nat \X Nat
  BY DEF TapInv, TapTypeOK, TornOK, Torn
<1>2. mem.inflight \in Seq(Written) /\ mem.pending \in Seq(Written)
  BY <1>1 DEF Mems
<1> QED
  BY <1>1, <1>2, QueueTypes, WrittenLines DEF Queue, Flow

LEMMA DoneIs ==
  ASSUME NEW m \in Mems, NEW lost \in Nat, NEW n, n = Done(m, lost)
  PROVE  n = [seq |-> m.seq, last |-> m.last, pending |-> <<>>,
              inflight |-> m.pending, dropped |-> m.dropped + lost]
<1>1. PICK d : d = m.dropped + lost
  OBVIOUS
<1>2. m = [seq |-> m.seq, last |-> m.last, pending |-> m.pending,
           inflight |-> m.inflight, dropped |-> m.dropped]
  BY DEF Mems
<1>3. PICK k : k = [m EXCEPT !.inflight = <<>>, !.dropped = d]
  OBVIOUS
<1>4. k = [seq |-> m.seq, last |-> m.last, pending |-> m.pending,
           inflight |-> <<>>, dropped |-> d]
  BY <1>2, <1>3
<1>5. n = Kick(k)
  BY <1>1, <1>3 DEF Done
<1>6. Kick(k) = [k EXCEPT !.inflight = k.pending, !.pending = <<>>]
  BY <1>4 DEF Kick
<1>7. PICK p : p = m.pending
  OBVIOUS
<1>8. k.pending = p
  BY <1>4, <1>7
<1>9. n = [k EXCEPT !.inflight = p, !.pending = <<>>]
  BY <1>5, <1>6, <1>8
<1>10. n = [seq |-> m.seq, last |-> m.last, pending |-> <<>>, inflight |-> p, dropped |-> d]
  BY <1>4, <1>9
<1> QED
  BY <1>1, <1>7, <1>10

\* The append under way has ended, and the process goes on.
LEMMA RunningKeeps ==
  ASSUME TapInv, phase # "off", mem.inflight # <<>>, NEW x, Added(x),
         NEW lost \in Nat, mem' = Done(mem, lost),
         UNCHANGED <<phase, window, observed, boots, stamp>>,
         Thinned(x, mem.inflight), NEW y, y = x \o mem.pending, Fate(y),
         lost > 0 \/ closed = "no" \/ x = mem.inflight
  PROVE  TapInv'
<1>1. PICK I, P, q, f : I = mem.inflight /\ P = mem.pending /\ q = Queue(mem) /\ f = Flow(mem)
  OBVIOUS
<1>2. /\ tapFile \in Seq(TapLines) /\ closed \in {"yes", "no"} /\ Torn(tapFile, closed) /\ mem \in Mems
      /\ I \in Seq(Written) /\ P \in Seq(Written) /\ I \in Seq(TapLines) /\ P \in Seq(TapLines)
      /\ q = I \o P /\ q \in Seq(TapLines) /\ f = tapFile \o q /\ f \in Seq(TapLines)
      /\ boots \in Nat /\ stamp \in Nat /\ observed \subseteq Nat \X Nat /\ x \in Seq(TapLines)
  BY <1>1, InvDisk DEF Added
<1>3. PICK n : n = mem'
  OBVIOUS
<1>4. n = [seq |-> mem.seq, last |-> mem.last, pending |-> <<>>,
           inflight |-> P, dropped |-> mem.dropped + lost]
  BY <1>1, <1>2, <1>3, DoneIs
<1>5. /\ mem.seq \in Nat /\ mem.last = stamp /\ mem.dropped \in Nat /\ window \in Windows
      /\ QueueOK(mem, stamp, boots) /\ Running /\ TapTypeOK
      /\ LinesOK(f, boots, observed, phase, mem.seq, stamp)
      /\ Ordered(f) /\ (~LateFrames => AllAccounted(f, observed))
      /\ WindowOK(window, boots, mem.seq, observed) /\ NumbersOK(boots, observed, phase, mem.seq)
  <2>1. mem.dropped \in Nat
    BY <1>2 DEF Mems
  <2> QED
    BY <1>1, <2>1 DEF TapInv, TapTypeOK
<1>6. n \in Mems /\ n.seq = mem.seq /\ n.last = stamp
  <2>1. <<>> \in Seq(Written) /\ mem.dropped + lost \in Nat /\ mem.seq \in Int /\ mem.last \in Nat
    BY <1>2, <1>5
  <2> QED
    BY <1>2, <1>4, <1>5, <2>1 DEF Mems
<1>7. PICK c : c = tapFile \o y
  OBVIOUS
<1>8. y = x \o P /\ y \in Seq(TapLines) /\ c \in Seq(TapLines) /\ Thinned(y, q) /\ Thinned(c, f)
  <2>1. y = x \o P /\ y \in Seq(TapLines)
    BY <1>1, <1>2, ConcatProperties
  <2>2. Thinned(x, I) /\ Thinned(P, P)
    BY <1>1, <1>2, ThinnedSelf
  <2>3. Thinned(y, q)
    BY <1>2, <2>1, <2>2, ThinnedConcat
  <2>4. Thinned(c, f)
    BY <1>2, <1>7, <2>1, <2>3, ThinnedSelf, ThinnedConcat
  <2> QED
    BY <1>2, <1>7, <2>1, <2>3, <2>4, ConcatProperties
<1>9. Queue(n) = P
  <2>1. Queue(n) = P \o <<>>
    BY <1>4 DEF Queue
  <2> QED
    BY <1>2, <2>1
<1>10. Flow(mem)' = c /\ Queue(mem)' = P
  <2>1. Queue(mem)' = Queue(n)
    BY <1>3 DEF Queue
  <2>2. Flow(mem)' = (tapFile \o x) \o P
    BY <1>9, <2>1 DEF Flow, Added
  <2>3. (tapFile \o x) \o P = tapFile \o (x \o P)
    BY <1>2, ConcatAssociative
  <2> QED
    BY <1>7, <1>8, <1>9, <2>1, <2>2, <2>3
<1>11. /\ tapFile' \in Seq(TapLines) /\ closed' \in {"yes", "no"} /\ TornOK'
       /\ \A i \in DOMAIN tapFile : i \in DOMAIN tapFile' /\ tapFile'[i] = tapFile[i]
  <2>1. tapFile' = tapFile \o x
    BY DEF Added
  <2>2. Joined(tapFile, x, tapFile \o x)
    BY <1>2, JoinShape
  <2> QED
    BY <1>2, <2>1, <2>2 DEF Joined, Added
<1>12. TapTypeOK'
  BY <1>2, <1>3, <1>5, <1>6, <1>11 DEF TapTypeOK
<1>13. QueueOK(mem, stamp, boots)' /\ (Len(mem.pending) <= QueueCap + 1)'
  <2>1. Joined(I, P, q)
    BY <1>2, JoinShape
  <2>2. P # <<>> => q # <<>> /\ q[Len(q)] = P[Len(P)]
    BY <2>1 DEF Joined
  <2>3. P # <<>> => P[Len(P)].hash = stamp
    BY <1>1, <1>5, <2>2 DEF QueueOK
  <2>4. \A i \in DOMAIN P : P[i].boot = boots
    <3>1. \A i \in DOMAIN P : Len(I) + i \in DOMAIN q /\ q[Len(I) + i] = P[i]
      BY <2>1 DEF Joined
    <3> QED
      BY <1>1, <1>5, <3>1 DEF QueueOK
  <2>5. n.pending = <<>> /\ n.inflight = P /\ Len(n.pending) = 0
    BY <1>4
  <2>6. QueueCap \in Nat
    BY TapAssumption
  <2>7. QueueOK(mem, stamp, boots)'
    BY <1>3, <1>10, <2>3, <2>4, <2>5 DEF QueueOK
  <2> QED
    BY <1>3, <2>5, <2>6, <2>7
<1>14. /\ LinesOK(c, boots, observed, phase, mem.seq, stamp) /\ Ordered(c)
       /\ Rising(c, boots) /\ Latest(c, stamp)
  <2>1. Rising(f, boots) /\ Latest(f, stamp)
    BY <1>1, <1>5 DEF Running
  <2> QED
    BY <1>2, <1>5, <1>8, <2>1, ThinnedKeeps
<1>15. LinesOK(Flow(mem), boots, observed, phase, mem.seq, stamp)' /\ Ordered(Flow(mem))'
  BY <1>3, <1>6, <1>10, <1>14 DEF LinesOK, LineOK, Ordered
<1>16. (~LateFrames => AllAccounted(Flow(mem), observed))'
  <2>1. ~LateFrames => AllAccounted(c, observed)
    BY <1>7, <1>8, FateAccounts
  <2> QED
    BY <1>10, <2>1 DEF AllAccounted, Sound, Accounts
<1>17. ASSUME NEW u, Below(f, stamp, boots, u) PROVE Below(c, stamp, boots, u)
  <2>1. Joined(tapFile, q, f) /\ Joined(I, P, q)
    BY <1>2, JoinShape
  <2>2. q # <<>>
    BY <1>1, <1>2, <2>1 DEF Joined
  <2>3. f # <<>> /\ f[Len(f)] = q[Len(q)] /\ q[Len(q)].hash = stamp
    BY <1>1, <1>5, <2>1, <2>2 DEF Joined, QueueOK
  <2>4. q \in Seq(Written)
    BY <1>2, ConcatProperties
  <2>5. IsRecord(q[Len(q)])
    <3>1. q[Len(q)] \in Written
      BY <2>2, <2>4
    <3> QED
      BY <3>1, TapAssumption DEF IsRecord
  <2> QED
    BY <1>2, <1>5, <1>8, <1>17, <2>3, <2>5, ThinnedBelow
<1>18. Told(Flow(mem), AtHand(window), mem.dropped, boots, observed)'
  <2>1. n.dropped = mem.dropped + lost
    BY <1>4
  <2>2. CASE lost > 0
    <3>1. n.dropped > 0
      BY <1>5, <2>1, <2>2
    <3> QED
      BY <1>3, <3>1 DEF Told
  <2>3. CASE closed = "no"
    <3>1. Len(tapFile) \in DOMAIN tapFile /\ ~IsRecord(tapFile[Len(tapFile)])
      BY <1>2, <2>3 DEF Torn, IsRecord
    <3>2. \E i \in DOMAIN tapFile' : ~IsRecord(tapFile'[i])
      BY <1>11, <3>1
    <3> QED
      BY <3>2 DEF Told, IsRecord
  <2>4. CASE x = mem.inflight
    <3>1. c = f
      BY <1>1, <1>2, <1>7, <1>8, <2>4
    <3>2. Told(f, AtHand(window), mem.dropped, boots, observed)
      BY <1>1, <1>5 DEF Running
    <3>3. mem.dropped > 0 => n.dropped > 0
      BY <1>5, <2>1
    <3>4. (\E i \in DOMAIN tapFile : ~IsRecord(tapFile[i])) => \E i \in DOMAIN tapFile' : ~IsRecord(tapFile'[i])
      BY <1>11
    <3> QED
      BY <1>3, <1>10, <3>1, <3>2, <3>3, <3>4 DEF Told, AtHand, Covers, IsRecord
  <2> QED
    BY <2>2, <2>3, <2>4
<1>19. Running'
  <2>1. Below(c, stamp, boots, mem.seq + 1) /\ (window # NoWindow => Below(c, stamp, boots, window.first))
    BY <1>1, <1>5, <1>17 DEF Running
  <2>2. Below(Flow(mem), stamp, boots, mem.seq + 1)'
        /\ (window # NoWindow => Below(Flow(mem), stamp, boots, window.first))'
    BY <1>3, <1>6, <1>10, <2>1 DEF Below
  <2>3. Rising(Flow(mem), boots)' /\ Latest(Flow(mem), stamp)'
    BY <1>10, <1>14 DEF Rising, Latest
  <2> QED
    BY <1>18, <2>2, <2>3 DEF Running
<1>20. WindowOK(window, boots, mem.seq, observed)' /\ NumbersOK(boots, observed, phase, mem.seq)'
  BY <1>3, <1>5, <1>6 DEF WindowOK, NumbersOK
<1> QED
  BY <1>11, <1>12, <1>13, <1>15, <1>16, <1>19, <1>20 DEF TapInv

\* The process is gone, and its queue with it.
LEMMA GoneKeeps ==
  ASSUME TapInv, phase # "off", NEW x, Added(x), Gone, UNCHANGED <<observed, boots, stamp>>,
         Fate(x), NEW c, c = tapFile \o x, Ordered(c),
         LinesOK(c, boots, observed, phase, mem.seq, stamp)
  PROVE  TapInv'
<1>1. /\ tapFile \in Seq(TapLines) /\ x \in Seq(TapLines) /\ closed' \in {"yes", "no"} /\ TornOK'
      /\ boots \in Nat /\ stamp \in Nat /\ observed \subseteq Nat \X Nat /\ tapFile' = c
  BY InvDisk DEF Added
<1>2. c \in Seq(TapLines)
  BY <1>1, ConcatProperties
<1>3. phase' = "off" /\ mem' = NoMem /\ window' = NoWindow
  BY DEF Gone
<1>4. NoMem \in Mems /\ Queue(NoMem) = <<>> /\ NoMem.pending = <<>> /\ NoMem.inflight = <<>>
  BY DEF NoMem, Mems, Queue, NoHash
<1>5. Flow(mem)' = c /\ Queue(mem)' = <<>>
  BY <1>1, <1>2, <1>3, <1>4 DEF Flow, Queue
<1>6. TapTypeOK'
  BY <1>1, <1>2, <1>3, <1>4 DEF TapTypeOK, Windows
<1>7. QueueOK(mem, stamp, boots)' /\ (Len(mem.pending) <= QueueCap + 1)'
  <2>1. Len(NoMem.pending) = 0 /\ QueueCap \in Nat
    BY <1>4, TapAssumption
  <2> QED
    BY <1>3, <1>4, <1>5, <2>1 DEF QueueOK
<1>8. LinesOK(Flow(mem), boots, observed, phase, mem.seq, stamp)'
  BY <1>3, <1>5 DEF LinesOK, LineOK
<1>9. Ordered(Flow(mem))'
  BY <1>5 DEF Ordered
<1>10. (~LateFrames => AllAccounted(Flow(mem), observed))'
  <2>1. ~LateFrames => AllAccounted(c, observed)
    BY <1>1, FateAccounts
  <2> QED
    BY <1>5, <2>1 DEF AllAccounted, Sound, Accounts
<1>11. WindowOK(window, boots, mem.seq, observed)' /\ NumbersOK(boots, observed, phase, mem.seq)'
  BY <1>3 DEF WindowOK, NumbersOK, TapInv
<1> QED
  BY <1>1, <1>3, <1>6, <1>7, <1>8, <1>9, <1>10, <1>11 DEF TapInv, Running

\* The outcomes of a write, with the lines they add.
LEMMA PartlyIs ==
  ASSUME TapInv, NEW d \in Partly(mem.inflight)
  PROVE  \E x \in Seq(TapLines) :
            /\ Thinned(x, mem.inflight) /\ d = [file |-> tapFile \o x, closed |-> d.closed]
            /\ d.closed \in {"yes", "no"} /\ Torn(tapFile \o x, d.closed)
            /\ \/ x = <<>> /\ d.closed = closed
               \/ closed = "no"
               \/ \E k \in 0 .. Len(mem.inflight) - 1 : x = Cut(mem.inflight, k)
<1>1. PICK I : I = mem.inflight
  OBVIOUS
<1>2. /\ tapFile \in Seq(TapLines) /\ closed \in {"yes", "no"} /\ Torn(tapFile, closed)
      /\ I \in Seq(Written) /\ I \in Seq(TapLines)
  BY <1>1, InvDisk
<1>3. CASE d = Disk
  <2>1. d = [file |-> tapFile, closed |-> d.closed] /\ d.closed = closed
    BY <1>3 DEF Disk
  <2>2. tapFile \o <<>> = tapFile /\ <<>> \in Seq(TapLines)
    BY <1>2
  <2>3. Thinned(<<>>, I)
    BY <1>2, ThinnedEmpty
  <2> QED
    BY <1>1, <1>2, <2>1, <2>2, <2>3
<1>4. CASE d # Disk
  <2>1. PICK k \in 0 .. Len(I) - 1 : d = [file |-> AppendLines(tapFile, closed, Cut(I, k)), closed |-> "no"]
    BY <1>1, <1>4 DEF Partly
  <2>2. PICK x : x = Left(closed, Cut(I, k))
    OBVIOUS
  <2>3. /\ AppendLines(tapFile, closed, Cut(I, k)) = tapFile \o x
        /\ x \in Seq(TapLines) /\ Thinned(x, I) /\ Torn(tapFile \o x, "no")
    BY <1>2, <2>2, CutIs, SMTT(60)
  <2>4. closed = "no" \/ x = Cut(I, k)
    BY <1>2, <2>2 DEF Left
  <2>5. d = [file |-> tapFile \o x, closed |-> d.closed] /\ d.closed = "no"
    BY <2>1, <2>3
  <2> QED
    BY <1>1, <2>3, <2>4, <2>5
<1> QED
  BY <1>3, <1>4

LEMMA AddedIs ==
  ASSUME NEW x \in Seq(TapLines), NEW d, NEW c \in {"yes", "no"},
         d = [file |-> tapFile \o x, closed |-> c], Torn(tapFile \o x, c), DiskBecomes(d)
  PROVE  Added(x)
BY DEF Added, DiskBecomes, TornOK, Torn

LEMMA PartlyAdds ==
  ASSUME TapInv, NEW d \in Partly(mem.inflight), DiskBecomes(d)
  PROVE  \E x : /\ Added(x) /\ Thinned(x, mem.inflight)
                /\ \/ x = <<>>
                   \/ closed = "no"
                   \/ \E k \in 0 .. Len(mem.inflight) - 1 : x = Cut(mem.inflight, k)
<1>1. PICK x \in Seq(TapLines) :
            /\ Thinned(x, mem.inflight) /\ d = [file |-> tapFile \o x, closed |-> d.closed]
            /\ d.closed \in {"yes", "no"} /\ Torn(tapFile \o x, d.closed)
            /\ \/ x = <<>> /\ d.closed = closed
               \/ closed = "no"
               \/ \E k \in 0 .. Len(mem.inflight) - 1 : x = Cut(mem.inflight, k)
  BY PartlyIs
<1>2. Added(x)
  BY <1>1, AddedIs
<1> QED
  BY <1>1, <1>2

\* What follows lines that were added, when the queue itself has not been.
LEMMA FateIs ==
  ASSUME TapInv, NEW x \in Seq(TapLines), NEW z \in Seq(TapLines), NEW y, y = x \o z,
         \/ closed = "no"
         \/ x = mem.inflight /\ z = mem.pending
         \/ \E k \in 0 .. Len(mem.inflight) - 1 : x = Cut(mem.inflight, k)
         \/ x = <<>> /\ (z = mem.pending \/ z = <<>>)
         \/ x = mem.pending /\ x # <<>>
  PROVE  Fate(y) /\ y \in Seq(TapLines)
<1>1. y \in Seq(TapLines)
  BY ConcatProperties
<1>2. CASE closed = "no"
  BY <1>1, <1>2 DEF Fate
<1>3. CASE x = mem.inflight /\ z = mem.pending
  BY <1>1, <1>3 DEF Fate, Queue
<1>4. CASE \E k \in 0 .. Len(mem.inflight) - 1 : x = Cut(mem.inflight, k)
  BY <1>1, <1>4 DEF Fate
<1>5. CASE x = <<>> /\ (z = mem.pending \/ z = <<>>)
  <2>1. y = z
    BY <1>5
  <2>2. mem.pending \o <<>> = mem.pending /\ <<>> \in Seq(TapLines)
    BY InvDisk
  <2> QED
    BY <1>1, <1>5, <2>1, <2>2 DEF Fate
<1>6. CASE x = mem.pending /\ x # <<>>
  BY <1>1, <1>6 DEF Fate
<1> QED
  BY <1>2, <1>3, <1>4, <1>5, <1>6

\* When nothing is queued, nothing is on its way either.
LEMMA NoQueueOff == ASSUME TapInv, phase = "off" PROVE mem.inflight = <<>>
BY DEF TapInv, TapTypeOK, NoMem

LEMMA AppendDoneKeeps == ASSUME TapInv, AppendDone PROVE TapInv'
<1>1. PICK I, P : I = mem.inflight /\ P = mem.pending
  OBVIOUS
<1>2. /\ tapFile \in Seq(TapLines) /\ closed \in {"yes", "no"} /\ Torn(tapFile, closed)
      /\ I \in Seq(Written) /\ I \in Seq(TapLines) /\ P \in Seq(TapLines)
  BY <1>1, InvDisk
<1>3. I # <<>> /\ phase # "off"
  BY <1>1, NoQueueOff DEF AppendDone
<1>4. PICK d : d = Whole([file |-> tapFile, closed |-> closed], I)
  OBVIOUS
<1>5. PICK x : x = Left(closed, I)
  OBVIOUS
<1>6. d.file = tapFile \o x /\ d.closed = "yes"
  <2>1. d = [file |-> tapFile \o Left(closed, I), closed |-> "yes"]
    BY <1>2, <1>3, <1>4, WholeIs
  <2> QED
    BY <1>5, <2>1
<1>7. x \in Seq(TapLines) /\ Thinned(x, I)
  BY <1>2, <1>3, <1>5, LeftThinned
<1>8. Added(x)
  BY <1>1, <1>4, <1>6, <1>7 DEF Added, AppendDone, DiskBecomes, Disk, TornOK
<1>9. closed = "no" \/ x = I
  BY <1>2, <1>5 DEF Left
<1>10. PICK y : y = x \o P
  OBVIOUS
<1>11. Fate(y)
  BY <1>1, <1>2, <1>7, <1>9, <1>10, FateIs
<1>12. mem' = Done(mem, 0) /\ UNCHANGED <<phase, window, observed, boots, stamp>> /\ 0 \in Nat
  BY DEF AppendDone
<1>13. Thinned(x, mem.inflight) /\ y = x \o mem.pending /\ mem.inflight # <<>>
       /\ (0 > 0 \/ closed = "no" \/ x = mem.inflight)
  BY <1>1, <1>3, <1>7, <1>9, <1>10
<1> QED
  BY <1>3, <1>8, <1>11, <1>12, <1>13, RunningKeeps

LEMMA AppendFailsKeeps == ASSUME TapInv, AppendFails PROVE TapInv'
<1>1. mem.inflight # <<>> /\ phase # "off"
  BY NoQueueOff DEF AppendFails
<1>2. PICK d \in Partly(mem.inflight) : DiskBecomes(d)
  BY DEF AppendFails
<1>3. PICK x : /\ Added(x) /\ Thinned(x, mem.inflight)
               /\ \/ x = <<>>
                  \/ closed = "no"
                  \/ \E k \in 0 .. Len(mem.inflight) - 1 : x = Cut(mem.inflight, k)
  BY <1>2, PartlyAdds
<1>4. PICK y : y = x \o mem.pending
  OBVIOUS
<1>5. x \in Seq(TapLines) /\ mem.pending \in Seq(TapLines) /\ mem.inflight \in Seq(Written)
  BY <1>3, InvDisk DEF Added
<1>6. Fate(y)
  BY <1>3, <1>4, <1>5, FateIs
<1>7. PICK lost : lost = Len(mem.inflight)
  OBVIOUS
<1>8. lost \in Nat /\ lost > 0
  BY <1>1, <1>5, <1>7
<1>9. mem' = Done(mem, lost) /\ UNCHANGED <<phase, window, observed, boots, stamp>>
  BY <1>7 DEF AppendFails
<1> QED
  BY <1>1, <1>3, <1>4, <1>6, <1>8, <1>9, RunningKeeps

\* A thinned queue, when the process has gone.
LEMMA GoneThinned ==
  ASSUME TapInv, phase # "off", NEW x, Added(x), Gone, UNCHANGED <<observed, boots, stamp>>,
         Fate(x), Thinned(x, Queue(mem))
  PROVE  TapInv'
<1>1. PICK c : c = tapFile \o x
  OBVIOUS
<1>2. /\ tapFile \in Seq(TapLines) /\ x \in Seq(TapLines) /\ Queue(mem) \in Seq(TapLines)
      /\ Flow(mem) = tapFile \o Queue(mem) /\ Flow(mem) \in Seq(TapLines)
  BY InvDisk DEF Added
<1>3. c \in Seq(TapLines) /\ Thinned(c, Flow(mem))
  BY <1>1, <1>2, ThinnedConcat, ThinnedSelf, ConcatProperties
<1>4. LinesOK(Flow(mem), boots, observed, phase, mem.seq, stamp) /\ Ordered(Flow(mem))
  BY DEF TapInv
<1>5. LinesOK(c, boots, observed, phase, mem.seq, stamp) /\ Ordered(c)
  BY <1>2, <1>3, <1>4, ThinnedKeeps
<1> QED
  BY <1>1, <1>5, GoneKeeps

LEMMA ThinnedQueue ==
  ASSUME TapInv, NEW x \in Seq(TapLines), Thinned(x, mem.inflight)
  PROVE  Thinned(x, Queue(mem))
<1>1. /\ mem.inflight \in Seq(TapLines) /\ mem.pending \in Seq(TapLines)
      /\ Queue(mem) = mem.inflight \o mem.pending
  BY InvDisk
<1>2. Thinned(<<>>, mem.pending) /\ <<>> \in Seq(TapLines)
  BY <1>1, ThinnedEmpty
<1>3. x \o <<>> = x
  OBVIOUS
<1> QED
  BY <1>1, <1>2, <1>3, ThinnedConcat

LEMMA CrashKeeps == ASSUME TapInv, Crash PROVE TapInv'
<1>1. phase # "off" /\ Gone /\ UNCHANGED <<observed, boots, stamp>>
  BY DEF Crash
<1>2. PICK d \in Partly(mem.inflight) : DiskBecomes(d)
  BY DEF Crash
<1>3. PICK x : /\ Added(x) /\ Thinned(x, mem.inflight)
               /\ \/ x = <<>>
                  \/ closed = "no"
                  \/ \E k \in 0 .. Len(mem.inflight) - 1 : x = Cut(mem.inflight, k)
  BY <1>2, PartlyAdds
<1>4. x \in Seq(TapLines) /\ x = x \o <<>> /\ <<>> \in Seq(TapLines)
  BY <1>3 DEF Added
<1>5. Fate(x)
  BY <1>3, <1>4, FateIs
<1>6. Thinned(x, Queue(mem))
  BY <1>3, <1>4, ThinnedQueue
<1> QED
  BY <1>1, <1>3, <1>5, <1>6, GoneThinned

LEMMA ExitDrainedKeeps == ASSUME TapInv, ExitDrained PROVE TapInv'
<1>1. phase # "off" /\ Gone /\ UNCHANGED <<observed, boots, stamp>> /\ UNCHANGED <<tapFile, closed>>
  BY DEF ExitDrained
<1>2. /\ tapFile \in Seq(TapLines) /\ closed \in {"yes", "no"} /\ Torn(tapFile, closed)
      /\ Queue(mem) \in Seq(TapLines)
  BY InvDisk
<1>3. <<>> \in Seq(TapLines) /\ tapFile = tapFile \o <<>>
  BY <1>2
<1>4. Added(<<>>)
  BY <1>1, <1>2, <1>3 DEF Added, TornOK, Torn
<1>5. Fate(<<>>) /\ Thinned(<<>>, Queue(mem))
  BY <1>2, ThinnedEmpty DEF Fate
<1> QED
  BY <1>1, <1>4, <1>5, GoneThinned

LEMMA OvertakenLines ==
  ASSUME NEW f \in Seq(TapLines), NEW I \in Seq(TapLines), NEW P \in Seq(TapLines),
         NEW b, NEW obs, NEW ph, NEW seq, NEW st, LinesOK(f \o (I \o P), b, obs, ph, seq, st)
  PROVE  LinesOK(f \o (P \o I), b, obs, ph, seq, st)
<1>1. PICK q, r, a, c : q = I \o P /\ r = P \o I /\ a = f \o q /\ c = f \o r
  OBVIOUS
<1>2. Joined(I, P, q) /\ Joined(P, I, r)
  BY <1>1, JoinShape
<1>3. q \in Seq(TapLines) /\ r \in Seq(TapLines)
  BY <1>2 DEF Joined
<1>4. Joined(f, q, a) /\ Joined(f, r, c)
  BY <1>1, <1>3, JoinShape
<1>5. ASSUME NEW i \in DOMAIN c PROVE \E j \in DOMAIN a : a[j] = c[i]
  <2>1. CASE i \in DOMAIN f
    BY <1>4, <2>1 DEF Joined
  <2>2. CASE i \notin DOMAIN f
    <3>1. PICK j \in DOMAIN r : c[i] = r[j]
      BY <1>4, <1>5, <2>2 DEF Joined
    <3>2. \E k \in DOMAIN q : q[k] = r[j]
      <4>1. CASE j \in DOMAIN P
        BY <1>2, <4>1 DEF Joined
      <4>2. CASE j \notin DOMAIN P
        <5>1. PICK k \in DOMAIN I : r[j] = I[k]
          BY <1>2, <3>1, <4>2 DEF Joined
        <5> QED
          BY <1>2, <5>1 DEF Joined
      <4> QED
        BY <4>1, <4>2
    <3>3. PICK k \in DOMAIN q : q[k] = r[j]
      BY <3>2
    <3>4. Len(f) + k \in DOMAIN a /\ a[Len(f) + k] = q[k]
      BY <1>4, <3>3 DEF Joined
    <3> QED
      BY <3>1, <3>3, <3>4
  <2> QED
    BY <2>1, <2>2
<1>6. LinesOK(c, b, obs, ph, seq, st)
  BY <1>1, <1>5 DEF LinesOK
<1> QED
  BY <1>1, <1>6

\* What is queued, as the process that exits has it.
LEMMA QueueIs ==
  ASSUME TapInv
  PROVE  /\ \A i \in DOMAIN mem.pending : mem.pending[i].boot = boots
         /\ \A i \in DOMAIN mem.inflight : mem.inflight[i].prev < mem.inflight[i].hash
<1>1. PICK I, P, q, f : I = mem.inflight /\ P = mem.pending /\ q = Queue(mem) /\ f = Flow(mem)
  OBVIOUS
<1>2. /\ tapFile \in Seq(TapLines) /\ I \in Seq(TapLines) /\ P \in Seq(TapLines) /\ I \in Seq(Written)
      /\ q = I \o P /\ q \in Seq(TapLines) /\ f = tapFile \o q
  BY <1>1, InvDisk
<1>3. Joined(I, P, q) /\ Joined(tapFile, q, f)
  BY <1>2, JoinShape
<1>4. QueueOK(mem, stamp, boots) /\ LinesOK(f, boots, observed, phase, mem.seq, stamp)
  BY <1>1 DEF TapInv
<1>5. ASSUME NEW i \in DOMAIN P PROVE P[i].boot = boots
  <2>1. Len(I) + i \in DOMAIN q /\ q[Len(I) + i] = P[i]
    BY <1>3, <1>5 DEF Joined
  <2>2. \A j \in DOMAIN q : q[j].boot = boots
    BY <1>1, <1>4 DEF QueueOK
  <2> QED
    BY <2>1, <2>2
<1>6. ASSUME NEW i \in DOMAIN I PROVE I[i].prev < I[i].hash
  <2>1. i \in DOMAIN q /\ q[i] = I[i]
    BY <1>3, <1>6 DEF Joined
  <2>2. Len(tapFile) + i \in DOMAIN f /\ f[Len(tapFile) + i] = I[i]
    BY <1>3, <2>1 DEF Joined
  <2>3. IsRecord(I[i])
    BY <1>2, <1>6, TapAssumption DEF IsRecord
  <2> QED
    BY <1>4, <2>2, <2>3 DEF LinesOK, LineOK
<1> QED
  BY <1>1, <1>5, <1>6

\* The queue was appended before the lines that were being written.
LEMMA GoneOvertaken ==
  ASSUME TapInv, phase # "off", NEW x, Added(x), Gone, UNCHANGED <<observed, boots, stamp>>,
         Fate(x), Thinned(x, mem.pending \o mem.inflight)
  PROVE  TapInv'
<1>1. PICK I, P, r, c, g : /\ I = mem.inflight /\ P = mem.pending /\ r = P \o I
                           /\ c = tapFile \o x /\ g = tapFile \o r
  OBVIOUS
<1>2. /\ tapFile \in Seq(TapLines) /\ I \in Seq(TapLines) /\ P \in Seq(TapLines)
      /\ I \in Seq(Written) /\ P \in Seq(Written) /\ x \in Seq(TapLines)
      /\ Flow(mem) = tapFile \o (I \o P)
  BY <1>1, InvDisk DEF Added
<1>3. /\ Ordered(tapFile \o (I \o P)) /\ Rising(tapFile \o (I \o P), boots)
      /\ LinesOK(tapFile \o (I \o P), boots, observed, phase, mem.seq, stamp)
  BY <1>2 DEF TapInv, Running
<1>4. Ordered(g)
  <2>1. /\ \A i \in DOMAIN P : P[i].boot = boots
        /\ \A i \in DOMAIN I : I[i].prev < I[i].hash
    BY <1>1, QueueIs
  <2>2. Ordered(tapFile \o (P \o I))
    BY <1>2, <1>3, <2>1, OvertakenOrder, Zenon
  <2> QED
    BY <1>1, <2>2
<1>5. LinesOK(g, boots, observed, phase, mem.seq, stamp)
  <2>1. LinesOK(tapFile \o (P \o I), boots, observed, phase, mem.seq, stamp)
    BY <1>2, <1>3, OvertakenLines, Zenon
  <2> QED
    BY <1>1, <2>1
<1>6. r \in Seq(TapLines) /\ g \in Seq(TapLines) /\ c \in Seq(TapLines)
  BY <1>1, <1>2, ConcatProperties
<1>7. Thinned(c, g)
  BY <1>1, <1>2, <1>6, ThinnedConcat, ThinnedSelf
<1>8. Ordered(c) /\ LinesOK(c, boots, observed, phase, mem.seq, stamp)
  BY <1>4, <1>5, <1>6, <1>7, ThinnedKeeps
<1> QED
  BY <1>1, <1>8, GoneKeeps

LEMMA ExitTimedOutKeeps == ASSUME TapInv, ExitTimedOut PROVE TapInv'
<1>1. PICK I, P : I = mem.inflight /\ P = mem.pending
  OBVIOUS
<1>2. phase # "off" /\ Gone /\ UNCHANGED <<observed, boots, stamp>> /\ I # <<>>
  BY <1>1 DEF ExitTimedOut
<1>3. /\ tapFile \in Seq(TapLines) /\ closed \in {"yes", "no"} /\ Torn(tapFile, closed)
      /\ I \in Seq(TapLines) /\ P \in Seq(TapLines) /\ Queue(mem) = I \o P
      /\ I \in Seq(Written) /\ P \in Seq(Written)
  BY <1>1, InvDisk
\* Lines of one write after those of another, as one addition.
<1>4. ASSUME NEW x \in Seq(TapLines), NEW c \in {"yes", "no"}, Torn(tapFile \o x, c),
             NEW ls \in Seq(Written), ls # <<>>, NEW d, d = [file |-> tapFile \o x, closed |-> c],
             DiskBecomes(Whole(d, ls))
      PROVE  Left(c, ls) \in Seq(TapLines) /\ Thinned(Left(c, ls), ls) /\ Added(x \o Left(c, ls))
  <2>1. tapFile \o x \in Seq(TapLines) /\ ls \in Seq(TapLines)
    BY <1>3, <1>4, WrittenLines, ConcatProperties
  <2>2. Left(c, ls) \in Seq(TapLines) /\ Thinned(Left(c, ls), ls)
    BY <1>4, <2>1, LeftThinned
  <2>3. Whole(d, ls) = [file |-> (tapFile \o x) \o Left(c, ls), closed |-> "yes"]
    BY <1>4, <2>1, WholeIs
  <2>4. (tapFile \o x) \o Left(c, ls) = tapFile \o (x \o Left(c, ls))
    BY <1>3, <1>4, <2>2, ConcatAssociative
  <2>5. x \o Left(c, ls) \in Seq(TapLines)
    BY <1>4, <2>2, ConcatProperties
  <2>6. Torn(tapFile \o (x \o Left(c, ls)), "yes")
    BY DEF Torn
  <2>7. Added(x \o Left(c, ls))
    BY <1>4, <2>3, <2>4, <2>5, <2>6, AddedIs
  <2> QED
    BY <2>2, <2>7
\* The lines of one write on what is on disk.
<1>5. ASSUME NEW ls \in Seq(Written), ls # <<>>
      PROVE  \E x \in Seq(TapLines) : /\ Whole(Disk, ls) = [file |-> tapFile \o x, closed |-> "yes"]
                                      /\ Thinned(x, ls) /\ (closed = "no" \/ x = ls)
  <2>1. Whole(Disk, ls) = [file |-> tapFile \o Left(closed, ls), closed |-> "yes"]
    BY <1>3, <1>5, WholeIs DEF Disk
  <2>2. Left(closed, ls) \in Seq(TapLines) /\ Thinned(Left(closed, ls), ls)
    BY <1>5, LeftThinned, WrittenLines
  <2>3. closed = "no" \/ Left(closed, ls) = ls
    BY <1>3 DEF Left
  <2> QED
    BY <2>1, <2>2, <2>3
<1>6. CASE DiskBecomes(Whole(Whole(Disk, I), P)) \/ (P = <<>> /\ DiskBecomes(Whole(Whole(Disk, P), I)))
  <2>1. PICK x \in Seq(TapLines) : /\ Whole(Disk, I) = [file |-> tapFile \o x, closed |-> "yes"]
                                   /\ Thinned(x, I) /\ (closed = "no" \/ x = I)
    BY <1>2, <1>3, <1>5
  <2>2. Torn(tapFile \o x, "yes") /\ Left("yes", P) = P
    BY DEF Torn, Left
  <2>3. Added(x \o P)
    <3>1. CASE P = <<>>
      <4>1. x \o P = x
        BY <2>1, <3>1
      <4>2. DiskBecomes(Whole(Disk, I))
        BY <1>6, <3>1 DEF Whole
      <4>3. Added(x)
        BY <2>1, <2>2, <4>2, AddedIs
      <4> QED
        BY <4>1, <4>3
    <3>2. CASE P # <<>>
      <4>1. DiskBecomes(Whole(Whole(Disk, I), P))
        BY <1>6, <3>2
      <4> QED
        BY <1>3, <1>4, <2>1, <2>2, <3>2, <4>1
    <3> QED
      BY <3>1, <3>2
  <2>4. PICK y : y = x \o P
    OBVIOUS
  <2>5. Fate(y)
    BY <1>1, <1>3, <2>1, <2>4, FateIs
  <2>6. Thinned(y, Queue(mem))
    BY <1>3, <2>1, <2>4, ThinnedConcat, ThinnedSelf
  <2> QED
    BY <1>2, <2>3, <2>4, <2>5, <2>6, GoneThinned
<1>7. CASE P # <<>> /\ DiskBecomes(Whole(Whole(Disk, P), I))
  <2>1. PICK x \in Seq(TapLines) : /\ Whole(Disk, P) = [file |-> tapFile \o x, closed |-> "yes"]
                                   /\ Thinned(x, P) /\ (closed = "no" \/ x = P)
    BY <1>3, <1>5, <1>7
  <2>2. Torn(tapFile \o x, "yes") /\ Left("yes", I) = I
    BY DEF Torn, Left
  <2>3. Added(x \o I)
    BY <1>2, <1>3, <1>4, <1>7, <2>1, <2>2
  <2>4. PICK y : y = x \o I
    OBVIOUS
  <2>5. Fate(y)
    BY <1>1, <1>3, <1>7, <2>1, <2>4, FateIs
  <2>6. Thinned(y, mem.pending \o mem.inflight)
    BY <1>1, <1>3, <2>1, <2>4, ThinnedConcat, ThinnedSelf
  <2> QED
    BY <1>2, <2>3, <2>4, <2>5, <2>6, GoneOvertaken
<1>8. CASE \E d \in Partly(I) : DiskBecomes(Whole(d, P))
  <2>1. PICK d \in Partly(mem.inflight) : DiskBecomes(Whole(d, P))
    BY <1>1, <1>8
  <2>2. PICK x \in Seq(TapLines) :
            /\ Thinned(x, I) /\ d = [file |-> tapFile \o x, closed |-> d.closed]
            /\ d.closed \in {"yes", "no"} /\ Torn(tapFile \o x, d.closed)
            /\ \/ x = <<>> /\ d.closed = closed
               \/ closed = "no"
               \/ \E k \in 0 .. Len(mem.inflight) - 1 : x = Cut(mem.inflight, k)
    BY <1>1, PartlyIs
  <2>3. PICK c : c = d.closed
    OBVIOUS
  <2>4. d = [file |-> tapFile \o x, closed |-> c] /\ c \in {"yes", "no"} /\ Torn(tapFile \o x, c)
    BY <2>2, <2>3
  <2>5. PICK z \in Seq(TapLines) : /\ Added(x \o z) /\ Thinned(z, P)
                                   /\ (z = P \/ closed = "no" \/ x # <<>> \/ z = <<>>)
    <3>1. CASE P = <<>>
      <4>1. DiskBecomes(d)
        BY <2>1, <3>1 DEF Whole
      <4>2. Added(x)
        BY <2>4, <4>1, AddedIs
      <4>3. x \o <<>> = x /\ <<>> \in Seq(TapLines) /\ Thinned(<<>>, P)
        BY <1>3, ThinnedEmpty
      <4> QED
        BY <4>2, <4>3
    <3>2. CASE P # <<>>
      <4>1. Left(c, P) \in Seq(TapLines) /\ Thinned(Left(c, P), P) /\ Added(x \o Left(c, P))
        BY <1>3, <1>4, <2>1, <2>4, <3>2
      <4>2. x = <<>> => c = closed \/ closed = "no" \/ Left(c, P) = P
        <5>1. SUFFICES ASSUME x = <<>>, NEW k \in 0 .. Len(I) - 1, x = Cut(I, k) PROVE FALSE
          BY <1>1, <2>2, <2>3
        <5>2. Cut(I, k) # <<>>
          BY <1>3, <5>1, ThinnedCut
        <5> QED
          BY <5>1, <5>2
      <4>3. Left(c, P) = P \/ closed = "no" \/ x # <<>>
        BY <1>3, <4>2 DEF Left
      <4> QED
        BY <4>1, <4>3
    <3> QED
      BY <3>1, <3>2
  <2>6. PICK y : y = x \o z
    OBVIOUS
  <2>7. Fate(y)
    BY <1>1, <2>2, <2>5, <2>6, FateIs
  <2>8. Thinned(y, Queue(mem))
    BY <1>3, <2>2, <2>5, <2>6, ThinnedConcat
  <2> QED
    BY <1>2, <2>5, <2>6, <2>7, <2>8, GoneThinned
<1> QED
  BY <1>1, <1>6, <1>7, <1>8 DEF ExitTimedOut

-----------------------------------------------------------------------------
(* A process starts                                                        *)

LEMMA BootKeeps == ASSUME TapInv, Boot PROVE TapInv'
<1>1. /\ phase = "off" /\ mem = NoMem /\ window = NoWindow /\ tapFile \in Seq(TapLines)
      /\ closed \in {"yes", "no"} /\ TornOK /\ observed \subseteq Nat \X Nat
      /\ boots \in Nat /\ stamp \in Nat
  BY DEF Boot, TapInv, TapTypeOK
<1>2. Flow(mem) = tapFile
  <2>1. Queue(mem) = <<>>
    BY <1>1 DEF Queue, NoMem
  <2> QED
    BY <1>1, <2>1 DEF Flow
<1>3. /\ LinesOK(tapFile, boots, observed, "off", mem.seq, stamp) /\ Ordered(tapFile)
      /\ ~LateFrames => AllAccounted(tapFile, observed)
      /\ NumbersOK(boots, observed, "off", mem.seq)
  BY <1>1, <1>2 DEF TapInv
<1>4. PICK b : b = boots + 1
  OBVIOUS
<1>5. PICK tail : tail = LastRecord(tapFile, [last |-> -1, hash |-> NoHash])
  OBVIOUS
<1>6. PICK n : n = tail.last + 1
  OBVIOUS
<1>7. PICK line : line = [kind |-> "meta", first |-> n, last |-> n, repeat |-> 1, hash |-> stamp + 1,
                          prev |-> tail.hash, boot |-> b, count |-> 0]
  OBVIOUS
<1>8. /\ boots' = b /\ stamp' = stamp + 1 /\ phase' = "up"
      /\ mem' = [seq |-> n, last |-> stamp + 1, pending |-> <<>>, inflight |-> <<line>>, dropped |-> 0]
      /\ UNCHANGED <<tapFile, closed, window, observed>>
  BY <1>4, <1>5, <1>6, <1>7 DEF Boot, Plain
<1>9. /\ n \in Nat /\ tail.hash \in Nat /\ tail.hash <= stamp /\ Latest(tapFile, tail.hash)
  <2>1. CASE \A i \in DOMAIN tapFile : ~IsRecord(tapFile[i])
    <3>1. tail = [last |-> -1, hash |-> NoHash]
      BY <1>1, <1>5, <2>1, LastRecordIsLast
    <3> QED
      BY <1>1, <1>6, <2>1, <3>1 DEF NoHash, Latest
  <2>2. CASE \E i \in DOMAIN tapFile : IsRecord(tapFile[i])
    <3>1. PICK i \in DOMAIN tapFile : /\ IsRecord(tapFile[i]) /\ tail = tapFile[i]
                                      /\ \A k \in DOMAIN tapFile : k > i => ~IsRecord(tapFile[k])
      BY <1>1, <1>5, <2>2, LastRecordIsLast
    <3>2. tail \in Written
      BY <1>1, <3>1 DEF TapLines, IsRecord
    <3>3. tail.last \in Nat /\ tail.hash \in Nat
      BY <3>2 DEF Written
    <3>4. tail.hash <= stamp
      BY <1>3, <3>1 DEF LinesOK, LineOK
    <3>5. ASSUME NEW k \in DOMAIN tapFile, NEW j \in DOMAIN tapFile,
                 IsRecord(tapFile[k]), tapFile[k].hash = tail.hash, k < j
          PROVE  ~IsRecord(tapFile[j])
      <4>1. k = i
        <5>1. ~(k < i) /\ ~(i < k)
          BY <1>3, <3>1, <3>5 DEF Ordered
        <5> QED
          BY <1>1, <5>1
      <4> QED
        BY <1>1, <3>1, <3>5, <4>1
    <3> QED
      BY <1>6, <3>3, <3>4, <3>5 DEF Latest
  <2> QED
    BY <2>1, <2>2
<1>10. /\ line \in Written /\ line.first = n /\ line.last = n /\ line.hash = stamp + 1 /\ line.kind = "meta"
       /\ line.prev = tail.hash /\ line.boot = b
  BY <1>1, <1>4, <1>7, <1>9 DEF Written
<1>11. /\ b \in Nat /\ stamp + 1 \in Nat /\ stamp <= stamp + 1
       /\ \A i \in DOMAIN tapFile : IsRecord(tapFile[i]) =>
             tapFile[i].boot \in Nat /\ tapFile[i].boot < b /\ tapFile[i].hash <= stamp
       /\ \A f \in observed : f[1] # b /\ f[1] <= b
  <2>1. ASSUME NEW i \in DOMAIN tapFile, IsRecord(tapFile[i])
        PROVE  tapFile[i].boot \in Nat /\ tapFile[i].boot < b /\ tapFile[i].hash <= stamp
    <3>1. tapFile[i] \in Written
      BY <1>1, <2>1 DEF TapLines, IsRecord
    <3>2. tapFile[i].boot \in Nat
      BY <3>1 DEF Written
    <3> QED
      BY <1>1, <1>3, <1>4, <2>1, <3>2 DEF LinesOK, LineOK
  <2>2. ASSUME NEW f \in observed PROVE f[1] # b /\ f[1] <= b
    <3>1. f[1] \in Nat
      BY <1>1
    <3> QED
      BY <1>1, <1>3, <1>4, <3>1 DEF NumbersOK
  <2> QED
    BY <1>1, <1>4, <2>1, <2>2
<1>12. PICK c : c = Append(tapFile, line)
  OBVIOUS
<1>13. Queue(mem)' = <<line>> /\ Flow(mem)' = c
  <2>1. Queue(mem)' = <<line>> \o <<>>
    BY <1>8 DEF Queue
  <2>2. Queue(mem)' = <<line>>
    BY <2>1
  <2>3. tapFile \o <<line>> = c
    BY <1>1, <1>10, <1>12 DEF TapLines
  <2> QED
    BY <1>8, <2>2, <2>3 DEF Flow
<1>14. Ordered(c) /\ Latest(c, stamp + 1) /\ Rising(c, b)
  <2>1. \A i \in DOMAIN tapFile : IsRecord(tapFile[i]) => tapFile[i].boot # b
    BY <1>11
  <2>2. \A i \in DOMAIN tapFile : IsRecord(tapFile[i]) => tapFile[i].hash <= stamp
    BY <1>11
  <2>3. Latest(tapFile, line.prev)
    BY <1>9, <1>10
  <2> QED
    BY <1>1, <1>3, <1>10, <1>12, <2>1, <2>2, <2>3, AppendKeepsOrder
<1>15. LinesOK(c, b, observed, "up", n, stamp + 1)
  <2>1. LinesOK(tapFile, b, observed, "up", n, stamp)
    <3>1. ASSUME NEW i \in DOMAIN tapFile, IsRecord(tapFile[i])
          PROVE  LineOK(tapFile[i], b, observed, "up", n, stamp)
      BY <1>3, <1>11, <3>1 DEF LinesOK, LineOK
    <3> QED
      BY <3>1 DEF LinesOK
  <2>2. LineOK(line, b, observed, "up", n, stamp + 1)
    BY <1>1, <1>9, <1>10, <1>11 DEF LineOK, Kinds, Reads
  <2>3. n \in Int /\ n <= n
    BY <1>9
  <2>4. LinesOK(Append(tapFile, line), b, observed, "up", n, stamp + 1)
    BY <1>1, <1>10, <1>11, <2>1, <2>2, <2>3, AppendKeepsLines, Zenon
  <2> QED
    BY <1>12, <2>4
<1>16. /\ c \in Seq(TapLines) /\ Len(c) = Len(tapFile) + 1 /\ c[Len(c)] = line
       /\ IsRecord(line)
  BY <1>1, <1>10, <1>12, AppendShape
<1>17. ~LateFrames => AllAccounted(c, observed)
  <2>1. Accounts(c, observed, Len(tapFile) + 1)
    BY <1>10, <1>11, <1>16 DEF Accounts
  <2> QED
    BY <1>1, <1>3, <1>10, <1>12, <2>1, AppendAccounts
<1>18. TapTypeOK'
  <2>1. <<line>> \in Seq(Written) /\ <<>> \in Seq(Written)
    BY <1>10
  <2>2. mem' \in Mems /\ mem'.seq \in Nat /\ mem'.last = stamp'
    BY <1>8, <1>9, <1>11, <2>1 DEF Mems
  <2> QED
    BY <1>1, <1>8, <1>11, <2>2 DEF TapTypeOK, Windows
<1>19. TornOK'
  BY <1>1, <1>8 DEF TornOK
<1>20. QueueOK(mem, stamp, boots)' /\ (Len(mem.pending) <= QueueCap + 1)'
  <2>1. mem'.pending = <<>> /\ mem'.inflight = <<line>> /\ Len(mem'.pending) = 0
    BY <1>8
  <2>2. Len(<<line>>) = 1 /\ <<line>>[1] = line /\ DOMAIN <<line>> = {1}
    OBVIOUS
  <2>3. QueueCap \in Nat
    BY TapAssumption
  <2>4. QueueOK(mem, stamp, boots)'
    BY <1>8, <1>10, <1>13, <2>1, <2>2 DEF QueueOK
  <2> QED
    BY <2>1, <2>3, <2>4
<1>21. mem'.seq = n
  BY <1>8
<1>22. LinesOK(Flow(mem), boots, observed, phase, mem.seq, stamp)' /\ Ordered(Flow(mem))'
  BY <1>8, <1>13, <1>14, <1>15, <1>21 DEF LinesOK, LineOK, Ordered
<1>23. (~LateFrames => AllAccounted(Flow(mem), observed))'
  BY <1>8, <1>13, <1>17 DEF AllAccounted, Sound, Accounts
<1>24. Running'
  <2>1. Rising(Flow(mem), boots)' /\ Latest(Flow(mem), stamp)'
    BY <1>8, <1>13, <1>14 DEF Rising, Latest
  <2>2. Below(Flow(mem), stamp, boots, mem.seq + 1)'
    <3>1. c # <<>> /\ c[Len(c)].boot = b /\ c[Len(c)].kind # "marker" /\ c[Len(c)].last < n + 1
      <4>1. c # <<>>
        BY <1>1, <1>16
      <4>2. n < n + 1 /\ line.kind # "marker"
        BY <1>9, <1>10
      <4> QED
        BY <1>10, <1>16, <4>1, <4>2
    <3> QED
      BY <1>8, <1>13, <1>21, <3>1 DEF Below
  <2>3. Told(Flow(mem), AtHand(window), mem.dropped, boots, observed)'
    BY <1>8, <1>11 DEF Told
  <2> QED
    BY <1>1, <1>8, <2>1, <2>2, <2>3 DEF Running
<1>25. WindowOK(window, boots, mem.seq, observed)' /\ NumbersOK(boots, observed, phase, mem.seq)'
  BY <1>1, <1>8, <1>11 DEF WindowOK, NumbersOK
<1> QED
  BY <1>18, <1>19, <1>20, <1>22, <1>23, <1>24, <1>25 DEF TapInv

LEMMA TapInvInit == ASSUME LogInit PROVE TapInv
<1>1. /\ tapFile = <<>> /\ closed = "yes" /\ phase = "off" /\ mem = NoMem /\ window = NoWindow
      /\ observed = {} /\ boots = 0 /\ stamp = 0
  BY DEF LogInit
<1>2. NoMem \in Mems /\ Queue(mem) = <<>> /\ Flow(mem) = <<>> /\ Len(mem.pending) = 0
  BY <1>1 DEF NoMem, Mems, Queue, Flow, NoHash
<1>3. TapTypeOK /\ TornOK
  BY <1>1, <1>2 DEF TapTypeOK, TornOK, Windows
<1>4. QueueOK(mem, stamp, boots) /\ Len(mem.pending) <= QueueCap + 1
  BY <1>1, <1>2, TapAssumption DEF QueueOK, NoMem
<1>5. DOMAIN Flow(mem) = {}
  BY <1>2
<1>6. /\ LinesOK(Flow(mem), boots, observed, phase, mem.seq, stamp) /\ Ordered(Flow(mem))
      /\ AllAccounted(Flow(mem), observed)
  BY <1>5 DEF LinesOK, Ordered, AllAccounted
<1>7. Running /\ WindowOK(window, boots, mem.seq, observed) /\ NumbersOK(boots, observed, phase, mem.seq)
  BY <1>1 DEF Running, WindowOK, NumbersOK
<1> QED
  BY <1>3, <1>4, <1>6, <1>7 DEF TapInv

LEMMA TapInvNext == ASSUME TapInv, [LogNext]_logVars PROVE TapInv'
<1>1. CASE Boot
  BY <1>1, BootKeeps
<1>2. ASSUME NEW kind \in Kinds, Observe(kind) PROVE TapInv'
  BY <1>2, ObserveKeeps
<1>3. CASE AppendDone
  BY <1>3, AppendDoneKeeps
<1>4. CASE AppendFails
  BY <1>4, AppendFailsKeeps
<1>5. CASE ChildExits
  BY <1>5, ChildExitsKeeps
<1>6. CASE ExitDrained
  BY <1>6, ExitDrainedKeeps
<1>7. CASE ExitTimedOut
  BY <1>7, ExitTimedOutKeeps
<1>8. CASE Crash
  BY <1>8, CrashKeeps
<1>9. CASE UNCHANGED logVars
  <2>1. /\ tapFile' = tapFile /\ closed' = closed /\ phase' = phase /\ mem' = mem /\ window' = window
        /\ observed' = observed /\ boots' = boots /\ stamp' = stamp
    BY <1>9 DEF logVars
  <2>2. Queue(mem)' = Queue(mem) /\ Flow(mem)' = Flow(mem)
    BY <2>1 DEF Queue, Flow
  <2>3. TapTypeOK' /\ TornOK' /\ QueueOK(mem, stamp, boots)' /\ (Len(mem.pending) <= QueueCap + 1)'
    BY <2>1, <2>2 DEF TapInv, TapTypeOK, TornOK, QueueOK
  <2>4. /\ LinesOK(Flow(mem), boots, observed, phase, mem.seq, stamp)' /\ Ordered(Flow(mem))'
        /\ (~LateFrames => AllAccounted(Flow(mem), observed))'
    BY <2>1, <2>2 DEF TapInv, LinesOK, LineOK, Ordered, AllAccounted, Accounts, Sound
  <2>5. Running'
    BY <2>1, <2>2 DEF TapInv, Running, Rising, Latest, Below, Told, AtHand
  <2>6. WindowOK(window, boots, mem.seq, observed)' /\ NumbersOK(boots, observed, phase, mem.seq)'
    BY <2>1 DEF TapInv, WindowOK, NumbersOK
  <2> QED
    BY <2>3, <2>4, <2>5, <2>6 DEF TapInv
<1> QED
  BY <1>1, <1>2, <1>3, <1>4, <1>5, <1>6, <1>7, <1>8, <1>9 DEF LogNext

-----------------------------------------------------------------------------
(* What the invariant says                                                 *)

LEMMA FileInFlow ==
  ASSUME TapInv
  PROVE  /\ tapFile \in Seq(TapLines) /\ Flow(mem) \in Seq(TapLines)
         /\ \A i \in DOMAIN tapFile : i \in DOMAIN Flow(mem) /\ Flow(mem)[i] = tapFile[i]
         /\ \A i \in DOMAIN tapFile : IsRecord(tapFile[i]) => tapFile[i] \in Written
<1>1. Joined(tapFile, Queue(mem), Flow(mem)) /\ tapFile \in Seq(TapLines)
  BY InvDisk, JoinShape
<1>2. \A i \in DOMAIN tapFile : IsRecord(tapFile[i]) => tapFile[i] \in Written
  BY <1>1 DEF TapLines, IsRecord
<1> QED
  BY <1>1, <1>2, InvDisk DEF Joined

LEMMA KeptIsFlow ==
  ASSUME TapInv
  PROVE  Kept = {Flow(mem)[i] : i \in {k \in DOMAIN Flow(mem) : IsRecord(Flow(mem)[k])}}
<1>1. PICK I, P, q, f : I = mem.inflight /\ P = mem.pending /\ q = Queue(mem) /\ f = Flow(mem)
  OBVIOUS
<1>2. /\ tapFile \in Seq(TapLines) /\ I \in Seq(TapLines) /\ P \in Seq(TapLines) /\ q \in Seq(TapLines)
      /\ I \in Seq(Written) /\ P \in Seq(Written) /\ q = I \o P /\ f = tapFile \o q
  BY <1>1, InvDisk
<1>3. Joined(I, P, q) /\ Joined(tapFile, q, f)
  BY <1>2, JoinShape
<1>4. Range(I) = {I[i] : i \in DOMAIN I} /\ Range(P) = {P[i] : i \in DOMAIN P}
  BY DEF Range
<1>5. \A l \in Written : IsRecord(l)
  BY TapAssumption DEF IsRecord
<1> DEFINE F == {f[i] : i \in {k \in DOMAIN f : IsRecord(f[k])}}
<1>6. ASSUME NEW l \in Kept PROVE l \in F
  <2>1. CASE l \in OnDisk
    BY <1>3, <2>1 DEF OnDisk, Joined
  <2>2. ASSUME NEW i \in DOMAIN q, l = q[i], IsRecord(l) PROVE l \in F
    <3>1. Len(tapFile) + i \in DOMAIN f /\ f[Len(tapFile) + i] = l
      BY <1>3, <2>2 DEF Joined
    <3> QED
      BY <2>2, <3>1
  <2>3. CASE l \in Range(I)
    <3>1. PICK i \in DOMAIN I : l = I[i]
      BY <1>4, <2>3
    <3>2. i \in DOMAIN q /\ q[i] = l /\ IsRecord(l)
      <4>1. l \in Written
        BY <1>2, <3>1
      <4>2. i \in DOMAIN q /\ q[i] = I[i]
        BY <1>3, <3>1 DEF Joined
      <4> QED
        BY <1>5, <3>1, <4>1, <4>2
    <3> QED
      BY <2>2, <3>2
  <2>4. CASE l \in Range(P)
    <3>1. PICK i \in DOMAIN P : l = P[i]
      BY <1>4, <2>4
    <3>2. Len(I) + i \in DOMAIN q /\ q[Len(I) + i] = l /\ IsRecord(l)
      <4>1. l \in Written
        BY <1>2, <3>1
      <4>2. Len(I) + i \in DOMAIN q /\ q[Len(I) + i] = P[i]
        BY <1>3, <3>1 DEF Joined
      <4> QED
        BY <1>5, <3>1, <4>1, <4>2
    <3> QED
      BY <2>2, <3>2
  <2> QED
    BY <1>1, <1>6, <2>1, <2>3, <2>4 DEF Kept
<1>7. ASSUME NEW i \in DOMAIN f, IsRecord(f[i]) PROVE f[i] \in Kept
  <2>1. CASE i \in DOMAIN tapFile
    BY <1>3, <1>7, <2>1 DEF Kept, OnDisk, Joined
  <2>2. CASE i \notin DOMAIN tapFile
    <3>1. PICK j \in DOMAIN q : f[i] = q[j]
      BY <1>3, <1>7, <2>2 DEF Joined
    <3>2. CASE j \in DOMAIN I
      <4>1. f[i] \in Range(I)
        BY <1>3, <1>4, <3>1, <3>2 DEF Joined
      <4> QED
        BY <1>1, <4>1 DEF Kept
    <3>3. CASE j \notin DOMAIN I
      <4>1. PICK k \in DOMAIN P : q[j] = P[k]
        BY <1>3, <3>1, <3>3 DEF Joined
      <4>2. f[i] \in Range(P)
        BY <1>4, <3>1, <4>1
      <4> QED
        BY <1>1, <4>2 DEF Kept
    <3> QED
      BY <3>2, <3>3
  <2> QED
    BY <2>1, <2>2
<1> QED
  BY <1>1, <1>6, <1>7

LEMMA InvBreak == ASSUME TapInv PROVE BreakHasCause
<1>1. SUFFICES ASSUME NEW i \in DOMAIN tapFile, NEW j \in DOMAIN tapFile,
                      Adjacent(tapFile, i, j), tapFile[j].prev # tapFile[i].hash,
                      NEW k \in DOMAIN tapFile, k < j, IsRecord(tapFile[k]),
                      tapFile[k].hash = tapFile[j].prev
               PROVE  tapFile[i].hash > tapFile[j].hash
  BY DEF BreakHasCause
<1>2. i < j /\ IsRecord(tapFile[i]) /\ IsRecord(tapFile[j])
      /\ \A h \in DOMAIN tapFile : (i < h /\ h < j) => ~IsRecord(tapFile[h])
  BY <1>1 DEF Adjacent
<1>3. i \in Nat /\ j \in Nat /\ k \in Nat
  BY FileInFlow
<1>4. k < i
  BY <1>1, <1>2, <1>3
<1>5. Ordered(Flow(mem))
  BY DEF TapInv
<1>6. tapFile[j].hash < tapFile[i].hash
  BY <1>1, <1>2, <1>4, <1>5, FileInFlow DEF Ordered
<1>7. tapFile[j].hash \in Nat /\ tapFile[i].hash \in Nat
  <2>1. tapFile[j] \in Written /\ tapFile[i] \in Written
    BY <1>2, FileInFlow
  <2> QED
    BY <2>1 DEF Written
<1> QED
  BY <1>6, <1>7

LEMMA InvMerge == ASSUME TapInv PROVE MergeLossless
<1>1. SUFFICES ASSUME NEW l \in Kept, l.kind \in Kinds
               PROVE  l.repeat = Cardinality({n \in l.first .. l.last : <<l.boot, n>> \in observed})
  BY DEF MergeLossless
<1>2. PICK i \in DOMAIN Flow(mem) : IsRecord(Flow(mem)[i]) /\ l = Flow(mem)[i]
  BY KeptIsFlow
<1>3. LineOK(l, boots, observed, phase, mem.seq, stamp)
  BY <1>2 DEF TapInv, LinesOK
<1> QED
  BY <1>1, <1>3 DEF LineOK, Counted

\* While the process runs.
LEMMA InvTold ==
  ASSUME TapInv, phase # "off", NEW f \in observed
  PROVE  \/ f[1] # boots
         \/ \E l \in Kept : Covers(l, boots, f[2])
         \/ window # NoWindow /\ window.first <= f[2] /\ f[2] <= window.last
         \/ mem.dropped > 0
         \/ \E l \in Kept : l.kind = "marker" /\ l.boot = boots
         \/ \E i \in DOMAIN tapFile : tapFile[i] = Corrupt
<1>1. Told(Flow(mem), AtHand(window), mem.dropped, boots, observed)
  BY DEF TapInv, Running
<1>2. \A i \in DOMAIN Flow(mem) : IsRecord(Flow(mem)[i]) => Flow(mem)[i] \in Kept
  BY KeptIsFlow
<1>3. \A r \in AtHand(window) : window # NoWindow /\ r = window
  BY DEF AtHand
<1>4. \A i \in DOMAIN tapFile : ~IsRecord(tapFile[i]) => tapFile[i] = Corrupt
  BY DEF IsRecord
<1> QED
  BY <1>1, <1>2, <1>3, <1>4 DEF Told

\* A file against which `tap verify` has nothing to say.
LEMMA CompleteIsSound ==
  ASSUME TapInv, VerifiesClean, NEW j \in DOMAIN tapFile
  PROVE  Sound(tapFile, j)
<1>1. tapFile \in Seq(TapLines) /\ \A i \in DOMAIN tapFile : IsRecord(tapFile[i])
  BY FileInFlow DEF VerifiesClean
<1>2. Parsed(tapFile) = tapFile
  BY <1>1, ParsedWhole
<1>3. \A i \in DOMAIN tapFile : tapFile[i].first = (IF i = 1 THEN -1 ELSE tapFile[i - 1].last) + 1
  BY <1>2 DEF VerifiesClean, Gaps
<1>4. ASSUME NEW i \in 1 .. j
      PROVE  /\ IsRecord(tapFile[i])
             /\ i = 1 => tapFile[i].first = 0
             /\ i > 1 => tapFile[i].prev = tapFile[i - 1].hash /\ tapFile[i].first = tapFile[i - 1].last + 1
  <2>1. i \in DOMAIN tapFile /\ i \in Nat
    BY <1>1
  <2>2. CASE i = 1
    BY <1>1, <1>3, <2>1, <2>2
  <2>3. CASE i # 1
    <3>1. i - 1 \in DOMAIN tapFile /\ i - 1 < i /\ \A k \in DOMAIN tapFile : ~(i - 1 < k /\ k < i)
      BY <1>1, <2>1, <2>3
    <3>2. Adjacent(tapFile, i - 1, i)
      BY <1>1, <2>1, <3>1 DEF Adjacent
    <3>3. tapFile[i].prev = tapFile[i - 1].hash
      BY <2>1, <3>1, <3>2 DEF VerifiesClean, Breaks
    <3> QED
      BY <1>1, <1>3, <2>1, <2>3, <3>3
  <2> QED
    BY <2>2, <2>3
<1> QED
  BY <1>4 DEF Sound

LEMMA InvComplete ==
  ASSUME TapInv, ~LateFrames, VerifiesClean, NEW f \in observed,
         NEW l \in OnDisk, l.boot = f[1], f[2] <= l.last \/ l.kind = "shutdown"
  PROVE  \E k \in OnDisk : Covers(k, f[1], f[2])
<1>1. /\ tapFile \in Seq(TapLines) /\ Flow(mem) \in Seq(TapLines)
      /\ \A i \in DOMAIN tapFile : i \in DOMAIN Flow(mem) /\ Flow(mem)[i] = tapFile[i]
  BY FileInFlow
<1>2. PICK x \in DOMAIN tapFile : IsRecord(tapFile[x]) /\ l = tapFile[x]
  BY DEF OnDisk
<1>3. x \in Nat /\ DOMAIN tapFile = 1 .. Len(tapFile) /\ Len(tapFile) \in Nat
  BY <1>1
<1>4. f[2] <= l.last
  <2>1. LineOK(Flow(mem)[x], boots, observed, phase, mem.seq, stamp)
    BY <1>1, <1>2 DEF TapInv, LinesOK
  <2> QED
    BY <1>1, <1>2, <2>1 DEF LineOK
<1>5. Sound(Flow(mem), x)
  <2>1. Sound(tapFile, x)
    BY CompleteIsSound
  <2>2. \A i \in 1 .. x : /\ Flow(mem)[i] = tapFile[i]
                          /\ i > 1 => Flow(mem)[i - 1] = tapFile[i - 1]
    BY <1>1, <1>3
  <2> QED
    BY <2>1, <2>2 DEF Sound
<1>6. Accounts(Flow(mem), observed, x)
  BY <1>1, <1>5 DEF TapInv, AllAccounted
<1>7. PICK i \in 1 .. x : Covers(Flow(mem)[i], f[1], f[2])
  BY <1>1, <1>2, <1>4, <1>6 DEF Accounts
<1>8. i \in DOMAIN tapFile /\ tapFile[i] = Flow(mem)[i]
  BY <1>1, <1>3
<1>9. tapFile[i] \in OnDisk
  BY <1>8 DEF OnDisk, VerifiesClean
<1> QED
  BY <1>7, <1>8, <1>9

-----------------------------------------------------------------------------
\* The file is made of lines and torn ones, and the queue of lines only, whatever
\* becomes of the appends.
THEOREM TapLogTyping == LogSpec => []TapTypeOK
<1>1. LogSpec => []TapInv
  BY TapInvInit, TapInvNext, PTL DEF LogSpec
<1>2. TapInv => TapTypeOK
  BY DEF TapInv
<1> QED
  BY <1>1, <1>2, PTL

\* verifyTapFile: no break of the chain is a false alarm, with failed and torn
\* appends, kills, an exit whose flush overtakes the append under way, and a
\* next process that goes on with the file.
THEOREM BreaksHaveCause == LogSpec => []BreakHasCause
<1>1. LogSpec => []TapInv
  BY TapInvInit, TapInvNext, PTL DEF LogSpec
<1> QED
  BY <1>1, InvBreak, PTL

\* Coalescer: a merged line says how many frames it stands for, and stands for
\* all of those between its numbers.
THEOREM MergingLosesNothing == LogSpec => []MergeLossless
<1>1. LogSpec => []TapInv
  BY TapInvInit, TapInvNext, PTL DEF LogSpec
<1> QED
  BY <1>1, InvMerge, PTL

\* TapLog.append, kick and verifyTapFile: when the child's output has been read
\* before its exit event, no frame is lost in silence; a file that verifies has
\* every frame but the last ones of a process that left no shutdown record.
THEOREM NoSilentLoss == ASSUME ~LateFrames PROVE LogSpec => []NothingSilent
<1>1. LogSpec => []TapInv
  BY TapInvInit, TapInvNext, PTL DEF LogSpec
<1>2. ASSUME TapInv PROVE NothingSilent
  <2>1. Len(mem.pending) <= QueueCap + 1
    BY <1>2 DEF TapInv
  <2>2. ASSUME phase # "off", NEW f \in observed
        PROVE  \/ f[1] # boots
               \/ \E l \in Kept : Covers(l, boots, f[2])
               \/ window # NoWindow /\ window.first <= f[2] /\ f[2] <= window.last
               \/ mem.dropped > 0
               \/ \E l \in Kept : l.kind = "marker" /\ l.boot = boots
               \/ \E i \in DOMAIN tapFile : tapFile[i] = Corrupt
    BY <1>2, <2>2, InvTold
  <2>3. ASSUME VerifiesClean, NEW f \in observed,
               \E l \in OnDisk : l.boot = f[1] /\ (f[2] <= l.last \/ l.kind = "shutdown")
        PROVE  \E l \in OnDisk : Covers(l, f[1], f[2])
    BY <1>2, <2>3, InvComplete
  <2> QED
    BY <2>1, <2>2, <2>3 DEF NothingSilent
<1> QED
  BY <1>1, <1>2, PTL
=============================================================================
