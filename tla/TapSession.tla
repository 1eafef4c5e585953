------------------------------ MODULE TapSession ------------------------------
(***************************************************************************)
(* tap.ts: how an mcp-tap process pairs the requests of the client with    *)
(* the answers of the server.  A request that is seen waits in a map under *)
(* its id; its record is written when the answer comes, or, with the       *)
(* marker "unpaired", when it is put out of the map because the map is     *)
(* full or it has waited too long.  There is no timer: the map is swept    *)
(* whenever a message comes by.  What lies behind the records (numbers,    *)
(* merging, the file) is TapLog.                                           *)
(***************************************************************************)
EXTENDS Sequences, Integers, FiniteSets

CONSTANTS Ids,          \* the ids clients choose
          Cap,          \* pendingCap (4096 in the code)
          Ttl,          \* ttlMs (five minutes in the code)
          MaxRequests,  \* bound: requests of the client
          MaxClock,     \* bound: the clock
          Reuse,        \* a client may use an id again before its answer came
          SetBack       \* the clock may be set back

ASSUME TapSessionAssumption ==
    /\ Cap \in Nat \ {0}
    /\ {Ttl, MaxRequests, MaxClock} \subseteq Nat
    /\ {Reuse, SetBack} \subseteq BOOLEAN

\* What a request is to the tap: a call whose record the answer completes, a
\* question (initialize, tools/list) whose answer is a record of its own, or a
\* method that is not tracked and recorded at once.
Calls == {"call", "question"}
Methods == Calls \cup {"other"}

VARIABLES pending,     \* the map, in the order of insertion
          now,         \* Date.now()
          log,         \* the records that speak of a request
          sent,        \* every request of the client, in order
          unanswered,  \* numbers of the requests the server has not answered
          put,         \* history: requests put out of the map, or written over
          swept,       \* history: the clock at the last sweep
          odd          \* history: an id was used while the client waited under it
                       \* ("twice"), or was still in the map ("over"); "clock"

vars == <<pending, now, log, sent, unanswered, put, swept, odd>>

Init ==
    /\ pending = {} /\ now = 0 /\ log = {} /\ sent = <<>> /\ unanswered = {}
    /\ put = {} /\ swept = 0 /\ odd = {}

-----------------------------------------------------------------------------
(* The map: a set of entries.  An entry is under its id; n is the number   *)
(* of the request, at the place of its key in the order of insertion.      *)

Under(map, id) == {e \in map : e.id = id}

\* Map.set: a key that is there keeps its place.
Place(map, id, n) == IF Under(map, id) = {} THEN n ELSE (CHOOSE e \in Under(map, id) : TRUE).at

MapSet(map, id, n, method) ==
    (map \ Under(map, id)) \cup
    {[id |-> id, n |-> n, method |-> method, t |-> now, at |-> Place(map, id, n)]}

Unpaired(n) == [kind |-> "unpaired", of |-> n, answer |-> 0]
Paired(n, a) == [kind |-> "paired", of |-> n, answer |-> a]
Orphan(a) == [kind |-> "orphan", of |-> 0, answer |-> a]

\* Mutant: an entry is put out of the map without a record.
EvictedSilently(out) == {}

\* evict: what is left behind of entries that are put out of the map; of one
\* that was not tracked, nothing.
Evicted(out) == {Unpaired(e.n) : e \in {f \in out : f.method \in Calls}}

\* Mutant: sweep stops before the last entry that is too old.
StaleButOne(map) ==
    {e \in map : \E f \in map : f.at > e.at /\ \A g \in map : g.at <= f.at => now - g.t > Ttl}

\* sweep: from the front, as long as the entries are too old.
Stale(map) == {e \in map : \A f \in map : f.at <= e.at => now - f.t > Ttl}

\* The map after the sweep of a message, and what has gone out of it.
Swept == [map |-> pending \ Stale(pending), out |-> Stale(pending)]

Oldest(map) == {e \in map : \A f \in map : e.at <= f.at}

\* A map that is full gives up its oldest entry.
WithRoom(s) ==
    IF Cardinality(s.map) >= Cap
    THEN [map |-> s.map \ Oldest(s.map), out |-> s.out \cup Oldest(s.map)]
    ELSE s

-----------------------------------------------------------------------------
(* Messages                                                                *)

\* A message puts s.out out of the map and adds the records recs.
Leaves(s, recs) ==
    /\ log' = log \cup Evicted(s.out) \cup recs
    /\ put' = put \cup {e.n : e \in s.out}
    /\ swept' = now

\* The requests under this id that the client still waits for.
Waiting(id) == {a \in unanswered : sent[a].id = id}

\* A request of the client.  One that is not tracked is remembered as well,
\* so that its answer is not taken for an orphan.
Request(id, method) ==
    /\ Len(sent) < MaxRequests
    /\ Reuse \/ Waiting(id) = {}
    /\ LET n == Len(sent) + 1
           s == WithRoom(Swept)
           over == Under(s.map, id)
       IN  /\ pending' = MapSet(s.map, id, n, method)
           /\ log' = log \cup Evicted(s.out)
           /\ put' = put \cup {e.n : e \in s.out \cup over}
           /\ odd' = odd \cup {"twice" : a \in Waiting(id)} \cup {"over" : e \in over}
           /\ unanswered' = unanswered \cup {n}
    /\ swept' = now
    /\ sent' = Append(sent, [id |-> id, method |-> method, seen |-> "yes"])
    /\ UNCHANGED now

\* What is written when request a is answered by the entries of the map in at.
Outcome(a, at) ==
    IF at = {} THEN {Orphan(a)} ELSE {Paired(e.n, a) : e \in {f \in at : f.method \in Calls}}

\* Mutant: answers are taken to come in the order of the requests.
AnswerInOrder(a) ==
    /\ a \in unanswered
    /\ LET at == Oldest(Swept.map)
       IN  pending' = Swept.map \ at /\ Leaves(Swept, Outcome(a, at))
    /\ unanswered' = unanswered \ {a}
    /\ UNCHANGED <<now, sent, odd>>

\* The server's answer to request a, told by its id alone.
Answer(a) ==
    /\ a \in unanswered
    /\ LET at == Under(Swept.map, sent[a].id)
       IN  pending' = Swept.map \ at /\ Leaves(Swept, Outcome(a, at))
    /\ unanswered' = unanswered \ {a}
    /\ UNCHANGED <<now, sent, odd>>

\* A notification, a request of the server, or the client's answer to one,
\* whose id is the server's and may be any: the map is swept, no more.
Aside ==
    /\ pending' = Swept.map /\ Leaves(Swept, {})
    /\ UNCHANGED <<now, sent, unanswered, odd>>

\* A frame that is too long or does not parse leaves an opaque record; it is
\* relayed all the same.
OpaqueRequest(id) ==
    /\ Len(sent) < MaxRequests
    /\ Reuse \/ Waiting(id) = {}
    /\ sent' = Append(sent, [id |-> id, method |-> "call", seen |-> "no"])
    /\ unanswered' = unanswered \cup {Len(sent) + 1}
    /\ odd' = odd \cup {"twice" : a \in Waiting(id)}
    /\ UNCHANGED <<pending, now, log, put, swept>>

OpaqueAnswer(a) ==
    /\ a \in unanswered
    /\ unanswered' = unanswered \ {a}
    /\ UNCHANGED <<pending, now, log, sent, put, swept, odd>>

Tick ==
    /\ now < MaxClock
    /\ now' = now + 1
    /\ UNCHANGED <<pending, log, sent, unanswered, put, swept, odd>>

ClockBack ==
    /\ SetBack /\ now > 0
    /\ now' = now - 1
    /\ odd' = odd \cup {"clock"}
    /\ UNCHANGED <<pending, log, sent, unanswered, put, swept>>

Next ==
    \/ \E id \in Ids : (\E m \in Methods : Request(id, m)) \/ OpaqueRequest(id)
    \/ \E a \in unanswered : Answer(a) \/ OpaqueAnswer(a)
    \/ Aside \/ Tick \/ ClockBack

Spec == Init /\ [][Next]_vars

-----------------------------------------------------------------------------
TypeOK ==
    /\ pending \subseteq [id : Ids, n : DOMAIN sent, method : Methods, t : 0 .. MaxClock, at : DOMAIN sent]
    /\ \A e, f \in pending : e.id = f.id \/ e.at = f.at => e = f
    /\ now \in 0 .. MaxClock /\ swept \in 0 .. MaxClock
    /\ sent \in Seq([id : Ids, method : Methods, seen : {"yes", "no"}])
    /\ unanswered \cup put \subseteq DOMAIN sent
    /\ \A r \in log : {r.of, r.answer} \subseteq 0 .. Len(sent)
    /\ odd \subseteq {"twice", "over", "clock"}

\* The map never holds more than its limit, whatever the ids.
MapBounded == Cardinality(pending) <= Cap

InMap(n) == \E e \in pending : e.n = n
GivenUp(n) == Unpaired(n) \in log
AnswersOf(n) == {r \in log : r.kind = "paired" /\ r.of = n}

\* A call that was seen is in exactly one place: waiting, written down as
\* answered, once, or written down as unpaired.  Only a call whose id was used
\* again while it was in the map is nowhere; that takes no careless client, an
\* answer in an opaque frame leaves its request there.
CallsAccounted ==
    \A n \in DOMAIN sent : (sent[n].seen = "yes" /\ sent[n].method \in Calls) =>
       \/ InMap(n) /\ ~GivenUp(n) /\ AnswersOf(n) = {}
       \/ ~InMap(n) /\ GivenUp(n) /\ AnswersOf(n) = {}
       \/ ~InMap(n) /\ ~GivenUp(n) /\ \E r \in log : AnswersOf(n) = {r}
       \/ n \in put /\ "over" \in odd

\* The answer to a request that was seen is paired with it and no other, unless
\* the client used an id while it still waited for an answer under it.
PairedRight ==
    "twice" \notin odd =>
       \A r \in log : (r.kind = "paired" /\ sent[r.answer].seen = "yes") => r.of = r.answer

\* An answer counts as an orphan only when its request was not seen or was
\* put out of the map: no noise from methods that are not tracked.
OrphanHasCause ==
    "twice" \notin odd =>
       \A r \in log : r.kind = "orphan" => r.answer \in put \/ sent[r.answer].seen = "no"

\* "Insertion order is time order": the sweep of a message leaves nothing in
\* the map that has waited too long, as long as no key is written over (it keeps
\* its place) and the clock is not set back.
SweepComplete ==
    odd = {} => \A e \in pending : swept - e.t <= Ttl
=============================================================================
