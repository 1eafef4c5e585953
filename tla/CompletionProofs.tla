-------------------------- MODULE CompletionProofs --------------------------
(***************************************************************************)
(* For any number of works, sessions and Stop hooks: a page that lists a   *)
(* false claim never passes, whatever overlaps and whichever write fails;  *)
(* and where nothing overlaps or fails, a pass is earned and the page that *)
(* was asked for becomes final.                                            *)
(***************************************************************************)
EXTENDS Completion, TLAPS

Slots == [at : {"idle", "bind", "answer", "merge", "finalize", "render"},
          copy : SUBSET Marks, session : Sessions \cup {NoSession}, answer : Answers]

SlotsHold == /\ stop \in [Stops -> Slots]
             /\ \A s \in Stops : stop[s].at # "idle" => stop[s].copy # {}

\* What share-proof carries depends on where it is.
ShareHolds ==
    /\ share \in [at : {"idle", "mark", "html", "request", "record"}, work : SUBSET Works,
                  copy : (SUBSET Sidecars) \cup (SUBSET Marks), shown : Pages]
    /\ AtMostOne(share.copy)
    /\ share.at = "mark" => share.copy \in SUBSET Sidecars
    /\ share.at = "record" => share.copy \in SUBSET Marks

PendHolds == pend \in SUBSET Marks /\ AtMostOne(pend)

SidecarsHold == /\ sidecar \in [Works -> SUBSET Sidecars]
                /\ \A w \in Works : AtMostOne(sidecar[w])

DoneHolds == /\ done \in [at : {"idle", "write"}, work : SUBSET Works, prev : SUBSET Marks]
             /\ sealed \in Seq(Works)

CountsHold ==
    stopsRun \in 0 .. MaxStops /\ shares \in 0 .. MaxShares /\ upset \in Bools

TypeInv == /\ PendHolds /\ SidecarsHold /\ html \in [Works -> Pages]
           /\ DoneHolds /\ ShareHolds /\ SlotsHold /\ CountsHold

-----------------------------------------------------------------------------
(* Editing one record keeps it a record                                    *)

\* A mark stays a mark through every field the processes set.
LEMMA MarkEdits ==
    ASSUME NEW m \in Marks, NEW n \in Sessions \cup {NoSession}, NEW v \in SUBSET Works
    PROVE  /\ [m EXCEPT !.error = "yes"] \in Marks
           /\ [m EXCEPT !.status = "finalized", !.error = "no"] \in Marks
           /\ [m EXCEPT !.session = n] \in Marks
           /\ [m EXCEPT !.share = v] \in Marks
BY DEF Marks, Bools

\* A sidecar stays one when the extraction status is merged into it, and
\* keeps its answer and its result.
LEMMA SidecarEdits ==
    ASSUME NEW c \in Sidecars, NEW a \in Answers
    PROVE  LET d == [c EXCEPT !.ext = ExtractionOf(a)]
           IN  d \in Sidecars /\ d.answer = c.answer /\ d.result = c.result
<1>1. ExtractionOf(a) \in Statuses
  BY DEF ExtractionOf, Statuses
<1>2. ASSUME NEW e \in Statuses
      PROVE LET d == [c EXCEPT !.ext = e]
            IN  d \in Sidecars /\ d.answer = c.answer /\ d.result = c.result
  BY DEF Sidecars, Bools
<1> QED
  BY <1>1, <1>2

\* What a Stop hook seals is a sidecar, and a false answer is a mismatch.
LEMMA SealType ==
    ASSUME NEW a \in Answers, NEW n \in Sessions \cup {NoSession}
    PROVE  /\ [from |-> n, answer |-> a, result |-> ResultOf(a),
               ext |-> "unset"] \in Sidecars
           /\ a = "false" => ResultOf(a) = "mismatch"
<1>1. ResultOf(a) \in Results
  BY DEF ResultOf, Results
<1>2. a = "false" => ResultOf(a) = "mismatch"
  BY DEF ResultOf
<1> QED
  BY <1>1, <1>2 DEF Sidecars, Statuses, Bools

\* completionExtras makes a page.
LEMMA ShownType ==
    ASSUME NEW w \in Works, NEW comp \in SUBSET Sidecars, NEW mark
    PROVE  Shown(w, comp, mark) \in Pages
<1> DEFINE c == CHOOSE c \in comp : TRUE
           says == IF comp = {} /\ \E m \in mark : m.status = "pending"
                                        /\ Content[m.work] = Content[w]
                   THEN "PENDING" ELSE Handoff(w \in OkWorks, comp)
           of == IF comp = {} THEN "none" ELSE c.answer
<1>1. says \in Handoffs
  BY DEF Handoff, Handoffs
<1>2. of \in Answers \cup {"none"}
  <2>1. comp # {} => c \in Sidecars
    OBVIOUS
  <2> QED
    BY <2>1 DEF Sidecars
<1>3. Shown(w, comp, mark) = [says |-> says, of |-> of, about |-> {w}]
  BY DEF Shown
<1> HIDE DEF says, of, c
<1> QED
  BY <1>1, <1>2, <1>3 DEF Pages

\* A Stop hook in flight has a mark of its own.
LEMMA MineType ==
    ASSUME SlotsHold, NEW s \in Stops, stop[s].at # "idle"
    PROVE  /\ Mine(s) \in Marks /\ Mine(s).work \in Works
           /\ Mine(s).share \in SUBSET Works
<1>1. stop[s].copy # {} /\ stop[s].copy \in SUBSET Marks
  BY DEF SlotsHold, Slots
<1>2. Mine(s) \in Marks
  BY <1>1 DEF Mine
<1> QED
  BY <1>2 DEF Marks

-----------------------------------------------------------------------------
(* Typing                                                                  *)

\* The program starts with empty files and idle processes.
LEMMA TypeInit == Init => TypeInv
<1> SUFFICES ASSUME Init PROVE TypeInv
  OBVIOUS
<1> USE DEF Init, AtMostOne
<1>1. NoPage \in Pages
  BY DEF NoPage, Pages
<1>2. Idle \in Slots /\ Idle.at = "idle"
  BY DEF Idle, Slots, NoCopy, Answers
<1>3. PendHolds /\ SidecarsHold /\ html \in [Works -> Pages]
  BY <1>1 DEF PendHolds, SidecarsHold
<1>4. ShareHolds
  BY <1>1 DEF ShareHolds, NoCopy
<1>5. DoneHolds /\ SlotsHold /\ CountsHold
  BY <1>2, CompletionAssumption DEF DoneHolds, SlotsHold, CountsHold, Bools, Starts,
     Fails, Saves
<1> QED
  BY <1>3, <1>4, <1>5 DEF TypeInv

\* done and share-proof keep the types.
LEMMA OthersType ==
    ASSUME TypeInv,
           \/ \E w \in Works : DoneLoads(w) \/ ShareReadsSidecar(w)
           \/ DoneWrites
           \/ ShareReadsMark \/ ShareWritesHtml \/ ShareLoadsRequest \/ ShareRecords
    PROVE  TypeInv'
<1> USE DEF TypeInv, AtMostOne
<1>0. /\ NoPage \in Pages
      /\ ShareDone => ShareHolds'
  <2>1. NoPage \in Pages
    BY DEF NoPage, Pages
  <2> QED
    BY <2>1 DEF ShareDone, ShareHolds, NoCopy
<1>1. ASSUME NEW w \in Works, DoneLoads(w) PROVE TypeInv'
  <2>1. DoneHolds'
    BY <1>1 DEF DoneHolds, DoneLoads, PendHolds
  <2> QED
    BY <1>1, <2>1 DEF DoneLoads, files, PendHolds, SidecarsHold, ShareHolds, SlotsHold,
       CountsHold, Bools, Starts, Fails, Saves
<1>2. ASSUME NEW w \in Works, ShareReadsSidecar(w) PROVE TypeInv'
  <2>1. CountsHold'
    BY <1>2, CompletionAssumption DEF CountsHold, Bools, Starts, Fails, Saves,
       ShareReadsSidecar
  <2>2. ShareHolds'
    BY <1>0, <1>2 DEF ShareHolds, ShareReadsSidecar, SidecarsHold
  <2> QED
    BY <1>2, <2>1, <2>2 DEF ShareReadsSidecar, files, PendHolds, SidecarsHold,
       DoneHolds, SlotsHold
<1>3. CASE DoneWrites
  <2>1. PendHolds'
    <3>1. PICK w \in done.work : pend' = pend
            \/ pend' = {[work |-> w, status |-> "pending", error |-> "no",
                         born |-> Len(sealed), session |-> NoSession, share |-> {}]}
      BY <1>3 DEF DoneWrites
    <3>2. w \in Works /\ Len(sealed) \in Nat
      BY DEF DoneHolds
    <3>3. [work |-> w, status |-> "pending", error |-> "no",
           born |-> Len(sealed), session |-> NoSession, share |-> {}] \in Marks
      BY <3>2 DEF Marks, Bools
    <3> QED
      BY <3>1, <3>3 DEF PendHolds
  <2>2. DoneHolds'
    BY <1>3 DEF DoneWrites, DoneHolds
  <2> QED
    BY <1>3, <2>1, <2>2 DEF DoneWrites, SidecarsHold, ShareHolds, SlotsHold, CountsHold,
       Bools, Starts, Fails, Saves
<1>4. CASE ShareReadsMark
  <2>1. PICK w \in share.work :
          share' = [share EXCEPT !.at = "html", !.copy = NoCopy,
                                 !.shown = Shown(w, share.copy, pend)]
    BY <1>4 DEF ShareReadsMark
  <2>2. Shown(w, share.copy, pend) \in Pages
    BY <1>4, <2>1, ShownType DEF ShareReadsMark, ShareHolds
  <2>3. ShareHolds'
    BY <2>1, <2>2 DEF ShareHolds, NoCopy
  <2> QED
    BY <1>4, <2>3 DEF ShareReadsMark, files, PendHolds, SidecarsHold, DoneHolds,
       SlotsHold, CountsHold, Bools, Starts, Fails, Saves
<1>5. CASE ShareWritesHtml
  <2>1. html' \in [Works -> Pages]
    BY <1>5 DEF ShareWritesHtml, ShareHolds
  <2>2. ShareHolds'
    <3>1. CASE share' = [share EXCEPT !.at = "request"]
      BY <3>1 DEF ShareHolds
    <3>2. ShareDone \/ share' = [share EXCEPT !.at = "request"]
      BY <1>5 DEF ShareWritesHtml
    <3> QED
      BY <1>0, <3>1, <3>2
  <2> QED
    BY <1>5, <2>1, <2>2 DEF ShareWritesHtml, PendHolds, SidecarsHold, DoneHolds,
       SlotsHold, CountsHold, Bools, Starts, Fails, Saves
<1>6. CASE ShareLoadsRequest
  <2>1. ShareHolds'
    BY <1>0, <1>6 DEF ShareLoadsRequest, ShareHolds, PendHolds
  <2> QED
    BY <1>6, <2>1 DEF ShareLoadsRequest, files, PendHolds, SidecarsHold, DoneHolds,
       SlotsHold, CountsHold, Bools, Starts, Fails, Saves
<1>7. CASE ShareRecords
  <2>1. \A m \in share.copy : [m EXCEPT !.share = share.work] \in Marks
    BY <1>7, MarkEdits DEF ShareRecords, ShareHolds
  <2>2. PendHolds'
    BY <1>7, <2>1 DEF ShareRecords, ShareHolds, PendHolds
  <2> QED
    BY <1>0, <1>7, <2>2 DEF ShareRecords, SidecarsHold, DoneHolds, SlotsHold,
       CountsHold, Bools, Starts, Fails, Saves
<1> QED
  BY <1>1, <1>2, <1>3, <1>4, <1>5, <1>6, <1>7

\* A Stop hook that moves on, exits or writes its mark keeps the types.
LEMMA StopMovesType ==
    ASSUME SlotsHold, NEW s \in Stops
    PROVE  /\ \A l \in {"answer", "merge", "finalize", "render"} :
                 (stop[s].at # "idle" /\ StopMoves(s, l)) => SlotsHold'
           /\ StopExits(s) => SlotsHold'
<1>1. ASSUME NEW l \in {"answer", "merge", "finalize", "render"},
             stop[s].at # "idle", StopMoves(s, l)
      PROVE  SlotsHold'
  BY <1>1 DEF StopMoves, SlotsHold, Slots
<1>2. ASSUME StopExits(s) PROVE SlotsHold'
  <2>1. Idle \in Slots /\ Idle.at = "idle"
    BY DEF Idle, Slots, NoCopy, Answers
  <2> QED
    BY <1>2, <2>1 DEF StopExits, SlotsHold
<1> QED
  BY <1>1, <1>2

\* Writing a mark back keeps the file a file of marks.
LEMMA SavesType ==
    ASSUME PendHolds, NEW m \in Marks, Saves(m) \/ pend' \in {pend, {m}}
    PROVE  PendHolds'
BY DEF PendHolds, Saves, AtMostOne

\* A Stop hook keeps the types.
LEMMA StopType ==
    ASSUME TypeInv, NEW s \in Stops,
           \/ StopLoads(s) \/ StopAmbiguous(s) \/ StopBinds(s) \/ StopUnusable(s)
           \/ StopSeals(s) \/ StopMerges(s) \/ StopMergeFails(s)
           \/ StopFinalizes(s) \/ StopRenders(s) \/ StopDies(s)
    PROVE  TypeInv'
<1> USE DEF TypeInv
<1>1. CASE StopLoads(s)
  <2>1. PICK a \in Answers, n \in Sessions \cup {NoSession} :
          stop' = [stop EXCEPT ![s] = [at |-> "bind", copy |-> pend,
                                       session |-> n, answer |-> a]]
    BY <1>1 DEF StopLoads
  <2>2. pend # {}
    BY <1>1 DEF StopLoads
  <2>3. SlotsHold'
    BY <2>1, <2>2 DEF SlotsHold, Slots, PendHolds
  <2>4. CountsHold'
    BY <1>1, CompletionAssumption DEF StopLoads, CountsHold, Bools, Starts, Fails, Saves
  <2> QED
    BY <1>1, <2>3, <2>4 DEF StopLoads, files, PendHolds, SidecarsHold, DoneHolds,
       ShareHolds
<1>2. CASE StopAmbiguous(s) \/ StopUnusable(s) \/ StopMergeFails(s)
  <2>1. /\ stop[s].at # "idle" /\ StopExits(s)
        /\ Saves(Erred(s)) \/ pend' \in {pend, {Erred(s)}}
    BY <1>2 DEF StopAmbiguous, StopUnusable, StopMergeFails
  <2>2. Erred(s) \in Marks
    BY <2>1, MineType, MarkEdits DEF Erred
  <2>3. PendHolds' /\ SlotsHold'
    BY <2>1, <2>2, SavesType, StopMovesType
  <2> QED
    BY <1>2, <2>3 DEF StopAmbiguous, StopUnusable, StopMergeFails,
                      SidecarsHold, DoneHolds, ShareHolds, CountsHold, Bools, Starts, Fails, Saves
<1>3. CASE StopBinds(s)
  <2>1. PendHolds' /\ SlotsHold'
    <3>1. CASE StopMoves(s, "answer") /\ UNCHANGED <<pend, upset>>
      BY <1>3, <3>1, StopMovesType DEF StopBinds, PendHolds
    <3>2. ASSUME NEW m \in Marks, Saves(m),
                 stop' = [stop EXCEPT ![s] = [@ EXCEPT !.at = "answer", !.copy = {m}]]
          PROVE  PendHolds' /\ SlotsHold'
      BY <3>2, SavesType DEF SlotsHold, Slots
    <3>3. /\ Mine(s) \in Marks
          /\ [Mine(s) EXCEPT !.session = stop[s].session] \in Marks
      BY <1>3, MineType, MarkEdits DEF StopBinds, SlotsHold, Slots
    <3> QED
      BY <1>3, <3>1, <3>2, <3>3 DEF StopBinds
  <2> QED
    BY <1>3, <2>1 DEF StopBinds, SidecarsHold, DoneHolds, ShareHolds, CountsHold, Bools,
       Starts, Fails, Saves
<1>4. CASE StopSeals(s)
  <2> DEFINE c == [from |-> stop[s].session, answer |-> stop[s].answer,
                   result |-> ResultOf(stop[s].answer), ext |-> "unset"]
  <2>1. stop[s].answer \in Answers /\ stop[s].session \in Sessions \cup {NoSession}
    BY DEF SlotsHold, Slots
  <2>2. c \in Sidecars
    BY <2>1, SealType
  <2>3. sidecar' = [sidecar EXCEPT ![Mine(s).work] = {c}]
    BY <1>4 DEF StopSeals
  <2> HIDE DEF c
  <2>4. SidecarsHold'
    BY <2>2, <2>3 DEF SidecarsHold, AtMostOne
  <2>5. SlotsHold'
    BY <1>4, StopMovesType DEF StopSeals
  <2> QED
    BY <1>4, <2>4, <2>5 DEF StopSeals, PendHolds, DoneHolds, ShareHolds, CountsHold,
       Bools, Starts, Fails, Saves
<1>5. CASE StopMerges(s)
  <2> DEFINE Merged(c) == [c EXCEPT !.ext = ExtractionOf(stop[s].answer)]
  <2>1. stop[s].answer \in Answers
    BY DEF SlotsHold, Slots
  <2>2. \A c \in Sidecars : Merged(c) \in Sidecars
    BY <2>1, SidecarEdits
  <2>3. sidecar' = [sidecar EXCEPT ![Mine(s).work] = {Merged(c) : c \in @}]
    BY <1>5 DEF StopMerges
  <2> HIDE DEF Merged
  <2>4. /\ DOMAIN sidecar' = Works
        /\ \A w \in Works : sidecar'[w] = IF w = Mine(s).work THEN {Merged(c) : c \in sidecar[w]}
                                                              ELSE sidecar[w]
    BY <2>3 DEF SidecarsHold
  <2>6. \A w \in Works : sidecar'[w] \subseteq Sidecars /\ AtMostOne(sidecar'[w])
    BY <2>2, <2>4 DEF SidecarsHold, AtMostOne
  <2>7. SidecarsHold'
    BY <2>3, <2>4, <2>6 DEF SidecarsHold
  <2>5. SlotsHold'
    BY <1>5, StopMovesType DEF StopMerges
  <2> QED
    BY <1>5, <2>5, <2>7 DEF StopMerges, PendHolds, DoneHolds, ShareHolds, CountsHold,
       Bools, Starts, Fails, Saves
<1>6. CASE StopFinalizes(s)
  <2>1. SlotsHold'
    BY <1>6, StopMovesType DEF StopFinalizes
  <2>2. PendHolds'
    BY <1>6, MineType, MarkEdits, SavesType DEF StopFinalizes
  <2> QED
    BY <1>6, <2>1, <2>2 DEF StopFinalizes, SidecarsHold, DoneHolds, ShareHolds,
       CountsHold, Bools, Starts, Fails, Saves
<1>7. CASE StopRenders(s)
  <2>1. Shown(Mine(s).work, sidecar[Mine(s).work], pend) \in Pages
    BY <1>7, MineType, ShownType DEF StopRenders, SidecarsHold
  <2>2. html' \in [Works -> Pages]
    BY <1>7, <2>1 DEF StopRenders
  <2>3. SlotsHold'
    BY <1>7, StopMovesType DEF StopRenders
  <2> QED
    BY <1>7, <2>2, <2>3 DEF StopRenders, PendHolds, SidecarsHold, DoneHolds, ShareHolds,
       CountsHold, Bools, Starts, Fails, Saves
<1>8. CASE StopDies(s)
  <2>1. SlotsHold'
    BY <1>8, StopMovesType DEF StopDies
  <2> QED
    BY <1>8, <2>1 DEF StopDies, files, PendHolds, SidecarsHold, DoneHolds, ShareHolds,
       CountsHold, Bools, Starts, Fails, Saves
<1> QED
  BY <1>1, <1>2, <1>3, <1>4, <1>5, <1>6, <1>7, <1>8

\* A step in which nothing happens keeps them too.
LEMMA TypeStutter == TypeInv /\ UNCHANGED vars => TypeInv'
BY DEF TypeInv, vars, files, PendHolds, SidecarsHold, DoneHolds, ShareHolds, SlotsHold,
   CountsHold, Bools, Starts, Fails, Saves

\* The files and the processes hold what TypeOK says: every Stop hook in
\* flight has a mark, and no file ever holds two.
THEOREM Typing == Spec => []TypeOK
<1>1. TypeInv /\ [Next]_vars => TypeInv'
  BY OthersType, StopType, TypeStutter DEF Next
<1>2. TypeInv => TypeOK
  <2> SUFFICES ASSUME TypeInv PROVE TypeOK
    OBVIOUS
  <2> USE DEF TypeInv
  <2>1. /\ pend \subseteq Marks /\ AtMostOne(pend)
        /\ \A w \in Works : sidecar[w] \subseteq Sidecars /\ AtMostOne(sidecar[w])
    BY DEF PendHolds, SidecarsHold
  <2>2. /\ share.at \in {"idle", "mark", "html", "request", "record"}
        /\ share.work \subseteq Works /\ share.copy \subseteq Marks \cup Sidecars
        /\ share.shown \in Pages
    BY DEF ShareHolds
  <2>3. \A s \in Stops : stop[s] \in Slots /\ (stop[s].at # "idle" => stop[s].copy # {})
    BY DEF SlotsHold
  <2>4. \A s \in Stops : /\ stop[s].at \in {"idle", "bind", "answer", "merge",
                                             "finalize", "render"}
                          /\ stop[s].copy \subseteq Marks
    BY <2>3 DEF Slots
  <2> QED
    BY <2>1, <2>2, <2>3, <2>4 DEF TypeOK, DoneHolds, CountsHold, Bools, Starts, Fails,
       Saves
<1> QED
  BY TypeInit, <1>1, <1>2, PTL DEF Spec

-----------------------------------------------------------------------------
(* A listed mismatch is never a pass                                       *)

\* The result a sidecar gives goes back to its answer.
Faithful(c) == c.answer = "false" => c.result = "mismatch"

Honest(page) == page.of = "false" => page.says \in {"FAIL", "INCOMPLETE"}

IInv == /\ TypeInv
        /\ \A w \in Works : \A c \in sidecar[w] : Faithful(c)
        /\ share.at = "mark" => \A c \in share.copy : Faithful(c)
        /\ Honest(share.shown)
        /\ \A w \in Works : Honest(html[w])

\* A page made from a faithful sidecar, or from none, is honest.
LEMMA ShownHonest ==
    ASSUME NEW w \in Works, NEW comp \in SUBSET Sidecars, NEW mark,
           \A c \in comp : Faithful(c)
    PROVE  Honest(Shown(w, comp, mark))
<1> DEFINE c == CHOOSE c \in comp : TRUE
<1>1. CASE comp = {}
  BY <1>1 DEF Honest, Shown
<1>2. CASE comp # {}
  <2>1. Faithful(c)
    BY <1>2
  <2>2. /\ Shown(w, comp, mark).of = c.answer
        /\ Shown(w, comp, mark).says = Handoff(w \in OkWorks, comp)
    BY <1>2 DEF Shown
  <2>3. c.result = "mismatch" => Handoff(w \in OkWorks, comp) \in {"FAIL", "INCOMPLETE"}
    BY <1>2 DEF Handoff
  <2> QED
    BY <2>1, <2>2, <2>3 DEF Honest, Faithful
<1> QED
  BY <1>1, <1>2

\* Steps that touch neither sidecar, page nor what share-proof carries.
LEMMA FrameKeeps ==
    ASSUME IInv, TypeInv', UNCHANGED <<sidecar, html, share>>
    PROVE  IInv'
BY DEF IInv

\* done and share-proof keep it: what a page shows was read from a sidecar.
LEMMA OthersHonest ==
    ASSUME IInv, TypeInv',
           \/ \E w \in Works : DoneLoads(w) \/ ShareReadsSidecar(w)
           \/ DoneWrites
           \/ ShareReadsMark \/ ShareWritesHtml \/ ShareLoadsRequest \/ ShareRecords
    PROVE  IInv'
<1>0. ShareDone => share'.at = "idle" /\ Honest(share'.shown)
  BY DEF ShareDone, NoPage, Honest
<1>1. CASE (\E w \in Works : DoneLoads(w)) \/ DoneWrites
  BY <1>1, FrameKeeps DEF DoneLoads, DoneWrites, files
<1>2. ASSUME NEW w \in Works, ShareReadsSidecar(w) PROVE IInv'
  BY <1>2 DEF IInv, ShareReadsSidecar, files, NoPage, Honest
<1>3. CASE ShareReadsMark
  <2>1. PICK w \in share.work :
          share' = [share EXCEPT !.at = "html", !.copy = NoCopy,
                                 !.shown = Shown(w, share.copy, pend)]
    BY <1>3 DEF ShareReadsMark
  <2>2. /\ w \in Works /\ share.copy \in SUBSET Sidecars
        /\ \A c \in share.copy : Faithful(c)
    BY <1>3, <2>1 DEF IInv, TypeInv, ShareHolds, ShareReadsMark
  <2>3. Honest(Shown(w, share.copy, pend))
    BY <2>2, ShownHonest
  <2>4. share'.at = "html" /\ share'.shown = Shown(w, share.copy, pend)
    BY <2>1 DEF IInv, TypeInv, ShareHolds
  <2> QED
    BY <1>3, <2>3, <2>4 DEF IInv, ShareReadsMark, files
<1>4. CASE ShareWritesHtml
  <2>1. \A v \in Works : Honest(html'[v])
    BY <1>4 DEF ShareWritesHtml, IInv, TypeInv
  <2>2. share'.at # "mark" /\ Honest(share'.shown)
    BY <1>0, <1>4 DEF ShareWritesHtml, IInv, TypeInv, ShareHolds
  <2> QED
    BY <1>4, <2>1, <2>2 DEF IInv, ShareWritesHtml
<1>5. CASE ShareLoadsRequest
  <2>1. share'.at # "mark" /\ Honest(share'.shown)
    BY <1>0, <1>5 DEF ShareLoadsRequest, IInv, TypeInv, ShareHolds
  <2> QED
    BY <1>5, <2>1 DEF IInv, ShareLoadsRequest, files
<1>6. CASE ShareRecords
  BY <1>0, <1>6 DEF IInv, ShareRecords
<1> QED
  BY <1>1, <1>2, <1>3, <1>4, <1>5, <1>6

\* A Stop hook keeps it: it seals what its answer is worth, merges only the
\* extraction status, and renders what the sidecar says.
LEMMA StopHonest ==
    ASSUME IInv, TypeInv', NEW s \in Stops,
           \/ StopLoads(s) \/ StopAmbiguous(s) \/ StopBinds(s) \/ StopUnusable(s)
           \/ StopSeals(s) \/ StopMerges(s) \/ StopMergeFails(s)
           \/ StopFinalizes(s) \/ StopRenders(s) \/ StopDies(s)
    PROVE  IInv'
<1>1. CASE \/ StopLoads(s) \/ StopAmbiguous(s) \/ StopBinds(s) \/ StopUnusable(s)
           \/ StopMergeFails(s) \/ StopFinalizes(s) \/ StopDies(s)
  BY <1>1, FrameKeeps DEF StopLoads, StopAmbiguous, StopBinds, StopUnusable,
                          StopMergeFails, StopFinalizes, StopDies, files
<1>2. CASE StopSeals(s)
  <2> DEFINE c == [from |-> stop[s].session, answer |-> stop[s].answer,
                   result |-> ResultOf(stop[s].answer), ext |-> "unset"]
  <2>1. stop[s].answer \in Answers /\ stop[s].session \in Sessions \cup {NoSession}
    BY DEF IInv, TypeInv, SlotsHold, Slots
  <2>2. Faithful(c)
    BY <2>1, SealType DEF Faithful
  <2>3. sidecar' = [sidecar EXCEPT ![Mine(s).work] = {c}]
    BY <1>2 DEF StopSeals
  <2> HIDE DEF c
  <2>4. \A w \in Works : \A d \in sidecar'[w] : Faithful(d)
    BY <2>2, <2>3 DEF IInv, TypeInv, SidecarsHold
  <2> QED
    BY <1>2, <2>4 DEF IInv, StopSeals
<1>3. CASE StopMerges(s)
  <2> DEFINE Merged(c) == [c EXCEPT !.ext = ExtractionOf(stop[s].answer)]
  <2>1. stop[s].answer \in Answers
    BY DEF IInv, TypeInv, SlotsHold, Slots
  <2>2. \A c \in Sidecars : Faithful(c) => Faithful(Merged(c))
    BY <2>1, SidecarEdits DEF Faithful
  <2>3. sidecar' = [sidecar EXCEPT ![Mine(s).work] = {Merged(c) : c \in @}]
    BY <1>3 DEF StopMerges
  <2> HIDE DEF Merged
  <2>4. \A w \in Works : sidecar'[w] = IF w = Mine(s).work THEN {Merged(c) : c \in sidecar[w]}
                                                             ELSE sidecar[w]
    BY <2>3 DEF IInv, TypeInv, SidecarsHold
  <2>5. \A w \in Works : \A d \in sidecar'[w] : Faithful(d)
    BY <2>2, <2>4 DEF IInv, TypeInv, SidecarsHold
  <2> QED
    BY <1>3, <2>5 DEF IInv, StopMerges
<1>4. CASE StopRenders(s)
  <2>1. Honest(Shown(Mine(s).work, sidecar[Mine(s).work], pend))
    BY <1>4, MineType, ShownHonest DEF StopRenders, IInv, TypeInv, SidecarsHold
  <2>2. \A v \in Works : Honest(html'[v])
    BY <1>4, <2>1 DEF StopRenders, IInv, TypeInv
  <2> QED
    BY <1>4, <2>2 DEF IInv, StopRenders
<1> QED
  BY <1>1, <1>2, <1>3, <1>4

\* A page that lists a false claim says FAIL or INCOMPLETE, in every state:
\* "any MISMATCH gives FAIL".
THEOREM MismatchIsShown == Spec => []MismatchNeverPasses
<1>1. Init => IInv
  BY TypeInit DEF Init, IInv, Honest, NoPage
<1>2. IInv /\ [Next]_vars => IInv'
  <2> SUFFICES ASSUME IInv, [Next]_vars PROVE IInv'
    OBVIOUS
  <2>1. TypeInv'
    BY OthersType, StopType, TypeStutter DEF Next, IInv
  <2>2. CASE Next
    BY <2>1, <2>2, OthersHonest, StopHonest DEF Next
  <2>3. CASE UNCHANGED vars
    BY <2>1, <2>3, FrameKeeps DEF vars, files
  <2> QED
    BY <2>2, <2>3
<1>3. IInv => MismatchNeverPasses
  BY DEF IInv, Honest, MismatchNeverPasses
<1> QED
  BY <1>1, <1>2, <1>3, PTL DEF Spec
-----------------------------------------------------------------------------
(* What holds as long as nothing overlapped and nothing failed             *)

\* One process at a time.
Sole ==
    /\ \A r, s \in Stops : stop[r].at # "idle" /\ stop[s].at # "idle" => r = s
    /\ \A s \in Stops : stop[s].at # "idle" => OthersFree
    /\ done.at # "idle" => share.at = "idle"

\* A sidecar that is complete: what extraction and verification make of an
\* answer that has a text.
Complete(c) == /\ c.answer \notin {"nofield", "empty"}
               /\ c.result = ResultOf(c.answer) /\ c.ext = ExtractionOf(c.answer)

\* One that has been sealed and waits for its extraction status.
Sealing(s, w, c) == /\ stop[s].at = "merge" /\ Mine(s).work = w
                    /\ c.answer = stop[s].answer /\ c.answer \notin {"nofield", "empty"}
                    /\ c.result = ResultOf(c.answer)

Earned(page) == page.says = "PASS" => page.of = "true"

\* Every sidecar is complete but the one a Stop hook is at; so is what
\* share-proof read, and pages are earned.
Earning ==
    /\ \A w \in Works : \A c \in sidecar[w] : Complete(c) \/ \E s \in Stops : Sealing(s, w, c)
    /\ \A s \in Stops : stop[s].at = "merge"
          => \A c \in sidecar[Mine(s).work] : Sealing(s, Mine(s).work, c)
    /\ share.at = "mark" => \A c \in share.copy : Complete(c)
    /\ Earned(share.shown)
    /\ \A w \in Works : Earned(html[w])

\* The copies of the mark are the mark, which waits for the hook to finalize it.
Copies ==
    /\ \A s \in Stops :
          /\ stop[s].at \in {"bind", "answer", "merge", "finalize"}
                => stop[s].copy = pend /\ \A m \in pend : m.status = "pending"
          /\ stop[s].at = "render" => /\ pend = {[Mine(s) EXCEPT !.status = "finalized", !.error = "no"]}
                                      /\ Mine(s).share # {}
    /\ share.at = "record" => share.copy = pend
    /\ share.at # "idle" => share.work # {}

Waits(w) == html[w].says = "PENDING"
Since(m) == {sealed[i] : i \in m.born .. Len(sealed)}

\* Only a sealed receipt has a page that waits, and the one `done` is at has
\* none yet.
Waiting ==
    /\ \A w \in Works : Waits(w) => w \in Range(sealed)
    /\ share.work \subseteq Range(sealed) /\ AtMostOne(share.work)
    /\ done.at = "write" => /\ sealed # <<>> /\ done.work = {sealed[Len(sealed)]}
                            /\ ~Waits(sealed[Len(sealed)])

\* A page that waits is the one the mark names, or about to be named in it.
Requests ==
    /\ \A m \in pend : m.born >= 1 /\ AtMostOne(m.share)
    /\ (share.at = "html" /\ share.shown.says = "PENDING") \/ share.at \in {"request", "record"}
          => \E m \in pend : m.status = "pending"
    /\ \A m \in pend : m.share = {}
          => \A w \in Since(m) : Waits(w) => share.at \in {"request", "record"} /\ w \in share.work
    /\ \A m \in pend : m.status = "finalized"
          => \A w \in m.share : Waits(w) => \E s \in Stops : stop[s].at = "render"

Orderly == Sole /\ Copies /\ Earning /\ Waiting /\ Requests

Calm == TypeInv /\ (upset = "no" => Orderly)

-----------------------------------------------------------------------------
(* Steps of `done`                                                         *)

\* What was overlapped or failed once stays so.
LEMMA UpsetStays == TypeInv /\ [Next]_vars /\ upset' = "no" => upset = "no"
<1> SUFFICES ASSUME TypeInv, [Next]_vars, upset # "no" PROVE upset' # "no"
  OBVIOUS
<1>1. upset = "yes"
  BY DEF TypeInv, CountsHold, Bools
<1> QED
  BY <1>1 DEF Next, vars, Starts, Fails, Saves, DoneLoads, DoneWrites, ShareReadsSidecar,
     ShareReadsMark, ShareWritesHtml, ShareLoadsRequest, ShareRecords, StopLoads,
     StopAmbiguous, StopBinds, StopUnusable, StopSeals, StopMerges, StopMergeFails,
     StopFinalizes, StopRenders, StopDies

\* A receipt sealed anew is one more in the list.
LEMMA Sealed ==
    ASSUME sealed \in Seq(Works), NEW w \in Works, sealed' = Append(sealed, w)
    PROVE  /\ Len(sealed') = Len(sealed) + 1 /\ sealed' # <<>>
           /\ sealed'[Len(sealed')] = w
           /\ \A i \in 1 .. Len(sealed) : sealed'[i] = sealed[i]
           /\ Range(sealed') = Range(sealed) \cup {w}
BY DEF Range

\* `done` begins, beside nothing.
LEMMA DoneLoadsCalm ==
    ASSUME TypeInv, TypeInv', Orderly, upset' = "no", NEW w \in Works, DoneLoads(w)
    PROVE  Orderly'
<1>1. Quiet /\ done'.at = "write" /\ done'.work = {w} /\ sealed' = Append(sealed, w)
  BY DEF DoneLoads, Starts
<1>2. UNCHANGED <<pend, sidecar, html, share, stop>>
  BY DEF DoneLoads, files
<1>3. sealed \in Seq(Works) /\ w \notin Range(sealed) /\ ~Waits(w)
  BY DEF DoneLoads, TypeInv, DoneHolds, Orderly, Waiting
<1>4. Sole'
  BY <1>1, <1>2 DEF Sole, Quiet, StopFree, OthersFree
<1>5. Copies' /\ Earning'
  <2>1. Copies'
    BY <1>2 DEF Orderly, Copies, Mine
  <2>2. Earning'
    BY <1>2 DEF Orderly, Earning, Mine, Sealing
  <2> QED
    BY <2>1, <2>2
<1>6. Waiting'
  <2>1. /\ sealed' # <<>> /\ sealed'[Len(sealed')] = w
        /\ Range(sealed') = Range(sealed) \cup {w}
    BY <1>1, <1>3, Sealed
  <2>2. \A v \in Works : Waits(v)' => v \in Range(sealed')
    BY <1>2, <2>1 DEF Orderly, Waiting, Waits
  <2>3. share'.work \subseteq Range(sealed') /\ AtMostOne(share'.work)
    BY <1>2, <2>1 DEF Orderly, Waiting
  <2>4. ~Waits(w)'
    BY <1>2, <1>3 DEF Waits
  <2> QED
    BY <1>1, <2>1, <2>2, <2>3, <2>4 DEF Waiting
<1>7. Requests'
  <2>1. ASSUME NEW m \in pend PROVE Since(m)' \subseteq Since(m) \cup {w}
    <3>1. m.born \in Nat /\ m.born >= 1
      BY DEF TypeInv, PendHolds, Marks, Orderly, Requests
    <3> QED
      BY <1>1, <1>3, <3>1, Sealed DEF Since
  <2> QED
    BY <1>2, <1>3, <2>1 DEF Orderly, Requests, Waits
<1> QED
  BY <1>4, <1>5, <1>6, <1>7 DEF Orderly

\* It leaves a mark that already waits, or begins one with this receipt.
LEMMA DoneWritesCalm ==
    ASSUME TypeInv, TypeInv', Orderly, upset' = "no", DoneWrites
    PROVE  Orderly'
<1>1. done.at = "write" /\ done'.at = "idle"
  BY DEF DoneWrites
<1>2. StopFree /\ share.at = "idle"
  BY <1>1 DEF Orderly, Sole, OthersFree, StopFree
<1>3. UNCHANGED <<sidecar, html, share, stop, sealed>>
  BY DEF DoneWrites
<1>4. Sole' /\ Copies' /\ Earning' /\ Waiting'
  BY <1>1, <1>2, <1>3 DEF Orderly, Sole, StopFree, OthersFree, Copies, Earning, Sealing,
     Mine,
     Waiting, Waits
<1>5. Requests'
  <2>1. CASE pend' = pend
    BY <1>2, <1>3, <2>1 DEF Orderly, Requests, Since, Waits
  <2>2. CASE pend' # pend
    <3>1. PICK w \in done.work :
            pend' = {[work |-> w, status |-> "pending", error |-> "no",
                      born |-> Len(sealed), session |-> NoSession, share |-> {}]}
      BY <2>2 DEF DoneWrites
    <3>2. Len(sealed) \in Nat /\ Len(sealed) >= 1
      BY <1>1 DEF TypeInv, DoneHolds, Orderly, Waiting
    <3>3. \A m \in pend' : /\ m.status = "pending" /\ m.share = {} /\ m.born = Len(sealed)
      BY <3>1
    <3>4. \A m \in pend' : Since(m)' = {sealed[Len(sealed)]}
      BY <1>3, <3>2, <3>3 DEF Since
    <3>5. ~Waits(sealed[Len(sealed)])
      BY <1>1 DEF Orderly, Waiting
    <3> QED
      BY <1>2, <1>3, <3>2, <3>3, <3>4, <3>5 DEF Requests, AtMostOne, Waits
  <2> QED
    BY <2>1, <2>2
<1> QED
  BY <1>4, <1>5 DEF Orderly

-----------------------------------------------------------------------------
(* Steps of share-proof                                                    *)

\* A page made from a complete sidecar, or from none, is earned; it waits only
\* where the mark does.
LEMMA ShownEarned ==
    ASSUME NEW w \in Works, NEW comp \in SUBSET Sidecars, NEW mark,
           \A c \in comp : Complete(c)
    PROVE  /\ Earned(Shown(w, comp, mark))
           /\ Shown(w, comp, mark).says = "PENDING" => \E m \in mark : m.status = "pending"
<1> DEFINE c == CHOOSE c \in comp : TRUE
           says == Handoff(w \in OkWorks, comp)
<1>1. says # "PENDING"
  BY DEF Handoff
<1>2. CASE comp = {}
  <2>1. says # "PASS"
    BY <1>2 DEF Handoff
  <2> QED
    BY <1>1, <1>2, <2>1 DEF Shown, Earned
<1>3. CASE comp # {}
  <2>1. Complete(c) /\ c.answer \in Answers
    BY <1>3 DEF Sidecars
  <2>2. says = "PASS" => /\ c.ext \notin {"DEGRADED", "NO_EXPLICIT_CLAIMS"}
                         /\ c.result \notin {"mismatch", "abstain"}
    BY <1>3 DEF Handoff
  <2> HIDE DEF c
  <2>3. says = "PASS" => c.answer = "true"
    BY <2>1, <2>2 DEF Complete, Answers, ResultOf, ExtractionOf
  <2>4. Shown(w, comp, mark).says = says /\ Shown(w, comp, mark).of = c.answer
    BY <1>3 DEF Shown, c
  <2> QED
    BY <1>1, <2>3, <2>4 DEF Earned
<1> QED
  BY <1>2, <1>3

\* Once share-proof is at work nothing else is; Copies and Sole are its own.
LEMMA ShareAlone ==
    ASSUME TypeInv, Orderly, share.at # "idle", UNCHANGED <<done, stop>>
    PROVE  /\ StopFree /\ done.at = "idle" /\ Sole'
           /\ (share'.at # "record" /\ (share'.at # "idle" => share'.work # {})) => Copies'
<1>1. StopFree /\ done.at = "idle"
  BY DEF Orderly, Sole, OthersFree, StopFree
<1> QED
  BY <1>1 DEF Sole, Copies, StopFree

\* With no Stop hook under way every sidecar is complete.
LEMMA AllComplete ==
    ASSUME Orderly, StopFree
    PROVE  \A w \in Works : \A c \in sidecar[w] : Complete(c)
BY DEF Orderly, Earning, StopFree, Sealing

\* share-proof begins, beside nothing, with the sidecar as it is.
LEMMA ShareReadsSidecarCalm ==
    ASSUME TypeInv, TypeInv', Orderly, upset' = "no", NEW w \in Works, ShareReadsSidecar(w)
    PROVE  Orderly'
<1>1. /\ Quiet /\ w \in Range(sealed)
      /\ share' = [at |-> "mark", work |-> {w}, copy |-> sidecar[w], shown |-> NoPage]
  BY DEF ShareReadsSidecar, Starts
<1>2. UNCHANGED <<pend, sidecar, html, done, stop, sealed>>
  BY DEF ShareReadsSidecar, files
<1>3. Sole' /\ Copies'
  BY <1>1, <1>2 DEF Sole, Copies, Quiet, StopFree, OthersFree
<1>4. Earning'
  <2>1. \A v \in Works : \A c \in sidecar[v] : Complete(c)
    BY <1>1, AllComplete DEF Quiet
  <2>2. share'.copy = sidecar[w] /\ Earned(share'.shown)
    BY <1>1 DEF Earned, NoPage
  <2> QED
    BY <1>1, <1>2, <2>1, <2>2 DEF Orderly, Earning, Quiet, StopFree
<1>5. Waiting'
  BY <1>1, <1>2 DEF Orderly, Waiting, Waits, AtMostOne, Quiet, OthersFree
<1>6. Requests'
  BY <1>1, <1>2 DEF Orderly, Requests, Since, Waits, Quiet, OthersFree
<1> QED
  BY <1>3, <1>4, <1>5, <1>6 DEF Orderly

\* It reads the mark and knows what the page will say.
LEMMA ShareReadsMarkCalm ==
    ASSUME TypeInv, TypeInv', Orderly, upset' = "no", ShareReadsMark
    PROVE  Orderly'
<1>1. UNCHANGED <<pend, sidecar, html, done, stop, sealed>> /\ share.at = "mark"
  BY DEF ShareReadsMark, files
<1>2. PICK w \in share.work : share' = [share EXCEPT !.at = "html", !.copy = NoCopy,
                                                     !.shown = Shown(w, share.copy, pend)]
  BY DEF ShareReadsMark
<1>3. /\ share'.at = "html" /\ share'.work = share.work
      /\ share'.shown = Shown(w, share.copy, pend)
  BY <1>2 DEF TypeInv, ShareHolds
<1>4. Sole' /\ Copies' /\ StopFree
  BY <1>1, <1>2, <1>3, ShareAlone
<1>5. Earned(share'.shown) /\ (share'.shown.says = "PENDING" => \E m \in pend : m.status = "pending")
  <2>1. w \in Works /\ share.copy \in SUBSET Sidecars /\ \A c \in share.copy : Complete(c)
    BY <1>1, <1>2 DEF TypeInv, ShareHolds, Orderly, Earning
  <2> QED
    BY <1>3, <2>1, ShownEarned
<1>6. Earning'
  BY <1>1, <1>3, <1>4, <1>5, AllComplete DEF Orderly, Earning, StopFree
<1>7. Waiting'
  BY <1>1, <1>3 DEF Orderly, Waiting, Waits
<1>8. Requests'
  BY <1>1, <1>3, <1>4, <1>5 DEF Orderly, Requests, Since, Waits, StopFree
<1> QED
  BY <1>4, <1>6, <1>7, <1>8 DEF Orderly

\* It writes the page; one that waits is to be named in the mark.
LEMMA ShareWritesHtmlCalm ==
    ASSUME TypeInv, TypeInv', Orderly, upset' = "no", ShareWritesHtml
    PROVE  Orderly'
<1>1. UNCHANGED <<pend, sidecar, done, stop, sealed>> /\ share.at = "html"
  BY DEF ShareWritesHtml
<1>2. PICK w \in share.work : html' = [html EXCEPT ![w] = share.shown]
  BY DEF ShareWritesHtml
<1>3. w \in Works /\ share.work = {w} /\ w \in Range(sealed)
  BY <1>2 DEF TypeInv, ShareHolds, Orderly, Waiting, AtMostOne
<1>4. \A v \in Works : html'[v] = IF v = w THEN share.shown ELSE html[v]
  BY <1>2 DEF TypeInv
<1>5. /\ share'.at = IF share.shown.says = "PENDING" THEN "request" ELSE "idle"
      /\ share'.at = "request" => share'.work = share.work
      /\ share'.at = "idle" => share'.work = {}
      /\ Earned(share'.shown)
  <2>1. CASE share.shown.says = "PENDING"
    BY <2>1 DEF ShareWritesHtml, TypeInv, ShareHolds, Orderly, Earning
  <2>2. CASE share.shown.says # "PENDING"
    BY <2>2 DEF ShareWritesHtml, ShareDone, NoPage, Earned
  <2> QED
    BY <2>1, <2>2
<1>6. Sole' /\ Copies' /\ StopFree /\ done.at = "idle"
  BY <1>1, <1>3, <1>5, ShareAlone
<1>7. Earning'
  BY <1>1, <1>4, <1>5, <1>6, AllComplete DEF Orderly, Earning, StopFree
<1>8. Waiting'
  BY <1>1, <1>3, <1>4, <1>5, <1>6 DEF Orderly, Waiting, Waits, AtMostOne
<1>9. Requests'
  <2>1. share.shown.says = "PENDING" => \E m \in pend : m.status = "pending"
    BY <1>1 DEF Orderly, Requests
  <2>2. \A m, n \in pend : m = n
    BY DEF TypeInv, PendHolds, AtMostOne
  <2>3. \A v \in Works : Waits(v)' => Waits(v) \/ (v = w /\ share.shown.says = "PENDING")
    BY <1>4 DEF Waits
  <2>4. \A m \in pend : Since(m)' = Since(m) /\ Since(m) \subseteq Works /\ m.share \subseteq Works
    <3>1. \A m \in pend : m.born \in Nat /\ m.born >= 1 /\ m.share \subseteq Works
      BY DEF TypeInv, PendHolds, Marks, Orderly, Requests
    <3>2. sealed \in Seq(Works)
      BY DEF TypeInv, DoneHolds
    <3> QED
      BY <1>1, <3>1, <3>2 DEF Since
  <2>5. \A m \in pend' : m.born >= 1 /\ AtMostOne(m.share)
    BY <1>1 DEF Orderly, Requests
  <2>6. \A m \in pend' : m.share = {}
          => \A v \in Since(m)' : Waits(v)' => share'.at \in {"request", "record"} /\ v \in share'.work
    BY <1>1, <1>3, <1>5, <2>3, <2>4 DEF Orderly, Requests
  <2>7. \A m \in pend' : m.status = "finalized"
          => \A v \in m.share : Waits(v)' => \E s \in Stops : stop'[s].at = "render"
    BY <1>1, <2>1, <2>2, <2>3, <2>4 DEF Orderly, Requests
  <2> QED
    BY <1>1, <1>5, <2>1, <2>5, <2>6, <2>7 DEF Requests
<1> QED
  BY <1>6, <1>7, <1>8, <1>9 DEF Orderly

\* It loads the mark that still waits ...
LEMMA ShareLoadsRequestCalm ==
    ASSUME TypeInv, TypeInv', Orderly, upset' = "no", ShareLoadsRequest
    PROVE  Orderly'
<1>1. UNCHANGED <<pend, sidecar, html, done, stop, sealed>> /\ share.at = "request"
  BY DEF ShareLoadsRequest, files
<1>2. \E m \in pend : m.status = "pending"
  BY <1>1 DEF Orderly, Requests
<1>3. share' = [share EXCEPT !.at = "record", !.copy = pend]
  BY <1>2 DEF ShareLoadsRequest
<1>4. /\ share'.at = "record" /\ share'.copy = pend /\ share'.work = share.work
      /\ share'.shown = share.shown
  BY <1>3 DEF TypeInv, ShareHolds
<1>5. StopFree /\ Sole'
  BY <1>1, ShareAlone
<1>6. Copies'
  BY <1>1, <1>4, <1>5 DEF Orderly, Copies, StopFree
<1>7. Earning'
  BY <1>1, <1>4, <1>5, AllComplete DEF Orderly, Earning, StopFree
<1>8. Waiting' /\ Requests'
  BY <1>1, <1>2, <1>4 DEF Orderly, Waiting, Requests, Since, Waits
<1> QED
  BY <1>5, <1>6, <1>7, <1>8 DEF Orderly

\* ... and writes its page into it.
LEMMA ShareRecordsCalm ==
    ASSUME TypeInv, TypeInv', Orderly, upset' = "no", ShareRecords
    PROVE  Orderly'
<1>1. /\ UNCHANGED <<sidecar, html, done, stop, sealed>> /\ share.at = "record"
      /\ pend' = {[m EXCEPT !.share = share.work] : m \in share.copy} /\ ShareDone
  BY DEF ShareRecords, Fails
<1>2. share'.at = "idle" /\ share'.work = {} /\ share'.shown = NoPage
  BY <1>1 DEF ShareDone
<1>3. StopFree /\ Sole' /\ Copies'
  BY <1>1, <1>2, ShareAlone
<1>4. Earning' /\ Waiting'
  BY <1>1, <1>2, <1>3, AllComplete DEF Orderly, Earning, StopFree, Earned, NoPage,
     Waiting, Waits, AtMostOne
<1>5. Requests'
  <2>1. PICK m \in pend : m.status = "pending"
    BY <1>1 DEF Orderly, Requests
  <2>2. m \in Marks /\ share.copy = {m} /\ share.work # {} /\ AtMostOne(share.work)
    BY <1>1, <2>1 DEF TypeInv, PendHolds, AtMostOne, Orderly, Copies, Waiting
  <2> DEFINE n == [m EXCEPT !.share = share.work]
  <2>3. n.status = "pending" /\ n.share = share.work /\ n.born = m.born
    BY <2>1, <2>2 DEF Marks
  <2>4. pend' = {n}
    BY <1>1, <2>2
  <2> HIDE DEF n
  <2>5. n.born >= 1 /\ AtMostOne(n.share)
    BY <2>1, <2>2, <2>3 DEF Orderly, Requests
  <2> QED
    BY <1>2, <2>2, <2>3, <2>4, <2>5 DEF Requests, NoPage
<1> QED
  BY <1>3, <1>4, <1>5 DEF Orderly

-----------------------------------------------------------------------------
(* Steps of a Stop hook                                                    *)

\* A Stop hook at work is alone, and stays so whatever it does next.
LEMMA StopAlone ==
    ASSUME TypeInv, Orderly, NEW s \in Stops, stop[s].at # "idle"
    PROVE  /\ OthersFree /\ \A r \in Stops : r # s => stop[r].at = "idle"
           /\ (UNCHANGED <<done, share>> /\ \A r \in Stops : r # s => stop'[r] = stop[r]) => Sole'
<1>1. OthersFree /\ \A r \in Stops : r # s => stop[r].at = "idle"
  BY DEF Orderly, Sole
<1> QED
  BY <1>1 DEF Sole, OthersFree

\* Where a Stop hook goes: on, or out.
LEMMA StopGoes ==
    ASSUME TypeInv, NEW s \in Stops, NEW l \in {"answer", "merge", "finalize", "render"},
           StopMoves(s, l) \/ StopExits(s)
    PROVE  /\ \A r \in Stops : r # s => stop'[r] = stop[r]
           /\ StopMoves(s, l) => /\ stop'[s].at = l /\ stop'[s].copy = stop[s].copy
                                 /\ stop'[s].answer = stop[s].answer
           /\ StopExits(s) => stop'[s].at = "idle"
BY DEF TypeInv, SlotsHold, Slots, StopMoves, StopExits, Idle

\* Until it has finalized, its copy is the mark, the only one.
LEMMA MineIsPend ==
    ASSUME TypeInv, Orderly, NEW s \in Stops,
           stop[s].at \in {"bind", "answer", "merge", "finalize"}
    PROVE  pend = {Mine(s)} /\ Mine(s) \in Marks /\ Mine(s).status = "pending"
<1>1. stop[s].copy = pend /\ pend # {} /\ \A m \in pend : m.status = "pending"
  BY DEF TypeInv, SlotsHold, Orderly, Copies
<1> QED
  BY <1>1 DEF TypeInv, PendHolds, AtMostOne, Mine

\* The mark written back, changed in what its pages do not depend on.
LEMMA MarkRewritten ==
    ASSUME TypeInv, Orderly, OthersFree, NEW m, NEW n, pend = {m}, pend' = {n},
           n.born = m.born, n.share = m.share, UNCHANGED <<html, share, sealed>>,
           n.status = "finalized" => \/ m.share = {} \/ \E s \in Stops : stop'[s].at = "render"
    PROVE  Requests'
<1>1. Since(n)' = Since(m)
  BY DEF Since
<1>2. m.born >= 1 /\ AtMostOne(m.share)
  BY DEF Orderly, Requests
<1>3. m.share = {} => \A w \in Since(m) : ~Waits(w)
  BY DEF Orderly, Requests, OthersFree
<1> QED
  BY <1>1, <1>2, <1>3 DEF Requests, Waits, OthersFree

\* The mark kept: nothing waits for a hook that is about to render.
LEMMA MarkKept ==
    ASSUME TypeInv, Orderly, UNCHANGED <<pend, html, share, sealed>>,
           \A s \in Stops : stop[s].at = "render" => stop'[s].at = "render"
    PROVE  Requests'
BY DEF Orderly, Requests, Since, Waits

\* A hook that has not sealed yet leaves the sidecars alone.
LEMMA NotSealing ==
    ASSUME Orderly, NEW s \in Stops, stop[s].at # "merge",
           \A r \in Stops : r # s => stop[r].at = "idle"
    PROVE  \A w \in Works : \A c \in sidecar[w] : Complete(c)
BY DEF Orderly, Earning, Sealing

\* Steps that leave the sidecars, the pages and share-proof alone, of a hook
\* with nothing sealed and open.
LEMMA EarningKept ==
    ASSUME Orderly, NEW s \in Stops, stop[s].at # "merge",
           \A r \in Stops : r # s => stop[r].at = "idle",
           \A r \in Stops : stop'[r].at # "merge", UNCHANGED <<sidecar, html, share>>
    PROVE  Earning'
BY NotSealing DEF Orderly, Earning

\* A Stop hook begins, beside nothing, with the mark as it is.
LEMMA StopLoadsCalm ==
    ASSUME TypeInv, TypeInv', Orderly, upset' = "no", NEW s \in Stops, StopLoads(s)
    PROVE  Orderly'
<1>1. Quiet /\ UNCHANGED <<pend, sidecar, html, done, share, sealed>>
  BY DEF StopLoads, Starts, files
<1>2. /\ \A r \in Stops : r # s => stop'[r] = stop[r]
      /\ stop'[s].at = "bind" /\ stop'[s].copy = pend
  BY DEF StopLoads, TypeInv, SlotsHold
<1>3. \A r \in Stops : stop[r].at = "idle"
  BY <1>1 DEF Quiet, StopFree
<1>4. Sole'
  BY <1>1, <1>2, <1>3 DEF Sole, Quiet, OthersFree
<1>5. Copies'
  <2>1. \A m \in pend : m.status = "pending"
    BY DEF StopLoads, TypeInv, PendHolds, AtMostOne
  <2> QED
    BY <1>1, <1>2, <1>3, <2>1 DEF Copies, Quiet, OthersFree
<1>6. Earning'
  BY <1>1, <1>2, <1>3, EarningKept
<1>7. Waiting' /\ Requests'
  BY <1>1, <1>3, MarkKept DEF Orderly, Waiting, Waits
<1> QED
  BY <1>4, <1>5, <1>6, <1>7 DEF Orderly

\* It leaves with an error in the mark, or finds no use for the answer.
LEMMA StopErrsCalm ==
    ASSUME TypeInv, TypeInv', Orderly, upset' = "no", NEW s \in Stops,
           StopAmbiguous(s) \/ StopUnusable(s)
    PROVE  Orderly'
<1>1. /\ stop[s].at \in {"bind", "answer"} /\ StopExits(s) /\ pend' = {Erred(s)}
      /\ UNCHANGED <<sidecar, html, done, share, sealed>>
  BY DEF StopAmbiguous, StopUnusable, Saves, Fails
<1>2. \A r \in Stops : stop'[r].at = "idle"
  BY <1>1, StopAlone, StopGoes
<1>3. OthersFree /\ \A r \in Stops : r # s => stop[r].at = "idle"
  BY <1>1, StopAlone
<1>4. Sole' /\ Copies'
  BY <1>1, <1>2, <1>3 DEF Sole, Copies, OthersFree
<1>5. Earning' /\ Waiting'
  BY <1>1, <1>2, <1>3, EarningKept DEF Orderly, Waiting, Waits
<1>6. Requests'
  <2>1. pend = {Mine(s)} /\ Mine(s) \in Marks /\ Mine(s).status = "pending"
    BY <1>1, MineIsPend
  <2>3. /\ Erred(s).born = Mine(s).born /\ Erred(s).share = Mine(s).share
        /\ Erred(s).status = Mine(s).status
    BY <2>1 DEF Erred, Marks
  <2> QED
    BY <1>1, <1>3, <2>1, <2>3, MarkRewritten
<1> QED
  BY <1>4, <1>5, <1>6 DEF Orderly

\* It binds its session in the mark, or finds it bound.
LEMMA StopBindsCalm ==
    ASSUME TypeInv, TypeInv', Orderly, upset' = "no", NEW s \in Stops, StopBinds(s)
    PROVE  Orderly'
<1> DEFINE n == [Mine(s) EXCEPT !.session = stop[s].session]
<1>1. /\ stop[s].at = "bind" /\ UNCHANGED <<sidecar, html, done, share, sealed>>
      /\ pend = {Mine(s)} /\ Mine(s) \in Marks /\ Mine(s).status = "pending"
  BY MineIsPend DEF StopBinds
<1>2. /\ OthersFree /\ \A r \in Stops : r # s => stop[r].at = "idle"
  BY <1>1, StopAlone
<1>3. n.born = Mine(s).born /\ n.share = Mine(s).share /\ n.status = "pending"
  BY <1>1 DEF Marks
<1>4. /\ \A r \in Stops : r # s => stop'[r] = stop[r]
      /\ stop'[s].at = "answer" /\ stop'[s].copy = pend'
      /\ pend' = pend \/ pend' = {n}
  <2>1. CASE StopMoves(s, "answer") /\ pend' = pend
    BY <1>1, <2>1, StopGoes DEF Orderly, Copies
  <2>2. CASE /\ pend' = {n}
             /\ stop' = [stop EXCEPT ![s] = [@ EXCEPT !.at = "answer", !.copy = {n}]]
    <3> HIDE DEF n
    <3> QED
      BY <2>2 DEF TypeInv, SlotsHold, Slots
  <2> QED
    BY <2>1, <2>2 DEF StopBinds, Saves, Fails
<1> HIDE DEF n
<1>5. Sole'
  BY <1>1, <1>4, StopAlone
<1>6. Copies'
  BY <1>1, <1>2, <1>3, <1>4 DEF Copies, OthersFree
<1>7. Earning' /\ Waiting'
  BY <1>1, <1>2, <1>4, EarningKept DEF Orderly, Waiting, Waits
<1>8. Requests'
  <2>1. CASE pend' = pend
    BY <1>1, <1>2, <2>1, MarkKept
  <2>2. CASE pend' = {n}
    BY <1>1, <1>2, <1>3, <2>2, MarkRewritten
  <2> QED
    BY <1>4, <2>1, <2>2
<1> QED
  BY <1>5, <1>6, <1>7, <1>8 DEF Orderly

\* It seals what it made of the answer, which has a text.
LEMMA StopSealsCalm ==
    ASSUME TypeInv, TypeInv', Orderly, upset' = "no", NEW s \in Stops, StopSeals(s)
    PROVE  Orderly'
<1> DEFINE c == [from |-> stop[s].session, answer |-> stop[s].answer,
                 result |-> ResultOf(stop[s].answer), ext |-> "unset"]
<1>1. /\ stop[s].at = "answer" /\ stop[s].answer \notin {"nofield", "empty"}
      /\ UNCHANGED <<pend, html, done, share, sealed>> /\ StopMoves(s, "merge")
      /\ sidecar' = [sidecar EXCEPT ![Mine(s).work] = {c}]
  BY DEF StopSeals
<1>2. /\ c.answer = stop[s].answer /\ c.result = ResultOf(c.answer)
  OBVIOUS
<1> HIDE DEF c
<1>3. /\ OthersFree /\ \A r \in Stops : r # s => stop[r].at = "idle"
  BY <1>1, StopAlone
<1>4. /\ \A r \in Stops : r # s => stop'[r] = stop[r]
      /\ stop'[s].at = "merge" /\ stop'[s].copy = stop[s].copy
      /\ stop'[s].answer = stop[s].answer
  BY <1>1, StopGoes
<1>5. Sole'
  BY <1>1, <1>4, StopAlone
<1>6. Copies'
  BY <1>1, <1>3, <1>4 DEF Orderly, Copies, OthersFree
<1>7. Earning'
  <2>1. Mine(s)' = Mine(s)
    BY <1>4 DEF Mine
  <2>2. \A w \in Works : sidecar'[w] = IF w = Mine(s).work THEN {c} ELSE sidecar[w]
    BY <1>1 DEF TypeInv, SidecarsHold
  <2>3. \A w \in Works : \A d \in sidecar[w] : Complete(d)
    BY <1>1, <1>3, NotSealing
  <2>4. ASSUME NEW w \in Works, NEW d \in sidecar'[w]
        PROVE  IF w = Mine(s).work THEN Sealing(s, w, d)' ELSE Complete(d)
    BY <1>1, <1>2, <1>4, <2>1, <2>2, <2>3 DEF Sealing
  <2>5. Mine(s).work \in Works
    BY <1>1, MineType DEF TypeInv
  <2> QED
    BY <1>1, <1>3, <1>4, <2>1, <2>4, <2>5 DEF Orderly, Earning, OthersFree
<1>8. Waiting' /\ Requests'
  BY <1>1, <1>3, <1>4, MarkKept DEF Orderly, Waiting, Waits
<1> QED
  BY <1>5, <1>6, <1>7, <1>8 DEF Orderly

\* It merges the extraction status: the sidecar is complete.
LEMMA StopMergesCalm ==
    ASSUME TypeInv, TypeInv', Orderly, upset' = "no", NEW s \in Stops, StopMerges(s)
    PROVE  Orderly'
<1> DEFINE Merged(c) == [c EXCEPT !.ext = ExtractionOf(stop[s].answer)]
<1>1. /\ stop[s].at = "merge" /\ UNCHANGED <<pend, html, done, share, sealed>>
      /\ StopMoves(s, "finalize")
      /\ sidecar' = [sidecar EXCEPT ![Mine(s).work] = {Merged(c) : c \in @}]
  BY DEF StopMerges
<1>2. \A c \in Sidecars : /\ Merged(c).answer = c.answer /\ Merged(c).result = c.result
                          /\ Merged(c).ext = ExtractionOf(stop[s].answer)
  BY DEF Sidecars
<1> HIDE DEF Merged
<1>3. /\ OthersFree /\ \A r \in Stops : r # s => stop[r].at = "idle"
  BY <1>1, StopAlone
<1>4. /\ \A r \in Stops : r # s => stop'[r] = stop[r]
      /\ stop'[s].at = "finalize" /\ stop'[s].copy = stop[s].copy
  BY <1>1, StopGoes
<1>5. Sole'
  BY <1>1, <1>4, StopAlone
<1>6. Copies'
  BY <1>1, <1>3, <1>4 DEF Orderly, Copies, OthersFree
<1>7. Earning'
  <2>1. \A w \in Works : sidecar'[w] = IF w = Mine(s).work THEN {Merged(c) : c \in sidecar[w]}
                                                             ELSE sidecar[w]
    BY <1>1 DEF TypeInv, SidecarsHold
  <2>2. \A w \in Works : w # Mine(s).work => \A c \in sidecar[w] : Complete(c)
    BY <1>3 DEF Orderly, Earning, Sealing
  <2>3. ASSUME NEW c \in sidecar[Mine(s).work] PROVE Complete(Merged(c))
    <3>1. c \in Sidecars
      BY <1>1, MineType DEF TypeInv, SidecarsHold
    <3>2. Sealing(s, Mine(s).work, c)
      BY <1>1 DEF Orderly, Earning
    <3> QED
      BY <1>2, <3>1, <3>2 DEF Sealing, Complete
  <2>4. ASSUME NEW w \in Works, NEW d \in sidecar'[w] PROVE Complete(d)
    <3>1. CASE w = Mine(s).work
      <4>1. sidecar'[w] = {Merged(c) : c \in sidecar[w]}
        BY <2>1, <3>1
      <4>2. PICK c \in sidecar[w] : d = Merged(c)
        BY <4>1
      <4> QED
        BY <2>3, <3>1, <4>2
    <3> QED
      BY <2>1, <2>2, <3>1
  <2> QED
    BY <1>1, <1>3, <1>4, <2>4 DEF Orderly, Earning, OthersFree
<1>8. Waiting' /\ Requests'
  BY <1>1, <1>3, <1>4, MarkKept DEF Orderly, Waiting, Waits
<1> QED
  BY <1>5, <1>6, <1>7, <1>8 DEF Orderly

\* It finalizes the mark, and goes on to render if a page is named in it.
LEMMA StopFinalizesCalm ==
    ASSUME TypeInv, TypeInv', Orderly, upset' = "no", NEW s \in Stops, StopFinalizes(s)
    PROVE  Orderly'
<1> DEFINE n == [Mine(s) EXCEPT !.status = "finalized", !.error = "no"]
<1>1. /\ stop[s].at = "finalize" /\ UNCHANGED <<sidecar, html, done, share, sealed>>
      /\ pend' = {n} /\ pend = {Mine(s)} /\ Mine(s) \in Marks
  BY MineIsPend DEF StopFinalizes, Saves, Fails
<1>2. /\ OthersFree /\ \A r \in Stops : r # s => stop[r].at = "idle"
  BY <1>1, StopAlone
<1>3. n.born = Mine(s).born /\ n.share = Mine(s).share
  BY <1>1 DEF Marks
<1>4. /\ \A r \in Stops : r # s => stop'[r] = stop[r]
      /\ \/ stop'[s].at = "idle" /\ Mine(s).share = {}
         \/ stop'[s].at = "render" /\ stop'[s].copy = stop[s].copy /\ Mine(s).share # {}
  BY StopGoes DEF StopFinalizes
<1>5. Sole'
  BY <1>1, <1>4, StopAlone
<1>6. Copies'
  <2>1. stop'[s].at = "render" => Mine(s)' = Mine(s)
    BY <1>4 DEF Mine
  <2>2. stop'[s].at = "render" => /\ pend' = {[Mine(s)' EXCEPT !.status = "finalized", !.error = "no"]}
                                  /\ (Mine(s)').share # {}
    BY <1>1, <1>4, <2>1
  <2> HIDE DEF n
  <2> QED
    BY <1>1, <1>2, <1>4, <2>2 DEF Copies, OthersFree
<1> HIDE DEF n
<1>7. Earning' /\ Waiting'
  BY <1>1, <1>2, <1>4, EarningKept DEF Orderly, Waiting, Waits
<1>8. Requests'
  BY <1>1, <1>2, <1>3, <1>4, MarkRewritten
<1> QED
  BY <1>5, <1>6, <1>7, <1>8 DEF Orderly

\* It renders the page the mark names, which waits no longer.
LEMMA StopRendersCalm ==
    ASSUME TypeInv, TypeInv', Orderly, upset' = "no", NEW s \in Stops, StopRenders(s)
    PROVE  Orderly'
<1> DEFINE m == [Mine(s) EXCEPT !.status = "finalized", !.error = "no"]
           page == Shown(Mine(s).work, sidecar[Mine(s).work], pend)
<1>1. /\ stop[s].at = "render" /\ UNCHANGED <<pend, sidecar, done, share, sealed>>
      /\ StopExits(s) /\ pend = {m}
  BY DEF StopRenders, Orderly, Copies
<1>2. Mine(s) \in Marks /\ Mine(s).work \in Works
  BY <1>1, MineType DEF TypeInv
<1>3. m.status = "finalized" /\ m.share = Mine(s).share
  BY <1>2 DEF Marks
<1> HIDE DEF m
<1>4. PICK p \in Mine(s).share : html' = [html EXCEPT ![p] = page]
  BY DEF StopRenders, Fails
<1>5. /\ OthersFree /\ \A r \in Stops : r # s => stop[r].at = "idle"
      /\ \A r \in Stops : stop'[r].at = "idle"
  BY <1>1, StopAlone, StopGoes
<1>6. \A w \in Works : \A c \in sidecar[w] : Complete(c)
  BY <1>1, <1>5, NotSealing
<1>7. Earned(page) /\ page.says # "PENDING"
  <2>1. /\ sidecar[Mine(s).work] \in SUBSET Sidecars
        /\ \A c \in sidecar[Mine(s).work] : Complete(c)
    BY <1>2, <1>6 DEF TypeInv, SidecarsHold
  <2>2. ~\E k \in pend : k.status = "pending"
    BY <1>1, <1>3
  <2> QED
    BY <1>2, <2>1, <2>2, ShownEarned
<1>8. \A w \in Works : html'[w] = IF w = p THEN page ELSE html[w]
  BY <1>4 DEF TypeInv
<1> HIDE DEF page
<1>9. Sole' /\ Copies'
  BY <1>1, <1>5 DEF Sole, Copies, OthersFree
<1>10. Earning' /\ Waiting'
  <2>1. Earning'
    BY <1>1, <1>5, <1>6, <1>7, <1>8 DEF Orderly, Earning
  <2>2. \A w \in Works : Waits(w)' => Waits(w)
    BY <1>7, <1>8 DEF Waits
  <2> QED
    BY <1>1, <1>5, <2>1, <2>2 DEF Orderly, Waiting, OthersFree
<1>11. Requests'
  <2>1. p \in m.share /\ AtMostOne(m.share) /\ m.born >= 1
    BY <1>1, <1>3, <1>4 DEF Orderly, Requests
  <2>2. \A w \in m.share : w \in Works /\ w = p
    BY <1>2, <1>3, <2>1 DEF AtMostOne, Marks
  <2> QED
    BY <1>1, <1>5, <1>7, <1>8, <2>1, <2>2 DEF Requests, OthersFree, Waits
<1> QED
  BY <1>9, <1>10, <1>11 DEF Orderly

-----------------------------------------------------------------------------
(* The two promises                                                        *)

\* Whatever step is taken, order is kept as long as nothing overlaps or fails.
LEMMA StepCalm == Calm /\ [Next]_vars => Calm'
<1> SUFFICES ASSUME Calm, [Next]_vars PROVE Calm'
  OBVIOUS
<1>1. TypeInv /\ TypeInv'
  BY OthersType, StopType, TypeStutter DEF Calm, Next
<1>2. SUFFICES ASSUME upset' = "no" PROVE Orderly'
  BY <1>1 DEF Calm
<1>3. Orderly
  BY <1>1, <1>2, UpsetStays DEF Calm
<1>4. CASE (\E w \in Works : DoneLoads(w) \/ ShareReadsSidecar(w)) \/ DoneWrites
  BY <1>1, <1>2, <1>3, <1>4, DoneLoadsCalm, DoneWritesCalm, ShareReadsSidecarCalm
<1>5. CASE ShareReadsMark \/ ShareWritesHtml \/ ShareLoadsRequest \/ ShareRecords
  BY <1>1, <1>2, <1>3, <1>5, ShareReadsMarkCalm, ShareWritesHtmlCalm,
     ShareLoadsRequestCalm,
     ShareRecordsCalm
<1>6. ASSUME NEW s \in Stops,
             \/ StopLoads(s) \/ StopAmbiguous(s) \/ StopBinds(s) \/ StopUnusable(s)
             \/ StopSeals(s) \/ StopMerges(s) \/ StopFinalizes(s) \/ StopRenders(s)
      PROVE  Orderly'
  BY <1>1, <1>2, <1>3, <1>6, StopLoadsCalm, StopErrsCalm, StopBindsCalm, StopSealsCalm,
     StopMergesCalm, StopFinalizesCalm, StopRendersCalm
<1>7. ASSUME NEW s \in Stops, StopMergeFails(s) \/ StopDies(s) PROVE FALSE
  BY <1>2, <1>7 DEF StopMergeFails, StopDies, Fails
<1>8. CASE UNCHANGED vars
  <2>1. UNCHANGED <<pend, sidecar, html, done, share, stop, sealed>>
    BY <1>8 DEF vars, files
  <2>2. \A s \in Stops : Mine(s)' = Mine(s)
    BY <2>1 DEF Mine
  <2>3. Sole' /\ Waiting' /\ Requests'
    BY <1>3, <2>1 DEF Orderly, Sole, OthersFree, Waiting, Requests, Since, Waits
  <2>5. Copies'
    BY <1>3, <2>1 DEF Orderly, Copies, Mine
  <2>4. Earning'
    BY <1>3, <2>1, <2>2 DEF Orderly, Earning, Sealing
  <2> QED
    BY <2>3, <2>4, <2>5 DEF Orderly
<1> QED
  BY <1>4, <1>5, <1>6, <1>7, <1>8 DEF Next

\* The initial state is in order.
LEMMA InitCalm == Init => Calm
<1> SUFFICES ASSUME Init PROVE Calm
  OBVIOUS
<1>1. Sole /\ Copies /\ Earning
  BY DEF Init, Sole, Copies, Earning, OthersFree, Idle, Earned, NoPage
<1>2. Waiting /\ Requests
  BY DEF Init, Waiting, Requests, Waits, NoPage, AtMostOne
<1> QED
  BY TypeInit, <1>1, <1>2 DEF Calm, Orderly

\* As long as nothing overlapped and nothing failed, a page passes only on an
\* answer whose claims were all verified: an answer that is missing, silent or
\* unreadable is never a silent PASS (completion.ts, computeHandoffVerdict).
THEOREM PassEarned == Spec => []PassIsEarned
<1>1. Calm => PassIsEarned
  BY DEF Calm, Orderly, Earning, Earned, PassIsEarned
<1> QED
  BY InitCalm, StepCalm, <1>1, PTL DEF Spec

\* As long as nothing overlapped and nothing failed, once the mark is finalized
\* the page it names is final, and without one no page of a receipt sealed since
\* the mark waits (completion.ts, the re-render after finalizePending).
THEOREM FinalPage == Spec => []PageBecomesFinal
<1>1. Calm => PageBecomesFinal
  <2> SUFFICES ASSUME Calm, upset = "no", Quiet, NEW m \in pend, m.status = "finalized"
               PROVE  /\ \A w \in m.share : html[w].says # "PENDING"
                      /\ m.share = {} => \A i \in m.born .. Len(sealed) :
                                            html[sealed[i]].says # "PENDING"
    BY DEF PageBecomesFinal
  <2>1. \A s \in Stops : stop[s].at # "render"
    BY DEF Quiet, StopFree
  <2>2. share.at = "idle"
    BY DEF Quiet, OthersFree
  <2>3. Requests
    BY DEF Calm, Orderly
  <2> QED
    BY <2>1, <2>2, <2>3 DEF Requests, Waits, Since
<1> QED
  BY InitCalm, StepCalm, <1>1, PTL DEF Spec
=============================================================================
