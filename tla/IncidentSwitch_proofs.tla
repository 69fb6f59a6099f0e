------------------------- MODULE IncidentSwitch_proofs -------------------------
(***************************************************************************)
(* Proofs about IncidentSwitch, for any incidents and any bounds.          *)
(***************************************************************************)
EXTENDS IncidentSwitch, TLAPS, WellFoundedInduction

-----------------------------------------------------------------------------
(* The inductive invariant *)

\* An engine in flight carries something, and nothing but what it owes.
Sound(e) == /\ e.sent # {} <=> e.flight # "none"
            /\ e.sent \subseteq e.owed
Engines == {e \in EngineState : Sound(e)}

Opening == {"meta", "init"}

\* Numbers are given out in order.
Issued == \A n \in Call : call[n].step # "none" => n <= selectReq
\* The engine in the ref is one whose call is through.
RefIsDone == syncRef # 0 => call[syncRef].step = "done"
\* While the newest call asks the server, the ref is empty: it has disposed of the
\* engine it found, and no other call can mount one.
NewestAlone == \A n \in Call : n = selectReq /\ call[n].step \in Opening => syncRef = 0
\* An older call's engine is in the ref only until the newest one's flush is over.
NewestTakesOver ==
    syncRef # 0 /\ syncRef # selectReq =>
        selectReq \in Call /\ call[selectReq].step = "flush"
\* An engine has no request of its own before it is mounted.
OpeningIsQuiet == \A n \in Call : call[n].step \in Opening => engine[n].flight = "none"
\* A call names an incident, and so does its engine while it waits for the meta.
Addressed == \A n \in Call :
    /\ call[n].step \in {"flush", "meta", "init"} => call[n].of \in Incident
    /\ call[n].step = "meta" => engine[n].of \in Incident
ResumesSome == resuming # 0 => Awaiting(resuming) # {}

Control == /\ OneWriter /\ Issued /\ RefIsDone /\ NewestAlone
           /\ NewestTakesOver /\ OpeningIsQuiet /\ Addressed /\ ResumesSome
Inv == TypeOK /\ engine \in [Call -> Engines] /\ Control

Slots == [Incident -> {None} \cup SUBSET Edit]

-----------------------------------------------------------------------------
(* Facts about the operators *)

\* The oldest of the calls that wait is one of them.
LEMMA FirstWaits ==
    ASSUME NEW e, Awaiting(e) # {}
    PROVE  First(Awaiting(e)) \in Awaiting(e)
<1>1. Awaiting(e) \subseteq Nat
  BY DEF Awaiting, Call
<1>2. PICK n \in Awaiting(e) : \A m \in Awaiting(e) : ~ (<<m, n>> \in OpToRel(<, Nat))
  BY <1>1, NatLessThanWellFounded, WFMin, Zenon
<1>3. \A m \in Awaiting(e) : ~ (m < n)
  BY <1>1, <1>2, Zenon DEF OpToRel
<1>4. \A m \in Awaiting(e) : n <= m
  BY <1>1, <1>3
<1> QED
  BY <1>4 DEF First

LEMMA EngineFields ==
    ASSUME NEW e \in Engines
    PROVE  /\ e \in EngineState /\ Sound(e)
           /\ e.of \in Incident \cup {None} /\ e.st \in {"none", "new", "ready", "disposed"}
           /\ e.owed \in SUBSET Edit /\ e.sent \in SUBSET Edit
           /\ e.flight \in {"none", "put", "merge"}
           /\ e.asked \in BOOLEAN /\ e.cacheDue \in BOOLEAN /\ e.found \in BOOLEAN
BY DEF Engines, EngineState

\* The changes a handler makes to one engine.
LEMMA EngineChanges ==
    ASSUME NEW e \in Engines, NEW b \in BOOLEAN
    PROVE  /\ [e EXCEPT !.asked = b] \in Engines
           /\ [e EXCEPT !.cacheDue = b] \in Engines
           /\ [e EXCEPT !.st = "disposed"] \in Engines
           /\ [e EXCEPT !.st = "disposed", !.cacheDue = b] \in Engines
           /\ [e EXCEPT !.st = "ready", !.found = FALSE, !.cacheDue = b] \in Engines
           /\ [e EXCEPT !.sent = {}, !.flight = "none", !.asked = b] \in Engines
BY EngineFields DEF Engines, EngineState, Sound

LEMMA PushingSound ==
    ASSUME NEW e \in EngineState, e.owed # {}
    PROVE  Pushing(e) \in Engines /\ Pushing(e).st = e.st /\ Pushing(e).of = e.of
BY DEF Engines, EngineState, Sound, Pushing

LEMMA NewEngineSound ==
    /\ NoEngine \in Engines /\ NoEngine.st = "none" /\ NoEngine.flight = "none"
    /\ \A i \in Incident \cup {None} :
          /\ NewEngine(i) \in Engines /\ NewEngine(i).st = "new"
          /\ NewEngine(i).flight = "none" /\ NewEngine(i).of = i
          /\ [NewEngine(i) EXCEPT !.st = "disposed"] \in Engines
          /\ [NewEngine(i) EXCEPT !.st = "disposed"].st = "disposed"
BY DEF NoEngine, NewEngine, Engines, EngineState, Sound

\* What a cache slot holds is a set of edits, or nothing.
LEMMA SlotTypes ==
    ASSUME slot \in Slots
    PROVE  /\ \A i : \A owed \in SUBSET Edit : [slot EXCEPT ![i] = owed] \in Slots
           /\ engine \in [Call -> Engines] =>
                \A e \in Call : CacheAfter(e) \in Slots /\ DisposedCache(e) \in Slots
<1>1. \A i : \A owed \in SUBSET Edit : [slot EXCEPT ![i] = owed] \in Slots
  BY DEF Slots
<1>2. ASSUME engine \in [Call -> Engines], NEW e \in Call
      PROVE  CacheAfter(e) \in Slots /\ DisposedCache(e) \in Slots
  BY <1>1, <1>2, EngineFields DEF CacheAfter, DisposedCache
<1> QED
  BY <1>1, <1>2

\* An engine that has nothing in flight, after it has read the cache.
LEMMA ReadingSound ==
    ASSUME NEW made \in Engines, made.flight = "none", made.of \in Incident, NEW store \in Slots
    PROVE  /\ Reading(made, store) \in Engines
           /\ Reading(made, store).st = made.st /\ Reading(made, store).flight = "none"
<1> DEFINE found == store[made.of] # None
           owed == IF found THEN store[made.of] ELSE {}
<1>1. made \in EngineState /\ made.sent = {}
  BY EngineFields DEF Sound
<1>2. Reading(made, store) = [made EXCEPT !.found = found, !.owed = owed]
  BY DEF Reading
<1>3. owed \in SUBSET Edit /\ found \in BOOLEAN
  BY DEF Slots
<1> QED
  BY <1>1, <1>2, <1>3 DEF Engines, EngineState, Sound
LEMMA OpenedSound ==
    ASSUME NEW made \in Engines, made.flight = "none", made.of \in Incident,
           NEW store \in Slots, NEW n
    PROVE  /\ Opened(n, made, store) \in Engines
           /\ Opened(n, made, store).st \in {made.st, "disposed"}
           /\ Opened(n, made, store).flight = "none"
<1>1. CASE Superseded(n)
  <2>1. [made EXCEPT !.st = "disposed"] \in Engines
    BY EngineChanges
  <2>2. /\ [made EXCEPT !.st = "disposed"].st = "disposed"
        /\ [made EXCEPT !.st = "disposed"].flight = "none"
    BY EngineFields DEF EngineState
  <2> QED
    BY <1>1, <2>1, <2>2 DEF Opened
<1>2. CASE ~Superseded(n)
  BY <1>2, ReadingSound DEF Opened
<1> QED
  BY <1>1, <1>2

LEMMA Disposing ==
    ASSUME engine \in [Call -> Engines], NEW e \in Call
    PROVE  /\ Disposed(e) \in Engines /\ Disposed(e).st = "disposed"
           /\ Disposed(e).flight = engine[e].flight
<1>1. engine[e] \in Engines
  OBVIOUS
<1>2. Disposed(e) \in Engines
  BY <1>1, EngineChanges DEF Disposed
<1> QED
  BY <1>1, <1>2, EngineFields DEF Disposed, EngineState

LEMMA RenderedType == \A id, ref : ref \in 0..MaxTaps => Rendered(id, ref) \in 0..MaxTaps
BY BoundAssumption DEF Rendered
LEMMA EnginesTyped ==
    ASSUME engine' \in [Call -> Engines]
    PROVE  /\ engine' \in [Call -> EngineState]
           /\ \A e \in Call : engine'[e].sent # {} <=> engine'[e].flight # "none"
BY DEF Engines, Sound

-----------------------------------------------------------------------------
(* The invariant holds at the start *)

LEMMA Start == Init => Inv
<1> SUFFICES ASSUME Init PROVE Inv
  OBVIOUS
<1>1. engine \in [Call -> Engines]
  BY NewEngineSound DEF Init
<1>2. \A e \in Call : engine[e].sent # {} <=> engine[e].flight # "none"
  BY <1>1 DEF Engines, Sound
<1>3. NoCall \in CallState /\ NoCall.step = "none"
  BY BoundAssumption DEF NoCall, CallState, CallStep
<1>4. TypeOK
  <2>1. engine \in [Call -> EngineState] /\ call \in [Call -> CallState]
    BY <1>1, <1>3 DEF Init, Engines
  <2>2. /\ slot \in [Incident -> {None} \cup SUBSET Edit]
        /\ server \in [Incident -> SUBSET Edit] /\ accepted \in [Incident -> SUBSET Edit]
    BY DEF Init
  <2>3. /\ activeId \in Incident \cup {None} /\ shows \in Incident \cup {None}
        /\ syncRef \in 0..MaxTaps /\ mounted \in 0..MaxTaps
        /\ selectReq \in 0..MaxTaps /\ resuming \in 0..MaxTaps
    BY BoundAssumption DEF Init
  <2>4. /\ dropped \subseteq Edit /\ undoing \in BOOLEAN /\ lateWrite \in BOOLEAN
        /\ edits \in Nat /\ faults \in Nat /\ leaves \in Nat
    BY DEF Init
  <2> QED
    BY <1>2, <2>1, <2>2, <2>3, <2>4 DEF TypeOK
<1>5. Control
  BY <1>3, NewEngineSound
     DEF Init, Control, OneWriter, Issued, RefIsDone, NewestAlone, NewestTakesOver,
         OpeningIsQuiet, Addressed, ResumesSome, Opening
<1> QED
  BY <1>1, <1>4, <1>5 DEF Inv

-----------------------------------------------------------------------------
(* Steps of one engine that leave the calls alone *)

\* An engine changes without coming to life: the control of the calls is untouched.
LEMMA EngineStep ==
    ASSUME Inv, NEW e \in Call, NEW x \in Engines,
           engine' = [engine EXCEPT ![e] = x], x.st \in {engine[e].st, "disposed"},
           x.flight = "none" \/ engine[e].flight # "none" \/ syncRef = e,
           x.of = engine[e].of,
           UNCHANGED <<syncRef, selectReq, call>>,
           resuming' = 0 \/ Awaiting(resuming') # {}
    PROVE  engine' \in [Call -> Engines] /\ Control'
<1>1. engine \in [Call -> Engines] /\ Control
  BY DEF Inv
<1>2. engine' \in [Call -> Engines]
  BY <1>1
<1>3. OneWriter'
  BY <1>1 DEF Control, OneWriter
<1>4. Issued' /\ RefIsDone' /\ NewestAlone' /\ NewestTakesOver'
  BY <1>1 DEF Control, Issued, RefIsDone, NewestAlone, NewestTakesOver
<1>5. OpeningIsQuiet'
  <2> SUFFICES ASSUME NEW n \in Call, call[n].step \in Opening
               PROVE  engine'[n].flight = "none"
    BY DEF OpeningIsQuiet
  <2>1. engine[n].flight = "none"
    BY <1>1 DEF Control, OpeningIsQuiet
  <2>2. syncRef # n
    BY <1>1, BoundAssumption DEF Control, RefIsDone, Opening, Call
  <2> QED
    BY <1>1, <2>1, <2>2
<1>6. Addressed'
  BY <1>1 DEF Control, Addressed
<1>7. ResumesSome'
  BY DEF ResumesSome, Awaiting
<1> QED
  BY <1>2, <1>3, <1>4, <1>5, <1>6, <1>7 DEF Control

LEMMA TapTypes ==
    ASSUME TypeOK
    PROVE  0 \in 0..MaxTaps /\ \A n \in Call : n \in 0..MaxTaps
BY BoundAssumption DEF Call

LEMMA RefEngine ==
    ASSUME Inv, syncRef # 0
    PROVE  syncRef \in Call
BY BoundAssumption DEF Inv, TypeOK, Call

LEMMA EditScreenStep == Inv /\ resuming = 0 /\ EditScreen => Inv'
<1> SUFFICES ASSUME Inv, resuming = 0, EditScreen PROVE Inv'
  OBVIOUS
<1> DEFINE k == edits + 1
           e == mounted
           x == [engine[e] EXCEPT !.owed = @ \cup {k}, !.cacheDue = TRUE]
<1>1. TypeOK /\ engine \in [Call -> Engines]
  BY DEF Inv
<1>2. e \in Call /\ k \in Edit
  BY <1>1, BoundAssumption DEF EditScreen, TypeOK, Call
<1>3. edits' \in Nat /\ accepted' \in [Incident -> SUBSET Edit] /\ dropped' \subseteq Edit
  BY <1>1, <1>2 DEF EditScreen, TypeOK
<1>4. CASE engine[e].st = "disposed"
  <2>1. UNCHANGED <<syncRef, selectReq, call, resuming, engine>>
    BY <1>4 DEF EditScreen, appVars, callVars
  <2>2. Control'
    BY <2>1
       DEF Inv, Control, OneWriter, Issued, RefIsDone, NewestAlone, NewestTakesOver,
           OpeningIsQuiet, Addressed, ResumesSome, Awaiting
  <2>3. TypeOK'
    BY <1>1, <1>3, <2>1 DEF TypeOK, EditScreen, appVars, callVars, dataVars
  <2> QED
    BY <1>1, <2>1, <2>2, <2>3 DEF Inv
<1>5. CASE engine[e].st # "disposed"
  <2>1. engine' = [engine EXCEPT ![e] = x]
    BY <1>5 DEF EditScreen
  <2>2. x \in Engines /\ x.st = engine[e].st /\ x.flight = engine[e].flight /\ x.of = engine[e].of
    <3>1. engine[e] \in Engines
      BY <1>1, <1>2
    <3> QED
      BY <1>2, <3>1, EngineFields DEF Engines, EngineState, Sound
  <2>3. engine' \in [Call -> Engines] /\ Control'
    BY <1>2, <2>1, <2>2, EngineStep DEF EditScreen, appVars, callVars
  <2>4. TypeOK'
    BY <1>1, <1>3, <2>3, EnginesTyped DEF TypeOK, EditScreen, appVars, callVars, dataVars
  <2> QED
    BY <2>3, <2>4 DEF Inv
<1> QED
  BY <1>4, <1>5
LEMMA CacheTimerStep == ASSUME Inv, resuming = 0, NEW e \in Call, CacheTimer(e) PROVE Inv'
<1> DEFINE x == [engine[e] EXCEPT !.cacheDue = FALSE]
<1>1. TypeOK /\ engine \in [Call -> Engines] /\ slot \in Slots
  BY DEF Inv, TypeOK, Slots
<1>2. engine' = [engine EXCEPT ![e] = x] /\ slot' \in Slots
  BY <1>1, SlotTypes DEF CacheTimer
<1>3. x \in Engines /\ x.st = engine[e].st /\ x.flight = engine[e].flight /\ x.of = engine[e].of
  <2>1. engine[e] \in Engines
    BY <1>1
  <2> QED
    BY <2>1, EngineChanges, EngineFields DEF EngineState
<1>4. engine' \in [Call -> Engines] /\ Control'
  BY <1>2, <1>3, EngineStep DEF CacheTimer, appVars, callVars
<1>5. lateWrite' \in BOOLEAN
  BY <1>1 DEF CacheTimer, TypeOK
<1>6. TypeOK'
  BY <1>1, <1>2, <1>4, <1>5, EnginesTyped DEF CacheTimer, TypeOK, Slots, appVars, callVars, budgets
<1> QED
  BY <1>4, <1>6 DEF Inv

LEMMA FlushStep == ASSUME Inv, resuming = 0, NEW e \in Call, Flush(e) PROVE Inv'
<1>1. TypeOK /\ engine \in [Call -> Engines] /\ slot \in Slots
  BY DEF Inv, TypeOK, Slots
<1>2. syncRef = e
  BY DEF Inv, Control, OneWriter, Flush
<1>3. engine[e] \in Engines /\ engine[e] \in EngineState
  BY <1>1 DEF Engines
<1>4. /\ Pushing(engine[e]) \in Engines /\ Pushing(engine[e]).st = engine[e].st
      /\ Pushing(engine[e]).of = engine[e].of
  BY <1>3, PushingSound DEF Flush
<1>5. engine' = [engine EXCEPT ![e] = Pushing(engine[e])] /\ slot' \in Slots
  BY <1>1, SlotTypes DEF Flush
<1>6. engine' \in [Call -> Engines] /\ Control'
  BY <1>2, <1>4, <1>5, EngineStep DEF Flush, appVars, callVars
<1>7. TypeOK'
  BY <1>1, <1>5, <1>6, EnginesTyped
     DEF Flush, TypeOK, Slots, appVars, callVars, budgets, historyVars
<1> QED
  BY <1>6, <1>7 DEF Inv

LEMMA ConflictStep == ASSUME Inv, resuming = 0, NEW e \in Call, Conflict(e) PROVE Inv'
<1> DEFINE x == [engine[e] EXCEPT !.flight = "merge", !.cacheDue = TRUE]
<1>1. TypeOK /\ engine \in [Call -> Engines]
  BY DEF Inv
<1>2. engine' = [engine EXCEPT ![e] = x]
  BY <1>1, EngineFields DEF Conflict, EngineState
<1>3. x \in Engines /\ x.st = engine[e].st /\ x.of = engine[e].of /\ engine[e].flight # "none"
  <2>1. engine[e] \in Engines
    BY <1>1
  <2> QED
    BY <2>1, EngineFields DEF Conflict, Engines, EngineState, Sound
<1>4. engine' \in [Call -> Engines] /\ Control'
  BY <1>2, <1>3, EngineStep DEF Conflict, appVars, callVars
<1>5. TypeOK'
  BY <1>1, <1>4, EnginesTyped
     DEF Conflict, TypeOK, appVars, callVars, dataVars, budgets, historyVars
<1> QED
  BY <1>4, <1>5 DEF Inv

LEMMA HandToViewType ==
    ASSUME TypeOK, NEW e \in Call, HandToView(e)
    PROVE  shows' \in Incident \cup {None} /\ mounted' \in 0..MaxTaps
<1>1. engine[e] \in EngineState /\ syncRef \in 0..MaxTaps /\ mounted \in 0..MaxTaps
  BY DEF TypeOK
<1> QED
  BY <1>1, RenderedType DEF HandToView, EngineState

LEMMA SettlesResumes ==
    ASSUME Inv, resuming = 0, NEW e \in Call, Settles(e) \/ UNCHANGED resuming
    PROVE  resuming' \in 0..MaxTaps /\ (resuming' = 0 \/ Awaiting(resuming') # {})
BY BoundAssumption DEF Settles, Call

LEMMA AcceptedStep == ASSUME Inv, resuming = 0, NEW e \in Call, Accepted(e) PROVE Inv'
<1> DEFINE left == engine[e].owed \ engine[e].sent
           acked == [engine[e] EXCEPT !.owed = left, !.sent = {}, !.flight = "none",
                                      !.cacheDue = TRUE]
           again == left # {} /\ engine[e].st # "disposed"
           x == IF again THEN Pushing(acked) ELSE [acked EXCEPT !.asked = FALSE]
<1>1. TypeOK /\ engine \in [Call -> Engines] /\ slot \in Slots
  BY DEF Inv, TypeOK, Slots
<1>2. /\ engine[e] \in EngineState /\ engine[e].flight # "none"
      /\ left \in SUBSET Edit /\ engine[e].sent \in SUBSET Edit
  BY <1>1, EngineFields DEF Accepted
<1>3. /\ acked \in EngineState /\ acked.owed = left /\ acked.st = engine[e].st
      /\ acked.of = engine[e].of /\ Sound(acked)
  BY <1>2 DEF EngineState, Sound
<1>4. x \in Engines /\ x.st = engine[e].st /\ x.of = engine[e].of
  <2>1. CASE again
    <3>1. acked.owed # {}
      BY <1>3, <2>1
    <3> QED
      BY <1>3, <2>1, <3>1, PushingSound
  <2>2. CASE ~again
    <3>1. acked \in Engines
      BY <1>3 DEF Engines
    <3>2. [acked EXCEPT !.asked = FALSE] \in Engines
      BY <3>1, EngineChanges
    <3>3. [acked EXCEPT !.asked = FALSE].st = acked.st /\ [acked EXCEPT !.asked = FALSE].of = acked.of
      BY <1>3 DEF EngineState
    <3> QED
      BY <1>3, <2>2, <3>2, <3>3
  <2> QED
    BY <2>1, <2>2
<1>5. engine' = [engine EXCEPT ![e] = x]
  BY DEF Accepted
<1>6. resuming' \in 0..MaxTaps /\ (resuming' = 0 \/ Awaiting(resuming') # {})
  BY SettlesResumes DEF Accepted
<1>7. engine' \in [Call -> Engines] /\ Control'
  BY <1>2, <1>4, <1>5, <1>6, EngineStep DEF Accepted
<1>8. slot' \in Slots /\ server' \in [Incident -> SUBSET Edit]
  <2>1. slot' \in Slots
    BY <1>1, <1>2, SlotTypes DEF Accepted
  <2>2. server' \in [Incident -> SUBSET Edit]
    BY <1>1, <1>2 DEF Accepted, TypeOK
  <2> QED
    BY <2>1, <2>2
<1>9. shows' \in Incident \cup {None} /\ mounted' \in 0..MaxTaps
  <2>1. HandToView(e) \/ UNCHANGED <<shows, mounted>>
    BY DEF Accepted
  <2> QED
    BY <1>1, <2>1, HandToViewType DEF TypeOK
<1>10. TypeOK'
  BY <1>1, <1>6, <1>7, <1>8, <1>9, EnginesTyped DEF Accepted, TypeOK, Slots, budgets, historyVars
<1> QED
  BY <1>7, <1>10 DEF Inv
LEMMA FlushFailsStep == ASSUME Inv, resuming = 0, NEW e \in Call, FlushFails(e) PROVE Inv'
<1> DEFINE unsent == [engine[e] EXCEPT !.sent = {}, !.flight = "none", !.asked = FALSE]
           handed == engine[e].flight = "merge" /\ engine[e].st # "disposed"
           again == engine[e].asked /\ engine[e].st # "disposed"
           x == IF again THEN Pushing(unsent) ELSE [unsent EXCEPT !.cacheDue = @ \/ handed]
<1>1. TypeOK /\ engine \in [Call -> Engines] /\ slot \in Slots
  BY DEF Inv, TypeOK, Slots
<1>2. /\ engine[e] \in Engines /\ engine[e].flight # "none"
      /\ engine[e].owed \in SUBSET Edit /\ engine[e].sent \in SUBSET Edit
      /\ engine[e].owed # {}
  BY <1>1, EngineFields DEF FlushFails, Sound
<1>3. /\ unsent \in Engines /\ unsent.st = engine[e].st /\ unsent.of = engine[e].of
      /\ unsent.owed = engine[e].owed /\ unsent.cacheDue = engine[e].cacheDue
  BY <1>2, EngineChanges, EngineFields DEF EngineState
<1>4. x \in Engines /\ x.st = engine[e].st /\ x.of = engine[e].of
  <2>1. CASE again
    BY <1>2, <1>3, <2>1, PushingSound DEF Engines
  <2>2. CASE ~again
    <3>1. (unsent.cacheDue \/ handed) \in BOOLEAN
      OBVIOUS
    <3>2. [unsent EXCEPT !.cacheDue = unsent.cacheDue \/ handed] \in Engines
      BY <1>3, <3>1, EngineChanges
    <3>3. /\ [unsent EXCEPT !.cacheDue = unsent.cacheDue \/ handed].st = unsent.st
          /\ [unsent EXCEPT !.cacheDue = unsent.cacheDue \/ handed].of = unsent.of
      BY <1>3 DEF Engines, EngineState
    <3> QED
      BY <1>3, <2>2, <3>2, <3>3
  <2> QED
    BY <2>1, <2>2
<1>5. engine' = [engine EXCEPT ![e] = x]
  BY DEF FlushFails
<1>6. resuming' \in 0..MaxTaps /\ (resuming' = 0 \/ Awaiting(resuming') # {})
  BY SettlesResumes DEF FlushFails
<1>7. engine' \in [Call -> Engines] /\ Control'
  BY <1>2, <1>4, <1>5, <1>6, EngineStep DEF FlushFails
<1>8. slot' \in Slots /\ server' \in [Incident -> SUBSET Edit]
  <2>1. slot' \in Slots
    BY <1>1, <1>2, SlotTypes DEF FlushFails
  <2>2. server' \in [Incident -> SUBSET Edit]
    BY <1>1, <1>2 DEF FlushFails, TypeOK
  <2> QED
    BY <2>1, <2>2
<1>9. shows' \in Incident \cup {None} /\ mounted' \in 0..MaxTaps /\ faults' \in Nat
  <2>1. HandToView(e) \/ UNCHANGED <<shows, mounted>>
    BY DEF FlushFails
  <2> QED
    BY <1>1, <2>1, HandToViewType DEF TypeOK, FlushFails
<1>10. TypeOK'
  BY <1>1, <1>6, <1>7, <1>8, <1>9, EnginesTyped DEF FlushFails, TypeOK, Slots, historyVars
<1> QED
  BY <1>7, <1>10 DEF Inv

-----------------------------------------------------------------------------
(* The ways out, and a render *)

\* The ref's engine is disposed of and the ref cleared.
LEMMA LetGo ==
    ASSUME Inv, resuming = 0, UNCHANGED callVars, syncRef' = 0,
           IF syncRef = 0 THEN UNCHANGED <<engine, slot>>
           ELSE /\ engine' = [engine EXCEPT ![syncRef] = Disposed(syncRef)]
                /\ slot' = DisposedCache(syncRef)
    PROVE  engine' \in [Call -> Engines] /\ slot' \in Slots /\ Control'
<1>1. engine \in [Call -> Engines] /\ slot \in Slots /\ Control
  BY DEF Inv, TypeOK, Slots
<1>2. /\ engine' \in [Call -> Engines] /\ slot' \in Slots
      /\ \A e \in Call : /\ e # syncRef => engine'[e] = engine[e]
                         /\ engine'[e].flight = engine[e].flight
                         /\ e = syncRef => engine'[e].st = "disposed"
  <2>1. CASE syncRef = 0
    BY <1>1, <2>1, BoundAssumption DEF Call
  <2>2. CASE syncRef # 0
    <3>1. syncRef \in Call
      BY <2>2, RefEngine
    <3> QED
      BY <1>1, <2>2, <3>1, Disposing, SlotTypes
  <2> QED
    BY <2>1, <2>2
<1>3. OneWriter'
  <2> SUFFICES ASSUME NEW e \in Call PROVE engine'[e].st # "ready"
    BY DEF OneWriter
  <2>1. engine[e].st = "ready" => syncRef = e
    BY <1>1 DEF Control, OneWriter
  <2>2. e # syncRef => engine'[e] = engine[e]
    BY <1>2
  <2>3. e = syncRef => engine'[e].st = "disposed"
    BY <1>2
  <2> QED
    BY <2>1, <2>2, <2>3
<1>4. Issued' /\ RefIsDone' /\ NewestAlone' /\ NewestTakesOver'
  BY <1>1 DEF Control, Issued, RefIsDone, NewestAlone, NewestTakesOver, callVars
<1>5. OpeningIsQuiet'
  <2> SUFFICES ASSUME NEW n \in Call, call[n].step \in Opening
               PROVE  engine'[n].flight = "none"
    BY DEF OpeningIsQuiet, callVars
  <2>1. engine[n].flight = "none"
    BY <1>1 DEF Control, OpeningIsQuiet
  <2>2. engine'[n].flight = engine[n].flight
    BY <1>2
  <2> QED
    BY <2>1, <2>2
<1>6. Addressed'
  <2>1. \A n \in Call : call[n].step = "meta" => n # syncRef
    BY <1>1, BoundAssumption DEF Control, RefIsDone, Call
  <2> QED
    BY <1>1, <1>2, <2>1 DEF Control, Addressed, callVars
<1>7. ResumesSome'
  BY DEF ResumesSome, callVars
<1> QED
  BY <1>2, <1>3, <1>4, <1>5, <1>6, <1>7 DEF Control

LEMMA UndoTakeStep == Inv /\ resuming = 0 /\ UndoTake => Inv'
<1> SUFFICES ASSUME Inv, resuming = 0, UndoTake PROVE Inv'
  OBVIOUS
<1>1. engine' \in [Call -> Engines] /\ slot' \in Slots /\ Control'
  BY LetGo DEF UndoTake
<1>2. TypeOK
  BY DEF Inv
<1>3. syncRef' \in 0..MaxTaps /\ undoing' \in BOOLEAN /\ leaves' \in Nat
  BY <1>2, BoundAssumption DEF UndoTake, TypeOK
<1>4. TypeOK'
  BY <1>1, <1>2, <1>3, EnginesTyped DEF UndoTake, TypeOK, Slots, callVars, historyVars
<1> QED
  BY <1>1, <1>4 DEF Inv

LEMMA EscapeStep == Inv /\ resuming = 0 /\ Escape => Inv'
<1> SUFFICES ASSUME Inv, resuming = 0, Escape PROVE Inv'
  OBVIOUS
<1>1. engine' \in [Call -> Engines] /\ slot' \in Slots /\ Control'
  BY LetGo DEF Escape
<1>2. TypeOK
  BY DEF Inv
<1>3. /\ syncRef' \in 0..MaxTaps /\ mounted' \in 0..MaxTaps /\ leaves' \in Nat
      /\ activeId' \in Incident \cup {None} /\ shows' \in Incident \cup {None}
  BY <1>2, BoundAssumption DEF Escape, TypeOK
<1>4. TypeOK'
  BY <1>1, <1>2, <1>3, EnginesTyped DEF Escape, TypeOK, Slots, callVars, historyVars
<1> QED
  BY <1>1, <1>4 DEF Inv

\* A step that changes neither the calls, nor the engines, nor the ref.
LEMMA ControlUnchanged ==
    ASSUME Inv, UNCHANGED <<callVars, engine, syncRef>>
    PROVE  engine' \in [Call -> Engines] /\ Control'
BY DEF Inv, Control, OneWriter, Issued, RefIsDone, NewestAlone, NewestTakesOver,
       OpeningIsQuiet, Addressed, ResumesSome, Awaiting, callVars

LEMMA UndoFailsStep == Inv /\ resuming = 0 /\ UndoFails => Inv'
<1> SUFFICES ASSUME Inv, resuming = 0, UndoFails PROVE Inv'
  OBVIOUS
<1>1. engine' \in [Call -> Engines] /\ Control'
  BY ControlUnchanged DEF UndoFails, appVars
<1>2. TypeOK
  BY DEF Inv
<1>3. undoing' \in BOOLEAN /\ faults' \in Nat
  <2>1. undoing' \in BOOLEAN
    BY Zenon DEF UndoFails
  <2>2. faults \in Nat /\ faults' = faults + 1
    BY <1>2 DEF UndoFails, TypeOK
  <2> QED
    BY <2>1, <2>2
<1>4. UNCHANGED <<appVars, callVars, engine, dataVars, edits, leaves, historyVars>>
  BY DEF UndoFails
<1>5. TypeOK'
  BY <1>2, <1>3, <1>4 DEF TypeOK, appVars, callVars, dataVars, historyVars
<1> QED
  BY <1>1, <1>5 DEF Inv

LEMMA RenderStep == Inv /\ resuming = 0 /\ Render => Inv'
<1> SUFFICES ASSUME Inv, resuming = 0, Render PROVE Inv'
  OBVIOUS
<1>1. engine' \in [Call -> Engines] /\ Control'
  BY ControlUnchanged DEF Render
<1>2. TypeOK
  BY DEF Inv
<1>3. mounted' \in 0..MaxTaps
  BY <1>2, RenderedType DEF Render, TypeOK
<1>4. TypeOK'
  BY <1>2, <1>3 DEF Render, TypeOK, callVars, dataVars, budgets, historyVars
<1> QED
  BY <1>1, <1>4 DEF Inv
-----------------------------------------------------------------------------
(* selectIncident *)

\* flush() leaves every engine sound, touches none but the one it is asked of, and
\* brings none to life.
LEMMA FlushAskedStep ==
    ASSUME Inv, NEW e \in Call, FlushAsked(e)
    PROVE  /\ engine' \in [Call -> Engines] /\ slot' \in Slots
           /\ \A k \in Call : k # e => engine'[k] = engine[k]
           /\ engine'[e].st = engine[e].st /\ engine'[e].of = engine[e].of
<1>1. engine \in [Call -> Engines] /\ slot \in Slots /\ engine[e] \in Engines
  BY DEF Inv, TypeOK, Slots
<1>2. CASE engine[e].flight # "none"
  <2> DEFINE x == [engine[e] EXCEPT !.asked = TRUE]
  <2>1. x \in Engines /\ x.st = engine[e].st /\ x.of = engine[e].of
    BY <1>1, EngineChanges, EngineFields DEF EngineState
  <2>2. engine' = [engine EXCEPT ![e] = x] /\ UNCHANGED slot
    BY <1>1, <1>2 DEF FlushAsked
  <2> QED
    BY <1>1, <2>1, <2>2
<1>3. CASE engine[e].flight = "none" /\ engine[e].owed # {}
  <2> DEFINE x == Pushing(engine[e])
  <2>1. x \in Engines /\ x.st = engine[e].st /\ x.of = engine[e].of
    BY <1>1, <1>3, PushingSound DEF Engines
  <2>2. engine' = [engine EXCEPT ![e] = x] /\ slot' = CacheAfter(e)
    BY <1>1, <1>3 DEF FlushAsked
  <2> QED
    BY <1>1, <2>1, <2>2, SlotTypes
<1>4. CASE engine[e].flight = "none" /\ engine[e].owed = {}
  BY <1>1, <1>4 DEF FlushAsked
<1> QED
  BY <1>2, <1>3, <1>4

\* A call that finds no engine goes straight for the server.
LEMMA SelectFromNothing ==
    ASSUME Inv, resuming = 0, NEW i \in Incident, NEW given \in BOOLEAN,
           Select(i, given), UNCHANGED syncRef, syncRef = 0
    PROVE  /\ selectReq' \in 0..MaxTaps /\ resuming' \in 0..MaxTaps
           /\ call' \in [Call -> CallState]
           /\ engine' \in [Call -> Engines] /\ slot' \in Slots /\ Control'
<1> DEFINE n == selectReq + 1
           c == [NoCall EXCEPT !.of = i, !.step = IF given THEN "init" ELSE "meta"]
           x == IF given THEN Reading(NewEngine(i), slot) ELSE NewEngine(i)
<1>1. /\ TypeOK /\ engine \in [Call -> Engines] /\ slot \in Slots /\ Control
      /\ call \in [Call -> CallState]
  BY DEF Inv, TypeOK, Slots
<1>2. n \in Call /\ n \in 0..MaxTaps /\ 0 \in 0..MaxTaps
  BY BoundAssumption DEF Select, Call
<1>3. c \in CallState /\ c.step \in Opening /\ c.of = i
  BY <1>2 DEF NoCall, CallState, CallStep, Opening
<1>4. x \in Engines /\ x.st = "new" /\ x.flight = "none" /\ (c.step = "meta" => x.of = i)
  <2>1. /\ NewEngine(i) \in Engines /\ NewEngine(i).st = "new"
        /\ NewEngine(i).flight = "none" /\ NewEngine(i).of = i
    BY NewEngineSound
  <2>2. /\ Reading(NewEngine(i), slot) \in Engines /\ Reading(NewEngine(i), slot).st = "new"
        /\ Reading(NewEngine(i), slot).flight = "none"
    BY <1>1, <2>1, ReadingSound
  <2>3. c.step = "meta" => ~given
    BY DEF NoCall
  <2> QED
    BY <2>1, <2>2, <2>3
<1>5. /\ call' = [call EXCEPT ![n] = c] /\ engine' = [engine EXCEPT ![n] = x]
      /\ UNCHANGED <<slot, resuming>> /\ selectReq' = n
  BY DEF Select
<1>6. /\ call' \in [Call -> CallState] /\ engine' \in [Call -> Engines]
      /\ call'[n] = c /\ engine'[n] = x
      /\ \A k \in Call : k # n => call'[k] = call[k] /\ engine'[k] = engine[k]
  BY <1>1, <1>2, <1>3, <1>4, <1>5
<1> HIDE DEF c, x
<1>7. OneWriter'
  BY <1>1, <1>4, <1>6 DEF Control, OneWriter
<1>8. Issued'
  <2> SUFFICES ASSUME NEW k \in Call, call'[k].step # "none"
               PROVE  k <= n
    BY <1>5 DEF Issued
  <2>1. k # n => k <= selectReq
    BY <1>1, <1>6 DEF Control, Issued
  <2>2. selectReq \in 0..MaxTaps
    BY <1>1 DEF TypeOK
  <2> QED
    BY <2>1, <2>2, BoundAssumption DEF Call
<1>9. RefIsDone' /\ NewestAlone' /\ NewestTakesOver' /\ ResumesSome'
  BY <1>5 DEF RefIsDone, NewestAlone, NewestTakesOver, ResumesSome
<1>10. OpeningIsQuiet'
  BY <1>1, <1>4, <1>6 DEF Control, OpeningIsQuiet
<1>11. Addressed'
  BY <1>1, <1>3, <1>4, <1>6 DEF Control, Addressed
<1> QED
  BY <1>1, <1>2, <1>5, <1>6, <1>7, <1>8, <1>9, <1>10, <1>11 DEF Control

\* A call that finds one waits for its flush.
LEMMA SelectBehindFlush ==
    ASSUME Inv, resuming = 0, NEW i \in Incident, NEW given \in BOOLEAN,
           Select(i, given), UNCHANGED syncRef, syncRef # 0
    PROVE  /\ selectReq' \in 0..MaxTaps /\ resuming' \in 0..MaxTaps
           /\ call' \in [Call -> CallState]
           /\ engine' \in [Call -> Engines] /\ slot' \in Slots /\ Control'
<1> DEFINE n == selectReq + 1
           e == syncRef
           c == [of |-> i, given |-> given, step |-> "flush", awaits |-> e]
<1>1. /\ TypeOK /\ engine \in [Call -> Engines] /\ Control
      /\ call \in [Call -> CallState] /\ selectReq \in 0..MaxTaps
  BY DEF Inv, TypeOK
<1>2. n \in Call /\ n \in 0..MaxTaps /\ e \in Call /\ e \in 0..MaxTaps /\ e # 0
  BY RefEngine, BoundAssumption DEF Select, Call
<1>3. c \in CallState /\ c.step = "flush" /\ c.of = i /\ c.awaits = e
  BY <1>2 DEF CallState, CallStep
<1>4. /\ call' = [call EXCEPT ![n] = c] /\ FlushAsked(e) /\ selectReq' = n
      /\ resuming' \in {0, e}
  BY DEF Select
<1>5. /\ engine' \in [Call -> Engines] /\ slot' \in Slots
      /\ \A k \in Call : k # e => engine'[k] = engine[k]
      /\ engine'[e].st = engine[e].st /\ engine'[e].of = engine[e].of
  BY <1>2, <1>4, FlushAskedStep
<1>6. /\ call' \in [Call -> CallState] /\ call'[n] = c
      /\ \A k \in Call : k # n => call'[k] = call[k]
  BY <1>1, <1>2, <1>3, <1>4
<1> HIDE DEF c
<1>7. call[e].step = "done" /\ e # n
  <2>1. call[e].step = "done"
    BY <1>1, <1>2 DEF Control, RefIsDone
  <2>2. e <= selectReq
    BY <1>1, <1>2, <2>1 DEF Control, Issued
  <2> QED
    BY <1>1, <1>2, <2>1, <2>2, BoundAssumption
<1>8. OneWriter'
  <2> SUFFICES ASSUME NEW k \in Call, engine'[k].st = "ready" PROVE syncRef = k
    BY DEF OneWriter
  <2>1. engine[k].st = "ready"
    BY <1>5
  <2> QED
    BY <1>1, <2>1 DEF Control, OneWriter
<1>9. Issued'
  <2> SUFFICES ASSUME NEW k \in Call, call'[k].step # "none"
               PROVE  k <= n
    BY <1>4 DEF Issued
  <2>1. k # n => k <= selectReq
    BY <1>1, <1>6 DEF Control, Issued
  <2> QED
    BY <1>1, <2>1, BoundAssumption DEF Call
<1>10. RefIsDone'
  BY <1>2, <1>6, <1>7 DEF RefIsDone
<1>11. NewestAlone' /\ NewestTakesOver'
  BY <1>2, <1>3, <1>4, <1>6 DEF NewestAlone, NewestTakesOver, Opening
<1>12. OpeningIsQuiet'
  <2> SUFFICES ASSUME NEW k \in Call, call'[k].step \in Opening
               PROVE  engine'[k].flight = "none"
    BY DEF OpeningIsQuiet
  <2>1. k # n /\ k # e
    BY <1>2, <1>3, <1>6, <1>7 DEF Opening
  <2> QED
    BY <1>1, <1>5, <1>6, <2>1 DEF Control, OpeningIsQuiet
<1>13. Addressed'
  BY <1>1, <1>3, <1>5, <1>6, <1>7 DEF Control, Addressed
<1>14. ResumesSome'
  <2>1. n \in Awaiting(e)'
    BY <1>2, <1>3, <1>6 DEF Awaiting
  <2> QED
    BY <1>4, <2>1 DEF ResumesSome
<1>15. selectReq' \in 0..MaxTaps /\ resuming' \in 0..MaxTaps
  BY <1>2, <1>4, BoundAssumption
<1>16. Control'
  BY <1>8, <1>9, <1>10, <1>11, <1>12, <1>13, <1>14 DEF Control
<1> QED
  BY <1>5, <1>6, <1>15, <1>16
LEMMA SelectStep ==
    ASSUME Inv, resuming = 0, NEW i \in Incident, NEW given \in BOOLEAN,
           Select(i, given), UNCHANGED syncRef
    PROVE  /\ selectReq' \in 0..MaxTaps /\ resuming' \in 0..MaxTaps
           /\ call' \in [Call -> CallState]
           /\ engine' \in [Call -> Engines] /\ slot' \in Slots /\ Control'
<1>1. CASE syncRef = 0
  BY <1>1, SelectFromNothing
<1>2. CASE syncRef # 0
  BY <1>2, SelectBehindFlush
<1> QED
  BY <1>1, <1>2

LEMMA TapStep ==
    ASSUME Inv, resuming = 0, NEW i \in Incident, NEW given \in BOOLEAN, Tap(i, given)
    PROVE  Inv'
<1>1. /\ selectReq' \in 0..MaxTaps /\ resuming' \in 0..MaxTaps
      /\ call' \in [Call -> CallState]
      /\ engine' \in [Call -> Engines] /\ slot' \in Slots /\ Control'
  BY SelectStep DEF Tap, appVars
<1>2. TypeOK'
  BY <1>1, EnginesTyped DEF Inv, Tap, TypeOK, Slots, appVars, budgets, historyVars
<1> QED
  BY <1>1, <1>2 DEF Inv

LEMMA UndoArchivedStep ==
    ASSUME Inv, resuming = 0, NEW next \in Incident \cup {None}, UndoArchived(next)
    PROVE  Inv'
<1>1. TypeOK
  BY DEF Inv
<1>2. /\ selectReq' \in 0..MaxTaps /\ resuming' \in 0..MaxTaps
      /\ call' \in [Call -> CallState]
      /\ engine' \in [Call -> Engines] /\ slot' \in Slots /\ Control'
  <2>1. CASE next = None
    <3>1. UNCHANGED <<callVars, engine, slot, syncRef>>
      BY <2>1 DEF UndoArchived
    <3>2. engine' \in [Call -> Engines] /\ Control'
      BY <3>1, ControlUnchanged
    <3> QED
      BY <1>1, <3>1, <3>2 DEF TypeOK, callVars, Slots
  <2>2. CASE next # None
    <3>1. next \in Incident /\ Select(next, TRUE) /\ UNCHANGED syncRef
      BY <2>2 DEF UndoArchived
    <3> QED
      BY <3>1, SelectStep
  <2> QED
    BY <2>1, <2>2
<1>3. undoing' \in BOOLEAN
  BY Zenon DEF UndoArchived
<1>4. /\ activeId' \in Incident \cup {None} /\ mounted' \in 0..MaxTaps
      /\ shows' \in Incident \cup {None}
  BY <1>1, BoundAssumption DEF UndoArchived, TypeOK
<1>5. UNCHANGED <<syncRef, server, budgets, historyVars>>
  BY DEF UndoArchived
<1>6. TypeOK'
  BY <1>1, <1>2, <1>3, <1>4, <1>5, EnginesTyped DEF TypeOK, Slots, budgets, historyVars
<1> QED
  BY <1>2, <1>6 DEF Inv

LEMMA AtType ==
    ASSUME call \in [Call -> CallState], NEW n \in Call, NEW s \in CallStep
    PROVE  At(n, s) \in CallState /\ At(n, s).step = s /\ At(n, s).of = call[n].of
<1>1. call[n].of \in Incident \cup {None}
  BY DEF CallState
<1>2. NoCall \in CallState
  BY BoundAssumption DEF NoCall, CallState, CallStep
<1> QED
  BY <1>1, <1>2 DEF At, CallState

\* A call past its flush: what its own changes do to the control of the calls, once
\* the ref is empty.
LEMMA PastFlush ==
    ASSUME Inv, NEW n \in Call, NEW c \in CallState, call' = [call EXCEPT ![n] = c],
           call[n].step # "none", c.of = call[n].of, c.of \in Incident,
           c.step \in {"failed", "meta", "init", "done"},
           UNCHANGED selectReq, syncRef' = 0,
           \A k \in Call : /\ engine'[k].st # "ready"
                           /\ k # n => engine'[k].flight = engine[k].flight
                           /\ k # n /\ call[k].step = "meta" => engine'[k].of = engine[k].of,
           c.step \in Opening => engine'[n].flight = "none",
           c.step = "meta" => engine'[n].of \in Incident,
           ResumesSome'
    PROVE  Control'
<1>1. Control /\ call \in [Call -> CallState]
  BY DEF Inv, TypeOK
<1>2. call'[n] = c /\ \A k \in Call : k # n => call'[k] = call[k]
  BY <1>1
<1>3. OneWriter' /\ RefIsDone' /\ NewestAlone' /\ NewestTakesOver'
  BY DEF OneWriter, RefIsDone, NewestAlone, NewestTakesOver
<1>4. Issued'
  BY <1>1, <1>2 DEF Control, Issued
<1>5. OpeningIsQuiet'
  BY <1>1, <1>2 DEF Control, OpeningIsQuiet
<1>6. Addressed'
  BY <1>1, <1>2 DEF Control, Addressed
<1> QED
  BY <1>3, <1>4, <1>5, <1>6 DEF Control
LEMMA ResumeStep == Inv /\ resuming # 0 /\ Resume => Inv'
<1> SUFFICES ASSUME Inv, resuming # 0, Resume PROVE Inv'
  OBVIOUS
<1> DEFINE n == First(Awaiting(resuming))
           e == syncRef
           made == NewEngine(call[n].of)
<1>1. /\ TypeOK /\ engine \in [Call -> Engines] /\ slot \in Slots /\ Control
      /\ call \in [Call -> CallState]
  BY DEF Inv, TypeOK, Slots
<1>2. n \in Call /\ call[n].step = "flush" /\ call[n].of \in Incident
  <2>1. n \in Awaiting(resuming)
    BY <1>1, FirstWaits DEF Control, ResumesSome
  <2> QED
    BY <1>1, <2>1 DEF Awaiting, Control, Addressed
<1>3. made \in Engines /\ made.st = "new" /\ made.flight = "none" /\ made.of = call[n].of
  BY <1>2, NewEngineSound
<1> HIDE DEF made
<1>4. \A s \in CallStep :
         At(n, s) \in CallState /\ At(n, s).step = s /\ At(n, s).of = call[n].of
  BY <1>1, <1>2, AtType
<1> HIDE DEF n
<1>5. resuming' = IF Awaiting(resuming) = {n} THEN 0 ELSE resuming
  BY DEF Resume, n
<1>6. ASSUME NEW c, call' = [call EXCEPT ![n] = c] PROVE ResumesSome'
  <2>1. CASE Awaiting(resuming) = {n}
    BY <1>5, <2>1 DEF ResumesSome
  <2>2. CASE Awaiting(resuming) # {n}
    <3>1. PICK m \in Awaiting(resuming) : m # n
      BY <1>1, <2>2 DEF Control, ResumesSome
    <3>2. m \in Awaiting(resuming)'
      BY <1>1, <1>2, <1>5, <1>6, <2>2, <3>1 DEF Awaiting
    <3> QED
      BY <1>5, <2>2, <3>2 DEF ResumesSome
  <2> QED
    BY <2>1, <2>2
<1>7. /\ call' \in [Call -> CallState] /\ engine' \in [Call -> Engines] /\ slot' \in Slots
      /\ syncRef' = 0 /\ Control'
  <2>1. CASE e = 0
    <3> DEFINE c == At(n, "failed")
    <3>1. /\ call' = [call EXCEPT ![n] = c] /\ UNCHANGED <<engine, slot, syncRef>>
      BY <2>1 DEF Resume, n
    <3>2. c \in CallState /\ c.step = "failed" /\ c.of = call[n].of
      BY <1>4 DEF CallStep
    <3>3. ResumesSome'
      BY <1>6, <3>1
    <3>4. \A k \in Call : engine[k].st # "ready"
      BY <1>1, <2>1, BoundAssumption DEF Control, OneWriter, Call
    <3>5. UNCHANGED selectReq
      BY DEF Resume
    <3> HIDE DEF c
    <3>6. Control'
      BY <1>2, <2>1, <3>1, <3>2, <3>3, <3>4, <3>5, PastFlush DEF Opening
    <3> QED
      BY <1>1, <1>2, <2>1, <3>1, <3>2, <3>6
  <2>2. CASE e # 0
    <3> DEFINE c == IF call[n].given THEN At(n, OpeningStep(n)) ELSE At(n, "meta")
               x == IF call[n].given THEN Opened(n, made, slot') ELSE made
    <3>1. e \in Call /\ call[e].step = "done" /\ e # n
      BY <1>1, <1>2, <2>2, RefEngine DEF Control, RefIsDone
    <3>2. /\ call' = [call EXCEPT ![n] = c]
          /\ engine' = [engine EXCEPT ![e] = Disposed(e), ![n] = x]
          /\ slot' = DisposedCache(e) /\ syncRef' = 0 /\ UNCHANGED selectReq
      BY <2>2 DEF Resume, n, made
    <3>3. slot' \in Slots
      BY <1>1, <3>1, <3>2, SlotTypes
    <3>4. /\ c \in CallState /\ c.of = call[n].of /\ c.step \in {"meta", "init", "done"}
      BY <1>4 DEF OpeningStep, CallStep
    <3>5. x \in Engines /\ x.st \in {"new", "disposed"} /\ x.flight = "none"
      BY <1>2, <1>3, <3>3, OpenedSound
    <3>6. c.step = "meta" => x.of = call[n].of
      BY <1>3, <1>4 DEF OpeningStep, CallStep
    <3>7. Disposed(e) \in Engines /\ Disposed(e).st = "disposed" /\ Disposed(e).flight = engine[e].flight
      BY <1>1, <3>1, Disposing
    <3> HIDE DEF c, x
    <3>8. /\ engine' \in [Call -> Engines]
          /\ engine'[n] = x /\ engine'[e] = Disposed(e)
          /\ \A k \in Call : k # n /\ k # e => engine'[k] = engine[k]
      BY <1>1, <1>2, <3>1, <3>2, <3>5, <3>7
    <3>9. \A k \in Call : engine'[k].st # "ready"
      BY <1>1, <3>5, <3>7, <3>8 DEF Control, OneWriter
    <3>10. \A k \in Call : k # n => engine'[k].flight = engine[k].flight
      BY <3>7, <3>8
    <3>11. \A k \in Call : k # n /\ call[k].step = "meta" => engine'[k].of = engine[k].of
      BY <3>1, <3>8
    <3>12. ResumesSome'
      BY <1>6, <3>2
    <3>13. c.step = "meta" => engine'[n].of \in Incident
      BY <1>2, <3>6, <3>8
    <3>14. Control'
      BY <1>2, <3>2, <3>4, <3>5, <3>8, <3>9, <3>10, <3>11, <3>12, <3>13, PastFlush
    <3> QED
      BY <1>1, <1>2, <3>2, <3>3, <3>4, <3>8, <3>14
  <2> QED
    BY <2>1, <2>2
<1>8. resuming' \in 0..MaxTaps /\ syncRef' \in 0..MaxTaps
  BY <1>1, <1>5, <1>7, BoundAssumption DEF TypeOK
<1>9. UNCHANGED <<activeId, mounted, shows, selectReq, server, undoing, budgets, historyVars>>
  BY DEF Resume
<1>10. TypeOK'
  BY <1>1, <1>7, <1>8, <1>9, EnginesTyped DEF TypeOK, Slots, budgets, historyVars
<1> QED
  BY <1>7, <1>10 DEF Inv

LEMMA MetaAnsweredStep == ASSUME Inv, resuming = 0, NEW n \in Call, MetaAnswered(n) PROVE Inv'
<1> DEFINE x == Opened(n, engine[n], slot)
           c == [call[n] EXCEPT !.step = OpeningStep(n)]
<1>1. /\ TypeOK /\ engine \in [Call -> Engines] /\ slot \in Slots /\ Control
      /\ call \in [Call -> CallState]
  BY DEF Inv, TypeOK, Slots
<1>2. /\ call[n].step = "meta" /\ call[n].of \in Incident
      /\ engine[n] \in Engines /\ engine[n].of \in Incident /\ engine[n].flight = "none"
  BY <1>1 DEF MetaAnswered, Control, Addressed, OpeningIsQuiet, Opening
<1>3. x \in Engines /\ x.st \in {engine[n].st, "disposed"} /\ x.flight = "none"
  BY <1>1, <1>2, OpenedSound
<1>4. c \in CallState /\ c.of = call[n].of /\ c.step = OpeningStep(n)
  BY <1>1 DEF CallState, CallStep, OpeningStep
<1>5. /\ engine' = [engine EXCEPT ![n] = x] /\ call' = [call EXCEPT ![n] = c]
      /\ UNCHANGED <<syncRef, selectReq, resuming>>
  BY DEF MetaAnswered, appVars
<1> HIDE DEF c, x
<1>6. /\ call' \in [Call -> CallState] /\ engine' \in [Call -> Engines]
      /\ call'[n] = c /\ engine'[n] = x
      /\ \A k \in Call : k # n => call'[k] = call[k] /\ engine'[k] = engine[k]
  BY <1>1, <1>3, <1>4, <1>5
<1>7. OneWriter'
  BY <1>1, <1>3, <1>5, <1>6 DEF Control, OneWriter
<1>8. Issued' /\ RefIsDone' /\ ResumesSome'
  <2>1. Issued'
    BY <1>1, <1>2, <1>5, <1>6 DEF Control, Issued
  <2>2. syncRef # 0 => syncRef \in Call /\ syncRef # n
    BY <1>1, <1>2, RefEngine DEF Control, RefIsDone
  <2>3. RefIsDone'
    BY <1>1, <1>5, <1>6, <2>2 DEF Control, RefIsDone
  <2> QED
    BY <1>5, <2>1, <2>3 DEF ResumesSome
<1>9. NewestAlone' /\ NewestTakesOver'
  <2>1. NewestAlone'
    BY <1>1, <1>2, <1>5, <1>6 DEF Control, NewestAlone, Opening
  <2>2. NewestTakesOver'
    BY <1>1, <1>2, <1>5, <1>6 DEF Control, NewestTakesOver
  <2> QED
    BY <2>1, <2>2
<1>10. OpeningIsQuiet'
  BY <1>1, <1>3, <1>6 DEF Control, OpeningIsQuiet
<1>11. Addressed'
  BY <1>1, <1>2, <1>4, <1>6 DEF Control, Addressed, OpeningStep
<1>12. Control'
  BY <1>7, <1>8, <1>9, <1>10, <1>11 DEF Control
<1>13. TypeOK'
  BY <1>1, <1>6, EnginesTyped
     DEF MetaAnswered, TypeOK, Slots, appVars, dataVars, budgets, historyVars
<1> QED
  BY <1>6, <1>12, <1>13 DEF Inv
\* A call that was asking the server ends, and the ref stays.
LEMMA CallEnds ==
    ASSUME Inv, resuming = 0, NEW n \in Call, NEW s \in {"done", "failed"}, NEW x \in Engines,
           call[n].step \in Opening, call' = [call EXCEPT ![n].step = s],
           engine' = [engine EXCEPT ![n] = x], x.st # "ready" \/ x.st = engine[n].st,
           n = selectReq \/ Superseded(n),
           UNCHANGED <<syncRef, selectReq, resuming>>
    PROVE  call' \in [Call -> CallState] /\ engine' \in [Call -> Engines] /\ Control'
<1> DEFINE c == [call[n] EXCEPT !.step = s]
<1>1. engine \in [Call -> Engines] /\ Control /\ call \in [Call -> CallState]
  BY DEF Inv, TypeOK
<1>2. c \in CallState /\ c.step = s /\ call' = [call EXCEPT ![n] = c]
  BY <1>1 DEF CallState, CallStep
<1> HIDE DEF c
<1>3. /\ call' \in [Call -> CallState] /\ engine' \in [Call -> Engines]
      /\ call'[n].step = s /\ engine'[n] = x
      /\ \A k \in Call : k # n => call'[k] = call[k] /\ engine'[k] = engine[k]
  BY <1>1, <1>2
<1>4. OneWriter'
  BY <1>1, <1>3 DEF Control, OneWriter
<1>5. Issued'
  BY <1>1, <1>3 DEF Control, Issued, Opening
<1>6. RefIsDone'
  <2>1. syncRef # 0 => syncRef \in Call /\ syncRef # n
    BY <1>1, RefEngine DEF Control, RefIsDone, Opening
  <2> QED
    BY <1>1, <1>3, <2>1 DEF Control, RefIsDone
<1>7. NewestAlone'
  BY <1>1, <1>3 DEF Control, NewestAlone
<1>8. NewestTakesOver'
  <2>1. n = selectReq => syncRef = 0
    BY <1>1 DEF Control, NewestAlone
  <2>2. n # selectReq /\ selectReq \in Call => call'[selectReq] = call[selectReq]
    BY <1>3
  <2> QED
    BY <1>1, <2>1, <2>2 DEF Control, NewestTakesOver
<1>9. OpeningIsQuiet' /\ ResumesSome'
  BY <1>1, <1>3 DEF Control, OpeningIsQuiet, Opening, ResumesSome
<1>10. Addressed'
  BY <1>1, <1>3 DEF Control, Addressed
<1> QED
  BY <1>3, <1>4, <1>5, <1>6, <1>7, <1>8, <1>9, <1>10 DEF Control

LEMMA CallFailsStep == ASSUME Inv, resuming = 0, NEW n \in Call, CallFails(n) PROVE Inv'
<1>1. TypeOK /\ engine \in [Call -> Engines]
  BY DEF Inv
<1>2. call[n].step \in Opening /\ call' = [call EXCEPT ![n].step = "failed"]
  BY DEF CallFails, Opening
<1>3. engine[n] \in Engines /\ engine' = [engine EXCEPT ![n] = engine[n]]
  BY <1>1 DEF CallFails
<1>4. call' \in [Call -> CallState] /\ engine' \in [Call -> Engines] /\ Control'
  BY <1>2, <1>3, CallEnds DEF CallFails, Superseded, appVars
<1>5. faults' \in Nat
  BY <1>1 DEF CallFails, TypeOK
<1>6. TypeOK'
  BY <1>1, <1>4, <1>5, EnginesTyped DEF CallFails, TypeOK, appVars, dataVars, historyVars
<1> QED
  BY <1>4, <1>6 DEF Inv

LEMMA InitAnsweredStep ==
    ASSUME Inv, resuming = 0, NEW n \in Call, NEW due \in BOOLEAN, InitAnswered(n, due)
    PROVE  Inv'
<1> DEFINE i == call[n].of
<1>1. /\ TypeOK /\ engine \in [Call -> Engines] /\ slot \in Slots /\ Control
      /\ call \in [Call -> CallState] /\ engine[n] \in Engines
  BY DEF Inv, TypeOK, Slots
<1>2. /\ call[n].step = "init" /\ call[n].step \in Opening /\ i \in Incident
      /\ call' = [call EXCEPT ![n].step = "done"] /\ UNCHANGED <<selectReq, resuming>>
  BY <1>1 DEF InitAnswered, Control, Addressed, Opening
<1>3. UNCHANGED <<server, undoing, budgets, accepted, dropped>>
  BY DEF InitAnswered
<1>4. CASE Superseded(n)
  <2> DEFINE x == [NewEngine(i) EXCEPT !.st = "disposed"]
  <2>1. x \in Engines /\ x.st = "disposed"
    BY <1>2, NewEngineSound
  <2>2. /\ engine' = [engine EXCEPT ![n] = x]
        /\ slot' = IF due THEN [slot EXCEPT ![i] = engine[n].owed] ELSE slot
        /\ lateWrite' = (lateWrite \/ due) /\ UNCHANGED appVars
    BY <1>4 DEF InitAnswered
  <2>3. call' \in [Call -> CallState] /\ engine' \in [Call -> Engines] /\ Control'
    BY <1>2, <1>4, <2>1, <2>2, CallEnds DEF appVars
  <2>4. slot' \in Slots
    BY <1>1, <2>2, SlotTypes, EngineFields
  <2>5. lateWrite' \in BOOLEAN
    BY <2>2
  <2>6. TypeOK'
    BY <1>1, <1>2, <1>3, <2>2, <2>3, <2>4, <2>5, EnginesTyped DEF TypeOK, Slots, appVars, budgets
  <2> QED
    BY <2>3, <2>6 DEF Inv
<1>5. CASE ~Superseded(n)
  <2> DEFINE x == [engine[n] EXCEPT !.st = "ready", !.found = FALSE, !.cacheDue = due]
             c == [call[n] EXCEPT !.step = "done"]
  <2>1. x \in Engines
    BY <1>1, EngineChanges
  <2>2. c \in CallState /\ c.step = "done" /\ call' = [call EXCEPT ![n] = c]
    BY <1>1, <1>2 DEF CallState, CallStep
  <2>3. /\ engine' = [engine EXCEPT ![n] = x] /\ UNCHANGED <<slot, lateWrite>>
        /\ syncRef' = n /\ activeId' = i /\ shows' = i /\ mounted' = n
    BY <1>5 DEF InitAnswered
  <2> HIDE DEF c, x
  <2>4. /\ call' \in [Call -> CallState] /\ engine' \in [Call -> Engines]
        /\ call'[n].step = "done" /\ engine'[n] = x
        /\ \A k \in Call : k # n => call'[k] = call[k] /\ engine'[k] = engine[k]
    BY <1>1, <2>1, <2>2, <2>3
  <2>5. n = selectReq /\ syncRef = 0
    BY <1>1, <1>2, <1>5 DEF Superseded, Control, NewestAlone
  <2>6. OneWriter'
    <3>1. \A k \in Call : k # n => engine'[k].st # "ready"
      BY <1>1, <2>4, <2>5, BoundAssumption DEF Control, OneWriter, Call
    <3> QED
      BY <2>3, <3>1 DEF OneWriter
  <2>7. Issued' /\ RefIsDone' /\ NewestAlone' /\ NewestTakesOver' /\ ResumesSome'
    BY <1>1, <1>2, <2>3, <2>4, <2>5
       DEF Control, Issued, RefIsDone, NewestAlone, NewestTakesOver, ResumesSome, Opening
  <2>8. OpeningIsQuiet' /\ Addressed'
    BY <1>1, <2>4 DEF Control, OpeningIsQuiet, Addressed, Opening
  <2>9. Control'
    BY <2>6, <2>7, <2>8 DEF Control
  <2>10. n \in 0..MaxTaps
    BY TapTypes, <1>1
  <2>11. TypeOK'
    BY <1>1, <1>2, <1>3, <2>3, <2>4, <2>10, EnginesTyped DEF TypeOK, budgets
  <2> QED
    BY <2>4, <2>9, <2>11 DEF Inv
<1> QED
  BY <1>4, <1>5

-----------------------------------------------------------------------------
(* The theorems *)

LEMMA Step == Inv /\ [Next]_vars => Inv'
<1> SUFFICES ASSUME Inv, [Next]_vars PROVE Inv'
  OBVIOUS
<1>1. CASE resuming # 0 /\ Resume
  BY <1>1, ResumeStep
<1>2. CASE resuming = 0 /\ \E i \in Incident, given \in BOOLEAN : Tap(i, given)
  BY <1>2, TapStep
<1>3. CASE resuming = 0 /\ \E n \in Call : MetaAnswered(n)
  BY <1>3, MetaAnsweredStep
<1>4. CASE resuming = 0 /\ \E n \in Call : \E due \in BOOLEAN : InitAnswered(n, due)
  BY <1>4, InitAnsweredStep
<1>5. CASE resuming = 0 /\ \E n \in Call : CallFails(n)
  BY <1>5, CallFailsStep
<1>6. CASE resuming = 0 /\ UndoTake
  BY <1>6, UndoTakeStep
<1>7. CASE resuming = 0 /\ \E next \in Incident \cup {None} : UndoArchived(next)
  BY <1>7, UndoArchivedStep
<1>8. CASE resuming = 0 /\ UndoFails
  BY <1>8, UndoFailsStep
<1>9. CASE resuming = 0 /\ Escape
  BY <1>9, EscapeStep
<1>10. CASE resuming = 0 /\ Render
  BY <1>10, RenderStep
<1>11. CASE resuming = 0 /\ EditScreen
  BY <1>11, EditScreenStep
<1>12. CASE resuming = 0 /\ \E e \in Call : CacheTimer(e)
  BY <1>12, CacheTimerStep
<1>13. CASE resuming = 0 /\ \E e \in Call : Flush(e)
  BY <1>13, FlushStep
<1>14. CASE resuming = 0 /\ \E e \in Call : Conflict(e)
  BY <1>14, ConflictStep
<1>15. CASE resuming = 0 /\ \E e \in Call : Accepted(e)
  BY <1>15, AcceptedStep
<1>16. CASE resuming = 0 /\ \E e \in Call : FlushFails(e)
  BY <1>16, FlushFailsStep
<1>17. CASE UNCHANGED vars
  <2>1. engine' \in [Call -> Engines] /\ Control'
    BY <1>17, ControlUnchanged DEF vars, appVars
  <2>2. TypeOK'
    BY <1>17 DEF Inv, TypeOK, vars, appVars, callVars, dataVars, budgets, historyVars
  <2> QED
    BY <2>1, <2>2 DEF Inv
<1> QED
  BY <1>1, <1>2, <1>3, <1>4, <1>5, <1>6, <1>7, <1>8, <1>9, <1>10, <1>11, <1>12, <1>13,
     <1>14, <1>15, <1>16, <1>17 DEF Next

\* The inductive invariant of selectIncident and its engines holds throughout.
THEOREM Invariance == Spec => []Inv
<1>1. Init => Inv
  BY Start
<1>2. Inv /\ [Next]_vars => Inv'
  BY Step
<1> QED
  BY <1>1, <1>2, PTL DEF Spec

\* Every variable keeps its type, and an engine in flight carries something.
THEOREM TypeCorrect == Spec => []TypeOK
<1>1. Inv => TypeOK
  BY DEF Inv
<1> QED
  BY <1>1, Invariance, PTL

\* However many taps, undone takes and crash escapes interleave, the only engine that
\* may push is the one in syncRef.
THEOREM OneWriterSafe == Spec => []OneWriter
<1>1. Inv => OneWriter
  BY DEF Inv, Control
<1> QED
  BY <1>1, Invariance, PTL

\* When every call of selectIncident is through, no older tap's incident is open.
THEOREM NewestWins == Spec => []NeverOlderTap
<1>1. Inv => NeverOlderTap
  BY DEF Inv, Control, NewestTakesOver, NeverOlderTap, AtRest
<1> QED
  BY <1>1, Invariance, PTL

-----------------------------------------------------------------------------
(* What an engine took is kept *)

\* How far an engine has come, next to its call.
Lives ==
    /\ \A e \in Call : engine[e].st \in {"none", "new"} => engine[e].flight = "none"
    /\ \A n \in Call : call[n].step \in {"none", "flush"} => engine[n].st = "none"
    /\ \A n \in Call : call[n].step \in Opening =>
                          engine[n].st = "new" /\ engine[n].of = call[n].of
    /\ syncRef # 0 => engine[syncRef].st = "ready" /\ engine[syncRef].of \in Incident
    /\ mounted # 0 => engine[mounted].st \in {"ready", "disposed"}

\* The edits the newest call finds in the cache slot of an incident.
Stored(i) == IF slot[i] = None THEN {} ELSE slot[i]
\* Where the unsynced edits of an incident are: with the engine in the ref, else in the slot.
KeptFor(i) ==
    IF syncRef # 0 /\ engine[syncRef].of = i THEN engine[syncRef].owed ELSE Stored(i)
EditsKept == \A i \in Incident : accepted[i] \subseteq server[i] \cup KeptFor(i)
\* The engine in the ref can be disposed of: what it owes and has no cache write due for is
\* in the slot.
RefCached ==
    syncRef # 0 /\ ~engine[syncRef].cacheDue =>
        engine[syncRef].owed \subseteq Stored(engine[syncRef].of)
\* The slot is still as the newest call's engine read it.
ReadIsSlot ==
    \A n \in Call : n = selectReq /\ call[n].step = "init" =>
        engine[n].owed = Stored(call[n].of)
Kept == ~lateWrite => EditsKept /\ RefCached /\ ReadIsSlot

WorkInv == Lives /\ Kept

LEMMA StoredType ==
    ASSUME slot \in Slots
    PROVE  \A i \in Incident : Stored(i) \in SUBSET Edit
BY DEF Slots, Stored

\* A slot that takes what an engine owes, and the other slots.
LEMMA StoredAfter ==
    ASSUME slot \in Slots, NEW i \in Incident, NEW owed \in SUBSET Edit,
           slot' = [slot EXCEPT ![i] = owed]
    PROVE  Stored(i)' = owed /\ \A j \in Incident : j # i => Stored(j)' = Stored(j)
<1>1. owed # None
  BY NoneAssumption DEF Edit
<1> QED
  BY <1>1 DEF Slots, Stored

\* One engine changes, without coming to life or ending.
LEMMA LivesOn ==
    ASSUME Inv, Lives, NEW e \in Call, NEW x, engine' = [engine EXCEPT ![e] = x],
           x.of = engine[e].of, x.st = engine[e].st,
           x.flight = "none" \/ engine[e].flight # "none" \/ x.st = "ready",
           UNCHANGED <<syncRef, call>>, mounted' \in {mounted, syncRef, 0}
    PROVE  Lives'
<1>1. /\ engine \in [Call -> Engines] /\ (syncRef # 0 => syncRef \in Call)
      /\ (mounted # 0 => mounted \in Call)
  BY BoundAssumption DEF Inv, TypeOK, Call
<1>2. engine'[e] = x /\ \A k \in Call : k # e => engine'[k] = engine[k]
  BY <1>1
<1>3. \A k \in Call : engine'[k].st = engine[k].st /\ engine'[k].of = engine[k].of
  BY <1>2
<1>4. \A k \in Call : engine'[k].st \in {"none", "new"} => engine'[k].flight = "none"
  BY <1>2, <1>3 DEF Lives
<1>5. /\ \A n \in Call : call'[n].step \in {"none", "flush"} => engine'[n].st = "none"
      /\ \A n \in Call : call'[n].step \in Opening =>
                            engine'[n].st = "new" /\ engine'[n].of = call'[n].of
  BY <1>3 DEF Lives
<1>6. syncRef' # 0 => engine'[syncRef'].st = "ready" /\ engine'[syncRef'].of \in Incident
  BY <1>1, <1>3 DEF Lives
<1>7. mounted' # 0 => engine'[mounted'].st \in {"ready", "disposed"}
  BY <1>1, <1>3 DEF Lives
<1> QED
  BY <1>4, <1>5, <1>6, <1>7 DEF Lives

\* The engine in the ref takes an edit, pushes, or has an answer: what it owed it owes
\* still, or the server has it, and without a write due the slot has what it owes.
LEMMA RefStep ==
    ASSUME Inv, Lives, EditsKept, RefCached, syncRef # 0, NEW x \in Engines,
           engine' = [engine EXCEPT ![syncRef] = x], x.of = engine[syncRef].of,
           UNCHANGED syncRef,
           slot' \in {slot, [slot EXCEPT ![x.of] = x.owed]},
           engine[syncRef].owed \subseteq x.owed \cup server'[x.of],
           \A i \in Incident : server[i] \subseteq server'[i],
           \A i \in Incident : accepted'[i] \subseteq
                                  IF i = x.of THEN accepted[i] \cup x.owed ELSE accepted[i],
           ~x.cacheDue => \/ slot' = [slot EXCEPT ![x.of] = x.owed]
                          \/ ~engine[syncRef].cacheDue /\ x.owed \subseteq engine[syncRef].owed
    PROVE  EditsKept' /\ RefCached'
<1> DEFINE e == syncRef
<1>1. e \in Call /\ engine \in [Call -> Engines] /\ slot \in Slots /\ x.of \in Incident
  BY RefEngine DEF Inv, TypeOK, Slots, Lives
<1>2. engine'[e] = x /\ x.owed \in SUBSET Edit
  BY <1>1, EngineFields
<1>3. /\ \A j \in Incident : j # x.of => Stored(j)' = Stored(j)
      /\ Stored(x.of)' \in {Stored(x.of), x.owed}
      /\ slot' = [slot EXCEPT ![x.of] = x.owed] => Stored(x.of)' = x.owed
  <2>1. CASE slot' = [slot EXCEPT ![x.of] = x.owed]
    BY <1>1, <1>2, <2>1, StoredAfter
  <2>2. CASE slot' = slot /\ slot' # [slot EXCEPT ![x.of] = x.owed]
    BY <2>2 DEF Stored
  <2> QED
    BY <2>1, <2>2
<1>4. ASSUME NEW i \in Incident PROVE accepted'[i] \subseteq server'[i] \cup KeptFor(i)'
  <2>1. accepted[i] \subseteq server[i] \cup KeptFor(i)
    BY DEF EditsKept
  <2>2. CASE i = x.of
    BY <1>2, <2>1, <2>2 DEF KeptFor
  <2>3. CASE i # x.of
    BY <1>2, <1>3, <2>1, <2>3 DEF KeptFor
  <2> QED
    BY <2>2, <2>3
<1>5. ASSUME ~x.cacheDue PROVE x.owed \subseteq Stored(x.of)'
  <2>1. CASE slot' = [slot EXCEPT ![x.of] = x.owed]
    BY <1>3, <2>1
  <2>2. CASE ~engine[e].cacheDue /\ x.owed \subseteq engine[e].owed
    BY <1>3, <2>2 DEF RefCached
  <2> QED
    BY <1>5, <2>1, <2>2
<1> QED
  BY <1>2, <1>4, <1>5 DEF EditsKept, RefCached

\* An engine out of the ref gets an answer: nothing that is kept moves.
LEMMA BystanderStep ==
    ASSUME Inv, Lives, EditsKept, RefCached, NEW e \in Call, NEW x,
           engine' = [engine EXCEPT ![e] = x], syncRef # e,
           UNCHANGED <<syncRef, slot, accepted>>,
           \A i \in Incident : server[i] \subseteq server'[i]
    PROVE  EditsKept' /\ RefCached'
<1>1. engine \in [Call -> Engines] /\ (syncRef # 0 => syncRef \in Call)
  BY RefEngine DEF Inv
<1>2. syncRef # 0 => engine'[syncRef] = engine[syncRef]
  BY <1>1
<1>3. \A i : Stored(i)' = Stored(i)
  BY DEF Stored
<1>4. \A i \in Incident : KeptFor(i)' = KeptFor(i)
  BY <1>2, <1>3 DEF KeptFor
<1>5. EditsKept'
  BY <1>4 DEF EditsKept
<1>6. RefCached'
  BY <1>2, <1>3 DEF RefCached
<1> QED
  BY <1>5, <1>6

\* The newest call's engine reads the slot and nobody touches either.
LEMMA ReadStays ==
    ASSUME Inv, Lives, ReadIsSlot, NEW e \in Call, NEW x, engine' = [engine EXCEPT ![e] = x],
           UNCHANGED <<selectReq, call>>,
           e = syncRef \/ (UNCHANGED slot /\ engine[e].st # "new")
    PROVE  ReadIsSlot'
<1>1. engine \in [Call -> Engines] /\ NewestAlone
  BY DEF Inv, Control
<1>2. ASSUME NEW n \in Call, n = selectReq, call[n].step = "init"
      PROVE  UNCHANGED <<slot, engine[n]>>
  <2>1. engine[n].st = "new" /\ syncRef = 0
    BY <1>1, <1>2 DEF Lives, NewestAlone, Opening
  <2>2. e # syncRef
    BY <2>1, BoundAssumption DEF Call
  <2> QED
    BY <1>1, <2>1, <2>2
<1>3. ASSUME NEW n \in Call, n = selectReq, call[n].step = "init"
      PROVE  engine'[n].owed = Stored(call[n].of)'
  BY <1>2, <1>3 DEF ReadIsSlot, Stored
<1> QED
  BY <1>3 DEF ReadIsSlot

LEMMA FlightEngine ==
    ASSUME Inv, Lives, NEW e \in Call, engine[e].flight # "none"
    PROVE  /\ engine[e].st \in {"ready", "disposed"}
           /\ engine[e].st # "disposed" => syncRef = e /\ syncRef # 0
BY BoundAssumption, EngineFields DEF Inv, Control, OneWriter, Lives, Call

LEMMA EditScreenKept ==
    ASSUME Inv, WorkInv, resuming = 0, EditScreen
    PROVE  WorkInv'
<1> DEFINE k == edits + 1
           e == mounted
           x == [engine[e] EXCEPT !.owed = @ \cup {k}, !.cacheDue = TRUE]
<1>1. /\ TypeOK /\ engine \in [Call -> Engines] /\ e \in Call /\ k \in Edit
      /\ UNCHANGED <<syncRef, mounted, selectReq, call, slot, server, lateWrite>>
  BY BoundAssumption DEF Inv, TypeOK, EditScreen, Call, appVars, callVars, dataVars
<1>2. CASE engine[e].st = "disposed"
  <2>1. UNCHANGED <<engine, accepted>>
    BY <1>2 DEF EditScreen
  <2> QED
    BY <1>1, <2>1 DEF WorkInv, Lives, Kept, EditsKept, RefCached, ReadIsSlot, KeptFor, Stored
<1>3. CASE engine[e].st # "disposed"
  <2>1. engine[e].st = "ready" /\ syncRef = e /\ syncRef # 0
    BY <1>1, <1>3, BoundAssumption DEF EditScreen, WorkInv, Lives, Inv, Control, OneWriter
  <2>2. engine[e] \in EngineState /\ Sound(engine[e])
    BY <1>1, EngineFields
  <2>3. /\ engine' = [engine EXCEPT ![e] = x]
        /\ accepted' = [accepted EXCEPT ![x.of] = @ \cup {k}]
    BY <1>3, <2>2 DEF EditScreen, EngineState
  <2>4. /\ x \in Engines /\ x.of = engine[e].of /\ x.st = "ready" /\ x.cacheDue
        /\ x.owed = engine[e].owed \cup {k}
    BY <1>1, <2>1, <2>2 DEF EngineState, Engines, Sound
  <2> HIDE DEF x
  <2>5. Lives'
    BY <1>1, <2>1, <2>3, <2>4, LivesOn DEF WorkInv
  <2>6. ASSUME ~lateWrite' PROVE EditsKept' /\ RefCached' /\ ReadIsSlot'
    <3>1. EditsKept /\ RefCached /\ ReadIsSlot /\ Lives
      BY <1>1, <2>6 DEF WorkInv, Kept
    <3>2. \A i \in Incident : accepted'[i] \subseteq
                                IF i = x.of THEN accepted[i] \cup x.owed ELSE accepted[i]
      BY <1>1, <2>3, <2>4 DEF TypeOK
    <3>3. EditsKept' /\ RefCached'
      BY <1>1, <2>1, <2>3, <2>4, <3>1, <3>2, RefStep
    <3>4. ReadIsSlot'
      BY <1>1, <2>1, <2>3, <3>1, ReadStays
    <3> QED
      BY <3>3, <3>4
  <2> QED
    BY <2>5, <2>6 DEF WorkInv, Kept
<1> QED
  BY <1>2, <1>3

LEMMA CacheTimerKept ==
    ASSUME Inv, WorkInv, resuming = 0, NEW e \in Call, CacheTimer(e)
    PROVE  WorkInv'
<1> DEFINE x == [engine[e] EXCEPT !.cacheDue = FALSE]
<1>1. /\ engine \in [Call -> Engines] /\ engine' = [engine EXCEPT ![e] = x]
      /\ slot' = [slot EXCEPT ![engine[e].of] = engine[e].owed]
      /\ lateWrite' = (lateWrite \/ e # syncRef)
      /\ UNCHANGED <<syncRef, mounted, selectReq, call, server, accepted>>
  BY DEF Inv, CacheTimer, CacheAfter, appVars, callVars
<1>2. /\ x \in Engines /\ x.of = engine[e].of /\ x.st = engine[e].st /\ ~x.cacheDue
      /\ x.flight = engine[e].flight /\ x.owed = engine[e].owed
  <2>1. engine[e] \in Engines
    BY <1>1
  <2> QED
    BY <2>1, EngineFields, EngineChanges DEF EngineState
<1> HIDE DEF x
<1>3. Lives'
  BY <1>1, <1>2, LivesOn DEF WorkInv
<1>4. ASSUME ~lateWrite' PROVE EditsKept' /\ RefCached' /\ ReadIsSlot'
  <2>1. EditsKept /\ RefCached /\ ReadIsSlot /\ Lives /\ e = syncRef /\ syncRef # 0
    <3>1. ~lateWrite /\ e = syncRef
      BY <1>1, <1>4, Zenon
    <3>2. e # 0
      BY BoundAssumption DEF Call
    <3> QED
      BY <3>1, <3>2 DEF WorkInv, Kept
  <2>2. \A i \in Incident : accepted'[i] \subseteq
                              IF i = x.of THEN accepted[i] \cup x.owed ELSE accepted[i]
    BY <1>1
  <2>3. EditsKept' /\ RefCached'
    BY <1>1, <1>2, <2>1, <2>2, RefStep
  <2>4. ReadIsSlot'
    BY <1>1, <2>1, ReadStays
  <2> QED
    BY <2>3, <2>4
<1> QED
  BY <1>3, <1>4 DEF WorkInv, Kept

\* drain's first steps, whoever asks for them.
LEMMA PushingKept ==
    ASSUME Inv, Lives, EditsKept, RefCached, syncRef # 0,
           engine[syncRef].owed # {}, engine[syncRef].flight = "none",
           engine' = [engine EXCEPT ![syncRef] = Pushing(engine[syncRef])],
           slot' = CacheAfter(syncRef), UNCHANGED <<syncRef, server, accepted>>
    PROVE  EditsKept' /\ RefCached'
<1> DEFINE e == syncRef
           x == Pushing(engine[e])
<1>1. e \in Call /\ engine \in [Call -> Engines] /\ engine[e] \in Engines
  BY RefEngine DEF Inv
<1>2. /\ x \in Engines /\ x.of = engine[e].of /\ ~x.cacheDue /\ x.owed = engine[e].owed
  <2>1. engine[e] \in EngineState
    BY <1>1, EngineFields
  <2>2. x \in Engines /\ x.of = engine[e].of
    BY <2>1, PushingSound
  <2>3. ~x.cacheDue /\ x.owed = engine[e].owed
    BY <2>1 DEF Pushing, EngineState
  <2> QED
    BY <2>2, <2>3
<1> HIDE DEF x
<1>3. /\ slot' \in {slot, [slot EXCEPT ![x.of] = x.owed]}
      /\ slot' = [slot EXCEPT ![x.of] = x.owed] \/ ~engine[e].cacheDue
  BY <1>2 DEF CacheAfter
<1>4. \A i \in Incident : accepted'[i] \subseteq
                            IF i = x.of THEN accepted[i] \cup x.owed ELSE accepted[i]
  OBVIOUS
<1>5. engine' = [engine EXCEPT ![e] = x]
  BY DEF x
<1> QED
  BY <1>1, <1>2, <1>3, <1>4, <1>5, RefStep

LEMMA FlushKept ==
    ASSUME Inv, WorkInv, resuming = 0, NEW e \in Call, Flush(e)
    PROVE  WorkInv'
<1>1. /\ e = syncRef /\ syncRef # 0 /\ engine[e] \in Engines /\ engine[e].owed # {}
      /\ engine[e].flight = "none" /\ engine[e].st = "ready"
  BY BoundAssumption DEF Inv, Control, OneWriter, Flush, Call
<1>2. /\ engine' = [engine EXCEPT ![e] = Pushing(engine[e])] /\ slot' = CacheAfter(e)
      /\ UNCHANGED <<syncRef, mounted, selectReq, call, server, accepted, lateWrite>>
  BY DEF Flush, appVars, callVars, historyVars
<1>3. Pushing(engine[e]).st = "ready" /\ Pushing(engine[e]).of = engine[e].of
  BY <1>1, PushingSound, EngineFields
<1>4. Lives'
  BY <1>1, <1>2, <1>3, LivesOn DEF WorkInv
<1>5. ASSUME ~lateWrite' PROVE EditsKept' /\ RefCached' /\ ReadIsSlot'
  <2>1. EditsKept /\ RefCached /\ ReadIsSlot /\ Lives
    BY <1>2, <1>5 DEF WorkInv, Kept
  <2>2. EditsKept' /\ RefCached'
    BY <1>1, <1>2, <2>1, PushingKept
  <2>3. ReadIsSlot'
    BY <1>1, <1>2, <2>1, ReadStays
  <2> QED
    BY <2>2, <2>3
<1> QED
  BY <1>4, <1>5 DEF WorkInv, Kept

\* An engine whose flight goes on or ends: what is asked of its new state, whether it is in
\* the ref or not.
LEMMA FlightStep ==
    ASSUME Inv, WorkInv, NEW e \in Call, engine[e].flight # "none", NEW x \in Engines,
           engine' = [engine EXCEPT ![e] = x], x.of = engine[e].of, x.st = engine[e].st,
           slot' \in {slot, [slot EXCEPT ![x.of] = x.owed]},
           slot' = slot \/ engine[e].st # "disposed",
           syncRef = e => engine[e].owed \subseteq x.owed \cup server'[x.of],
           \A i \in Incident : server[i] \subseteq server'[i],
           ~x.cacheDue => \/ slot' = [slot EXCEPT ![x.of] = x.owed]
                          \/ ~engine[e].cacheDue /\ x.owed \subseteq engine[e].owed,
           HandToView(e) \/ UNCHANGED mounted,
           UNCHANGED <<syncRef, selectReq, call, accepted, lateWrite>>
    PROVE  WorkInv'
<1>1. /\ engine[e].st \in {"ready", "disposed"}
      /\ engine[e].st # "disposed" => syncRef = e /\ syncRef # 0
  BY FlightEngine DEF WorkInv
<1>2. mounted' \in {mounted, syncRef, 0}
  BY DEF HandToView, Rendered
<1>3. Lives'
  BY <1>1, <1>2, LivesOn DEF WorkInv
<1>4. ASSUME ~lateWrite' PROVE EditsKept' /\ RefCached' /\ ReadIsSlot'
  <2>1. EditsKept /\ RefCached /\ ReadIsSlot /\ Lives
    BY <1>4 DEF WorkInv, Kept
  <2>2. CASE syncRef = e
    <3>1. \A i \in Incident : accepted'[i] \subseteq
                                IF i = x.of THEN accepted[i] \cup x.owed ELSE accepted[i]
      OBVIOUS
    <3>2. syncRef # 0
      BY <2>2, BoundAssumption DEF Call
    <3>3. EditsKept' /\ RefCached'
      BY <2>1, <2>2, <3>1, <3>2, RefStep
    <3> QED
      BY <2>1, <2>2, <3>3, ReadStays
  <2>3. CASE syncRef # e
    <3>1. UNCHANGED slot
      BY <1>1, <2>3
    <3>2. EditsKept' /\ RefCached'
      BY <2>1, <2>3, <3>1, BystanderStep
    <3> QED
      BY <1>1, <2>1, <3>1, <3>2, ReadStays
  <2> QED
    BY <2>2, <2>3
<1> QED
  BY <1>3, <1>4 DEF WorkInv, Kept

LEMMA ConflictKept ==
    ASSUME Inv, WorkInv, resuming = 0, NEW e \in Call, Conflict(e)
    PROVE  WorkInv'
<1> DEFINE x == [engine[e] EXCEPT !.flight = "merge", !.cacheDue = TRUE]
<1>1. engine[e] \in Engines /\ engine[e].flight # "none" /\ engine' = [engine EXCEPT ![e] = x]
  BY EngineFields DEF Inv, Conflict, EngineState
<1>2. /\ x \in Engines /\ x.of = engine[e].of /\ x.st = engine[e].st /\ x.cacheDue
      /\ x.owed = engine[e].owed
  BY <1>1, EngineFields DEF Engines, EngineState, Sound
<1> HIDE DEF x
<1>3. UNCHANGED <<syncRef, mounted, selectReq, call, slot, server, accepted, lateWrite>>
  BY DEF Conflict, appVars, callVars, dataVars, historyVars
<1> QED
  BY <1>1, <1>2, <1>3, FlightStep

LEMMA AcceptedKept ==
    ASSUME Inv, WorkInv, resuming = 0, NEW e \in Call, Accepted(e)
    PROVE  WorkInv'
<1> DEFINE left == engine[e].owed \ engine[e].sent
           acked == [engine[e] EXCEPT !.owed = left, !.sent = {}, !.flight = "none",
                                      !.cacheDue = TRUE]
           again == left # {} /\ engine[e].st # "disposed"
           x == IF again THEN Pushing(acked) ELSE [acked EXCEPT !.asked = FALSE]
<1>1. TypeOK /\ engine[e] \in Engines /\ engine[e].flight # "none"
  BY DEF Inv, Accepted
<1>2. /\ acked \in EngineState /\ acked.owed = left /\ acked.st = engine[e].st
      /\ acked.of = engine[e].of /\ Sound(acked) /\ acked.cacheDue
  BY <1>1, EngineFields DEF EngineState, Sound
<1> HIDE DEF acked
<1>3. /\ x \in Engines /\ x.st = engine[e].st /\ x.of = engine[e].of /\ x.owed = left
      /\ again \/ x.cacheDue
  <2>1. CASE again
    <3>1. x \in Engines /\ x.st = acked.st /\ x.of = acked.of
      BY <1>2, <2>1, PushingSound
    <3>2. x.owed = left
      BY <1>2, <2>1 DEF Pushing, EngineState
    <3> QED
      BY <1>2, <2>1, <3>1, <3>2
  <2>2. CASE ~again
    <3>1. x \in Engines
      BY <1>2, <2>2, EngineChanges DEF Engines
    <3>2. x.st = acked.st /\ x.of = acked.of /\ x.owed = acked.owed /\ x.cacheDue = acked.cacheDue
      BY <1>2, <2>2 DEF EngineState
    <3> QED
      BY <1>2, <3>1, <3>2, Zenon
  <2> QED
    BY <2>1, <2>2
<1>4. engine' = [engine EXCEPT ![e] = x]
  BY DEF Accepted, acked
<1>5. /\ slot' \in {slot, [slot EXCEPT ![x.of] = x.owed]}
      /\ slot' = slot \/ engine[e].st # "disposed"
      /\ again => slot' = [slot EXCEPT ![x.of] = x.owed]
  BY <1>3 DEF Accepted
<1>6. server' = [server EXCEPT ![x.of] = @ \cup engine[e].sent]
  BY <1>3 DEF Accepted
<1>7. HandToView(e) \/ UNCHANGED mounted
  BY DEF Accepted
<1>8. UNCHANGED <<syncRef, selectReq, call, accepted, lateWrite>>
  BY DEF Accepted, historyVars
<1>9. \A i \in Incident : server[i] \subseteq server'[i]
  BY <1>1, <1>6 DEF TypeOK
<1>10. ~x.cacheDue => slot' = [slot EXCEPT ![x.of] = x.owed]
  BY <1>3, <1>5
<1> HIDE DEF x
<1>11. ASSUME syncRef = e PROVE engine[e].owed \subseteq x.owed \cup server'[x.of]
  <2>1. x.of \in Incident
    BY <1>3, <1>11, BoundAssumption DEF WorkInv, Lives, Call
  <2>2. server'[x.of] = server[x.of] \cup engine[e].sent
    BY <1>1, <1>6, <2>1 DEF TypeOK
  <2> QED
    BY <1>3, <2>2
<1> QED
  BY <1>1, <1>3, <1>4, <1>5, <1>7, <1>8, <1>9, <1>10, <1>11, FlightStep

LEMMA FlushFailsKept ==
    ASSUME Inv, WorkInv, resuming = 0, NEW e \in Call, FlushFails(e)
    PROVE  WorkInv'
<1> DEFINE unsent == [engine[e] EXCEPT !.sent = {}, !.flight = "none", !.asked = FALSE]
           handed == engine[e].flight = "merge" /\ engine[e].st # "disposed"
           again == engine[e].asked /\ engine[e].st # "disposed"
           x == IF again THEN Pushing(unsent) ELSE [unsent EXCEPT !.cacheDue = @ \/ handed]
<1>1. /\ TypeOK /\ engine[e] \in Engines /\ engine[e].flight # "none" /\ engine[e].owed # {}
  BY EngineFields DEF Inv, FlushFails, Sound
<1>2. /\ unsent \in Engines /\ unsent.st = engine[e].st /\ unsent.of = engine[e].of
      /\ unsent.owed = engine[e].owed /\ unsent.cacheDue = engine[e].cacheDue
  BY <1>1, EngineChanges, EngineFields DEF EngineState
<1>3. /\ unsent \in EngineState /\ unsent.cacheDue \in BOOLEAN
  BY <1>2, EngineFields
<1>4. engine' = [engine EXCEPT ![e] = x]
  BY DEF FlushFails
<1> HIDE DEF unsent
<1>5. /\ x \in Engines /\ x.st = engine[e].st /\ x.of = engine[e].of
      /\ x.owed = engine[e].owed /\ (~again /\ ~x.cacheDue => ~engine[e].cacheDue)
  <2>1. CASE again
    <3>1. x \in Engines /\ x.st = unsent.st /\ x.of = unsent.of
      BY <1>1, <1>2, <1>3, <2>1, PushingSound
    <3>2. x.owed = unsent.owed
      BY <1>3, <2>1 DEF Pushing, EngineState
    <3> QED
      BY <1>2, <2>1, <3>1, <3>2
  <2>2. CASE ~again
    <3> DEFINE b == unsent.cacheDue \/ handed
    <3>1. b \in BOOLEAN /\ x = [unsent EXCEPT !.cacheDue = b]
      BY <2>2
    <3> HIDE DEF b
    <3> HIDE DEF x
    <3>2. /\ x \in Engines /\ x.st = unsent.st /\ x.of = unsent.of
          /\ x.owed = unsent.owed /\ x.cacheDue = b
      <4>1. x \in Engines
        BY <1>2, <3>1, EngineChanges
      <4> QED
        BY <1>3, <3>1, <4>1 DEF EngineState
    <3>3. ~b => ~unsent.cacheDue
      BY Zenon DEF b
    <3> QED
      BY <1>2, <3>2, <3>3
  <2> QED
    BY <2>1, <2>2
<1>6. /\ slot' \in {slot, [slot EXCEPT ![x.of] = x.owed]}
      /\ slot' = slot \/ engine[e].st # "disposed"
      /\ again => slot' = [slot EXCEPT ![x.of] = x.owed]
  BY <1>5 DEF FlushFails
<1>7. \A i \in Incident : server[i] \subseteq server'[i]
  BY <1>1 DEF FlushFails, TypeOK
<1>8. HandToView(e) \/ UNCHANGED mounted
  BY DEF FlushFails
<1>9. UNCHANGED <<syncRef, selectReq, call, accepted, lateWrite>>
  BY DEF FlushFails, historyVars
<1>10. ~x.cacheDue => \/ slot' = [slot EXCEPT ![x.of] = x.owed]
                      \/ ~engine[e].cacheDue /\ x.owed \subseteq engine[e].owed
  BY <1>5, <1>6
<1> HIDE DEF x
<1> QED
  BY <1>1, <1>4, <1>5, <1>6, <1>7, <1>8, <1>9, <1>10, FlightStep

\* The ref's engine is disposed of: what it owed is in the slot.
LEMMA DisposingKeeps ==
    ASSUME Inv, Lives, EditsKept, RefCached, syncRef # 0,
           slot' = DisposedCache(syncRef), syncRef' = 0, UNCHANGED <<server, accepted>>
    PROVE  EditsKept' /\ RefCached'
<1> DEFINE e == syncRef
<1>1. e \in Call /\ engine[e] \in Engines /\ slot \in Slots /\ engine[e].of \in Incident
  BY RefEngine DEF Inv, TypeOK, Slots, Lives
<1>2. PICK of \in Incident, owed \in SUBSET Edit : of = engine[e].of /\ owed = engine[e].owed
  BY <1>1, EngineFields
<1>3. owed \subseteq Stored(of)' /\ \A j \in Incident : j # of => Stored(j)' = Stored(j)
  <2>1. CASE engine[e].cacheDue
    <3>1. slot' = [slot EXCEPT ![of] = owed]
      BY <1>2, <2>1 DEF DisposedCache, CacheAfter
    <3> QED
      BY <1>1, <3>1, StoredAfter
  <2>2. CASE ~engine[e].cacheDue
    <3>1. slot' = slot
      BY <2>2 DEF DisposedCache, CacheAfter
    <3> QED
      BY <1>2, <2>2, <3>1 DEF RefCached, Stored
  <2> QED
    BY <2>1, <2>2
<1>4. ASSUME NEW i \in Incident PROVE accepted[i] \subseteq server[i] \cup Stored(i)'
  <2>1. accepted[i] \subseteq server[i] \cup KeptFor(i)
    BY DEF EditsKept
  <2>2. KeptFor(i) \subseteq Stored(i)'
    BY <1>2, <1>3 DEF KeptFor
  <2> QED
    BY <2>1, <2>2
<1> QED
  BY <1>4 DEF EditsKept, RefCached, KeptFor

\* The two ways out: whatever is in the ref goes, and the calls stay as they are.
LEMMA LetGoKept ==
    ASSUME Inv, WorkInv, resuming = 0, UNCHANGED callVars, syncRef' = 0,
           mounted' \in {mounted, 0}, UNCHANGED <<server, accepted, lateWrite>>,
           IF syncRef = 0 THEN UNCHANGED <<engine, slot>>
           ELSE /\ engine' = [engine EXCEPT ![syncRef] = Disposed(syncRef)]
                /\ slot' = DisposedCache(syncRef)
    PROVE  WorkInv'
<1>1. CASE syncRef = 0
  BY <1>1 DEF WorkInv, Lives, Kept, EditsKept, RefCached, ReadIsSlot, KeptFor, Stored, callVars
<1>2. CASE syncRef # 0
  <2> DEFINE e == syncRef
  <2>1. /\ e \in Call /\ engine \in [Call -> Engines] /\ engine[e].st = "ready"
        /\ call[e].step = "done" /\ NewestAlone
    BY <1>2, RefEngine DEF Inv, Control, RefIsDone, WorkInv, Lives
  <2>2. Disposed(e).st = "disposed"
    BY <2>1, Disposing
  <2>3. /\ engine'[e] = Disposed(e) /\ slot' = DisposedCache(e)
        /\ \A k \in Call : k # e => engine'[k] = engine[k]
    BY <1>2, <2>1
  <2>4. Lives'
    <3>1. \A k \in Call : engine'[k].st \in {"none", "new"} => engine'[k].flight = "none"
      BY <2>2, <2>3 DEF WorkInv, Lives
    <3>2. /\ \A n \in Call : call'[n].step \in {"none", "flush"} => engine'[n].st = "none"
          /\ \A n \in Call : call'[n].step \in Opening =>
                                engine'[n].st = "new" /\ engine'[n].of = call'[n].of
      BY <2>1, <2>3 DEF WorkInv, Lives, Opening, callVars
    <3>3. mounted' # 0 => engine'[mounted'].st \in {"ready", "disposed"}
      <4>1. mounted' # 0 => mounted' \in Call /\ mounted' = mounted
        BY BoundAssumption DEF Inv, TypeOK, Call
      <4> QED
        BY <2>2, <2>3, <4>1 DEF WorkInv, Lives
    <3> QED
      BY <3>1, <3>2, <3>3 DEF Lives
  <2>5. ASSUME ~lateWrite' PROVE EditsKept' /\ RefCached' /\ ReadIsSlot'
    <3>1. EditsKept /\ RefCached /\ Lives
      BY <2>5 DEF WorkInv, Kept
    <3>2. EditsKept' /\ RefCached'
      BY <1>2, <2>3, <3>1, DisposingKeeps
    <3>3. ReadIsSlot'
      BY <1>2, <2>1 DEF ReadIsSlot, NewestAlone, Opening, callVars
    <3> QED
      BY <3>2, <3>3
  <2> QED
    BY <2>4, <2>5 DEF WorkInv, Kept
<1> QED
  BY <1>1, <1>2

LEMMA LeavesKept ==
    ASSUME Inv, WorkInv, resuming = 0, UndoTake \/ Escape
    PROVE  WorkInv'
BY LetGoKept DEF UndoTake, Escape, historyVars

\* A step of the App that touches no engine, no call and no slot.
LEMMA AppStep ==
    ASSUME Inv, WorkInv, mounted' \in {mounted, syncRef, 0},
           UNCHANGED <<syncRef, call, selectReq, engine, slot, server, accepted, lateWrite>>
    PROVE  WorkInv'
BY DEF WorkInv, Lives, Kept, EditsKept, RefCached, ReadIsSlot, KeptFor, Stored

LEMMA AppStepsKept ==
    ASSUME Inv, WorkInv, UndoFails \/ Render \/ UNCHANGED vars
    PROVE  WorkInv'
BY AppStep DEF UndoFails, Render, Rendered, vars, appVars, callVars, dataVars, historyVars

\* An engine that reads the cache owes what it finds there.
LEMMA ReadingFinds ==
    ASSUME NEW made \in Engines, made.flight = "none", made.of \in Incident, NEW store \in Slots
    PROVE  /\ Reading(made, store) \in Engines /\ Reading(made, store).of = made.of
           /\ Reading(made, store).st = made.st /\ Reading(made, store).flight = "none"
           /\ Reading(made, store).owed =
                IF store[made.of] = None THEN {} ELSE store[made.of]
<1> DEFINE found == store[made.of] # None
           owed == IF found THEN store[made.of] ELSE {}
<1>1. Reading(made, store) \in Engines /\ Reading(made, store).st = made.st
      /\ Reading(made, store).flight = "none"
  BY ReadingSound
<1>2. Reading(made, store) = [made EXCEPT !.found = found, !.owed = owed]
  BY DEF Reading
<1>3. made \in EngineState
  BY EngineFields
<1> HIDE DEF found, owed
<1>4. Reading(made, store).of = made.of /\ Reading(made, store).owed = owed
  BY <1>2, <1>3 DEF EngineState
<1> QED
  BY <1>1, <1>4 DEF owed, found

\* A call made when the ref is empty.
LEMMA SelectFromNothingKept ==
    ASSUME Inv, WorkInv, NEW i \in Incident, NEW given \in BOOLEAN, Select(i, given),
           UNCHANGED <<syncRef, server, accepted, lateWrite>>, mounted' \in {mounted, 0},
           syncRef = 0
    PROVE  WorkInv'
<1> DEFINE n == selectReq + 1
           c == [NoCall EXCEPT !.of = i, !.step = IF given THEN "init" ELSE "meta"]
           x == IF given THEN Reading(NewEngine(i), slot) ELSE NewEngine(i)
<1>1. /\ TypeOK /\ engine \in [Call -> Engines] /\ slot \in Slots /\ Control
      /\ call \in [Call -> CallState] /\ selectReq \in 0..MaxTaps /\ Lives
  BY DEF Inv, TypeOK, Slots, WorkInv
<1>2. n \in Call /\ n # selectReq
  BY <1>1, BoundAssumption DEF Select, Call
<1>3. /\ call' = [call EXCEPT ![n] = c] /\ engine' = [engine EXCEPT ![n] = x]
      /\ UNCHANGED slot /\ selectReq' = n
  BY DEF Select
<1>4. c.of = i /\ c.step = IF given THEN "init" ELSE "meta"
  BY DEF NoCall
<1>5. /\ x.st = "new" /\ x.flight = "none" /\ x.of = i
      /\ given => x.owed = Stored(i)
  <2>1. /\ NewEngine(i) \in Engines /\ NewEngine(i).st = "new"
        /\ NewEngine(i).flight = "none" /\ NewEngine(i).of = i
    BY NewEngineSound
  <2> QED
    BY <1>1, <2>1, ReadingFinds DEF Stored
<1> HIDE DEF c, x
<1>6. /\ call'[n] = c /\ engine'[n] = x
      /\ \A k \in Call : k # n => call'[k] = call[k] /\ engine'[k] = engine[k]
  BY <1>1, <1>2, <1>3
<1>7. engine[n].st = "none"
  <2>1. call[n].step = "none"
    BY <1>1, <1>2, BoundAssumption DEF Control, Issued
  <2> QED
    BY <1>1, <1>2, <2>1 DEF Lives
<1>8. Lives'
  <2>1. \A k \in Call : engine'[k].st \in {"none", "new"} => engine'[k].flight = "none"
    BY <1>1, <1>5, <1>6 DEF Lives
  <2>2. /\ \A k \in Call : call'[k].step \in {"none", "flush"} => engine'[k].st = "none"
        /\ \A k \in Call : call'[k].step \in Opening =>
                              engine'[k].st = "new" /\ engine'[k].of = call'[k].of
    BY <1>1, <1>4, <1>5, <1>6 DEF Lives
  <2>3. mounted' # 0 => engine'[mounted'].st \in {"ready", "disposed"}
    <3>1. mounted' # 0 => mounted \in Call /\ mounted' = mounted
      BY <1>1, BoundAssumption DEF TypeOK, Call
    <3> QED
      BY <1>1, <1>6, <1>7, <3>1 DEF Lives
  <2> QED
    BY <2>1, <2>2, <2>3 DEF Lives
<1>9. ASSUME ~lateWrite' PROVE EditsKept' /\ RefCached' /\ ReadIsSlot'
  <2>1. EditsKept /\ RefCached
    BY <1>9 DEF WorkInv, Kept
  <2>2. EditsKept' /\ RefCached'
    BY <1>3, <2>1 DEF EditsKept, RefCached, KeptFor, Stored
  <2>3. ReadIsSlot'
    BY <1>3, <1>4, <1>5, <1>6 DEF ReadIsSlot, Stored
  <2> QED
    BY <2>2, <2>3
<1> QED
  BY <1>8, <1>9 DEF WorkInv, Kept

\* A call that waits for the flush of the engine in the ref.
LEMMA SelectBehindFlushKept ==
    ASSUME Inv, WorkInv, NEW i \in Incident, NEW given \in BOOLEAN, Select(i, given),
           UNCHANGED <<syncRef, server, accepted, lateWrite>>, mounted' \in {mounted, 0},
           syncRef # 0
    PROVE  WorkInv'
<1> DEFINE n == selectReq + 1
           e == syncRef
           c == [of |-> i, given |-> given, step |-> "flush", awaits |-> e]
<1>1. /\ TypeOK /\ engine \in [Call -> Engines] /\ Control /\ slot \in Slots
      /\ call \in [Call -> CallState] /\ selectReq \in 0..MaxTaps /\ Lives
  BY DEF Inv, TypeOK, WorkInv, Slots
<1>2. n \in Call /\ e \in Call /\ engine[e] \in Engines
  BY <1>1, RefEngine DEF Select
<1>3. call' = [call EXCEPT ![n] = c] /\ FlushAsked(e) /\ selectReq' = n /\ c.step = "flush"
  BY DEF Select
<1> HIDE DEF c
<1>4. call'[n] = c /\ \A k \in Call : k # n => call'[k] = call[k]
  BY <1>1, <1>2, <1>3
<1>5. engine[n].st = "none" /\ engine[e].st = "ready" /\ call[e].step = "done" /\ n # e
  <2>1. call[n].step = "none"
    BY <1>1, <1>2, BoundAssumption DEF Control, Issued
  <2> QED
    BY <1>1, <1>2, <2>1 DEF Lives, Control, RefIsDone
<1>6. PICK x \in Engines :
         /\ engine' = [engine EXCEPT ![e] = x] /\ x.of = engine[e].of /\ x.st = engine[e].st
         /\ lateWrite' = lateWrite
         /\ ~lateWrite => EditsKept' /\ RefCached'
  <2>1. CASE engine[e].flight # "none"
    <3> DEFINE x == [engine[e] EXCEPT !.asked = TRUE]
    <3>1. engine' = [engine EXCEPT ![e] = x] /\ UNCHANGED slot
      BY <1>1, <1>2, <1>3, <2>1 DEF FlushAsked
    <3>2. x \in Engines
      BY <1>2, EngineChanges
    <3>3. /\ x.of = engine[e].of /\ x.st = engine[e].st /\ x.owed = engine[e].owed
          /\ x.cacheDue = engine[e].cacheDue
      BY <1>2, EngineFields DEF EngineState
    <3> HIDE DEF x
    <3>4. ASSUME ~lateWrite PROVE EditsKept' /\ RefCached'
      <4>1. EditsKept /\ RefCached
        BY <3>4 DEF WorkInv, Kept
      <4>2. \A j \in Incident : accepted'[j] \subseteq
                                  IF j = x.of THEN accepted[j] \cup x.owed ELSE accepted[j]
        OBVIOUS
      <4> QED
        BY <1>1, <3>1, <3>2, <3>3, <4>1, <4>2, RefStep
    <3> QED
      BY <3>1, <3>2, <3>3, <3>4
  <2>2. CASE engine[e].flight = "none" /\ engine[e].owed # {}
    <3> DEFINE x == Pushing(engine[e])
    <3>1. engine' = [engine EXCEPT ![e] = x] /\ slot' = CacheAfter(e)
      BY <1>1, <1>2, <1>3, <2>2 DEF FlushAsked
    <3>2. x \in Engines /\ x.of = engine[e].of /\ x.st = engine[e].st
      BY <1>2, <2>2, PushingSound, EngineFields
    <3>3. ASSUME ~lateWrite PROVE EditsKept' /\ RefCached'
      BY <1>1, <2>2, <3>1, <3>3, PushingKept DEF WorkInv, Kept
    <3> HIDE DEF x
    <3> QED
      BY <3>1, <3>2, <3>3
  <2>3. CASE engine[e].flight = "none" /\ engine[e].owed = {}
    <3>1. UNCHANGED <<engine, slot>>
      BY <1>3, <2>3 DEF FlushAsked
    <3>2. engine' = [engine EXCEPT ![e] = engine[e]]
      BY <1>1, <1>2, <3>1
    <3>3. ~lateWrite => EditsKept' /\ RefCached'
      BY <3>1 DEF WorkInv, Kept, EditsKept, RefCached, KeptFor, Stored
    <3> QED
      BY <1>2, <3>2, <3>3
  <2> QED
    BY <2>1, <2>2, <2>3
<1>7. engine'[e] = x /\ \A k \in Call : k # e => engine'[k] = engine[k]
  BY <1>1, <1>2, <1>6
<1>8. Lives'
  <2>1. \A k \in Call : engine'[k].st = engine[k].st /\ engine'[k].of = engine[k].of
    BY <1>6, <1>7
  <2>2. \A k \in Call : engine'[k].st \in {"none", "new"} => engine'[k].flight = "none"
    BY <1>1, <1>5, <1>7, <2>1 DEF Lives
  <2>3. /\ \A k \in Call : call'[k].step \in {"none", "flush"} => engine'[k].st = "none"
        /\ \A k \in Call : call'[k].step \in Opening =>
                              engine'[k].st = "new" /\ engine'[k].of = call'[k].of
    BY <1>1, <1>3, <1>4, <1>5, <2>1 DEF Lives, Opening
  <2>4. mounted' # 0 => engine'[mounted'].st \in {"ready", "disposed"}
    <3>1. mounted' # 0 => mounted \in Call /\ mounted' = mounted
      BY <1>1, BoundAssumption DEF TypeOK, Call
    <3> QED
      BY <1>1, <2>1, <3>1 DEF Lives
  <2>5. engine'[syncRef].st = "ready" /\ engine'[syncRef].of \in Incident
    BY <1>1, <1>2, <2>1 DEF Lives
  <2> QED
    BY <2>2, <2>3, <2>4, <2>5 DEF Lives
<1>9. ASSUME ~lateWrite' PROVE EditsKept' /\ RefCached' /\ ReadIsSlot'
  <2>1. EditsKept' /\ RefCached'
    BY <1>6, <1>9
  <2>2. ReadIsSlot'
    BY <1>2, <1>3, <1>4 DEF ReadIsSlot
  <2> QED
    BY <2>1, <2>2
<1> QED
  BY <1>8, <1>9 DEF WorkInv, Kept

LEMMA SelectKept ==
    ASSUME Inv, WorkInv, NEW i \in Incident, NEW given \in BOOLEAN, Select(i, given),
           UNCHANGED <<syncRef, server, accepted, lateWrite>>, mounted' \in {mounted, 0}
    PROVE  WorkInv'
BY SelectFromNothingKept, SelectBehindFlushKept

LEMMA TapKept ==
    ASSUME Inv, WorkInv, NEW i \in Incident, NEW given \in BOOLEAN, Tap(i, given)
    PROVE  WorkInv'
BY SelectKept DEF Tap, appVars, historyVars

LEMMA UndoArchivedKept ==
    ASSUME Inv, WorkInv, NEW next \in Incident \cup {None}, UndoArchived(next)
    PROVE  WorkInv'
<1>1. CASE next = None
  BY <1>1, AppStep DEF UndoArchived, callVars, historyVars
<1>2. CASE next # None
  BY <1>2, SelectKept DEF UndoArchived, historyVars
<1> QED
  BY <1>1, <1>2

\* A call that is through with its flush, or has the incident's meta: its engine has read
\* the slot, or waits for the meta, or is disposed of.
LEMMA OpenedFinds ==
    ASSUME NEW n, NEW made \in Engines, made.flight = "none", made.of \in Incident,
           NEW store \in Slots
    PROVE  LET x == Opened(n, made, store)
           IN  /\ x.flight = "none"
               /\ OpeningStep(n) = "done" => x.st = "disposed"
               /\ OpeningStep(n) # "done" =>
                     /\ x.st = made.st /\ x.of = made.of
                     /\ x.owed = IF store[made.of] = None THEN {} ELSE store[made.of]
<1>1. CASE Superseded(n)
  BY <1>1, EngineFields DEF Opened, OpeningStep, EngineState
<1>2. CASE ~Superseded(n)
  BY <1>2, ReadingFinds DEF Opened, OpeningStep
<1> QED
  BY <1>1, <1>2

\* The call n gets on to `c`, its engine to `x`, nothing else among calls and engines moves
\* (but the engine that was in the ref).
LEMMA CallLives ==
    ASSUME Inv, Lives, NEW n \in Call, NEW c, NEW x, call' = [call EXCEPT ![n] = c],
           engine'[n] = x, x.flight = "none",
           c.step \in {"meta", "init"} => x.st = "new" /\ x.of = c.of,
           c.step \notin {"none", "flush"}, x.st # "ready",
           \A k \in Call \ {n} : \/ engine'[k] = engine[k]
                                 \/ engine[k].st = "ready" /\ engine'[k].st = "disposed",
           UNCHANGED mounted, engine[n].st \in {"none", "new"},
           syncRef' # 0 => syncRef' = syncRef /\ engine'[syncRef] = engine[syncRef]
    PROVE  Lives'
<1>1. /\ call \in [Call -> CallState] /\ (mounted # 0 => mounted \in Call)
      /\ (syncRef # 0 => syncRef \in Call)
  BY BoundAssumption DEF Inv, TypeOK, Call
<1>2. call'[n] = c /\ \A k \in Call : k # n => call'[k] = call[k]
  BY <1>1
<1>3. \A k \in Call : engine'[k].st \in {"none", "new"} => engine'[k].flight = "none"
  BY DEF Lives
<1>4. \A k \in Call : call'[k].step \in {"none", "flush"} => engine'[k].st = "none"
  BY <1>2 DEF Lives
<1>5. \A k \in Call : call'[k].step \in Opening =>
                        engine'[k].st = "new" /\ engine'[k].of = call'[k].of
  BY <1>2 DEF Lives, Opening
<1>6. syncRef' # 0 => engine'[syncRef'].st = "ready" /\ engine'[syncRef'].of \in Incident
  BY <1>1 DEF Lives
<1>7. mounted' # 0 => engine'[mounted'].st \in {"ready", "disposed"}
  BY <1>1 DEF Lives
<1> QED
  BY <1>3, <1>4, <1>5, <1>6, <1>7 DEF Lives

LEMMA ResumeKept ==
    ASSUME Inv, WorkInv, resuming # 0, Resume
    PROVE  WorkInv'
<1> DEFINE n == First(Awaiting(resuming))
           e == syncRef
           made == NewEngine(call[n].of)
<1>1. /\ engine \in [Call -> Engines] /\ slot \in Slots /\ Control /\ Lives
      /\ call \in [Call -> CallState]
  BY DEF Inv, TypeOK, Slots, WorkInv
<1>2. n \in Call /\ call[n].step = "flush" /\ call[n].of \in Incident
  <2>1. n \in Awaiting(resuming)
    BY <1>1, FirstWaits DEF Control, ResumesSome
  <2> QED
    BY <1>1, <2>1 DEF Awaiting, Control, Addressed
<1>3. made \in Engines /\ made.st = "new" /\ made.flight = "none" /\ made.of = call[n].of
  BY <1>2, NewEngineSound
<1> HIDE DEF made
<1>4. \A s \in CallStep : At(n, s).step = s /\ At(n, s).of = call[n].of
  BY <1>1, <1>2, AtType
<1>5. engine[n].st = "none" /\ engine[n].flight = "none" /\ UNCHANGED <<mounted, server, accepted, lateWrite, selectReq>>
  BY <1>1, <1>2 DEF Lives, Resume, historyVars
<1> HIDE DEF n
<1>6. CASE e = 0
  <2> DEFINE c == At(n, "failed")
  <2>1. call' = [call EXCEPT ![n] = c] /\ UNCHANGED <<engine, slot, syncRef>>
    BY <1>6 DEF Resume, n
  <2>2. c.step = "failed"
    BY <1>4 DEF CallStep
  <2> HIDE DEF c
  <2>3. Lives'
    BY <1>1, <1>2, <1>5, <2>1, <2>2, CallLives
  <2>4. ASSUME ~lateWrite' PROVE EditsKept' /\ RefCached' /\ ReadIsSlot'
    <3>1. EditsKept /\ RefCached /\ ReadIsSlot
      BY <1>5, <2>4 DEF WorkInv, Kept
    <3>2. EditsKept' /\ RefCached'
      BY <1>5, <2>1, <3>1 DEF EditsKept, RefCached, KeptFor, Stored
    <3>3. call'[n] = c /\ \A k \in Call : k # n => call'[k] = call[k]
      BY <1>1, <1>2, <2>1
    <3>4. ReadIsSlot'
      BY <1>5, <2>1, <2>2, <3>1, <3>3 DEF ReadIsSlot, Stored
    <3> QED
      BY <3>2, <3>4
  <2> QED
    BY <2>3, <2>4 DEF WorkInv, Kept
<1>7. CASE e # 0
  <2> DEFINE c == IF call[n].given THEN At(n, OpeningStep(n)) ELSE At(n, "meta")
             x == IF call[n].given THEN Opened(n, made, slot') ELSE made
  <2>1. /\ e \in Call /\ call[e].step = "done" /\ e # n /\ engine[e].st = "ready"
    BY <1>1, <1>2, <1>7, RefEngine DEF Control, RefIsDone, Lives
  <2>2. /\ call' = [call EXCEPT ![n] = c]
        /\ engine' = [engine EXCEPT ![e] = Disposed(e), ![n] = x]
        /\ slot' = DisposedCache(e) /\ syncRef' = 0
    BY <1>7 DEF Resume, n, made
  <2>3. slot' \in Slots
    BY <1>1, <2>1, <2>2, SlotTypes
  <2>4. PICK store \in Slots : store = slot'
    BY <2>3
  <2>5. /\ c.of = call[n].of /\ c.step \in {"meta", "init", "done"}
        /\ c.step = "init" => OpeningStep(n) # "done" /\ call[n].given
        /\ c.step = "meta" => ~call[n].given
        /\ c.step = "done" => OpeningStep(n) = "done" /\ call[n].given
    BY <1>4 DEF OpeningStep, CallStep
  <2>6. /\ x.flight = "none" /\ x.st \in {"new", "disposed"}
        /\ c.step \in {"meta", "init"} => x.st = "new" /\ x.of = c.of
        /\ c.step = "init" => x.owed = IF store[c.of] = None THEN {} ELSE store[c.of]
    BY <1>2, <1>3, <2>4, <2>5, OpenedFinds
  <2>7. Disposed(e).st = "disposed"
    BY <1>1, <2>1, Disposing
  <2> HIDE DEF c, x
  <2>8. /\ engine'[n] = x /\ engine'[e] = Disposed(e)
        /\ \A k \in Call : k # n /\ k # e => engine'[k] = engine[k]
        /\ call'[n] = c /\ \A k \in Call : k # n => call'[k] = call[k]
    BY <1>1, <1>2, <2>1, <2>2
  <2>9. Lives'
    <3>1. \A k \in Call \ {n} : \/ engine'[k] = engine[k]
                                \/ engine[k].st = "ready" /\ engine'[k].st = "disposed"
      BY <2>1, <2>7, <2>8
    <3> QED
      BY <1>1, <1>2, <1>5, <2>2, <2>5, <2>6, <2>8, <3>1, CallLives
  <2>10. ASSUME ~lateWrite' PROVE EditsKept' /\ RefCached' /\ ReadIsSlot'
    <3>1. EditsKept /\ RefCached
      BY <1>5, <2>10 DEF WorkInv, Kept
    <3>2. EditsKept' /\ RefCached'
      BY <1>1, <1>5, <1>7, <2>2, <3>1, DisposingKeeps
    <3>3. ASSUME NEW m \in Call, m = selectReq', call'[m].step = "init"
          PROVE  m = n
      BY <1>1, <1>5, <1>7, <2>8, <3>3 DEF Control, NewestAlone, Opening
    <3>4. c.step = "init" =>
              engine'[n].owed = IF slot'[c.of] = None THEN {} ELSE slot'[c.of]
      BY <2>4, <2>6, <2>8
    <3>5. ReadIsSlot'
      BY <1>5, <2>8, <3>3, <3>4 DEF ReadIsSlot, Stored
    <3> QED
      BY <3>2, <3>5
  <2> QED
    BY <2>9, <2>10 DEF WorkInv, Kept
<1> QED
  BY <1>6, <1>7

LEMMA MetaAnsweredKept ==
    ASSUME Inv, WorkInv, NEW n \in Call, MetaAnswered(n)
    PROVE  WorkInv'
<1> DEFINE x == Opened(n, engine[n], slot)
           c == [call[n] EXCEPT !.step = OpeningStep(n)]
<1>1. /\ engine \in [Call -> Engines] /\ slot \in Slots /\ Control /\ Lives
      /\ call \in [Call -> CallState]
  BY DEF Inv, TypeOK, Slots, WorkInv
<1>2. /\ call[n].step = "meta" /\ engine[n] \in Engines /\ engine[n].of \in Incident
      /\ engine[n].flight = "none" /\ engine[n].st = "new" /\ engine[n].of = call[n].of
  BY <1>1 DEF MetaAnswered, Control, Addressed, OpeningIsQuiet, Opening, Lives
<1>3. c.of = call[n].of /\ c.step = OpeningStep(n) /\ OpeningStep(n) \in {"done", "init"}
  BY <1>1 DEF CallState, OpeningStep
<1>4. /\ x.flight = "none" /\ x.st \in {"new", "disposed"}
      /\ c.step = "init" => /\ x.st = "new" /\ x.of = c.of
                            /\ x.owed = Stored(c.of)
  BY <1>1, <1>2, <1>3, OpenedFinds DEF Stored
<1>5. /\ engine' = [engine EXCEPT ![n] = x] /\ call' = [call EXCEPT ![n] = c]
      /\ UNCHANGED <<syncRef, mounted, selectReq, slot, server, accepted, lateWrite>>
  BY DEF MetaAnswered, appVars, dataVars, historyVars
<1> HIDE DEF c, x
<1>6. /\ call'[n] = c /\ engine'[n] = x
      /\ \A k \in Call : k # n => call'[k] = call[k] /\ engine'[k] = engine[k]
  BY <1>1, <1>5
<1>7. syncRef # 0 => syncRef \in Call /\ syncRef # n
  BY <1>1, <1>2, RefEngine DEF Lives
<1>8. Lives'
  <2>1. syncRef' # 0 => syncRef' = syncRef /\ engine'[syncRef] = engine[syncRef]
    BY <1>5, <1>6, <1>7
  <2> QED
    BY <1>1, <1>2, <1>3, <1>4, <1>5, <1>6, <2>1, CallLives
<1>9. ASSUME ~lateWrite' PROVE EditsKept' /\ RefCached' /\ ReadIsSlot'
  <2>1. EditsKept /\ RefCached /\ ReadIsSlot
    BY <1>5, <1>9 DEF WorkInv, Kept
  <2>2. EditsKept' /\ RefCached'
    BY <1>1, <1>5, <1>6, <1>7, <2>1 DEF EditsKept, RefCached, KeptFor, Stored
  <2>3. ReadIsSlot'
    BY <1>4, <1>5, <1>6, <2>1 DEF ReadIsSlot, Stored
  <2> QED
    BY <2>2, <2>3
<1> QED
  BY <1>8, <1>9 DEF WorkInv, Kept

LEMMA CallFailsKept ==
    ASSUME Inv, WorkInv, NEW n \in Call, CallFails(n)
    PROVE  WorkInv'
<1> DEFINE c == [call[n] EXCEPT !.step = "failed"]
<1>1. Control /\ Lives /\ call \in [Call -> CallState]
  BY DEF Inv, TypeOK, WorkInv
<1>2. /\ engine[n].st = "new" /\ engine[n].flight = "none"
      /\ call' = [call EXCEPT ![n] = c]
      /\ UNCHANGED <<engine, syncRef, mounted, selectReq, slot, server, accepted, lateWrite>>
  BY <1>1 DEF CallFails, Lives, Opening, Control, OpeningIsQuiet, appVars, dataVars, historyVars
<1>3. c.step = "failed"
  BY <1>1 DEF CallState
<1> HIDE DEF c
<1>4. call'[n] = c /\ \A k \in Call : k # n => call'[k] = call[k]
  BY <1>1, <1>2
<1>5. Lives'
  BY <1>1, <1>2, <1>3, CallLives
<1>6. Kept'
  BY <1>2, <1>3, <1>4 DEF WorkInv, Kept, EditsKept, RefCached, KeptFor, ReadIsSlot, Stored
<1> QED
  BY <1>5, <1>6 DEF WorkInv

LEMMA InitAnsweredKept ==
    ASSUME Inv, WorkInv, NEW n \in Call, NEW due \in BOOLEAN, InitAnswered(n, due)
    PROVE  WorkInv'
<1> DEFINE i == call[n].of
           c == [call[n] EXCEPT !.step = "done"]
<1>1. /\ engine \in [Call -> Engines] /\ engine[n] \in Engines /\ slot \in Slots /\ Control
      /\ Lives /\ call \in [Call -> CallState]
  BY DEF Inv, TypeOK, Slots, WorkInv
<1>2. /\ call[n].step = "init" /\ i \in Incident /\ engine[n].st = "new"
      /\ engine[n].flight = "none" /\ engine[n].of = i /\ call' = [call EXCEPT ![n] = c]
      /\ UNCHANGED <<selectReq, server, accepted>>
  BY <1>1 DEF InitAnswered, Control, Addressed, OpeningIsQuiet, Opening, Lives
<1>3. c.step = "done"
  BY <1>1 DEF CallState
<1> HIDE DEF c
<1>4. call'[n] = c /\ \A k \in Call : k # n => call'[k] = call[k]
  BY <1>1, <1>2
<1>5. syncRef # 0 => syncRef \in Call /\ syncRef # n
  BY <1>1, <1>2, RefEngine DEF Lives
<1>6. CASE Superseded(n)
  <2> DEFINE x == [NewEngine(i) EXCEPT !.st = "disposed"]
  <2>1. x.st = "disposed" /\ x.flight = "none"
    BY <1>2, NewEngineSound DEF NewEngine, NoEngine
  <2>2. /\ engine' = [engine EXCEPT ![n] = x]
        /\ slot' = IF due THEN [slot EXCEPT ![i] = engine[n].owed] ELSE slot
        /\ lateWrite' = (lateWrite \/ due) /\ UNCHANGED <<syncRef, mounted>>
    BY <1>6 DEF InitAnswered, appVars
  <2> HIDE DEF x
  <2>3. engine'[n] = x /\ \A k \in Call : k # n => engine'[k] = engine[k]
    BY <1>1, <2>2
  <2>4. Lives'
    <3>1. syncRef' # 0 => syncRef' = syncRef /\ engine'[syncRef] = engine[syncRef]
      BY <1>5, <2>2, <2>3
    <3> QED
      BY <1>1, <1>2, <1>3, <2>1, <2>2, <2>3, <3>1, CallLives
  <2>5. ASSUME ~lateWrite' PROVE EditsKept' /\ RefCached' /\ ReadIsSlot'
    <3>1. ~lateWrite /\ ~due
      BY <2>2, <2>5, Zenon
    <3>2. EditsKept /\ RefCached /\ ReadIsSlot /\ UNCHANGED slot
      BY <2>2, <3>1 DEF WorkInv, Kept
    <3>3. EditsKept' /\ RefCached'
      BY <1>2, <1>5, <2>2, <2>3, <3>2 DEF EditsKept, RefCached, KeptFor, Stored
    <3>4. ReadIsSlot'
      BY <1>2, <1>3, <1>4, <2>3, <3>2 DEF ReadIsSlot, Stored
    <3> QED
      BY <3>3, <3>4
  <2> QED
    BY <2>4, <2>5 DEF WorkInv, Kept
<1>7. CASE ~Superseded(n)
  <2> DEFINE x == [engine[n] EXCEPT !.st = "ready", !.found = FALSE, !.cacheDue = due]
  <2>1. /\ engine' = [engine EXCEPT ![n] = x] /\ UNCHANGED <<slot, lateWrite>>
        /\ syncRef' = n /\ mounted' = n
    BY <1>7 DEF InitAnswered
  <2>2. /\ x.st = "ready" /\ x.of = i /\ x.owed = engine[n].owed /\ x.cacheDue = due
    BY <1>1, <1>2, EngineFields DEF EngineState
  <2> HIDE DEF x
  <2>3. engine'[n] = x /\ \A k \in Call : k # n => engine'[k] = engine[k]
    BY <1>1, <2>1
  <2>4. n = selectReq /\ syncRef = 0 /\ n # 0
    BY <1>1, <1>2, <1>7, BoundAssumption DEF Superseded, Control, NewestAlone, Opening, Call
  <2>5. Lives'
    <3>1. \A k \in Call : engine'[k].st \in {"none", "new"} => engine'[k].flight = "none"
      BY <1>1, <2>2, <2>3 DEF Lives
    <3>2. /\ \A k \in Call : call'[k].step \in {"none", "flush"} => engine'[k].st = "none"
          /\ \A k \in Call : call'[k].step \in Opening =>
                                engine'[k].st = "new" /\ engine'[k].of = call'[k].of
      BY <1>1, <1>3, <1>4, <2>3 DEF Lives, Opening
    <3> QED
      BY <1>2, <2>1, <2>2, <2>3, <3>1, <3>2 DEF Lives
  <2>6. ASSUME ~lateWrite' PROVE EditsKept' /\ RefCached' /\ ReadIsSlot'
    <3>1. EditsKept /\ x.owed = Stored(i)
      BY <1>2, <2>1, <2>2, <2>4, <2>6 DEF WorkInv, Kept, ReadIsSlot
    <3>2. \A j \in Incident : KeptFor(j)' = KeptFor(j)
      BY <2>1, <2>2, <2>3, <2>4, <3>1 DEF KeptFor, Stored
    <3>3. EditsKept'
      BY <1>2, <3>1, <3>2 DEF EditsKept
    <3>4. RefCached'
      BY <2>1, <2>2, <2>3, <3>1 DEF RefCached, Stored
    <3>5. ReadIsSlot'
      BY <1>2, <1>3, <1>4, <2>4 DEF ReadIsSlot
    <3> QED
      BY <3>3, <3>4, <3>5
  <2> QED
    BY <2>5, <2>6 DEF WorkInv, Kept
<1> QED
  BY <1>6, <1>7

LEMMA WorkStarts == Init => WorkInv
<1> SUFFICES ASSUME Init PROVE WorkInv
  OBVIOUS
<1>1. Lives
  BY DEF Init, Lives, NoCall, NoEngine, Opening
<1>2. Kept
  BY DEF Init, Kept, EditsKept, RefCached, ReadIsSlot, NoCall
<1> QED
  BY <1>1, <1>2 DEF WorkInv

LEMMA WorkStep == Inv /\ WorkInv /\ [Next]_vars => WorkInv'
<1> SUFFICES ASSUME Inv, WorkInv, [Next]_vars PROVE WorkInv'
  OBVIOUS
<1>1. CASE resuming # 0 /\ Resume
  BY <1>1, ResumeKept
<1>2. CASE resuming = 0 /\ \E i \in Incident, given \in BOOLEAN : Tap(i, given)
  BY <1>2, TapKept
<1>3. CASE resuming = 0 /\ \E n \in Call : \/ MetaAnswered(n)
                                           \/ \E due \in BOOLEAN : InitAnswered(n, due)
                                           \/ CallFails(n)
  BY <1>3, MetaAnsweredKept, InitAnsweredKept, CallFailsKept
<1>4. CASE resuming = 0 /\ (UndoTake \/ Escape)
  BY <1>4, LeavesKept
<1>5. CASE resuming = 0 /\ \E next \in Incident \cup {None} : UndoArchived(next)
  BY <1>5, UndoArchivedKept
<1>6. CASE UndoFails \/ Render \/ UNCHANGED vars
  BY <1>6, AppStepsKept
<1>7. CASE resuming = 0 /\ EditScreen
  BY <1>7, EditScreenKept
<1>8. CASE resuming = 0 /\ \E e \in Call : \/ CacheTimer(e) \/ Flush(e)
                                           \/ Conflict(e) \/ Accepted(e) \/ FlushFails(e)
  BY <1>8, CacheTimerKept, FlushKept, ConflictKept, AcceptedKept, FlushFailsKept
<1> QED
  BY <1>1, <1>2, <1>3, <1>4, <1>5, <1>6, <1>7, <1>8 DEF Next

\* An edit an engine took is on the server, in its incident's cache slot or with the engine
\* in the ref, however calls, flushes, undone takes and crash escapes interleave - as long
\* as no engine that is out of the ref wrote a slot.
THEOREM WorkKept == Spec => []WorkHeldInOrder
<1>1. Init => WorkInv
  BY WorkStarts
<1>2. Inv /\ WorkInv /\ [Next]_vars => WorkInv'
  BY WorkStep
<1>3. Inv /\ WorkInv => WorkHeldInOrder
  <2> SUFFICES ASSUME Inv, WorkInv, ~lateWrite, NEW i \in Incident, NEW k \in accepted[i]
               PROVE  Held(i, k)
    BY DEF WorkHeldInOrder, WorkHeld
  <2>1. k \in server[i] \cup KeptFor(i)
    BY DEF WorkInv, Kept, EditsKept
  <2> QED
    BY <2>1 DEF KeptFor, Stored, Held
<1> QED
  BY <1>1, <1>2, <1>3, Invariance, PTL DEF Spec
=============================================================================
