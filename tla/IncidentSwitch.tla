---------------------------- MODULE IncidentSwitch ----------------------------
(***************************************************************************)
(* How one device moves from one incident to another: selectIncident and   *)
(* the two ways out that do not open another one (src/src/App.tsx), around *)
(* the sync engines they make and dispose (src/src/lib/api/                *)
(* workspaceSync.ts).                                                      *)
(*                                                                         *)
(* Every call of selectIncident makes at most one engine: a call and its   *)
(* engine share the number that selectReq gave the call; 0 is none.  An    *)
(* engine's work is the set of edits it still owes the server; what one    *)
(* flush does to the blob is WorkspaceSync.                                *)
(***************************************************************************)
EXTENDS Naturals, FiniteSets

CONSTANTS
    Incident,
    None,        \* no incident open, no cache entry
    MaxTaps,     \* bound: calls of selectIncident
    MaxEdits,    \* bound: edits by the user
    MaxFaults,   \* bound: requests that fail
    MaxLeaves    \* bound: undone takes, crash escapes

ASSUME NoneAssumption == /\ None \notin Incident
                         /\ \A owed \in SUBSET (1..MaxEdits) : None # owed
ASSUME BoundAssumption == MaxTaps \in Nat /\ MaxEdits \in Nat /\ MaxFaults \in Nat
                          /\ MaxLeaves \in Nat

Call == 1..MaxTaps
Edit == 1..MaxEdits

VARIABLES
    activeId,   \* the open incident
    syncRef,    \* syncRef.current
    mounted,    \* the engine the IncidentWorkspace on screen was rendered with
    shows,      \* whose workspace that view holds
    selectReq,  \* the newest call
    call,       \* what every call is doing
    engine,     \* what every engine holds
    resuming,   \* the engine whose flush just settled: its awaiters run before anything else
    slot,       \* the unsynced edits in an incident's cache entry, or None
    server,     \* the edits the server has
    undoing,    \* undoTake waits for the server to archive the take
    edits, faults, leaves,      \* spent bounds
    accepted,                   \* history: the edits save() took
    dropped,                    \* history: the edits it did not
    lateWrite                   \* history: an engine that is not syncRef's wrote a cache slot

appVars     == <<activeId, syncRef, mounted, shows>>
callVars    == <<selectReq, call, resuming>>
dataVars    == <<slot, server>>
budgets     == <<edits, faults, leaves>>
historyVars == <<accepted, dropped, lateWrite>>
vars == <<appVars, callVars, engine, dataVars, undoing, budgets, historyVars>>

CallStep == {"none", "flush", "meta", "init", "done", "failed"}
CallState   == [of : Incident \cup {None}, given : BOOLEAN, step : CallStep, awaits : 0..MaxTaps]
EngineState == [of : Incident \cup {None}, st : {"none", "new", "ready", "disposed"},
                owed : SUBSET Edit, sent : SUBSET Edit, flight : {"none", "put", "merge"},
                asked : BOOLEAN, cacheDue : BOOLEAN, found : BOOLEAN]
NoCall   == [of |-> None, given |-> FALSE, step |-> "none", awaits |-> 0]
NoEngine == [of |-> None, st |-> "none", owed |-> {}, sent |-> {}, flight |-> "none",
             asked |-> FALSE, cacheDue |-> FALSE, found |-> FALSE]

Init ==
    /\ activeId = None /\ syncRef = 0 /\ mounted = 0 /\ shows = None
    /\ selectReq = 0 /\ resuming = 0
    /\ call = [n \in Call |-> NoCall]
    /\ engine = [n \in Call |-> NoEngine]
    /\ slot = [i \in Incident |-> None]
    /\ server = [i \in Incident |-> {}]
    /\ undoing = FALSE
    /\ edits = 0 /\ faults = 0 /\ leaves = 0
    /\ accepted = [i \in Incident |-> {}]
    /\ dropped = {} /\ lateWrite = FALSE

-----------------------------------------------------------------------------
(* The pieces of a handler *)

\* The render gate: a workspace on screen needs an open incident and an engine.
Rendered(id, ref) == IF id # None /\ ref # 0 THEN ref ELSE 0

\* flushCache: a cache write that is due lands now.
CacheAfter(e) ==
    IF engine[e].cacheDue THEN [slot EXCEPT ![engine[e].of] = engine[e].owed] ELSE slot

\* (broken: the pending cache write is torn down with the engine)
DisposedCache_Dropped(e) == slot
DisposedCache(e) == CacheAfter(e)

\* (broken: the ref is cleared, the engine runs on)
Disposed_RefOnly(e) == engine[e]
Disposed(e) == [engine[e] EXCEPT !.st = "disposed", !.cacheDue = FALSE]

\* (broken: the flush goes out without saying what it carries)
Pushing_Nothing(e) == [e EXCEPT !.flight = "put", !.cacheDue = FALSE]

\* drain's first steps: the cache first, then the PUT of all that is owed.
Pushing(e) == [e EXCEPT !.flight = "put", !.sent = e.owed, !.cacheDue = FALSE]

\* (broken: a call does not look whether a newer one superseded it)
Superseded_Never(n) == FALSE
Superseded(n) == selectReq # n

\* A call that has the incident's meta starts init(), which reads the cache first -
\* unless a newer call is there.
NewEngine(i) == [NoEngine EXCEPT !.of = i, !.st = "new"]
Reading(made, store) ==
    LET found == store[made.of] # None
    IN  [made EXCEPT !.found = found, !.owed = IF found THEN store[made.of] ELSE {}]
Opened(n, made, store) ==
    IF Superseded(n) THEN [made EXCEPT !.st = "disposed"] ELSE Reading(made, store)
OpeningStep(n) == IF Superseded(n) THEN "done" ELSE "init"

-----------------------------------------------------------------------------
(* selectIncident *)

\* flush(): start one, or join the one in flight and be owed another if that fails.
FlushAsked(e) ==
    IF engine[e].flight # "none"
    THEN engine' = [engine EXCEPT ![e].asked = TRUE] /\ UNCHANGED slot
    ELSE IF engine[e].owed # {}
    THEN engine' = [engine EXCEPT ![e] = Pushing(@)] /\ slot' = CacheAfter(e)
    ELSE UNCHANGED <<engine, slot>>

\* Its first half, up to the first await; without an engine there is nothing to flush.
Select(i, given) ==
    LET n == selectReq + 1
        e == syncRef
        owes == engine[e].flight # "none" \/ engine[e].owed # {}
    IN  /\ n \in Call
        /\ selectReq' = n
        /\ IF e = 0
           THEN /\ call' = [call EXCEPT ![n] = [NoCall EXCEPT !.of = i,
                                               !.step = IF given THEN "init" ELSE "meta"]]
                /\ engine' = [engine EXCEPT ![n] = IF given THEN Reading(NewEngine(i), slot)
                                                           ELSE NewEngine(i)]
                /\ UNCHANGED <<slot, resuming>>
           ELSE /\ call' = [call EXCEPT ![n] = [of |-> i, given |-> given, step |-> "flush",
                                               awaits |-> e]]
                /\ FlushAsked(e)
                /\ resuming' = IF owes THEN resuming ELSE e

\* Somebody opens an incident: the switcher, a banner, the list, the boot.
Tap(i, given) ==
    /\ Select(i, given)
    /\ UNCHANGED <<appVars, server, undoing, budgets, historyVars>>

\* the call past its flush
At(n, step) == [NoCall EXCEPT !.of = call[n].of, !.step = step]

Awaiting(e) == {n \in Call : call[n].step = "flush" /\ call[n].awaits = e}
First(waiting) == CHOOSE n \in waiting : \A m \in waiting : n <= m

\* The flush has settled: its awaiters go on, the oldest first, each disposing of
\* whatever engine is in the ref by then - and throwing when there is none.
Resume ==
    LET n == First(Awaiting(resuming))
        made == NewEngine(call[n].of)
    IN  /\ IF syncRef = 0
           THEN /\ call' = [call EXCEPT ![n] = At(n, "failed")]
                /\ UNCHANGED <<engine, slot, syncRef>>
           ELSE /\ syncRef' = 0
                /\ slot' = DisposedCache(syncRef)
                /\ IF call[n].given
                   THEN /\ engine' = [engine EXCEPT ![syncRef] = Disposed(syncRef),
                                                    ![n] = Opened(n, made, slot')]
                        /\ call' = [call EXCEPT ![n] = At(n, OpeningStep(n))]
                   ELSE /\ engine' = [engine EXCEPT ![syncRef] = Disposed(syncRef), ![n] = made]
                        /\ call' = [call EXCEPT ![n] = At(n, "meta")]
        /\ resuming' = IF Awaiting(resuming) = {n} THEN 0 ELSE resuming
        /\ UNCHANGED <<activeId, mounted, shows, selectReq, server, undoing, budgets, historyVars>>

\* getIncident answers.
MetaAnswered(n) ==
    /\ call[n].step = "meta"
    /\ engine' = [engine EXCEPT ![n] = Opened(n, @, slot)]
    /\ call' = [call EXCEPT ![n].step = OpeningStep(n)]
    /\ UNCHANGED <<appVars, selectReq, resuming, dataVars, undoing, budgets, historyVars>>

\* init() is through: what the cache owed is owed by this engine, which is mounted -
\* or disposed of, when a newer call has been made meanwhile.  `due`: the cache is
\* written anew, unless its own entry serves (at the server's revision, or offline).
InitAnswered(n, due) ==
    LET i == call[n].of
        ready == [engine[n] EXCEPT !.st = "ready", !.found = FALSE, !.cacheDue = due]
    IN  /\ call[n].step = "init"
        /\ due \/ engine[n].found
        /\ call' = [call EXCEPT ![n].step = "done"]
        /\ IF Superseded(n)
           THEN /\ engine' = [engine EXCEPT ![n] = [NewEngine(i) EXCEPT !.st = "disposed"]]
                /\ slot' = IF due THEN [slot EXCEPT ![i] = engine[n].owed] ELSE slot
                /\ lateWrite' = (lateWrite \/ due)
                /\ UNCHANGED appVars
           ELSE /\ engine' = [engine EXCEPT ![n] = ready]
                /\ syncRef' = n /\ activeId' = i /\ shows' = i /\ mounted' = n
                /\ UNCHANGED <<slot, lateWrite>>
        /\ UNCHANGED <<selectReq, resuming, server, undoing, budgets, accepted, dropped>>

\* A request of the call fails, and no cache entry serves: the call rejects.
CallFails(n) ==
    /\ \/ call[n].step = "meta"
       \/ call[n].step = "init" /\ ~engine[n].found
    /\ faults < MaxFaults
    /\ faults' = faults + 1
    /\ call' = [call EXCEPT ![n].step = "failed"]
    /\ UNCHANGED <<appVars, selectReq, resuming, engine, dataVars, undoing, edits, leaves, historyVars>>

-----------------------------------------------------------------------------
(* The two ways out *)

\* undoTake: the take's engine goes at once, without a flush, ...
UndoTake ==
    /\ ~undoing /\ activeId # None
    /\ leaves < MaxLeaves
    /\ leaves' = leaves + 1
    /\ undoing' = TRUE
    /\ IF syncRef = 0 THEN UNCHANGED <<engine, slot>>
       ELSE /\ engine' = [engine EXCEPT ![syncRef] = Disposed(syncRef)]
            /\ slot' = DisposedCache(syncRef)
    /\ syncRef' = 0
    /\ UNCHANGED <<activeId, mounted, shows, callVars, server, edits, faults, historyVars>>

\* ...and once it is archived the App lands at home, or opens the next in the list.
UndoArchived(next) ==
    /\ undoing
    /\ undoing' = FALSE
    /\ activeId' = None /\ mounted' = 0
    /\ IF next = None
       THEN shows' = None /\ UNCHANGED <<callVars, engine, slot>>
       ELSE Select(next, TRUE) /\ UNCHANGED shows
    /\ UNCHANGED <<syncRef, server, budgets, historyVars>>

\* It is not archived: a toast says so.
UndoFails ==
    /\ undoing
    /\ faults < MaxFaults
    /\ faults' = faults + 1
    /\ undoing' = FALSE
    /\ UNCHANGED <<appVars, callVars, engine, dataVars, edits, leaves, historyVars>>

\* escapeToLanding: the way out of a workspace that crashed while rendering.
Escape ==
    /\ mounted # 0
    /\ leaves < MaxLeaves
    /\ leaves' = leaves + 1
    /\ IF syncRef = 0 THEN UNCHANGED <<engine, slot>>
       ELSE /\ engine' = [engine EXCEPT ![syncRef] = Disposed(syncRef)]
            /\ slot' = DisposedCache(syncRef)
    /\ syncRef' = 0 /\ activeId' = None /\ mounted' = 0 /\ shows' = None
    /\ UNCHANGED <<callVars, server, undoing, edits, faults, historyVars>>

\* The App renders again for a reason of its own (a list, a toast, a banner).
Render ==
    /\ mounted # Rendered(activeId, syncRef)
    /\ mounted' = Rendered(activeId, syncRef)
    /\ UNCHANGED <<activeId, syncRef, shows, callVars, engine, dataVars, undoing, budgets,
                   historyVars>>

-----------------------------------------------------------------------------
(* The engines *)

\* The user changes something on the workspace that is on screen: save() of its engine.
EditScreen ==
    LET k == edits + 1
        i == engine[mounted].of
    IN  /\ mounted # 0
        /\ k \in Edit
        /\ edits' = k
        /\ IF engine[mounted].st = "disposed"
           THEN dropped' = dropped \cup {k} /\ UNCHANGED <<engine, accepted>>
           ELSE /\ engine' = [engine EXCEPT ![mounted] =
                                 [engine[mounted] EXCEPT !.owed = @ \cup {k}, !.cacheDue = TRUE]]
                /\ accepted' = [accepted EXCEPT ![i] = @ \cup {k}]
                /\ UNCHANGED dropped
        /\ UNCHANGED <<appVars, callVars, dataVars, undoing, faults, leaves, lateWrite>>

\* The cache debounce fired.
CacheTimer(e) ==
    /\ engine[e].cacheDue
    /\ slot' = CacheAfter(e)
    /\ engine' = [engine EXCEPT ![e].cacheDue = FALSE]
    /\ lateWrite' = (lateWrite \/ e # syncRef)
    /\ UNCHANGED <<appVars, callVars, server, undoing, budgets, accepted, dropped>>

\* The push debounce, the backoff, `online`.
Flush(e) ==
    /\ engine[e].st = "ready" /\ engine[e].flight = "none" /\ engine[e].owed # {}
    /\ engine' = [engine EXCEPT ![e] = Pushing(@)]
    /\ slot' = CacheAfter(e)
    /\ UNCHANGED <<appVars, callVars, server, undoing, budgets, historyVars>>

\* 409: the same flush goes on, with the server's copy and then the union's PUT.
Conflict(e) ==
    /\ engine[e].flight = "put"
    /\ engine' = [engine EXCEPT ![e].flight = "merge", ![e].cacheDue = TRUE]
    /\ UNCHANGED <<appVars, callVars, dataVars, undoing, budgets, historyVars>>

\* handToView: in place while that engine's view is mounted, else the App's
\* workspace is replaced and whatever is open renders anew.
HandToView(e) ==
    /\ shows' = engine[e].of
    /\ mounted' = IF mounted = e THEN mounted ELSE Rendered(activeId, syncRef)

Settles(e) == resuming' = IF Awaiting(e) = {} THEN resuming ELSE e

\* The server took it; an engine that owes more goes on, unless it was disposed of.
Accepted(e) ==
    LET left == engine[e].owed \ engine[e].sent
        acked == [engine[e] EXCEPT !.owed = left, !.sent = {}, !.flight = "none",
                                   !.cacheDue = TRUE]
        again == left # {} /\ engine[e].st # "disposed"
        merged == engine[e].flight = "merge"
    IN  /\ engine[e].flight \in {"put", "merge"}
        /\ server' = [server EXCEPT ![engine[e].of] = @ \cup engine[e].sent]
        /\ IF again
           THEN /\ engine' = [engine EXCEPT ![e] = Pushing(acked)]
                /\ slot' = [slot EXCEPT ![engine[e].of] = left]
                /\ UNCHANGED resuming
           ELSE /\ engine' = [engine EXCEPT ![e] = [acked EXCEPT !.asked = FALSE]]
                /\ UNCHANGED slot
                /\ Settles(e)
        /\ IF merged THEN HandToView(e) ELSE UNCHANGED <<shows, mounted>>
        /\ UNCHANGED <<activeId, syncRef, selectReq, call, undoing, budgets, historyVars>>

\* No answer, whether or not the server took it: the union of a merge still reaches
\* the view, and a flush somebody asked for meanwhile has one more attempt.
FlushFails(e) ==
    LET unsent == [engine[e] EXCEPT !.sent = {}, !.flight = "none", !.asked = FALSE]
        handed == engine[e].flight = "merge" /\ engine[e].st # "disposed"
        again == engine[e].asked /\ engine[e].st # "disposed"
    IN  /\ engine[e].flight \in {"put", "merge"}
        /\ faults < MaxFaults
        /\ faults' = faults + 1
        /\ \/ UNCHANGED server
           \/ server' = [server EXCEPT ![engine[e].of] = @ \cup engine[e].sent]
        /\ IF handed THEN HandToView(e) ELSE UNCHANGED <<shows, mounted>>
        /\ IF again
           THEN /\ engine' = [engine EXCEPT ![e] = Pushing(unsent)]
                /\ slot' = [slot EXCEPT ![engine[e].of] = engine[e].owed]
                /\ UNCHANGED resuming
           ELSE /\ engine' = [engine EXCEPT ![e] = [unsent EXCEPT !.cacheDue = @ \/ handed]]
                /\ UNCHANGED slot
                /\ Settles(e)
        /\ UNCHANGED <<activeId, syncRef, selectReq, call, undoing, edits, leaves, historyVars>>

-----------------------------------------------------------------------------
Next ==
    \/ resuming # 0 /\ Resume
    \/ /\ resuming = 0
       /\ \/ \E i \in Incident, given \in BOOLEAN : Tap(i, given)
          \/ \E n \in Call : \/ MetaAnswered(n)
                             \/ \E due \in BOOLEAN : InitAnswered(n, due)
                             \/ CallFails(n)
          \/ UndoTake
          \/ \E next \in Incident \cup {None} : UndoArchived(next)
          \/ UndoFails \/ Escape \/ Render \/ EditScreen
          \/ \E e \in Call : \/ CacheTimer(e) \/ Flush(e)
                             \/ Conflict(e) \/ Accepted(e) \/ FlushFails(e)

Spec == Init /\ [][Next]_vars

-----------------------------------------------------------------------------
(* Properties *)

TypeOK ==
    /\ activeId \in Incident \cup {None} /\ shows \in Incident \cup {None}
    /\ syncRef \in 0..MaxTaps /\ mounted \in 0..MaxTaps
    /\ selectReq \in 0..MaxTaps /\ resuming \in 0..MaxTaps
    /\ call \in [Call -> CallState] /\ engine \in [Call -> EngineState]
    /\ \A e \in Call : engine[e].sent # {} <=> engine[e].flight # "none"
    /\ slot \in [Incident -> {None} \cup SUBSET Edit]
    /\ server \in [Incident -> SUBSET Edit]
    /\ accepted \in [Incident -> SUBSET Edit] /\ dropped \subseteq Edit
    /\ undoing \in BOOLEAN /\ lateWrite \in BOOLEAN
    /\ edits \in Nat /\ faults \in Nat /\ leaves \in Nat

\* An engine that may write and push is the one in the ref: none is left running
\* behind the one on screen (both `superseded mid-flight` returns of selectIncident).
OneWriter == \A e \in Call : engine[e].st = "ready" => syncRef = e

AtRest == resuming = 0 /\ ~undoing /\ \A n \in Call : call[n].step \in {"none", "done", "failed"}

\* When every call is through, no older tap's incident is the one that is open
\* ("any newer call supersedes this one", selectIncident).
NeverOlderTap == AtRest /\ syncRef # 0 => syncRef = selectReq

\* ...and the newest one's is, when no request failed and nobody left.
NewestTapOpens ==
    AtRest /\ selectReq # 0 /\ faults = 0 /\ leaves = 0 =>
        syncRef = selectReq /\ activeId = call[selectReq].of

\* An edit that an engine took is on the server, in the offline cache, or with the
\* engine in the ref ("Every path that must not lose the write flushes
\* synchronously first: teardown ...", writeCache).
Held(i, k) ==
    \/ k \in server[i]
    \/ slot[i] # None /\ k \in slot[i]
    \/ syncRef # 0 /\ engine[syncRef].of = i /\ k \in engine[syncRef].owed
WorkHeld == \A i \in Incident : \A k \in accepted[i] : Held(i, k)

\* The same as long as no engine that is out of the ref wrote a cache slot.
WorkHeldInOrder == ~lateWrite => WorkHeld

\* "The App calls `save(workspace)` on every edit ... we cache instantly, mark
\* dirty, and flush" (WorkspaceSync): what the user changes on screen is taken.
EveryEditTaken == dropped = {}

\* The open incident shows its own workspace: leaving another one by the crash
\* escape is "lossless ... nothing is deleted" (escapeToLanding).
ScreenIsOwnIncident == mounted # 0 => shows = engine[mounted].of
=============================================================================
