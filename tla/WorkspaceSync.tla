---------------------------- MODULE WorkspaceSync ----------------------------
(***************************************************************************)
(* The offline-first sync of ONE incident's workspace blob: a server that  *)
(* stores it under a revision (compare-and-swap, src/backend/app/          *)
(* incident_service.py) and one sync engine per device                     *)
(* (src/src/lib/api/workspaceSync.ts) with its offline cache, driven by    *)
(* the incident view (src/src/lib/useIncidentSync.ts).                     *)
(*                                                                         *)
(* A device has one engine per open page.  A request in flight belongs to  *)
(* the flush that awaits it; a teardown beacon, and a request whose caller *)
(* gave up, are nobody's: they are in `strays` and may still be served, at *)
(* any later time or never.                                                *)
(*                                                                         *)
(* `hist` keeps every revision's blob (the audit snapshots do): an answer  *)
(* that carries a blob is therefore just the revision it was read at.      *)
(***************************************************************************)
EXTENDS WorkspaceMerge, Naturals, FiniteSets

CONSTANTS
    Device,             \* the devices that have the incident
    Sessions,           \* the sessions a device can open: what their push route takes,
                        \* Obj for an editor, less for an Atemschutz-Link or the `el`
    Null,               \* no cache entry, no merge written yet
    ConflictAttempts,   \* CONFLICT_ATTEMPTS
    MaxEdits,           \* bound: edits by people
    MaxMachine,         \* bound: writes by machines
    MaxFaults,          \* bound: requests that fail
    MaxTeardowns        \* bound: hidden tabs, closed pages, crashes

ASSUME SessionsAssumption == Sessions \in [Device -> SUBSET ((SUBSET Obj) \ {{}})]
ASSUME NullAssumption == /\ Null \notin Workspace
                         /\ Null \notin [workspace : Workspace, base : Workspace, baseRev : Nat,
                                         dirty : BOOLEAN, shape : SUBSET Obj]
ASSUME BoundAssumption == /\ ConflictAttempts \in Nat \ {0}
                          /\ MaxEdits \in Nat /\ MaxMachine \in Nat
                          /\ MaxFaults \in Nat
                          /\ MaxTeardowns \in Nat

VARIABLES
    hist,       \* server: the blob of every revision 0..rev
    rev,        \* server: workspace_rev
    page,       \* device: the incident view, "closed" | "opening" | "open"
    slice,      \* device: what the open session's push route takes
    entry,      \* device: the engine's CacheEntry
    view,       \* device: viewState, what the screen shows
    saveSeq,    \* device: bumped by every save
    cache,      \* device: the main IndexedDB slot, or Null
    parked,     \* device: the role slot, unsynced work of a wider session
    step,       \* device: where the flush (or init) in flight stands
    sent,       \* device: the PUT the flush awaits
    seqMark,    \* device: saveSeq when `sent` (or the merge in it) was made
    mine0,      \* device: resolveConflict's mine0
    lastMerged, \* device: resolveConflict's lastMerged, or Null
    attempt,    \* device: resolveConflict's attempt
    ansRev,     \* device: the revision the awaited answer names
    poll,       \* device: live-follow round, "none" | "asked" | "answered"
    pollRev,    \* device: its `since`, then the revision of its answer
    unarmed,    \* device: reopened with unsynced work, and no timer armed to push it
    strays,     \* PUTs nobody awaits any more
    edits, machine, faults, teardowns,  \* spent bounds
    removed,                    \* history: objects somebody deleted
    torn,                       \* history: some cache write or beacon took a half-rebased entry
    touched                     \* history: [Device -> objects its user ever changed]

serverVars  == <<hist, rev>>
engineVars  == <<slice, entry, view, saveSeq>>
slotVars    == <<cache, parked>>
flightVars  == <<step, sent, seqMark, mine0, lastMerged, attempt, ansRev>>
pollVars    == <<poll, pollRev>>
budgets     == <<edits, machine, faults, teardowns>>
historyVars == <<removed, touched, torn>>
vars == <<serverVars, page, engineVars, slotVars, flightVars, pollVars, unarmed, strays,
          budgets, historyVars>>

\* `shape`: what the session that made the entry's unsynced edits could push.
Entry == [workspace : Workspace, base : Workspace, baseRev : Nat, dirty : BOOLEAN,
          shape : SUBSET Obj]
Put   == [workspace : Workspace, keys : SUBSET Obj, baseRev : Nat]

NoShape == {}
BlankEntry == [workspace |-> EmptyWorkspace, base |-> EmptyWorkspace,
               baseRev |-> 0, dirty |-> FALSE, shape |-> NoShape]
NoPut == [workspace |-> EmptyWorkspace, keys |-> {}, baseRev |-> 0]

FlightSteps == {"idle", "opening", "opened",
                "put", "putOk", "putConflict",
                "get", "got", "mergePut", "mergeOk", "mergeConflict"}

Init ==
    /\ hist = [r \in {0} |-> EmptyWorkspace]
    /\ rev = 0
    /\ page = [d \in Device |-> "closed"]
    /\ slice = [d \in Device |-> NoShape]
    /\ entry = [d \in Device |-> BlankEntry]
    /\ view = [d \in Device |-> EmptyWorkspace]
    /\ saveSeq = [d \in Device |-> 0]
    /\ cache = [d \in Device |-> Null]
    /\ parked = [d \in Device |-> {}]
    /\ step = [d \in Device |-> "idle"]
    /\ sent = [d \in Device |-> NoPut]
    /\ seqMark = [d \in Device |-> 0]
    /\ mine0 = [d \in Device |-> EmptyWorkspace]
    /\ lastMerged = [d \in Device |-> Null]
    /\ attempt = [d \in Device |-> 0]
    /\ ansRev = [d \in Device |-> 0]
    /\ poll = [d \in Device |-> "none"]
    /\ pollRev = [d \in Device |-> 0]
    /\ unarmed = [d \in Device |-> FALSE]
    /\ strays = {}
    /\ edits = 0 /\ machine = 0 /\ faults = 0 /\ teardowns = 0
    /\ removed = {}
    /\ torn = FALSE
    /\ touched = [d \in Device |-> {}]

-----------------------------------------------------------------------------
(* What the engine computes *)

\* (broken: the device's whole snapshot wins)
Merge_MineWins(d, base, mine, theirs) == LandedSlice(slice[d], theirs, mine)

\* `merge`: a slice session keeps the server's copy of what it cannot push.
Merge(d, base, mine, theirs) ==
    LandedSlice(slice[d], theirs, MergeById(base, mine, theirs))

\* the state the flush leaves behind in the bookkeeping of its closures
FlightOver(d) ==
    /\ step' = [step EXCEPT ![d] = "idle"]
    /\ sent' = [sent EXCEPT ![d] = NoPut]
    /\ seqMark' = [seqMark EXCEPT ![d] = 0]
    /\ mine0' = [mine0 EXCEPT ![d] = EmptyWorkspace]
    /\ lastMerged' = [lastMerged EXCEPT ![d] = Null]
    /\ attempt' = [attempt EXCEPT ![d] = 0]
    /\ ansRev' = [ansRev EXCEPT ![d] = 0]

\* A save made since the last merge was built on the pre-merge view: the entry
\* stands on the merge's base without what the merge brought in...
HalfRebased(d) == lastMerged[d] # Null /\ saveSeq[d] # seqMark[d]

\* (broken: the edit is not put on top of the merge)
RebasedWorkspace_AsIs(d) == entry[d].workspace

\* ...until the flush puts it on top of that merge.
RebasedWorkspace(d) ==
    IF HalfRebased(d)
    THEN Merge(d, mine0[d], entry[d].workspace, lastMerged[d])
    ELSE entry[d].workspace

-----------------------------------------------------------------------------
(* The user, and the machines that write the server's blob themselves *)

\* The view changed: useIncidentSync hands it to save().
Save(d, o, c) ==
    /\ page[d] = "open"
    /\ o \in slice[d]
    /\ c # view[d][o]
    /\ edits < MaxEdits
    /\ edits' = edits + 1
    /\ view' = [view EXCEPT ![d][o] = c]
    /\ entry' = [entry EXCEPT ![d] = [@ EXCEPT !.workspace = view'[d], !.dirty = TRUE,
                                               !.shape = slice[d]]]
    /\ saveSeq' = [saveSeq EXCEPT ![d] = @ + 1]
    /\ unarmed' = [unarmed EXCEPT ![d] = FALSE]
    /\ touched' = [touched EXCEPT ![d] = @ \cup {o}]
    /\ removed' = IF c = Absent THEN removed \cup {o} ELSE removed
    /\ UNCHANGED <<serverVars, page, slice, slotVars, flightVars, pollVars, strays, machine,
                   faults, teardowns, torn>>

\* (broken: the revision moves, its blob replaces the one before)
Commit_InPlace(blob) ==
    /\ rev' = rev + 1
    /\ hist' = [hist EXCEPT ![rev] = blob]

\* The server's blob moves to its next revision.
Commit(blob) ==
    /\ rev' = rev + 1
    /\ hist' = [r \in 0..(rev + 1) |-> IF r = rev + 1 THEN blob ELSE hist[r]]

\* Alarm milestones, capture posts, admin edits: a write under the same revision.
MachineWrite(o, c) ==
    /\ c # hist[rev][o]
    /\ machine < MaxMachine
    /\ machine' = machine + 1
    /\ Commit([hist[rev] EXCEPT ![o] = c])
    /\ removed' = IF c = Absent THEN removed \cup {o} ELSE removed
    /\ UNCHANGED <<page, engineVars, slotVars, flightVars, pollVars, unarmed, strays,
                   edits, faults, teardowns, touched, torn>>

-----------------------------------------------------------------------------
(* Opening the incident: init() *)

\* (broken: the slot is reused with the wider session's work in it)
MustPark_Never(stored, carries) == FALSE

\* mustParkForRole: a slice session cannot push all of what a wider one left.
MustPark(stored, carries) ==
    stored.dirty /\ carries # Obj /\ stored.shape \notin {NoShape, carries}

\* The cache is read; what this session cannot push is parked before its slot is reused.
Open(d, carries) ==
    LET found == IF cache[d] = Null THEN BlankEntry ELSE cache[d]
        parks == MustPark(found, carries)
        cached == IF parks THEN [found EXCEPT !.shape = carries] ELSE found
    IN  /\ page[d] = "closed"
        /\ page' = [page EXCEPT ![d] = "opening"]
        /\ step' = [step EXCEPT ![d] = "opening"]
        /\ slice' = [slice EXCEPT ![d] = carries]
        /\ entry' = [entry EXCEPT ![d] = cached]
        /\ parked' = IF parks THEN [parked EXCEPT ![d] = @ \cup {found.workspace}] ELSE parked
        /\ cache' = IF parks THEN [cache EXCEPT ![d] = cached] ELSE cache
        /\ UNCHANGED <<serverVars, view, saveSeq, sent, seqMark, mine0, lastMerged, attempt,
                       ansRev, pollVars, unarmed, strays, budgets, historyVars>>

\* init() got the server's blob: keep, merge or replace what the cache held.
OpenAnswered(d) ==
    LET cached == entry[d]
        server == hist[ansRev[d]]
        merged == Merge(d, cached.base, cached.workspace, server)
        opened == IF cached.dirty /\ cached.baseRev = ansRev[d] THEN cached
                  ELSE IF cached.dirty
                  THEN [workspace |-> merged, base |-> server,
                        baseRev |-> ansRev[d], dirty |-> TRUE, shape |-> slice[d]]
                  ELSE [workspace |-> server, base |-> server,
                        baseRev |-> ansRev[d], dirty |-> FALSE, shape |-> NoShape]
    IN  /\ step[d] = "opened"
        /\ entry' = [entry EXCEPT ![d] = opened]
        /\ view' = [view EXCEPT ![d] = opened.workspace]
        /\ page' = [page EXCEPT ![d] = "open"]
        /\ unarmed' = [unarmed EXCEPT ![d] = cached.dirty]
        /\ FlightOver(d)
        /\ UNCHANGED <<serverVars, slice, saveSeq, slotVars, pollVars, strays, budgets, historyVars>>

\* No answer: the cache serves, or the incident stays closed.
OpenUnanswered(d) ==
    /\ step[d] \in {"opening", "opened"}
    /\ faults < MaxFaults
    /\ faults' = faults + 1
    /\ IF cache[d] # Null
       THEN /\ page' = [page EXCEPT ![d] = "open"]
            /\ view' = [view EXCEPT ![d] = entry[d].workspace]
            /\ UNCHANGED slice
       ELSE /\ page' = [page EXCEPT ![d] = "closed"]
            /\ slice' = [slice EXCEPT ![d] = NoShape]
            /\ UNCHANGED view
    /\ FlightOver(d)
    /\ UNCHANGED <<serverVars, entry, saveSeq, slotVars, pollVars, strays, edits, machine,
                   teardowns, unarmed, historyVars>>

-----------------------------------------------------------------------------
(* A flush: pushCurrent *)

\* What drain's push sends: the entry, or the slice the device's route takes.
PutOf(d, workspace, baseRev) ==
    [workspace |-> workspace, keys |-> slice[d], baseRev |-> baseRev]

\* The debounce, the backoff, `online`, or drain's next iteration.
Flush(d) ==
    /\ page[d] = "open"
    /\ step[d] = "idle"
    /\ entry[d].dirty /\ ~unarmed[d]
    /\ step' = [step EXCEPT ![d] = "put"]
    /\ sent' = [sent EXCEPT ![d] = PutOf(d, entry[d].workspace, entry[d].baseRev)]
    /\ seqMark' = [seqMark EXCEPT ![d] = saveSeq[d]]
    /\ cache' = [cache EXCEPT ![d] = entry[d]]
    /\ UNCHANGED <<serverVars, page, engineVars, parked, mine0, lastMerged, attempt, ansRev,
                   pollVars, strays, budgets, unarmed, historyVars>>

\* `online`, the server answering again, "Jetzt synchronisieren": a flush asked for.
Nudge(d) ==
    /\ unarmed[d]
    /\ unarmed' = [unarmed EXCEPT ![d] = FALSE]
    /\ UNCHANGED <<serverVars, page, engineVars, slotVars, flightVars, pollVars, strays,
                   budgets, historyVars>>

\* (broken: an edit made during the PUT counts as landed)
Landed_Entry(d) == entry[d].workspace
\* (broken: what the route does not take counts as landed)
Landed_AsPushed(d) == sent[d].workspace

\* The ancestor a landed PUT leaves: what the server stored of it.
Landed(d) == LandedSlice(slice[d], entry[d].base, sent[d].workspace)

\* (broken: a landed PUT always clears the entry)
StillDirty_Never(d) == FALSE

\* An edit made while the PUT was in flight is still owed.
StillDirty(d) == saveSeq[d] # seqMark[d]

\* The server took the PUT.
PushAccepted(d) ==
    /\ step[d] = "putOk"
    /\ entry' = [entry EXCEPT ![d] = [@ EXCEPT !.base = Landed(d), !.baseRev = ansRev[d],
                                              !.dirty = StillDirty(d)]]
    /\ FlightOver(d)
    /\ UNCHANGED <<serverVars, page, slice, view, saveSeq, slotVars, pollVars, strays, budgets,
                   unarmed, historyVars>>

\* 409: resolveConflict asks for the server's copy.
PushConflict(d) ==
    /\ step[d] = "putConflict"
    /\ step' = [step EXCEPT ![d] = "get"]
    /\ mine0' = [mine0 EXCEPT ![d] = entry[d].workspace]
    /\ UNCHANGED <<serverVars, page, engineVars, slotVars, sent, seqMark, lastMerged, attempt,
                   ansRev, pollVars, strays, budgets, unarmed, historyVars>>

-----------------------------------------------------------------------------
(* A flush: resolveConflict *)

\* The server's copy is here: merge, and push the union at its revision.
MergeAndPush(d) ==
    LET server == hist[ansRev[d]]
        merged == Merge(d, entry[d].base, RebasedWorkspace(d), server)
    IN  /\ step[d] = "got"
        /\ entry' = [entry EXCEPT ![d] = [@ EXCEPT !.workspace = merged, !.base = server,
                                                   !.baseRev = ansRev[d], !.dirty = TRUE]]
        /\ lastMerged' = [lastMerged EXCEPT ![d] = merged]
        /\ seqMark' = [seqMark EXCEPT ![d] = saveSeq[d]]
        /\ sent' = [sent EXCEPT ![d] = PutOf(d, merged, ansRev[d])]
        /\ step' = [step EXCEPT ![d] = "mergePut"]
        /\ UNCHANGED <<serverVars, page, slice, view, saveSeq, slotVars, mine0, attempt, ansRev,
                       pollVars, strays, budgets, unarmed, historyVars>>

\* The union is on the server: the view gets it, with any edit made meanwhile on top.
MergeAccepted(d) ==
    /\ step[d] = "mergeOk"
    /\ entry' = [entry EXCEPT ![d] =
           [@ EXCEPT !.workspace = RebasedWorkspace(d), !.base = Landed(d),
                     !.baseRev = ansRev[d], !.dirty = StillDirty(d)]]
    /\ view' = [view EXCEPT ![d] = RebasedWorkspace(d)]
    /\ FlightOver(d)
    /\ UNCHANGED <<serverVars, page, slice, saveSeq, slotVars, pollVars, strays, budgets,
                   unarmed, historyVars>>

\* (broken: the union goes to the cache, the view keeps what it showed)
PreservePendingMerge_CacheOnly(d) ==
    /\ UNCHANGED view
    /\ IF lastMerged[d] = Null THEN UNCHANGED entry
       ELSE entry' = [entry EXCEPT ![d].workspace = RebasedWorkspace(d)]

\* preservePendingMerge: the flush gives up, but the view gets the union.
PreservePendingMerge(d) ==
    IF lastMerged[d] = Null THEN UNCHANGED <<entry, view>>
    ELSE /\ entry' = [entry EXCEPT ![d].workspace = RebasedWorkspace(d)]
         /\ view' = [view EXCEPT ![d] = RebasedWorkspace(d)]

\* Another device landed too: merge again, a bounded number of times.
MergeConflict(d) ==
    /\ step[d] = "mergeConflict"
    /\ IF attempt[d] + 1 < ConflictAttempts
       THEN /\ attempt' = [attempt EXCEPT ![d] = @ + 1]
            /\ step' = [step EXCEPT ![d] = "get"]
            /\ UNCHANGED <<entry, view, sent, seqMark, mine0, lastMerged, ansRev>>
       ELSE /\ PreservePendingMerge(d)
            /\ FlightOver(d)
    /\ UNCHANGED <<serverVars, page, slice, saveSeq, slotVars, pollVars, strays, budgets,
                   unarmed, historyVars>>

\* The awaited request fails on the way there or on the way back.
LinkFails(d) ==
    /\ step[d] \notin {"idle", "opening", "opened", "putConflict", "mergeConflict"}
    /\ faults < MaxFaults
    /\ faults' = faults + 1
    /\ strays' = IF step[d] \in {"put", "mergePut"} THEN strays \cup {sent[d]} ELSE strays
    /\ PreservePendingMerge(d)
    /\ FlightOver(d)
    /\ UNCHANGED <<serverVars, page, slice, saveSeq, slotVars, pollVars, edits, machine,
                   teardowns, unarmed, historyVars>>

-----------------------------------------------------------------------------
(* The server *)

\* put_workspace and its slice routes: stored only on top of the revision it was made on.
Stored(p) == LandedSlice(p.keys, hist[rev], p.workspace)

ServerPut(d) ==
    /\ step[d] \in {"put", "mergePut"}
    /\ IF sent[d].baseRev = rev
       THEN /\ Commit(Stored(sent[d]))
            /\ ansRev' = [ansRev EXCEPT ![d] = rev + 1]
            /\ step' = [step EXCEPT ![d] = IF @ = "put" THEN "putOk" ELSE "mergeOk"]
       ELSE /\ UNCHANGED <<serverVars, ansRev>>
            /\ step' = [step EXCEPT ![d] = IF @ = "put" THEN "putConflict" ELSE "mergeConflict"]
    /\ UNCHANGED <<page, engineVars, slotVars, sent, seqMark, mine0, lastMerged, attempt,
                   pollVars, strays, budgets, unarmed, historyVars>>

\* A beacon, or a request whose caller gave up, arrives after all.
ServerStray(p) ==
    /\ p \in strays
    /\ strays' = strays \ {p}
    /\ IF p.baseRev = rev THEN Commit(Stored(p)) ELSE UNCHANGED serverVars
    /\ UNCHANGED <<page, engineVars, slotVars, flightVars, pollVars, budgets, unarmed,
                   historyVars>>

ServerGet(d) ==
    /\ step[d] \in {"get", "opening"}
    /\ ansRev' = [ansRev EXCEPT ![d] = rev]
    /\ step' = [step EXCEPT ![d] = IF @ = "get" THEN "got" ELSE "opened"]
    /\ UNCHANGED <<serverVars, page, engineVars, slotVars, sent, seqMark, mine0, lastMerged,
                   attempt, pollVars, strays, budgets, unarmed, historyVars>>

-----------------------------------------------------------------------------
(* The live follow *)

\* A round asks only while nothing is owed.
PollAsk(d) ==
    /\ page[d] = "open" /\ poll[d] = "none"
    /\ ~entry[d].dirty
    /\ poll' = [poll EXCEPT ![d] = "asked"]
    /\ pollRev' = [pollRev EXCEPT ![d] = entry[d].baseRev]
    /\ UNCHANGED <<serverVars, page, engineVars, slotVars, flightVars, strays, budgets,
                   unarmed, historyVars>>

\* The held request comes back once the revision moved past the one it claims.
\* (broken: a device one revision behind is not woken)
HasNews_OffByOne(d) == rev > pollRev[d] + 1
HasNews(d) == rev > pollRev[d]

PollServed(d) ==
    /\ poll[d] = "asked" /\ HasNews(d)
    /\ poll' = [poll EXCEPT ![d] = "answered"]
    /\ pollRev' = [pollRev EXCEPT ![d] = rev]
    /\ UNCHANGED <<serverVars, page, engineVars, slotVars, flightVars, strays, budgets,
                   unarmed, historyVars>>

\* A round checks again when the answer is here.
\* (broken: the answer replaces an edit made while the request was held)
Adopts_Unchecked(d) == pollRev[d] > entry[d].baseRev
Adopts(d) == ~entry[d].dirty /\ pollRev[d] > entry[d].baseRev

\* adoptServer and hydrate, or nothing.
PollAnswered(d) ==
    /\ poll[d] = "answered"
    /\ poll' = [poll EXCEPT ![d] = "none"]
    /\ pollRev' = [pollRev EXCEPT ![d] = 0]
    /\ IF Adopts(d)
       THEN /\ entry' = [entry EXCEPT ![d] =
                   [workspace |-> hist[pollRev[d]], base |-> hist[pollRev[d]],
                    baseRev |-> pollRev[d], dirty |-> FALSE, shape |-> NoShape]]
            /\ view' = [view EXCEPT ![d] = hist[pollRev[d]]]
       ELSE UNCHANGED <<entry, view>>
    /\ UNCHANGED <<serverVars, page, slice, saveSeq, slotVars, flightVars, strays, budgets,
                   unarmed, historyVars>>

-----------------------------------------------------------------------------
(* The offline cache, and the end of a page *)

\* The cache debounce fired.
CacheTimer(d) ==
    /\ page[d] = "open"
    /\ cache[d] # entry[d]
    /\ torn' = (torn \/ HalfRebased(d))
    /\ cache' = [cache EXCEPT ![d] = entry[d]]
    /\ UNCHANGED <<serverVars, page, engineVars, parked, flightVars, pollVars, strays, budgets,
                   unarmed, removed, touched>>

\* flushKeepalive: the tab is hidden, the page lives on.
Hide(d) ==
    /\ page[d] = "open"
    /\ teardowns < MaxTeardowns
    /\ teardowns' = teardowns + 1
    /\ torn' = (torn \/ HalfRebased(d))
    /\ cache' = [cache EXCEPT ![d] = entry[d]]
    /\ strays' = IF entry[d].dirty
                 THEN strays \cup {PutOf(d, entry[d].workspace, entry[d].baseRev)}
                 ELSE strays
    /\ UNCHANGED <<serverVars, page, engineVars, parked, flightVars, pollVars, edits, machine,
                   faults, unarmed, removed, touched>>

PageGone(d) ==
    /\ page' = [page EXCEPT ![d] = "closed"]
    /\ slice' = [slice EXCEPT ![d] = NoShape]
    /\ entry' = [entry EXCEPT ![d] = BlankEntry]
    /\ view' = [view EXCEPT ![d] = EmptyWorkspace]
    /\ saveSeq' = [saveSeq EXCEPT ![d] = 0]
    /\ poll' = [poll EXCEPT ![d] = "none"]
    /\ pollRev' = [pollRev EXCEPT ![d] = 0]
    /\ unarmed' = [unarmed EXCEPT ![d] = FALSE]
    /\ strays' = IF step[d] \in {"put", "mergePut"} THEN strays \cup {sent[d]} ELSE strays
    /\ FlightOver(d)

\* dispose: the cache write lands first.
Close(d) ==
    /\ page[d] = "open"
    /\ teardowns < MaxTeardowns
    /\ teardowns' = teardowns + 1
    /\ torn' = (torn \/ HalfRebased(d))
    /\ cache' = [cache EXCEPT ![d] = entry[d]]
    /\ PageGone(d)
    /\ UNCHANGED <<serverVars, parked, edits, machine, faults, removed, touched>>

\* The device dies: what the cache does not hold is gone.
Crash(d) ==
    /\ page[d] # "closed"
    /\ teardowns < MaxTeardowns
    /\ teardowns' = teardowns + 1
    /\ PageGone(d)
    /\ UNCHANGED <<serverVars, slotVars, edits, machine, faults, historyVars>>

-----------------------------------------------------------------------------
\* What the engine and the server do by themselves; no user and no fault in it.
Protocol(d) ==
    \/ \E carries \in Sessions[d] : Open(d, carries)
    \/ OpenAnswered(d)
    \/ Flush(d) \/ PushAccepted(d) \/ PushConflict(d)
    \/ MergeAndPush(d) \/ MergeAccepted(d) \/ MergeConflict(d)
    \/ ServerPut(d) \/ ServerGet(d)
    \/ PollAsk(d) \/ PollServed(d) \/ PollAnswered(d)

EditStep ==
    \/ \E d \in Device, o \in Obj, c \in Content : Save(d, o, c)
    \/ \E o \in Obj, c \in Content : MachineWrite(o, c)

SystemStep ==
    \/ \E d \in Device :
          \/ Protocol(d)
          \/ OpenUnanswered(d) \/ LinkFails(d) \/ Nudge(d)
          \/ CacheTimer(d) \/ Hide(d) \/ Close(d) \/ Crash(d)
    \/ \E p \in strays : ServerStray(p)

Next == EditStep \/ SystemStep

Spec == Init /\ [][Next]_vars

\* Every device is opened again, and keeps flushing and following while the link holds.
FairSpec == Spec /\ \A d \in Device : WF_vars(Protocol(d))

-----------------------------------------------------------------------------
(* Properties *)

ServerTypes ==
    /\ rev \in Nat
    /\ hist \in [0..rev -> Workspace]
    /\ strays \subseteq Put
EngineTypes ==
    /\ page \in [Device -> {"closed", "opening", "open"}]
    /\ slice \in [Device -> SUBSET Obj]
    /\ entry \in [Device -> Entry]
    /\ view \in [Device -> Workspace]
    /\ saveSeq \in [Device -> Nat]
    /\ unarmed \in [Device -> BOOLEAN]
SlotTypes ==
    /\ cache \in [Device -> Entry \cup {Null}]
    /\ parked \in [Device -> SUBSET Workspace]
FlightTypes ==
    /\ step \in [Device -> FlightSteps]
    /\ sent \in [Device -> Put]
    /\ seqMark \in [Device -> Nat]
    /\ mine0 \in [Device -> Workspace]
    /\ lastMerged \in [Device -> Workspace \cup {Null}]
    /\ attempt \in [Device -> Nat]
    /\ ansRev \in [Device -> 0..rev]
PollTypes ==
    /\ poll \in [Device -> {"none", "asked", "answered"}]
    /\ pollRev \in [Device -> 0..rev]
HistoryTypes ==
    /\ edits \in Nat /\ machine \in Nat /\ faults \in Nat /\ teardowns \in Nat
    /\ removed \subseteq Obj
    /\ torn \in BOOLEAN
    /\ touched \in [Device -> SUBSET Obj]
TypeOK ==
    /\ ServerTypes /\ EngineTypes /\ SlotTypes
    /\ FlightTypes /\ PollTypes /\ HistoryTypes

\* The ancestor an engine or its cache holds IS the server's blob of the
\* revision it names: every merge's notion of a delete rests on it
\* (workspaceSync.ts `push`: "base is the ancestor the engine holds for
\* exactly baseRev"), through lost answers, slices, re-merges and reloads.
HeldAncestor(e) == e.baseRev \in 0..rev /\ e.base = hist[e.baseRev]
AncestorOnServer ==
    \A d \in Device : /\ HeldAncestor(entry[d])
                      /\ cache[d] # Null => HeldAncestor(cache[d])

\* An entry that says nothing is owed holds exactly what the server held at its
\* revision, in all that the session behind it could push: no edit is marked
\* synced that was never sent (pushCurrent's saveSeq comparison, landedSlice).
Owes(e) == IF e.shape = NoShape THEN Obj ELSE e.shape
CleanEntryIsOnServer(e) ==
    ~e.dirty => \A o \in Owes(e) : e.workspace[o] = hist[e.baseRev][o]
CleanIsOnServer ==
    \A d \in Device : /\ CleanEntryIsOnServer(entry[d])
                      /\ cache[d] # Null => CleanEntryIsOnServer(cache[d])

\* With no flush in flight the screen shows the engine's entry: otherwise the
\* next save, built from the screen, would turn what it lacks into deletions
\* at a current revision (preservePendingMerge, handToView).
ViewIsEntry ==
    \A d \in Device :
        page[d] = "open" /\ step[d] = "idle" => view[d] = entry[d].workspace

\* A push in flight changes nothing on the server that its own user never
\* changed: a save in one domain never
\* reverts, or deletes, what another device did (mergeWorkspace's promise).
PushesOwnChangesOnly ==
    \A d \in Device : ~torn /\ step[d] \in {"put", "mergePut"} =>
        \A o \in sent[d].keys :
            sent[d].workspace[o] # hist[sent[d].baseRev][o] => o \in touched[d]

\* An object leaves the server only when somebody deleted it - as long as no
\* cache write and no beacon took a half-rebased entry.
VanishesOnlyIfRemoved ==
    [][\A o \in Obj : hist[rev][o] # Absent /\ hist'[rev'][o] = Absent
                        => torn \/ o \in removed']_vars

\* The same without that exception ("independent additions to different objects
\* all survive", mergeWorkspace.ts).
AdditionsSurvive ==
    [][\A o \in Obj : hist[rev][o] # Absent /\ hist'[rev'][o] = Absent => o \in removed']_vars

\* Work that is on the server, or unsynced in some device's offline cache,
\* stays in one of these places until somebody deletes it.
Durable(o) ==
    \/ hist[rev][o] # Absent
    \/ \E d \in Device : cache[d] # Null /\ cache[d].dirty /\ cache[d].workspace[o] # Absent
    \/ \E d \in Device : \E left \in parked[d] : left[o] # Absent
NoWorkLost ==
    [][\A o \in Obj : Durable(o) /\ o \notin removed' /\ ~torn' => Durable(o)']_vars

\* Once edits and failures stop, a device ends up clean, at the server's
\* revision, showing what the server holds of all its session can push...
SettledAt(d) ==
    /\ page[d] = "open" /\ ~entry[d].dirty /\ entry[d].baseRev = rev
    /\ \A o \in slice[d] : view[d][o] = hist[rev][o]
Settled == \A d \in Device : SettledAt(d)

\* ...unless it is waiting, open and unsynced, for somebody to ask for a flush.
Converges == <>[](\A d \in Device : SettledAt(d) \/ unarmed[d])

\* What was left unsynced by the page that died goes up by itself after the
\* incident is opened again ("The merge result stays dirty and a later flush
\* pushes it at the new rev", workspaceSync.ts).
ReopenedWorkIsPushed == \A d \in Device : unarmed[d] ~> ~entry[d].dirty
-----------------------------------------------------------------------------
(* The inductive invariant behind AncestorOnServer, CleanIsOnServer and ViewIsEntry *)

Sending == {"put", "putOk", "mergePut", "mergeOk"}
Resolving == {"get", "got", "mergePut", "mergeOk", "mergeConflict"}
Busy == {"put", "putOk", "putConflict"} \cup Resolving

\* A clean entry differs from its ancestor only in what its session could not
\* push; an unsynced one is stamped with the session that made it.
Backed(e) ==
    /\ ~e.dirty => \A o \in Owes(e) : e.workspace[o] = e.base[o]
    /\ e.dirty => e.shape # NoShape

EntriesInv(d) ==
    /\ HeldAncestor(entry[d]) /\ Backed(entry[d])
    /\ cache[d] # Null => HeldAncestor(cache[d]) /\ Backed(cache[d])
PageInv(d) ==
    /\ page[d] # "closed" => /\ slice[d] # NoShape
                             /\ entry[d].dirty => entry[d].shape \subseteq slice[d]
    /\ step[d] \in {"opening", "opened"} => page[d] # "closed"
    /\ step[d] \in Busy => page[d] = "open" /\ entry[d].dirty
\* What is in flight was made from the entry, on the entry's ancestor.
FlightInv(d) ==
    /\ seqMark[d] <= saveSeq[d]
    /\ step[d] \in Sending => /\ sent[d].baseRev = entry[d].baseRev
                              /\ sent[d].keys = slice[d]
                              /\ ~StillDirty(d) => entry[d].workspace = sent[d].workspace
    /\ step[d] \in {"putOk", "mergeOk"} => hist[ansRev[d]] = Landed(d)
ViewInv(d) ==
    /\ step[d] \notin Resolving => lastMerged[d] = Null
    /\ page[d] = "open" /\ lastMerged[d] = Null => view[d] = entry[d].workspace

DevInv(d) == EntriesInv(d) /\ PageInv(d) /\ FlightInv(d) /\ ViewInv(d)
HistoryStarts == hist[0] = EmptyWorkspace
IInv == TypeOK /\ HistoryStarts /\ \A d \in Device : DevInv(d)

=============================================================================
