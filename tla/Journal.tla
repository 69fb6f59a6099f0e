------------------------------- MODULE Journal -------------------------------
(***************************************************************************)
(* The journal (Verlauf) of ONE incident: the append-only record on the    *)
(* server (src/backend/app/api/journal.py) and the outbox of one browser   *)
(* profile (src/src/lib/journalStore.ts), whose tabs share one IndexedDB   *)
(* slot and one editing lock (src/src/lib/tabLock.ts).                     *)
(*                                                                         *)
(* A task of the page is one step: the snapshot a task asks for is taken   *)
(* in its last microtask (persist), so the slot changes in the same step.  *)
(* A POST belongs to the flush that awaits it; a beacon, and a POST whose  *)
(* caller gave up, is in `strays` and may still arrive, or never.          *)
(*                                                                         *)
(* `made[r]` is the lifecycle era a row's timestamp lies in: an incident   *)
(* runs in the even eras and is closed in the odd ones.                    *)
(***************************************************************************)
EXTENDS Naturals, FiniteSets, Sequences, SequencesExt

CONSTANTS
    Tab, NoTab,     \* the tabs of this browser profile
    Row,            \* rows this profile may write
    Live,           \* those of a kind the closed incident refuses
    Bad,            \* those no server accepts (400/403/413/422)
    Elsewhere,      \* rows other devices write
    Boundary,       \* the server's own «abgeschlossen» / «wieder geöffnet» rows
    Unmade, Nothing,
    Batch,          \* FLUSH_BATCH
    MaxFaults,      \* bound: lost requests and answers, beacons
    MaxUnread,      \* bound: failed reads of the slot
    MaxOpens,       \* bound: tabs opened
    MaxTakeOvers    \* bound: «Hier bearbeiten»

Entries == Row \cup Elsewhere \cup Boundary

ASSUME RowAssumption ==
    /\ Live \subseteq Row /\ Bad \subseteq Row
    /\ Row \cap Elsewhere = {} /\ Boundary \cap (Row \cup Elsewhere) = {}
    /\ IsFiniteSet(Entries)
    /\ Nothing \notin Entries /\ Unmade \notin Nat /\ NoTab \notin Tab
ASSUME BoundAssumption ==
    /\ Batch \in Nat \ {0}
    /\ MaxFaults \in Nat /\ MaxUnread \in Nat /\ MaxOpens \in Nat /\ MaxTakeOvers \in Nat

VARIABLES
    log, era,       \* server: the rows by seq; closes and reopens so far
    made,           \* row: the era it was written in
    denied,         \* history: rows of the batches the server has turned down
    slot,           \* the identity's IndexedDB slot
    diskFull,       \* do writes to it fail?
    store,          \* tab: its JournalStore
    reading,        \* tab: what the hydration in flight has read, or NoRead
    early,          \* tab: preHydrationAppends
    handoff,        \* tab: hydrationHandoffs, the page's own memory
    post,           \* tab: the POST its flush awaits
    page,           \* tab: the pulled page about to be adopted, as <<from, to>>
    strays,         \* batches nobody awaits
    holder,         \* the tab that has the lock
    forgone,        \* history: rows whose only copy died with a tab that had said so
    raced,          \* history: has a tab written the slot without having the lock, or from
                    \* a read made before it got it?
    faults, unread, opens, takeOvers

server == <<log, era, made, denied>>
local == <<slot, diskFull, store, reading, early, handoff>>
wire == <<post, page, strays>>
bounds == <<faults, unread, opens, takeOvers>>
vars == <<server, local, wire, holder, forgone, raced, bounds>>
-----------------------------------------------------------------------------
Recorded == ToSet(log)

EmptyCopy == [outbox |-> <<>>, dead |-> {}, refused |-> {}, rows |-> {}, latestSeq |-> 0]

NewStore ==
    [outbox |-> <<>>, dead |-> {}, refused |-> {}, rows |-> {}, latestSeq |-> 0,
     open |-> TRUE, readOnly |-> FALSE, initDone |-> FALSE, readFailed |-> FALSE,
     cacheDurable |-> TRUE, singleMode |-> FALSE, again |-> FALSE]
NoStore == [NewStore EXCEPT !.open = FALSE]

Snapshot(st) ==
    [outbox |-> st.outbox, dead |-> st.dead, refused |-> st.refused, rows |-> st.rows,
     latestSeq |-> st.latestSeq]

\* The rows a copy (a store or the slot) holds for the server.
Pending(c) == ToSet(c.outbox) \cup c.dead \cup c.refused
Known(c) == Pending(c) \cup c.rows

NoRead == [value |-> EmptyCopy, state |-> "none", asHolder |-> FALSE]
NoPost == [batch |-> <<>>, answer |-> "none", accepted |-> {}]
NoPage == <<0, 0>>

\* s without the rows of S (filter; SelectSeq's own definition, which proofs can open).
Without(s, S) ==
    LET left[n \in 0..Len(s)] ==
            IF n = 0 THEN <<>>
            ELSE IF s[n] \in S THEN left[n - 1] ELSE Append(left[n - 1], s[n])
    IN left[Len(s)]

\* Mutant: the stored copy replaces what was written meanwhile.
Merged_Replaces(into, from) ==
    [into EXCEPT !.rows = @ \cup from.rows, !.outbox = from.outbox,
                 !.refused = from.refused, !.dead = from.dead,
                 !.latestSeq = IF from.latestSeq > @ THEN from.latestSeq ELSE @]

\* mergePersisted: the stored copy's rows go first; what the server took drops out.
Merged(into, from) ==
    LET rows == into.rows \cup from.rows
        refused == from.refused \cup into.refused
        queued == from.outbox \o Without(into.outbox, ToSet(from.outbox))
        outbox == Without(queued, rows \cup refused)
    IN [into EXCEPT !.rows = rows,
                    !.outbox = outbox,
                    !.refused = refused \ rows,
                    !.dead = (from.dead \cup into.dead) \ (rows \cup refused \cup ToSet(queued)),
                    !.latestSeq = IF from.latestSeq > @ THEN from.latestSeq ELSE @]

\* May this store write the slot?  (persist, writeSnapshot)
Writes(st) == st.open /\ ~st.readOnly /\ st.initDone /\ ~st.readFailed

IsReading(t) == reading[t].state # "none"

\* A task that leaves store `st` and pre-hydration rows `e` behind, and asks to persist.
Put(t, st, e) ==
    LET landed == Writes(st) /\ ~diskFull
    IN /\ store' = [store EXCEPT ![t] =
                        IF Writes(st) THEN [st EXCEPT !.cacheDurable = landed] ELSE st]
       /\ slot' = IF landed THEN Snapshot(st) ELSE slot
       /\ early' = [early EXCEPT ![t] = IF landed THEN e \ Known(st) ELSE e]
       /\ handoff' = [handoff EXCEPT ![t] = IF landed THEN @ \ Known(st) ELSE @]
       /\ raced' = (raced \/ (Writes(st) /\ (holder # t \/ (IsReading(t) /\ ~reading[t].asHolder))))

\* One that does not persist.
Set(t, st) == store' = [store EXCEPT ![t] = st] /\ UNCHANGED <<slot, early, handoff, raced>>

\* An IndexedDB read is issued: its value is the slot of that moment, or it fails.  Once the
\* lock has moved on, a read that is out is no longer the holder's.
StillHolders(t) == [reading[t] EXCEPT !.asHolder = @ /\ holder' = t]
Read(t, value) ==
    \/ /\ reading' = [u \in Tab |->
            IF u = t THEN [value |-> value, state |-> "read", asHolder |-> holder' = t]
            ELSE StillHolders(u)]
       /\ UNCHANGED unread
    \/ /\ unread < MaxUnread
       /\ unread' = unread + 1
       /\ reading' = [u \in Tab |->
            IF u = t THEN [NoRead EXCEPT !.state = "failed"] ELSE StillHolders(u)]
NoNewRead == reading' = [u \in Tab |-> StillHolders(u)] /\ UNCHANGED unread

Demoted(st) == [st EXCEPT !.readOnly = TRUE, !.readFailed = FALSE]

\* Mutant: the promoted tab goes on from its own copy.
Promoted_NoReread(st, busy) == [st EXCEPT !.readOnly = FALSE, !.again = busy]

\* setReadOnly(false): re-read before anything is published or sent.
Promoted(st, busy) ==
    [st EXCEPT !.readOnly = FALSE, !.initDone = FALSE, !.again = busy]

Init ==
    /\ log = <<>> /\ era = 0 /\ made = [r \in Row |-> Unmade] /\ denied = {}
    /\ slot = EmptyCopy /\ diskFull = FALSE
    /\ store = [t \in Tab |-> NoStore] /\ reading = [t \in Tab |-> NoRead]
    /\ early = [t \in Tab |-> {}] /\ handoff = [t \in Tab |-> {}]
    /\ post = [t \in Tab |-> NoPost] /\ page = [t \in Tab |-> NoPage] /\ strays = {}
    /\ holder = NoTab /\ forgone = {} /\ raced = FALSE
    /\ faults = 0 /\ unread = 0 /\ opens = 0 /\ takeOvers = 0
-----------------------------------------------------------------------------
(* The tab and its lock.                                                   *)

\* The incident is opened in a tab: a store is made and its hydration begins.  It takes
\* itself for the editing one (useIncidentTabLock: held starts true) until it is told.
Open(t) ==
    /\ ~store[t].open /\ opens < MaxOpens
    /\ opens' = opens + 1
    /\ store' = [store EXCEPT ![t] = NewStore]
    /\ holder' = IF holder = NoTab THEN t ELSE holder
    /\ Read(t, slot)
    /\ UNCHANGED <<server, slot, diskFull, early, handoff, wire, forgone, raced, faults, takeOvers>>

\* The lock becomes this tab's, which had been told it is another's: the slot is read again.
Take(t) ==
    /\ store[t].open /\ store[t].readOnly
    /\ holder' = t
    /\ store' = [store EXCEPT ![t] = Promoted(@, IsReading(t))]
    /\ IF IsReading(t) THEN NoNewRead ELSE Read(t, slot)
    /\ UNCHANGED <<server, slot, diskFull, early, handoff, wire, forgone, raced, faults, opens>>

\* ... since the holder is gone, or by «Hier bearbeiten».
Grant(t) == holder = NoTab /\ Take(t) /\ UNCHANGED takeOvers

TakeOver(t) ==
    /\ holder # NoTab /\ takeOvers < MaxTakeOvers
    /\ Take(t)
    /\ takeOvers' = takeOvers + 1

\* The tab hears that the lock is another's.
Told(t) ==
    /\ store[t].open /\ ~store[t].readOnly /\ holder # t
    /\ Set(t, Demoted(store[t]))
    /\ UNCHANGED <<server, diskFull, reading, wire, holder, forgone, bounds>>

\* hydrate(): the read has settled.  (`ready` is bound before Put uses it, so that TLC
\* computes it once.)
Hydrate(t) ==
    LET read == reading[t]
        st == store[t]
        merged == IF read.state = "read" THEN Merged(st, read.value) ELSE st
        handed == IF st.readOnly THEN {} ELSE handoff[t] \ Known(merged)
        ready == [merged EXCEPT !.readFailed = FALSE, !.initDone = TRUE, !.again = FALSE,
                                !.outbox = @ \o SetToSeq(handed),
                                !.cacheDurable = @ /\ handed = {}]
    IN /\ IsReading(t) /\ UNCHANGED holder
       /\ IF read.state = "failed" /\ ~st.readOnly
          THEN Set(t, [st EXCEPT !.readFailed = TRUE, !.initDone = TRUE, !.again = FALSE])
          ELSE \E hydrated \in {ready} : Put(t, hydrated, early[t])
       /\ IF st.again THEN Read(t, slot')
                      ELSE reading' = [reading EXCEPT ![t] = NoRead] /\ UNCHANGED unread
       /\ UNCHANGED <<server, diskFull, wire, forgone, faults, opens, takeOvers>>

\* The failed read is tried again (REREAD_MS).
Reread(t) ==
    /\ store[t].open /\ store[t].readFailed /\ ~IsReading(t)
    /\ UNCHANGED holder
    /\ Read(t, slot)
    /\ UNCHANGED <<server, slot, diskFull, store, early, handoff, wire, forgone, raced,
                   faults, opens, takeOvers>>

\* The rows only tab t holds; those its status (syncStatus «storage»), or that of the store
\* that handed them on, has said are not stored.
OnlyIn(t) ==
    (Row \cap (Pending(store[t]) \cup handoff[t]))
      \ (Recorded \cup Pending(slot)
           \cup UNION {Pending(store[u]) \cup handoff[u] : u \in Tab \ {t}})
Warns(t) == ~store[t].cacheDurable \/ store[t].readFailed
Announced(t) == handoff[t] \cup IF Warns(t) THEN Pending(store[t]) ELSE {}

\* The view unmounts (dispose: rows from before the hydration are handed to the page's
\* next store), or the whole page goes.
Gone(t, crash) ==
    /\ store[t].open
    /\ store' = [store EXCEPT ![t] = NoStore]
    /\ reading' = [reading EXCEPT ![t] = NoRead]
    /\ handoff' = [handoff EXCEPT ![t] = IF crash THEN {} ELSE @ \cup early[t]]
    /\ early' = [early EXCEPT ![t] = {}]
    /\ forgone' = forgone \cup ((OnlyIn(t) \cap Announced(t)) \ handoff'[t])
    /\ strays' = strays \cup IF post[t].answer = "sent" THEN {post[t].batch} ELSE {}
    /\ post' = [post EXCEPT ![t] = NoPost]
    /\ page' = [page EXCEPT ![t] = NoPage]
    /\ holder' = IF holder = t THEN NoTab ELSE holder
    /\ UNCHANGED <<server, slot, diskFull, raced, bounds>>
Leave(t) == Gone(t, FALSE)
Crash(t) == Gone(t, TRUE)
-----------------------------------------------------------------------------
(* The outbox.                                                             *)

\* append(): also by a tab that is read-only (an upload that ends late).
Write(t, r) ==
    LET st == store[t]
        unsafe == ~st.initDone \/ st.readFailed
    IN /\ st.open /\ made[r] = Unmade
       /\ made' = [made EXCEPT ![r] = era]
       /\ Put(t, [st EXCEPT !.outbox = Append(@, r),
                            !.cacheDurable = @ /\ ~unsafe /\ ~st.readOnly],
                 early[t] \cup IF unsafe THEN {r} ELSE {})
       /\ UNCHANGED <<log, era, denied, diskFull, reading, wire, holder, forgone, bounds>>

\* Mutant: all of them.
Head1_Whole(s) == s

Head1(s) == IF s = <<>> THEN Nothing ELSE Head(s)
Rest(s) == IF s = <<>> THEN s ELSE Tail(s)
Upto(s, n) == SubSeq(s, 1, IF Len(s) < n THEN Len(s) ELSE n)

Drains(st) == st.open /\ st.initDone /\ ~st.readOnly /\ st.outbox # <<>>

\* flush(), flushBatch(): asked for by every append, poll round and `online`.
Flush(t) ==
    /\ Drains(store[t]) /\ post[t] = NoPost
    /\ post' = [post EXCEPT ![t] =
           [NoPost EXCEPT !.answer = "sent",
                          !.batch = Upto(store[t].outbox, IF store[t].singleMode THEN 1 ELSE Batch)]]
    /\ UNCHANGED <<server, local, page, strays, holder, forgone, raced, bounds>>

\* Mutant: the answer to a flush moves the cursor.
Delivered_Cursor(st, p) ==
    [st EXCEPT !.outbox = Without(@, ToSet(p.batch)), !.rows = @ \cup p.accepted,
               !.latestSeq = Len(log)]

Delivered(st, p) ==
    LET left == Without(st.outbox, ToSet(p.batch))
    IN [st EXCEPT !.outbox = left, !.rows = @ \cup p.accepted,
                  !.singleMode = @ /\ left # <<>>]

\* Mutant: only a row that is alone in the outbox is taken for the one turned down.
Alone_Lone(st) == Len(st.outbox) = 1

\* The row at the head of the outbox is taken for the one turned down.
Alone(st) == st.singleMode \/ Len(st.outbox) = 1
Refused(st) == [st EXCEPT !.refused = @ \cup {Head1(st.outbox)}, !.outbox = Rest(@),
                          !.singleMode = @ /\ Rest(st.outbox) # <<>>]
DeadLettered(st) == [st EXCEPT !.dead = @ \cup {Head1(st.outbox)}, !.outbox = Rest(@)]

\* flushBatch() goes on with the answer.
Answered(t) ==
    LET st == store[t] IN
    /\ post' = [post EXCEPT ![t] = NoPost]
    /\ \/ post[t].answer = "ok" /\ Put(t, Delivered(st, post[t]), early[t])
       \/ post[t].answer = "closed" /\ Alone(st) /\ Put(t, Refused(st), early[t])
       \/ post[t].answer = "bad" /\ Alone(st) /\ Put(t, DeadLettered(st), early[t])
       \/ post[t].answer \in {"closed", "bad"} /\ ~Alone(st) /\ Set(t, [st EXCEPT !.singleMode = TRUE])
    /\ UNCHANGED <<server, diskFull, reading, page, strays, holder, forgone, bounds>>

\* The request, or its answer, is lost: the rows stay for the next round.
Lose(t) ==
    /\ post[t] # NoPost /\ faults < MaxFaults
    /\ faults' = faults + 1
    /\ post' = [post EXCEPT ![t] = NoPost]
    /\ strays' = strays \cup IF post[t].answer = "sent" THEN {post[t].batch} ELSE {}
    /\ UNCHANGED <<server, local, page, holder, forgone, raced, unread, opens, takeOvers>>

\* flushKeepalive(), while the page may live on.
Beacon(t) ==
    /\ store[t].open /\ ~store[t].readOnly /\ store[t].outbox # <<>> /\ faults < MaxFaults
    /\ faults' = faults + 1
    /\ strays' = strays \cup {Upto(store[t].outbox, Batch)}
    /\ UNCHANGED <<server, local, post, page, holder, forgone, raced, unread, opens, takeOvers>>

\* retry(): «Erneut versuchen».
Retry(t) ==
    LET st == store[t] IN
    /\ st.open /\ ~st.readOnly /\ ~IsReading(t) /\ st.dead # {} /\ Nothing \notin st.dead
    /\ Put(t, [st EXCEPT !.outbox = @ \o SetToSeq(st.dead), !.dead = {}, !.singleMode = FALSE], early[t])
    /\ UNCHANGED <<server, diskFull, reading, wire, holder, forgone, bounds>>

\* requeueRefused(): the device has heard that the incident runs again.
Requeue(t) ==
    LET st == store[t] IN
    /\ st.open /\ ~st.readOnly /\ ~IsReading(t) /\ st.refused # {} /\ Nothing \notin st.refused
    /\ era % 2 = 0
    /\ Put(t, [st EXCEPT !.outbox = @ \o SetToSeq(st.refused \ ToSet(@)), !.refused = {},
                         !.singleMode = FALSE], early[t])
    /\ UNCHANGED <<server, diskFull, reading, wire, holder, forgone, bounds>>

\* pull() is answered with the rows above the cursor ...
Pull(t) ==
    /\ store[t].open /\ page[t] = NoPage /\ store[t].latestSeq < Len(log)
    /\ page' = [page EXCEPT ![t] = <<store[t].latestSeq, Len(log)>>]
    /\ UNCHANGED <<server, local, post, strays, holder, forgone, raced, bounds>>

\* ... adopts them, moves the cursor, and lets go of what the server has.
Caught(st, rows, upto) ==
    [st EXCEPT !.rows = rows, !.latestSeq = IF upto > @ THEN upto ELSE @,
               !.outbox = Without(@, rows), !.dead = @ \ rows, !.refused = @ \ rows]
Adopt(t) ==
    LET rows == store[t].rows \cup {log[i] : i \in (page[t][1] + 1)..page[t][2]} IN
    /\ page[t] # NoPage
    /\ page' = [page EXCEPT ![t] = NoPage]
    /\ Put(t, Caught(store[t], rows, page[t][2]), early[t])
    /\ UNCHANGED <<server, diskFull, reading, post, strays, holder, forgone, bounds>>
-----------------------------------------------------------------------------
(* The server, and the world around.                                       *)

Closed == era % 2 = 1

\* append_journal's answer: a row no schema takes, a live row made after the close and
\* not held yet, or all of them.
Verdict(batch) ==
    CASE ToSet(batch) \cap Bad # {} -> "bad"
      [] Closed /\ \E r \in (ToSet(batch) \cap Live) \ Recorded : made[r] >= era -> "closed"
      [] OTHER -> "ok"

\* append_rows: rows the record already holds are skipped.
Fresh(batch) == Without(batch, Recorded)

Receive(batch) ==
    /\ log' = IF Verdict(batch) = "ok" THEN log \o Fresh(batch) ELSE log
    /\ denied' = denied \cup IF Verdict(batch) = "ok" THEN {} ELSE ToSet(batch)
    /\ UNCHANGED <<era, made>>

ServerTakes(t) ==
    /\ post[t].answer = "sent"
    /\ Receive(post[t].batch)
    /\ post' = [post EXCEPT ![t].answer = Verdict(post[t].batch),
                            ![t].accepted = IF Verdict(post[t].batch) = "ok"
                                            THEN ToSet(Fresh(post[t].batch)) ELSE {}]
    /\ UNCHANGED <<local, page, strays, holder, forgone, raced, bounds>>

StrayArrives ==
    /\ \E batch \in strays : Receive(batch) /\ strays' = strays \ {batch}
    /\ UNCHANGED <<local, post, page, holder, forgone, raced, bounds>>

OtherDevice ==
    /\ \E r \in Elsewhere \ Recorded : log' = Append(log, r)
    /\ UNCHANGED <<era, made, denied, local, wire, holder, forgone, raced, bounds>>

\* The incident is closed, or opened again: append_system_row writes the boundary.
Lifecycle ==
    /\ Boundary \ Recorded # {}
    /\ log' = Append(log, CHOOSE b \in Boundary : b \notin Recorded)
    /\ era' = era + 1
    /\ UNCHANGED <<made, denied, local, wire, holder, forgone, raced, bounds>>

\* The storage quota is reached, or there is room again.
Disk ==
    /\ diskFull' = ~diskFull
    /\ faults' = IF diskFull THEN faults ELSE faults + 1
    /\ faults' <= MaxFaults
    /\ UNCHANGED <<server, slot, store, reading, early, handoff, wire, holder, forgone, raced,
                   unread, opens, takeOvers>>

Next ==
    \/ \E t \in Tab :
         \/ Open(t) \/ Grant(t) \/ TakeOver(t) \/ Told(t) \/ Hydrate(t) \/ Reread(t)
         \/ Leave(t) \/ Crash(t)
         \/ \E r \in Row : Write(t, r)
         \/ Flush(t) \/ Answered(t) \/ Lose(t) \/ Beacon(t) \/ Retry(t) \/ Requeue(t)
         \/ Pull(t) \/ Adopt(t) \/ ServerTakes(t)
    \/ StrayArrives \/ OtherDevice \/ Lifecycle \/ Disk

\* What the page and the server do of themselves, once the network answers.
Fairness ==
    \A t \in Tab :
        /\ WF_vars(Hydrate(t)) /\ WF_vars(Reread(t)) /\ WF_vars(Grant(t)) /\ WF_vars(Told(t))
        /\ WF_vars(Flush(t)) /\ WF_vars(ServerTakes(t)) /\ WF_vars(Answered(t))
        /\ WF_vars(Pull(t)) /\ WF_vars(Adopt(t)) /\ WF_vars(Requeue(t))

Spec == Init /\ [][Next]_vars
FairSpec == Spec /\ Fairness
-----------------------------------------------------------------------------
Copy == [outbox : Seq(Row), dead : SUBSET (Row \cup {Nothing}),
         refused : SUBSET (Row \cup {Nothing}), rows : SUBSET Entries, latestSeq : Nat]

TypeOK ==
    /\ log \in Seq(Entries) /\ era \in Nat
    /\ made \in [Row -> Nat \cup {Unmade}] /\ denied \subseteq Row
    /\ slot \in Copy /\ diskFull \in BOOLEAN
    /\ \A t \in Tab :
         /\ Snapshot(store[t]) \in Copy
         /\ reading[t].value \in Copy
         /\ reading[t].state \in {"none", "read", "failed"}
         /\ early[t] \subseteq Row /\ handoff[t] \subseteq Row
         /\ post[t].batch \in Seq(Row) /\ post[t].accepted \subseteq Row
         /\ post[t].answer \in {"none", "sent", "ok", "closed", "bad"}
         /\ page[t] \in Nat \X Nat
    /\ strays \subseteq Seq(Row) /\ forgone \subseteq Row
    /\ holder \in Tab \cup {NoTab} /\ raced \in BOOLEAN

\* A row written on this profile is in the record, in the slot, handed to the page's next
\* store, or in a tab that says its rows are not stored here - unless such a tab has died.
\* «A synced workspace must not hide an unsent or undurable journal» (syncStatus).
NoSilentLoss ==
    \A r \in Row : made[r] # Unmade =>
        \/ r \in Recorded \cup Pending(slot) \cup forgone
        \/ \E t \in Tab : r \in handoff[t] \/ (Warns(t) /\ r \in Pending(store[t]))

\* It holds as long as the slot was written by the lock's holder only, from a read made
\* since it has the lock: the promotion's re-read is what a handover needs.
NoSilentLossInOrder == ~raced => NoSilentLoss

\* A row is parked - refused for the closed incident, or dead-lettered - only if the server
\* has turned down a batch with it.
ParkedWasDenied ==
    \A c \in {slot} \cup {store[t] : t \in Tab} : c.dead \cup c.refused \subseteq denied

\* The record is append-only, holds a row once, and no reader's cursor passes a row it
\* has not got: journal.py and the store implement Verlauf.
V == INSTANCE Verlauf WITH
        Reader <- Tab, Entry <- Entries, record <- log,
        upTo <- [t \in Tab |-> store[t].latestSeq],
        shown <- [t \in Tab |-> store[t].rows]
ImplementsVerlauf == V!Spec

\* A row the server may take is in the record in the end: lost requests, a refusal while the
\* incident was closed, a full disk and a poisoned row ahead of it only delay it.  Unless
\* nobody keeps the incident open, or it stays closed and the row is one it refuses.
Settled(r) ==
    \/ made[r] = Unmade \/ r \in Recorded \cup forgone
    \/ Closed /\ r \in Live
    \/ \A t \in Tab : ~store[t].open
EverySent == []<>(\A r \in Row \ Bad : Settled(r))

\* An open tab gets every row of the record, its own and those of other devices.
EveryoneFollows == []<>(\A t \in Tab : store[t].open => Recorded \subseteq store[t].rows)
=============================================================================
