----------------------------- MODULE MediaQueue -----------------------------
(***************************************************************************)
(* The offline media queue of one Einsatz on one page: the stored queue    *)
(* and what the page holds when the store fails (src/src/lib/              *)
(* mediaQueue.ts), the flush and the replay of receipts (useMediaQueue.ts),*)
(* the direct upload that falls back on it (useRowMediaUpload.ts) and the  *)
(* link into the Verlauf (src/src/workspace/useMediaOutbox.ts).            *)
(*                                                                         *)
(* A slot is one picture or memo and the row it hangs off.  What runs in   *)
(* the edit lane is one step; uploads, the replay and the Verlauf's        *)
(* delivery run beside it.  The Verlauf's outbox is seen only through the  *)
(* state of the row and of the patch that links it (module Journal).       *)
(***************************************************************************)
EXTENDS Integers, FiniteSets

CONSTANTS Slot,
          MaxAttempts,  \* MAX_ATTEMPTS: refusals before an item is "failed"
          MaxMishaps    \* bound: failed reads and writes, crashes, closings

ASSUME MediaAssumption == MaxAttempts \in Nat \ {0} /\ MaxMishaps \in Nat

VARIABLES
  row,      \* the Verlauf row of a slot, in the journal's outbox or beyond
  link,     \* the patch that puts the server URL on the row
  stored,   \* the IndexedDB value
  held,     \* unstored: what the page holds, and whether it is the whole queue
  direct,   \* first uploads in the air, their bytes only in this page
  flush,    \* a flush: its snapshot's captures and how each attempt ended
  replay,   \* a replay of the receipts
  linked,   \* links made in this session
  closed,   \* the Einsatz, on the server
  canWrite, \* canWriteRecord: what this page knows of it
  shown,    \* the rows this page's Verlauf shows
  loaded,   \* whether that Verlauf has been read and has answered a pull
  durable,  \* slots whose enqueue answered "stored" (history)
  mishaps

queue == <<stored, held>>
work == <<direct, flush, replay, linked>>
vars == <<row, link, queue, work, closed, canWrite, shown, loaded, durable, mishaps>>

None == [st |-> "none", n |-> 0]
Entry == [st : {"none", "pending", "failed", "uploaded"}, n : 0..MaxAttempts]
Empty == [s \in Slot |-> None]

TypeOK ==
  /\ row \in [Slot -> {"none", "outbox", "sent"}]
  /\ link \in [Slot -> {"none", "outbox", "sent"}]
  /\ stored \in [Slot -> Entry]
  /\ held \in [mode : {"no", "whole", "part"}, items : [Slot -> Entry]]
  /\ direct \subseteq Slot
  /\ flush \in [on : BOOLEAN, retry : BOOLEAN,
                ended : [Slot -> {"-", "due", "landed", "offline", "refused"}]]
  /\ replay \in [pc : {"off", "asked", "listed", "retire"}, of : SUBSET Slot]
  /\ linked \subseteq Slot
  /\ closed \in BOOLEAN /\ canWrite \in BOOLEAN
  /\ shown \subseteq Slot /\ loaded \in BOOLEAN
  /\ durable \subseteq Slot
  /\ mishaps \in 0..MaxMishaps

NotHeld == [mode |-> "no", items |-> Empty]
NoFlush == [on |-> FALSE, retry |-> FALSE, ended |-> [s \in Slot |-> "-"]]
NoReplay == [pc |-> "off", of |-> {}]

Init ==
  /\ row = [s \in Slot |-> "none"] /\ link = [s \in Slot |-> "none"]
  /\ stored = Empty /\ held = NotHeld
  /\ direct = {} /\ flush = NoFlush /\ replay = NoReplay /\ linked = {}
  /\ closed = FALSE /\ canWrite = TRUE
  /\ shown = {} /\ loaded = FALSE
  /\ durable = {}
  /\ mishaps = 0

-----------------------------------------------------------------------------
(* The lane: read the queue, change it, store it *)

\* readQueue: stored and held together; a read that fails leaves only what the
\* page holds, which is then not the whole queue unless it was known to be.
Items(readable) ==
  IF held.mode = "whole" \/ (held.mode = "part" /\ ~readable) THEN held.items
  ELSE [s \in Slot |-> IF held.items[s] # None THEN held.items[s]
                       ELSE IF readable THEN stored[s] ELSE None]

Known(readable) == readable \/ held.mode = "whole"

\* storeQueue: never over a queue that could not be read; a refused write keeps
\* the new queue in the page.
StoreQueue(items, known, writable) ==
  IF known /\ writable THEN stored' = items /\ held' = NotHeld
  ELSE /\ UNCHANGED stored
       /\ held' = IF ~known /\ items = Empty THEN NotHeld
                  ELSE [mode |-> IF known THEN "whole" ELSE "part",
                        items |-> items]

Durable == held'.mode = "no"

Mishap == mishaps < MaxMishaps /\ mishaps' = mishaps + 1

\* The store answers, or it fails to read or to write.
Lane(readable, writable) ==
  IF readable /\ writable THEN UNCHANGED mishaps ELSE Mishap

-----------------------------------------------------------------------------
(* A capture *)

\* A composer row or a voice memo: the row goes into the Verlauf's outbox, the
\* bytes go up at once.
Capture(s) ==
  /\ row[s] = "none" /\ canWrite
  /\ row' = [row EXCEPT ![s] = "outbox"]
  /\ direct' = direct \cup {s}
  /\ shown' = shown \cup {s}
  /\ UNCHANGED <<link, queue, flush, replay, linked, closed, canWrite, loaded,
                 durable, mishaps>>

DirectLands(s) ==
  /\ s \in direct
  /\ direct' = direct \ {s}
  /\ link' = [link EXCEPT ![s] = "outbox"]
  /\ UNCHANGED <<row, queue, flush, replay, linked, closed, canWrite, shown,
                 loaded, durable, mishaps>>

\* Offline or refused: enqueueMedia.
Enqueue(s) ==
  /\ s \in direct
  /\ direct' = direct \ {s}
  /\ \E r, w \in BOOLEAN :
       /\ Lane(r, w)
       /\ StoreQueue([Items(r) EXCEPT ![s] = [st |-> "pending", n |-> 0]],
                     Known(r), w)
       /\ durable' = IF Durable THEN durable \cup {s} ELSE durable
  /\ UNCHANGED <<row, link, flush, replay, linked, closed, canWrite, shown, loaded>>

-----------------------------------------------------------------------------
(* The flush *)

IsCapture(e) == e.st \in {"pending", "failed"}

\* A flush takes the pending captures that are due, a retry every capture.
FlushStart(retry) ==
  /\ canWrite /\ ~flush.on
  /\ \E r \in BOOLEAN : \E due \in SUBSET Slot :
       /\ Lane(r, TRUE)
       /\ \A s \in due : IsCapture(Items(r)[s])
       /\ IF retry THEN \A s \in Slot : IsCapture(Items(r)[s]) => s \in due
                   ELSE \A s \in due : Items(r)[s].st = "pending"
       /\ due # {}
       /\ flush' = [on |-> TRUE, retry |-> retry,
                    ended |-> [s \in Slot |-> IF s \in due THEN "due" ELSE "-"]]
  /\ UNCHANGED <<row, link, queue, direct, replay, linked, closed, canWrite,
                 durable, shown, loaded>>

Upload(s, how) ==
  /\ flush.ended[s] = "due"
  /\ flush' = [flush EXCEPT !.ended[s] = how]
  /\ UNCHANGED <<row, link, queue, direct, replay, linked, closed, canWrite,
                 durable, shown, loaded, mishaps>>

\* Mutant: a retry goes on counting where the failed item stopped.
Settled_CountsOn(e, how) ==
  LET after == IF how = "refused" THEN e.n + 1 ELSE e.n
  IN  IF how = "landed" THEN [st |-> "uploaded", n |-> e.n]
      ELSE [st |-> IF how = "refused" /\ after >= MaxAttempts
                     THEN "failed" ELSE "pending",
            n |-> after]

\* A network drop costs no attempt; the last refusal makes the item "failed".
Settled(e, how) ==
  LET before == IF flush.retry /\ e.st = "failed" THEN 0 ELSE e.n
      after  == IF how = "refused" THEN before + 1 ELSE before
  IN  IF how = "landed" THEN [st |-> "uploaded", n |-> e.n]
      ELSE [st |-> IF how = "refused" /\ after >= MaxAttempts
                     THEN "failed" ELSE "pending",
            n |-> after]

\* Mutant: an upload that landed leaves the queue at once, without a receipt.
FlushSettle_NoReceipt ==
  /\ flush.on
  /\ \A s \in Slot : flush.ended[s] # "due"
  /\ \E r, w \in BOOLEAN :
       /\ Lane(r, w)
       /\ StoreQueue([s \in Slot |->
                        IF flush.ended[s] = "landed" THEN None
                        ELSE IF flush.ended[s] # "-" /\ Items(r)[s] # None
                          THEN Settled(Items(r)[s], flush.ended[s])
                          ELSE Items(r)[s]],
                     Known(r), w)
  /\ link' = [s \in Slot |-> IF flush.ended[s] = "landed" THEN "outbox" ELSE link[s]]
  /\ flush' = NoFlush
  /\ UNCHANGED <<row, direct, replay, linked, closed, canWrite, durable, shown, loaded>>

\* Against the queue as it is now; an upload that landed leaves a receipt.
FlushSettle ==
  /\ flush.on
  /\ \A s \in Slot : flush.ended[s] # "due"
  /\ \E r, w \in BOOLEAN :
       /\ Lane(r, w)
       /\ StoreQueue([s \in Slot |->
                        IF flush.ended[s] # "-" /\ Items(r)[s] # None
                          THEN Settled(Items(r)[s], flush.ended[s])
                          ELSE Items(r)[s]],
                     Known(r), w)
  /\ flush' = NoFlush
  /\ replay' = IF replay.pc = "off" THEN [pc |-> "asked", of |-> {}] ELSE replay
  /\ UNCHANGED <<row, link, direct, linked, closed, canWrite, durable, shown, loaded>>

-----------------------------------------------------------------------------
(* The replay of receipts *)

Receipts(items) == {s \in Slot : items[s].st = "uploaded"}

\* Mutant: a replay follows a flush only.
ReplayAgain_Unasked == FALSE /\ UNCHANGED vars

\* Every change of the Verlauf asks again while a receipt stands.
ReplayAgain ==
  /\ replay.pc = "off" /\ canWrite
  /\ Receipts(Items(TRUE)) # {}
  /\ replay' = [pc |-> "asked", of |-> {}]
  /\ UNCHANGED <<row, link, queue, direct, flush, linked, closed, canWrite,
                 durable, shown, loaded, mishaps>>

ReplayLists ==
  /\ replay.pc = "asked"
  /\ \E r \in BOOLEAN :
       /\ Lane(r, TRUE)
       /\ replay' = IF Receipts(Items(r)) = {} THEN NoReplay
                    ELSE [pc |-> "listed", of |-> Receipts(Items(r))]
  /\ UNCHANGED <<row, link, queue, direct, flush, linked, closed, canWrite,
                 durable, shown, loaded>>

\* Mutant: a row the Verlauf does not show is taken for one that does not exist.
RowKnown_AtOnce(s) == TRUE

\* rowShown has an answer.  Before the Verlauf is read and pulled, a row that is
\* not shown may be one of an earlier page.
RowKnown(s) == s \in shown \/ loaded

\* journalStatus() = "synced" as this page sees it.
Synced == \A s \in shown : row[s] # "outbox" /\ link[s] # "outbox"

\* linkUploaded for every receipt: a shown row is patched once; a row that is
\* known, and linked if it is shown, is acknowledged while the Verlauf is synced.
LinkUploaded ==
  LET toLink == {s \in replay.of : s \in shown /\ link[s] = "none" /\ s \notin linked}
      rest   == {s \in replay.of \ toLink : RowKnown(s)}
  IN
  /\ replay.pc = "listed"
  /\ link' = [s \in Slot |-> IF s \in toLink THEN "outbox" ELSE link[s]]
  /\ linked' = linked \cup toLink
  /\ \E done \in SUBSET rest :
       /\ done # {} => Synced
       /\ (toLink = {} /\ Synced) => done = rest
       /\ replay' = IF done = {} THEN NoReplay ELSE [pc |-> "retire", of |-> done]
  /\ UNCHANGED <<row, queue, direct, flush, closed, canWrite, shown, loaded,
                 durable, mishaps>>

Retire ==
  /\ replay.pc = "retire"
  /\ \E r, w \in BOOLEAN :
       /\ Lane(r, w)
       /\ LET gone == replay.of \cap Receipts(Items(r)) IN
          IF gone = {} THEN UNCHANGED queue
          ELSE StoreQueue([s \in Slot |-> IF s \in gone THEN None ELSE Items(r)[s]],
                          Known(r), w)
  /\ replay' = NoReplay
  /\ UNCHANGED <<row, link, direct, flush, linked, closed, canWrite, durable,
                 shown, loaded>>

-----------------------------------------------------------------------------
(* The Verlauf and the Einsatz around it *)

\* The device's slot is read and the server has answered a pull: every row of an
\* earlier page is shown.
LoadVerlauf ==
  /\ ~loaded
  /\ loaded' = TRUE
  /\ shown' = {s \in Slot : row[s] # "none"}
  /\ UNCHANGED <<row, link, queue, work, closed, canWrite, durable, mishaps>>

Owed == {s \in Slot : row[s] = "outbox" \/ link[s] = "outbox"}

\* The outbox is delivered, once the slot has been read.  A closed Einsatz refuses
\* live observations only: the row of a picture or a memo and its patch are record.
Deliver ==
  /\ loaded /\ Owed # {}
  /\ row' = [s \in Slot |-> IF row[s] = "outbox" THEN "sent" ELSE row[s]]
  /\ link' = [s \in Slot |-> IF link[s] = "outbox" THEN "sent" ELSE link[s]]
  /\ UNCHANGED <<queue, work, closed, canWrite, shown, loaded, durable, mishaps>>

\* The Einsatz is archived, or opened again, by another device ...
CloseElsewhere ==
  /\ ~closed /\ Mishap
  /\ closed' = TRUE
  /\ UNCHANGED <<row, link, queue, work, canWrite, shown, loaded, durable>>

Reopen ==
  /\ closed
  /\ closed' = FALSE
  /\ UNCHANGED <<row, link, queue, work, canWrite, shown, loaded, durable, mishaps>>

\* ... and this page learns of it when it learns of it.
LearnLifecycle ==
  /\ canWrite = closed
  /\ canWrite' = ~closed
  /\ UNCHANGED <<row, link, queue, work, closed, shown, loaded, durable, mishaps>>

\* The Abschluss of this device drops the queue only when nothing waits in it.
CloseHere ==
  /\ ~closed /\ canWrite /\ ~flush.on /\ Mishap
  /\ closed' = TRUE /\ canWrite' = FALSE
  /\ \E r \in BOOLEAN :
       stored' = IF Items(r) = Empty /\ Known(r) THEN Empty ELSE stored
  /\ UNCHANGED <<row, link, held, work, durable, shown, loaded>>

\* The page is gone, and with it a patch that had not reached the device's store.
Crash ==
  /\ Mishap
  /\ held' = NotHeld
  /\ direct' = {} /\ flush' = NoFlush /\ replay' = NoReplay /\ linked' = {}
  /\ canWrite' = ~closed
  /\ shown' = {} /\ loaded' = FALSE
  /\ \E lost \in SUBSET {s \in Slot : link[s] = "outbox"} :
       link' = [s \in Slot |-> IF s \in lost THEN "none" ELSE link[s]]
  /\ UNCHANGED <<row, stored, closed, durable>>

-----------------------------------------------------------------------------
Next ==
  \/ \E s \in Slot : Capture(s) \/ DirectLands(s) \/ Enqueue(s)
  \/ \E retry \in BOOLEAN : FlushStart(retry)
  \/ \E s \in Slot, how \in {"landed", "offline", "refused"} : Upload(s, how)
  \/ FlushSettle \/ ReplayAgain \/ ReplayLists \/ LinkUploaded \/ Retire
  \/ LoadVerlauf \/ Deliver \/ CloseElsewhere \/ Reopen \/ LearnLifecycle
  \/ CloseHere \/ Crash

Spec == Init /\ [][Next]_vars

\* The retry timer and the flush go on, and so do the replay and the Verlauf's
\* loading and delivery; an upload that is tried again and again lands once.  The
\* steps under one WF exclude one another.
FairSpec ==
  /\ Spec
  /\ WF_vars(FlushStart(FALSE) \/ FlushSettle)
  /\ WF_vars(ReplayAgain \/ ReplayLists \/ LinkUploaded \/ Retire)
  /\ WF_vars(LoadVerlauf \/ Deliver)
  /\ \A s \in Slot : SF_vars(Upload(s, "landed"))

-----------------------------------------------------------------------------
(* Properties *)

\* A capture the device said it had stored outlives every crash, failed store,
\* half-done flush and early replay: it is in the stored queue, its bytes or the
\* receipt that names their URL, until its link is delivered with the Verlauf.
NoCaptureLost == \A s \in durable : stored[s] # None \/ link[s] = "sent"

\* A stored capture goes up, is linked and leaves the queue, unless the server
\* keeps refusing it or the page may not write: no receipt waits for a replay
\* nobody asks for.
EveryCaptureRetires ==
  \A s \in Slot :
    (s \in durable)
      ~> (Items(TRUE)[s].st \in {"none", "failed"} \/ ~canWrite)

=============================================================================
