# Verification of KP Front: the record of an incident, its sync and what surrounds it

KP Front is the command-post application of a fire brigade: tablets and laptops at an incident
edit one *Lage* (tactical objects, Trupps under breathing apparatus, plans, an attendance list …)
and must keep working with no network at all. The Lage of one incident is a single JSON blob, the
*workspace*. Every device holds a copy, edits it locally, and pushes it to a server that stores it
under a revision number; the devices meet by compare-and-swap and a three-way merge. What can go
wrong here is not seen in a demo: an edit marked as synced that was never sent, an object that one
device's merge reads as "deleted", a late answer that overwrites newer work. Beside the workspace run
the journal (*Verlauf*) with an outbox of its own, the media queue, the lock between the tabs of one
browser and the relay that prints the Rapport at the station: the same kind of machinery, each with a
promise of its own. This directory holds TLA+ modules of it, TLC runs on small instances, and TLAPS
proofs for all instances.

Paths are relative to the repository, whose own top directories appear as `src/src` (frontend) and
`src/backend` (server).

- [1 Inventory](#1-inventory) · [2 Modules](#2-modules) · [3 Runs](#3-runs-and-what-they-show) ·
  [4 Fairness](#4-fairness) · [5 Proofs](#5-proofs) · [6 Disagreements found](#6-disagreements-found) ·
  [7 Limits](#7-what-is-abstracted-and-what-is-left-out) · [8 Plan](#8-plan) · [9 Running it](#9-running-it)

## 1 Inventory

### Components that carry the record of an incident

| Component | Code | State it keeps | Operations | What makes it correct |
|---|---|---|---|---|
| Workspace sync engine | `src/src/lib/api/workspaceSync.ts` | the cache entry (workspace, merge ancestor `base`, its revision, `dirty`, the slice that made it), `saveSeq`, the flush in flight, timers, IndexedDB slots (main, role, owner, orphan, refused) | `init`/`open`, `save`, `flush`/`drain`/`pushCurrent`, `resolveConflict`, `adoptServer`, `flushKeepalive`, `dispose`, park and requeue | the ancestor is the server's blob of the revision it names; nothing is marked synced that was not sent; a push reverts nobody else's work; what is cached is not lost |
| Incident view and live follow | `src/src/lib/useIncidentSync.ts` | the state on screen, what was last handed to the engine, the follower's revision | every change → `save`; hidden tab/pagehide/unmount → beacon; held poll → adopt | the screen and the engine's entry stay one; an answer never replaces an edit made while it was under way |
| Three-way merge | `src/src/lib/mergeWorkspace.ts` | none (pure) | `mergeWorkspace`, `mergeById`, `mergeRecord`, field resolvers | deletes beat edits, additions survive, other people's changes are kept, every device converges |
| Server save path | `src/backend/app/incident_service.py`, `api/incidents.py`, `api/alarms.py`, `api/capture.py` | the blob, `workspace_rev`, audit snapshots | PUT full/slice, GET, machine writes | compare-and-swap: no lost update; a slice stores only its keys |
| Long poll and wake-up | `src/backend/app/live_wait.py`, `api/incidents.py` (GET workspace), `src/src/lib/useIncidentSync.ts` (the round) | waiters and recent writers per incident, in memory; `rev`, `liveRev`, the lifecycle claim | subscribe, read, park, wake, time out; the bodyless answer to a device's own saves | nobody sleeps through a commit; nobody counts as seen what it has not; everybody catches up without a time-out |
| Incident switching | `src/src/App.tsx`, `useIncidentLifecycle.ts` | the open incident, `syncRef`, `selectReq`, the mounted view | `selectIncident`, `undoTake`, `escapeToLanding`, `backFromArchive`, `completeRapport` | one engine writes; the newest tap wins; the screen shows the open incident; edits are taken |
| Closed-incident lifecycle | `incidentClosed.ts`, `reopenClocks.ts`, `workspaceSync.ts` (park, requeue) | refused slot, build stamp | close/reopen racing saves, `parkRefused`, `requeueRefused` | a closed record does not change; refused work is kept and replayed once |
| Journal outbox | `src/src/lib/journalStore.ts`, `useJournal.ts`, `src/backend/app/api/journal.py` | the store of each tab (outbox, refused, dead letters, rows, cursor), the shared IndexedDB slot, the page's hand-offs; the server's rows by `seq` | `hydrate`, `append`, `flush` (batch and single mode), `retry`, `requeueRefused`, `pull`, beacon, `dispose`, promotion | a row is recorded once and never silently lost; a bad row does not hold up the others; readers miss nothing |
| Tab lock | `src/src/lib/tabLock.ts` over the browser's Web Locks | the lock and its line (browser), a generation and a running hold per tab | `acquire`, `hold`, `takeOver`, `stop` | two tabs edit for no longer than a notice needs; nobody edits on without having re-read the slot; a waiting tab is promoted |
| Media queue | `src/src/lib/mediaQueue.ts`, `useMediaQueue.ts`, `useRowMediaUpload.ts`, `workspace/useMediaOutbox.ts` | the stored queue, what the page holds when the store fails, receipts | enqueue, flush, retry, replay, link, retire, clean-up at the close | a picture or memo said to be stored reaches its row |
| Print relay | `src/backend/app/api/print_relay.py`, `components/ReportPreflight.tsx`, `lib/printJobToast.ts` | job rows, an in-process event, the Rapport's outstanding job and its stamp | queue, claim by long poll, status, cancel, sweep; head and toast polls | a job is printed once; «Rapport erstellt» means paper |
| Audit event outbox | `auditEventStore.ts`, `api/events.py` | local queue, acknowledged ids | append, push in order, retry | as the journal |
| Trupp numbers | `truppNumbers.ts` | high-water mark, claims | claim, resolve, renumber | one holder per number on every device |

### How they interact

The view calls `save()` synchronously with every change. The engine writes its entry to IndexedDB
(debounced), and pushes it (debounced) with one awaited PUT at a time; a 409 makes it GET, merge
against the ancestor, PUT the union, and hand the union back to the view by callback. The view's
long poll brings other devices' revisions and calls `adoptServer`. The App creates and disposes
engines when the incident changes; a disposed engine's awaited requests still return. IndexedDB is
shared between an engine and its successors: the cache is how unsynced work survives a page.

The tab lock decides which of a browser's tabs may write the journal's slot; its promotion makes the
store read the slot again. A picture's row is in the journal and its bytes in the media queue; when
the upload has landed, a patch of the row links the two. A closed incident refuses the live
observations made after its close (Trupps, symbols, layers, vehicles), which reopening sends again; the
row of a picture or a memo, its patch and its upload are record and still taken, but a page that knows of
the close neither uploads nor replays until the incident is open again. The Rapport's sheets go to the
relay, whose answers, polled by the Rapport head and by a toast, earn the stamp that offers the close.

### What is hard

- **Await points.** Everything between two `await`s is atomic (one JavaScript thread); everything
  across one is not. Every action of the modules is one such block, and every answer is a separate
  action, so that saves, hidden tabs and other devices fall between any two.
- **Lost and late messages.** A PUT can land without its answer; a teardown beacon can arrive after
  the next page has pushed; a flush the App has forgotten finishes later.
- **Crashes.** A page can die between a save and its cache write, or between a merge and its PUT.
- **Storage that fails.** The journal's and the media queue's slots can be unreadable or full for a
  while; what is not durable must be said not to be.
- **Two tabs.** They share one slot, and the lock's callbacks reach them late.
- **Commit and wake-up.** The server's events fire before or after the commit they announce.
- **Bounded retries** (`CONFLICT_ATTEMPTS`) that give up half-way.
- **Roles.** A device signed in for less (an Atemschutz link) shares the slot of a wider session.
- **Liveness.** A dirty device skips its polls; if nothing pushes it, it neither gives nor takes.

`PROJECT.json` lists these hazards at their lines, with the properties that watch over each, and the
components that are not modelled, each with its reason (a protocol of its own, pure rendering,
external services, nightly jobs).

## 2 Modules

```
WorkspaceMerge ── WorkspaceMerge_proofs          the merge of one blob
      │
WorkspaceSync ── MC_WorkspaceSync                one incident: server, devices, cache, poll
      │
WorkspaceSyncHistory ── MC_WorkspaceSyncHistory  the same, with who did what to an object
                     └─ WorkspaceSync_proofs     about both

IncidentSwitch ── IncidentSwitch_proofs          one device moving between incidents
LiveFollow     ── LiveFollow_proofs              the long poll, server and device
TabLock        ── TabLock_proofs                 the lock between tabs
Journal ⇒ Verlauf, Journal_proofs                outbox and journal; what they promise (refinement)
MediaQueue     ── MediaQueue_proofs              captures, their uploads and links
PrintRelay     ── PrintRelay_proofs              the station's print queue
```

Each of the latter has an `MC_` module that names its model values. The modules meet where their
subjects do: `LiveFollow` opens the one step that is `PollServed` and `PollAnswered` in
`WorkspaceSync`; `Journal` takes the lock as one variable, `holder`, whose changes reach the tabs late
(`Told`), which is what `TabLock` shows of the real one; `MediaQueue` sees of the journal the state of
a row and of the patch that links it.

### WorkspaceMerge

A blob is a function from object ids to contents, with `Absent` for an id it does not hold: every
id-keyed collection and every record of the real blob is such a function. `Survives` is the decision
of `mergeById` for one id, `RecordEntry` that of `mergeRecord`, written in that function's own order
of tests; a theorem says that they agree. `LandedSlice` is what a slice push leaves on the server
(and `landedSlice`, what the engine takes as its new ancestor).

### WorkspaceSync

One server and any number of devices at one incident.

| Variable | Code |
|---|---|
| `rev`, `hist` | `workspace_rev` and the blob of every revision (the audit snapshots keep them). An answer that carries a blob is just the revision it was read at. |
| `entry` | the engine's `CacheEntry` |
| `view` | the state the incident view renders and hands to `save()` |
| `cache`, `parked` | the main and the role slot in IndexedDB |
| `slice` | what the session's push route takes; `Obj` for an editor |
| `step`, `sent`, `seqMark`, `mine0`, `lastMerged`, `attempt`, `ansRev` | the flush in flight: the locals of `pushCurrent` and `resolveConflict` that live across an `await` |
| `poll`, `pollRev` | the round of the live follow |
| `unarmed` | reopened with unsynced work and no timer armed to push it |
| `strays` | requests nobody awaits: beacons, and PUTs whose page or caller is gone |
| `removed`, `touched`, `torn` | history, for the properties |

| Action | Code |
|---|---|
| `Save` | `useIncidentSync`'s persistence effect and `save()` |
| `Open`, `OpenAnswered`, `OpenUnanswered` | `open()`: the cache read (and `mustParkForRole`), the answer, the offline fallback |
| `Flush`, `PushAccepted`, `PushConflict` | `drain` and `pushCurrent` around their PUT |
| `MergeAndPush`, `MergeAccepted`, `MergeConflict` | `resolveConflict` around its GET and its PUT, with the rebase of edits made meanwhile and the give-up (`preservePendingMerge`) |
| `LinkFails` | the catch of each of these; the request may still be served |
| `ServerPut`, `ServerGet`, `ServerStray`, `MachineWrite` | the server: compare-and-swap, read, a late request, a write of its own |
| `PollAsk`, `PollServed`, `PollAnswered` | the held poll and `adoptServer`/`hydrate` |
| `Nudge` | `online`, the server reachable again, a manual sync |
| `CacheTimer`, `Hide`, `Close`, `Crash` | the cache debounce, `flushKeepalive`, `dispose`, and the end of a page without either |

`WorkspaceSyncHistory` adds observers (who added, wrote and deleted each object, how often it was added,
and its newest setting) for the two properties about whose work stands. It changes no behaviour: its
next-state relation is that of `WorkspaceSync` with the observers read off the change.

### IncidentSwitch

One device, `selectIncident` and the two ways out that do not open another incident. A call of
`selectIncident` and the engine it makes carry the same number, the value `selectReq` gave the call.

| Variable | Code |
|---|---|
| `activeId`, `syncRef`, `mounted`, `shows` | the App's state: the open incident, `syncRef.current`, the engine the view on screen was rendered with, whose workspace that view holds. `syncRef` is a ref, so `mounted` follows it only when something renders. |
| `selectReq`, `call` | the request counter, and where every call stands: awaiting the old engine's flush, `getIncident`, `init()`, done, rejected |
| `engine` | every engine: its incident, whether it is disposed, the edits it owes and those in the request in flight, whether another flush was asked for, a due cache write |
| `resuming` | a flush just settled: its awaiters run, in order, before any other event (microtasks) |
| `slot`, `server` | unsynced edits in an incident's cache entry, and the edits the server has |
| `undoing` | `undoTake` awaits the archive request |
| `accepted`, `dropped`, `lateWrite` | history |

Actions: `Tap` (`selectIncident` up to its first `await`), `Resume` (one continuation after the
flush), `MetaAnswered`, `InitAnswered`, `CallFails`, `UndoTake`, `UndoArchived`, `UndoFails`,
`Escape`, `Render`, `EditScreen` (`save()` of the engine behind the mounted view), and the engine's
own `CacheTimer`, `Flush`, `Conflict`, `Accepted`, `FlushFails`. Inside an engine an edit is an id
that is owed; what a flush does to the blob is the business of `WorkspaceSync`.

### LiveFollow

The held GET of one incident. A revision stands for what its save changed, so the document at revision
r holds 1..r, and a device "has" a revision if it shows it or wrote it.

| Variable | Code |
|---|---|
| `saves`, `running`, `quiet` | the row: the writer of each revision, the lifecycle; the revisions another process wrote, which wakes nobody here |
| `hooks`, `writes` | after-commit callbacks still to run; `live_wait`'s record of the newest writers, `Kept` long |
| `poll`, `put` | a device's request for news, through `asked`, `looked`, `parked`, `read`, `answered`; its save |
| `rev`, `liveRev`, `shown`, `dirty`, `edited`, `believed`, `viewers` | the engine's revision, the follow's, what is on screen, what is owed, the lifecycle it takes for true, who only reads |

Actions: `AfterCommit`, `ServerWrites`, `OtherProcess`, `Lifecycle`, `Restart`, `TimeOut` on the server;
`Edit`, `Push`, `Save`, `Saved`, `Merged`, `PutLost` for a save; `Ask`, `Look` (subscribe, then read),
`Park`, `Wake`, `Answer` (with `OnlyOwn`: no body if all the news is the asker's), `Heard`, `Abort`.

### Journal and Verlauf

The journal of one incident on one browser profile. A task of the page is one step, the persist it
asks for included; the server's rows are a sequence (`log`), other devices write to it as well.

| Variable | Code |
|---|---|
| `log`, `era`, `made`, `denied` | rows by `seq`; closes and reopens so far; the era of a row's timestamp, by which a closed incident takes or refuses it; rows of the batches turned down |
| `slot`, `diskFull` | the IndexedDB value of the identity; do writes fail? |
| `store`, `reading`, `early`, `handoff` | a tab's `JournalStore`; the hydration's read in flight; `preHydrationAppends`; `hydrationHandoffs` |
| `post`, `page`, `strays` | the POST a flush awaits; the pulled page about to be adopted; batches nobody awaits |
| `holder` | the tab that has the lock |
| `forgone`, `raced` | rows that died with a tab that had said they were not stored; has the slot been written by a tab without the lock, or from a read made before it? |

Actions: `Open`, `Grant`, `TakeOver`, `Told`, `Hydrate` (`mergePersisted` is `Merged`), `Reread`,
`Leave`, `Crash`; `Write`, `Flush`, `Answered` (a batch that is turned down goes on row by row:
`Alone`, `Refused`, `DeadLettered`), `Lose`, `Beacon`, `Retry`, `Requeue`, `Pull`, `Adopt`;
`ServerTakes`, `StrayArrives`, `OtherDevice`, `Lifecycle`; `Disk`.

`Verlauf` is the promise in the header of `journal.py`, in two actions: the record is extended at its
end by rows it does not hold, and a reader's cursor only passes rows it has got (or the reader starts
over from nothing). `V == INSTANCE Verlauf WITH …` maps the record to `log` and a reader to a tab's
store; `ImplementsVerlauf` is checked as a property and proved (`Refinement`, section 5). Verlauf says
nothing of outboxes, refusals, single mode, slots or tabs: that all of these stutter or extend is the
content of the refinement.

### TabLock

| Variable | Code |
|---|---|
| `lock`, `queue`, `inbox` | the browser: who has the lock, who waits, what a tab is still to be told, in order |
| `open`, `generation`, `hold`, `held`, `out` | the tab: mounted, `generation`, the hold that runs, the hook's state (true until told), turned away |

Actions: `Open`, `Granted`, `Unavailable`, `Stolen`, `Rejected` (the callbacks; one of a generation
that has passed does nothing, or gives the lock back), `TakeOver`, `Stop`, `Close`, `Reject`. The
browser's part (`PassOn`, `WaitInLine`, `Others`, `Deliver`) is external, from the Web Locks contract
the code relies on.

### MediaQueue

| Variable | Code |
|---|---|
| `stored`, `held` | the IndexedDB value per capture: pending with its refusals, failed, or uploaded (a receipt); `unstored`, and whether it is the whole queue or what the page knows beside one it could not read |
| `direct`, `flush`, `replay`, `linked` | first uploads in the air; a flush's snapshot and how each attempt ended; a replay of the receipts; links made in this session |
| `row`, `link` | the capture's row and its patch in the journal: none, outbox, sent |
| `shown`, `loaded` | the rows this page's Verlauf shows; whether it has been read and a pull answered |
| `closed`, `canWrite` | the incident on the server; what this page knows of it |
| `durable` | history: captures said to be stored |

Actions: `Capture`, `DirectLands`, `Enqueue`; `FlushStart`, `Upload`, `FlushSettle`; `ReplayAgain`,
`ReplayLists`, `LinkUploaded`, `Retire`; `LoadVerlauf`, `Deliver`; `CloseElsewhere`, `Reopen`,
`LearnLifecycle`, `CloseHere`; `Crash`. A step of the edit lane may find the store unreadable or
unwritable (`Lane`). `Deliver` sends whatever the outbox holds, whether the incident is open or closed:
rows of kind `photo` and `audio` and their patches are never refused.

### PrintRelay

Every database statement is a step of its own under READ COMMITTED, so a handler that reads a row and
then updates it is two actions (`SelectOldest`/`Claim`, `ReportReads`/`ReportWrites`,
`CancelReads`/`CancelWrites`).

| Variable | Code |
|---|---|
| `row`, `ready` | `PrintJob.status`, before the commit as well; `_job_ready` |
| `agent`, `cancel` | where a claim loop and a cancel stand, with the tries of the agent's status call |
| `rapport`, `shown`, `settled`, `owed`, `following`, `answers` | `reportMeta` (the outstanding job, who earned the stamp), its value of the last render, `settledJobsRef`, ids on their way back, toasts that poll, reads on their way back |
| `handed`, `finished` | history: claims of a job; jobs reported printed |

## 3 Runs and what they show

Two devices and two objects are the least that lets one device's merge misread another's object; two
merge attempts (`ConflictAttempts = 2`, the code has 4) are the least that has both a re-merge and a
give-up. The budgets below bound edits, machine writes, failed requests and teardowns over a whole
behaviour; every interleaving within them is explored. `CHECK_DEADLOCK FALSE` stands in the
configurations of systems that have nothing to do once their budgets are spent; `print_relay` and
`print_agents`, whose agents poll for ever, are checked for deadlock.

| Run | Bounds | Properties |
|---|---|---|
| `sync_edits` | 2 editors, 2 objects, 2 contents, 3 edits, no faults | `TypeOK`, `AncestorOnServer`, `CleanIsOnServer`, `PushesOwnChangesOnly`, `DeleteWins` |
| `sync_faults` | 2 editors, 2 objects, 2 edits, 1 failed request, 1 teardown | `ViewIsEntry`, `NoWorkLost`, `VanishesOnlyIfRemoved` |
| `sync_sessions` | d1 may come back with a slice session; 1 edit, 1 machine write, 1 teardown; with liveness | `AncestorOnServer`, `CleanIsOnServer`, `NoWorkLost`, `Converges` |
| `switch` | 2 incidents, 3 calls, 2 edits, 1 failed request, 1 undo or escape | `TypeOK`, `OneWriter`, `NeverOlderTap`, `WorkHeldInOrder` |
| `live_follow` | 1 device beside the server's own writer, 2 saves, `Kept` 1, 1 fault, 1 close or reopen, 1 write of another process | `TypeOK`, `HasWhatItPasses`, `NoneSleepsOnNews`, `FollowersCatchUp` |
| `journal_outbox` | 1 tab opened twice, 2 rows (one refused while closed, one bad), 1 lost request, 1 failed read, full disk, 1 close | `TypeOK`, `NoSilentLossInOrder`, `ImplementsVerlauf` |
| `journal_tabs` | 2 tabs, 1 row, 1 row of another device, 1 take-over | `NoSilentLossInOrder`, `ImplementsVerlauf` |
| `journal_delivery` | 1 tab, 2 rows as above, close and reopen, 1 lost request; liveness | `EverySent`, `EveryoneFollows` |
| `tab_lock` | 3 tabs, 3 mounts, 2 take-overs, 1 rejected request; liveness | `TypeOK`, `BeliefIsCorrected`, `ToldBeforeAgain`, `OneEdits` |
| `media_queue` | 2 captures, 1 refusal until "failed", 2 mishaps (failed read or write, crash, close), reopenings; liveness | `TypeOK`, `NoCaptureLost`, `EveryCaptureRetires` |
| `print_relay` | 2 jobs, 1 agent, 2 mishaps (cancel, sweep, lost answer, failed request, stopped agent, silent toast); liveness | `TypeOK`, `StampMeansPaper`, `HeadLetsGoKnowingly`, `EveryJobLeavesQueue` |
| `print_agents` | 2 jobs, 2 agents, 1 mishap as above | `HandedOutOnce` |

- Three edits are an addition on one side, another on the other and a change or delete of either;
  the two contents tell "the object" from "what I wrote in it". One fault and one teardown already
  give lost answers, beacons served late, torn cache writes, crashes between any two steps and a
  reopening.
- Three calls of `selectIncident` are the least in which one call overtakes two: the first opens an
  incident with work in it, the other two race. Three tabs are the least in which a thief is robbed
  while a third one waits.
- One device suffices in `live_follow` since the devices meet only in the server's record, and the
  server's own writer stands for the others; that nothing depends on it is what its theorems show. With
  `Kept = 1` the record of writers already overflows at the second save.
- Two mishaps in `media_queue` are a failed write and the crash that makes it matter, or a close beside
  either; that more of them change nothing for `NoCaptureLost` is what its theorem shows. Two agents in
  `print_agents` are the least whose claims meet on the same oldest job; liveness is checked with one.
- A row refused while closed and a bad one are the two ways a batch is turned down; together they need
  single mode, which needs a batch of two.

Workspace and switching:

- `AncestorOnServer`: every merge's notion of "deleted" rests on the ancestor being exactly the
  server's blob of its revision, through lost answers, slices, re-merges and reloads.
- `CleanIsOnServer`: an entry that says nothing is owed *is* the server's blob in all its session
  could push.
- `PushesOwnChangesOnly`: no request in flight differs from the revision it is made on in an object
  its own user never changed.
- `DeleteWins`: at rest, an object that was added once and that anybody but its maker deleted is gone,
  whoever edited it before, after or meanwhile.
- `ViewIsEntry`: with no flush in flight the screen is the entry, so the next save cannot delete what
  the screen lacks.
- `NoWorkLost`, `VanishesOnlyIfRemoved`: durable work stays durable, an object leaves the server only
  by a delete. Both exempt behaviours in which a cache write or a beacon took a half-rebased entry
  (section 6, 3 shows that the exemption is needed).
- `Converges`: once edits stop, every device ends up clean, at the server's revision, showing its
  blob, or waits with reopened unsynced work for somebody to ask for a flush (section 6, 4).
- `OneWriter`, `NeverOlderTap`: only the engine in `syncRef` may push; when all calls are through no
  older tap's incident is open.
- `WorkHeldInOrder`: an accepted edit is on the server, in the cache or with the current engine, as
  long as no engine that is out of the ref wrote a cache slot (section 6, 8).

The long poll:

- `HasWhatItPasses`: the follow's cursor passes no revision the device does not have, although the
  bodyless answer moves it past revisions whose own answer is lost or still out.
- `NoneSleepsOnNews`: a parked request for which there is news has been woken, or the callback that
  wakes it is about to run, whichever way subscribing, reading, committing and notifying interleave.
- `FollowersCatchUp`: everybody shows every save and knows whether the incident runs, and no held
  request has to time out for it. What another process wrote is exempt: it notifies nobody here.

The journal:

- `NoSilentLossInOrder`: a row that was written is in the record, in the slot, handed to the page's next
  store, or its tab says that its rows are not stored. Exempt are behaviours in which a tab wrote the
  slot without having the lock, or from a read older than it (section 6, 9).
- `ImplementsVerlauf`: at-least-once delivery, batches, retries, beacons and a second tab leave an
  append-only record without duplicates, and no cursor passes a row its reader has not got.
- `EverySent`: lost requests, refusals while closed, a full disk and a bad row ahead only delay a row.
- `EveryoneFollows`: an open tab gets every row, other devices' too.

Tabs, media, printing:

- `BeliefIsCorrected`: a tab that wrongly takes itself for the editing one has the notice that will
  correct it on its way. `ToldBeforeAgain`: nobody gets the lock back without having heard that it was
  gone (the store re-reads the slot on that change only). `OneEdits`: once all callbacks are in, one tab
  edits, unless the browser turned every open one away.
- `NoCaptureLost`: a capture said to be stored is in the stored queue, its bytes or its receipt, until
  its link is delivered with the Verlauf, without exception: through crashes, failed stores, half-done
  flushes and replays on a page that has not loaded the row yet. `EveryCaptureRetires`: it leaves the
  queue, unless the server keeps refusing it or the page may not write.
- `HandedOutOnce`: of two agents that have read the same oldest job, the claim's conditional UPDATE gives
  it to one. `StampMeansPaper`:
  «Rapport erstellt» is earned by a job an agent reported printed, whichever of toast, head and cancel
  answers first. `HeadLetsGoKnowingly`: a late answer about another job never clears the outstanding
  one. `EveryJobLeavesQueue`: the event is set before the commit, and a claim it wakes too early still
  comes back.

Each property of the passing runs is also checked to fail on a plausible bug in the code it speaks of:
the definitions commented `(broken: …)` or `Mutant: …` are those bugs, and `PROJECT.json` names which
breaks which.

## 4 Fairness

Nowhere is anything assumed of users, of machines, of failures, or of requests nobody awaits. What is
assumed is that code goes on which runs by itself:

- `WorkspaceSync`: weak fairness of `Protocol(d)` for every device: opening what the App has open, the
  debounce and backoff timers that flush a dirty entry, the answers of an up and reachable server, the
  poll's rounds. It takes for granted that a closed incident is opened again and that the link holds
  long enough. Weak fairness of the disjunction suffices because a device's protocol is a cycle in which
  every enabled step makes progress; two devices that keep refusing each other's PUT do not occur
  without an endless supply of edits.
- `LiveFollow`: the after-commit callbacks, a device's save and its rounds. That a parked request times
  out is **not** assumed: everything must be told by a wake-up.
- `Journal`: hydration and its retry, the lock's grant and notices, flush, answers, the poll round's pull
  and its `requeueRefused`. That the disk recovers is not assumed.
- `TabLock`: the browser delivers what it has to say.
- `MediaQueue`: the retry timer and flush, the replay, and the Verlauf's loading and delivery, each of
  which runs by itself; and strong fairness of one
  thing, that an upload tried again and again lands once. A server that answers offline or refuses every
  time is outside what the property promises.
- `PrintRelay`: request handlers run to their end, the recheck timer fires, an agent polls when it has
  nothing to do and finishes a job it was given, unless it stops. Neither the sweep nor a tap is assumed.

`IncidentSwitch` states no fairness: its properties are safety.

## 5 Proofs

TLAPS checks every theorem for any set of devices, objects, contents, session slices, incidents, tabs,
rows, captures, jobs and agents, and for every bound. Every inductive invariant below was given to TLC
first, as an invariant of the runs' instances. The assumptions are the modules' named `ASSUME`s: `Absent` is no content,
`Null`/`None` no value they are told apart from, sessions push a non-empty slice, bounds are natural
numbers and `ConflictAttempts` is positive.

**`WorkspaceMerge_proofs`**: what the merge promises on every input. Deletes beat edits, additions
survive, an object vanishes only by a delete, the union differs from the server's copy only where
this device changed something, also when it is refused and merged again; `mergeRecord` is `mergeById`.

**`WorkspaceSync_proofs`**: `TypeCorrect`, `AncestorSafe`, `CleanSafe`, `ViewSafe`, all from
`Invariance == Spec => []IInv`. None of the three is inductive alone. When an answer comes the engine
sets its ancestor from what it *sent* and the revision the *answer* names, so the invariant must say
what is in flight: the request was made on the entry's ancestor and revision, with the session's keys
(`FlightInv`); while no save intervened the entry still is what was sent; and once the server accepted
it, the blob of the answered revision is `Landed(d)`. `CleanIsOnServer` needs that a clean entry
differs from its *ancestor* only in what its session could not push (`Backed`), which is stable while
the server moves on, and the stamp on unsynced entries, without which a slice session could take a
wider one's entry for its own. `ViewIsEntry` needs that between a merge and its answer, and only
there, the view may lag (`ViewInv`), which holds because every way out of a resolution passes through
`MergeAccepted` or `PreservePendingMerge`.

Two more invariants stand on this one and give the theorems about whose work stands.

- `PushOwnSafe` (`PushesOwnChangesOnly`) and `VanishSafe` (`VanishesOnlyIfRemoved`) come from `OwnInv`:
  wherever the engine keeps two states of which the second is to be sent over the first (ancestor and
  entry; the view at the resolver's start and now; revision and request in flight; cache entry; stray
  beacon), the second is `Accounted` for: it differs from the first only in objects this device's user
  touched, and lacks an object of the first only if somebody removed it. The merge keeps this
  (`WorkspaceMerge_proofs`); the rebase of edits made meanwhile does so only as long as no half-rebased
  entry was stored or sent, which is the exemption the second property names (`torn`).
- `WorkSafe` (`NoWorkLost`) comes from `KeepInv`: an object nobody removed stays in every later revision
  once it is in one (`Stays`), and whatever a device may no longer owe is on the server or parked: what an
  entry holds without owing it (`PaidUp`), what a screen shows beyond its session's slice (`Beyond`), what
  a cache entry holds and no engine carries (`Carried`). Without `Carried` a flush of the engine that
  opened the cache could clear what it never had.

`DeleteStands` (`DeleteWins`) is about `HSpec`, and has two hypotheses, `MaxFaults = 0` and
`MaxTeardowns = 0`: no request fails and no page ends (with a lost answer the property is false, section 6,
1; machine writes, sessions, edits and re-merges are not bounded by them). Its invariant `LifeInv` says of
every object added at most once:

- whatever has it without its ancestor having it (entry over ancestor, union over ancestor, screen over the
  resolver's start, request over ancestor, screen over the entry's revision) is `Fresh`: the addition itself,
  on its maker's device, before the engine has heard that the server has it (`FreshAt`). So nobody but the
  maker can put it where the server has none, and the maker only once;
- what the server had and no longer has is absent from every later revision (`StaysGone`);
- a delete by anybody but the maker is on the server already, or still owed: the deleter's entry is unsynced,
  its ancestor has the object, and what it is going to push, rebased as it will be, does not (`DeleteHeld`).

At rest nothing is owed, so the object is gone. Stating what the proof needs showed that an earlier form
of the property was too weak in one way and false in another: it spoke only of objects nobody wrote after
the delete, and did not ask that the object was added once. An undo that adds an object again starts a
second life, which a delete of the first, still under way on a third device, may or may not end.

**`IncidentSwitch_proofs`**: `TypeCorrect`, `OneWriterSafe`, `NewestWins`, from its own
`Invariance == Spec => []Inv`. The argument: the engine in the ref belongs to a call that is through
(`RefIsDone`); while the newest call asks the server the ref is empty (`NewestAlone`), because it
disposed of what it found and every other call that returns finds itself superseded; so mounting its
engine leaves no other one alive. An older call's engine is in the ref only while the newest call
still awaits a flush (`NewestTakesOver`), so at rest the ref holds the newest call's engine or none.
That the awaiters of a settled flush exist (`ResumesSome`), and that `First` picks one of them, is
the well-foundedness of the naturals. `WorkKept` (`WorkHeldInOrder`) adds where an accepted edit is as
long as no engine out of the ref has written a slot: on the server, or owed by the ref's engine, or in its
incident's slot (`EditsKept`). This is inductive only with two facts about the cache: an engine in the ref
with no cache write due has what it owes in the slot (`RefCached`), so disposing of it loses nothing, and
the slot is still what the newest call's engine read when it was made (`ReadIsSlot`), so that engine's
first write takes nothing away.

**`LiveFollow_proofs`**: `TypeCorrect`, `NothingSkipped`, `WokenByNews`, for any number of devices.
`HasWhatItPasses` is not inductive, because an answer in flight will move the cursor: the invariant says
of every stage of a request what it vouches for (`PollsFit`), that a save under way names a revision the
device has (`Passes`), and that the server's record of writers is true as far as it goes
(`RecordIsTrue`), since the bodyless answer rests on it. `NoneSleepsOnNews` must hold already for a
request that has subscribed and read but not parked, which is where an unsubscribed one would miss it.

**`Journal_proofs`**: `TypeCorrect`, `Refinement` (`ImplementsVerlauf`), `NoLoss`
(`NoSilentLossInOrder`), for any number of tabs and rows, of batches, losses and reopenings. A row is in one
place of a store only: outbox, refused, dead letters (`StoreInv`), which the merge of a slot with what was
written before it was read (`Merged`) has to preserve although both may hold the row. The refinement needs
that a store `Covers` what its cursor has passed, that a page or an answer under way covers what it would
move the cursor past (`CursorInv`), and that the record holds no row twice: then each action
extends the record at its end, or moves one reader, or stutters. `NoLoss` needs, beside it, who may
overwrite the shared slot (`LossInv`): what a store has not declared unstored is in the slot; what the lock's
holder is about to write over is its own; and a read by the holder is no older than the lock's last move.
What the filters give (`Without`, `OnlyIn`) is proved from their recursive function by taking the least
index that fails, so no induction theorem is needed; what `SetToSeq` lists comes from the library's
facts about finite sets.

**`TabLock_proofs`**: `TypeCorrect`, `BeliefCorrected`, `ToldFirst`, for any number of tabs. The
invariant is about what each tab has still to hear (`TabOK`): a grant still to be heard is the tab's
lock, or its theft is to be heard after it; a refusal still to be heard is the only current thing it is
to hear, and it neither has the lock nor waits; who waits knows that it is read-only and is to hear
nothing current; a closed tab has no part in anything. With the line holding one current request per tab
(`LineOK`) every callback preserves it.

**`MediaQueue_proofs`**: `TypeCorrect`, `CaptureKept`, for any number of captures, mishaps, closings and
reopenings. A capture is safe while the page holds the queue in memory only because what it then holds is
the *whole* queue (`HeldIsWhole`, `PartIsNew`); a receipt is retired only after its link went through
(`RetiresThrough`, `LinkedIsLinked`), which is where a page that has loaded its Verlauf must show every
row there is (`ShowsAll`); a flush settles onto entries that are still the captures it took
(`FlushFits`), and a capture is not queued before its row exists and its direct upload has ended
(`RowFirst`, `DirectIsNew`).

**`PrintRelay_proofs`**: `TypeCorrect`, `ClaimedOnce`, `StampIsEarned`, `LetsGoKnowingly`, for any number of
jobs and agents (the runs have one and two agents). Nothing leads back to "queued", so what may still be claimed
never was (`Unclaimed`); and whatever is on its way to the Rapport says no more than the row
(`AnswersAreTrue`, `CancelsAreTrue`, `DoneIsReported`), whose ends are final.

**Only model-checked**: everything that is liveness (`Converges`, `FollowersCatchUp`, `EverySent`,
`EveryoneFollows`, `OneEdits`, `EveryCaptureRetires`, `EveryJobLeavesQueue`), since liveness under fairness
and enabledness are outside what these provers do.

## 6 Disagreements found

Each is a property some line of the repository states and TLC finds violated. They are stated in their
modules and stand in no run. To see one, put its property in place of those of the named configuration,
with the constants changed as given, and run it on that configuration's module.

| | Property | Module | Configuration, and what differs |
|---|---|---|---|
| 1 | `DeleteWins` | WorkspaceSyncHistory | `sync_edits`, `MaxFaults = 1`, `Val = {"v"}` |
| 2 | `OwnWorkStands` | WorkspaceSyncHistory | `sync_edits`, `MaxEdits = 4`, `Val = {"v"}` |
| 3 | `AdditionsSurvive` | WorkspaceSync | `sync_faults`, `MaxEdits = 3`, `MaxFaults = 0` |
| 4 | `ReopenedWorkIsPushed` | WorkspaceSync | `sync_sessions`, `Sessions <- Editors` |
| 5 | `NewestTapOpens` | IncidentSwitch | `switch` |
| 6 | `EveryEditTaken` | IncidentSwitch | `switch` |
| 7 | `ScreenIsOwnIncident` | IncidentSwitch | `switch` |
| 8 | `WorkHeld` | IncidentSwitch | `switch` |
| 9 | `NoSilentLoss` | Journal | `journal_tabs`, `Row = {a, b}`, `Elsewhere = {}`, `MaxOpens = 3` |
| 10 | `ParkedWasDenied` | Journal | `journal_outbox`, `Row = {a, b, c}`, `Live = {b, c}`, `Bad = {}`, `MaxFaults = 0` |
| 11 | `CancelledWasNeverClaimed` | PrintRelay | `print_relay`, `SPECIFICATION Spec`, `MaxMishaps = 1` |

1. A PUT landed, its answer was lost, another device adopted and deleted the object; the retry's merge
   takes it for a new addition and pushes it back («a delete BEATS a concurrent edit», `mergeWorkspace.ts`).
2. An object added during the resolver's GET and taken back during its PUT comes back, because the
   rebase compares with a state from before it was added.
3. A save during the resolver's PUT leaves an entry that carries the merge's base without what the merge
   brought in; a hidden tab's beacon, or a reopened page, sends it, and another device's object is
   deleted («independent additions to different objects all survive», `mergeWorkspace.ts`).
4. Unsynced work of an earlier page is not pushed by itself when the incident is opened again with the
   server reachable («a later flush pushes it at the new rev», `workspaceSync.ts`).
5. Two taps during one slow flush end with no incident open.
6. Edits on the still visible old incident, after a tap on another, go to a disposed engine and are
   dropped.
7. After the crash escape (or an undone take) an engine that was resolving a conflict replaces the view
   of the incident opened next with its own.
8. A superseded or disposed engine writes the cache slot of its incident over a newer engine's unsynced
   entry.
9. After a take-over the robbed tab's write that is already on its way, or one of a tab that has not been
   told yet, goes over rows in the shared slot that only the other one has put there («moving editing
   between tabs is one tap, never a data race», `tabLock.ts`).
10. In single mode the refusal is read as the head row's, though the outbox may have changed its head
    while the request was out: a row the server never saw is parked
    («rows the server turned down because the Einsatz had been CLOSED», `journalStore.ts`, above
    `Persisted`).
11. `cancel_print_job` reads "queued" and then writes "cancelled" without a condition: a claim between
    the two is overwritten, and an agent prints a cancelled job («Already claimed -> 409»).

## 7 What is abstracted and what is left out

In `WorkspaceSync`:

- The blob is a set of objects with contents. Two devices' edits of *one* object: mine wins, as in the
  code without a field resolver; the resolvers for Trupps, attendance and shifts, and the singletons'
  `pick3`, are left out. So are the parts of the blob the server owns (vehicle GPS, newer board kinds).
- The incident stays open: no close, no refusals for a closed incident or an older build.
- An IndexedDB write is atomic, durable and readable. The owner and orphan slots are left out.
- The echo filter of `useIncidentSync` (`firstSave`, `skipSave`, `lastPushed`) is below the level of
  `view`: the screen's state is what `save()` gets. Answers that change nothing (304, timeout,
  `ownRev`) are stuttering steps.
- A page that ends while its PUT is awaited leaves a stray request. What its *engine* does when the
  answer arrives after all is in `IncidentSwitch`. `selectIncident`'s flush before disposing is a
  special order of `Flush` and `Close`.
- A beacon may be lost: a stray need never be served.

In `LiveFollow`: the presentation marker that rides the same poll, the timing of rounds and backoff, the
blob itself. There is one server process, as deployed; what a second one writes is `OtherProcess`.

In `Journal`: the legacy slot and the rows kept in the blob, patches and how the display folds them,
session overlays, StrictMode's revive, the link session's channel check, rows only the server observes
and the delay of IndexedDB writes (a persist is done in the task that asks for it).

In `TabLock`: nothing of the class; a browser without Web Locks has no coordination to model.

In `MediaQueue`: attachments (*Beilagen*), whose link is the workspace's; the render lag of the rows;
unmounting; two tabs with a lane each; an upload that lands twice. Rows that carry media cannot be
retracted (only the audio player's own text rows can), so `rowShown` is FALSE for good for none of them.
Reading the device's slot and the first answered pull are one step, `LoadVerlauf`, and the outbox is sent
after it; how the journal keeps its rows meanwhile is module `Journal`'s.

In `PrintRelay`: composing the sheet, the heartbeat that says "online", prewarming, who may cancel, and
the download that stamps by itself. The agent is not in this repository; its three calls are modelled
from the contract.

In `IncidentSwitch`: archived (read-only) views and `backFromArchive`, `completeRapport`, the
remembered incident and the live poll are left out; a merge that is refused again stays a merge; one
`undoTake` at a time. The start screen disables its rows while it opens an incident, but the switcher
inside an incident and its list do not, so two calls during one flush are reachable by hand.

Not modelled at all, besides what `PROJECT.json` gives a reason for (rendering, external services, nightly
jobs): the audit event outbox, which is the journal's pattern once more; the clocks of the Atemschutz
Trupps and their alarm, the undo timeline and the object visits, each a machine of its own inside one
page; and the administration and configuration pages, which are by far the most of the code's lines and
hold no protocol.

## 8 Plan

In this order:

1. `CacheSlots`: owner, role and orphan slots, slots that cannot be read or written, the signed-in
   user changing during `open()`.
2. `ClosedLifecycle`: close and reopen racing saves, `parkRefused`, `requeueRefused`, older builds,
   `completeRapport`; composed with `WorkspaceSync`'s server.
3. `IncidentSwitch`: archived views and `backFromArchive`.
4. An abstract specification of the sync, a replicated map in which every device's changes reach the
   server one at a time and nothing else does, with `WorkspaceSync` shown to implement it.
5. `TruppNumbers` and the field resolvers of `mergeWorkspace` as pure operators against reference
   definitions; the audit outbox.
6. Proofs: the refinement of item 4.

## 9 Running it

    tlc -workers 2 -config sync_faults.cfg MC_WorkspaceSync.tla    # the run's module is in PROJECT.json
    tlapm TabLock_proofs.tla

A run's module, configuration and properties are listed in `PROJECT.json` under `runs`, the theorems
under `theorems`. The longest proofs, `Journal_proofs` and
`WorkspaceSync_proofs`, take about five minutes each from nothing.
