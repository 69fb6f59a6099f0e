----------------------------- MODULE LiveFollow -----------------------------
(***************************************************************************)
(* The live follow of ONE incident's workspace: the long poll on the       *)
(* server (src/backend/app/live_wait.py, GET workspace in                  *)
(* src/backend/app/api/incidents.py) and the round of each device that     *)
(* follows (src/src/lib/useIncidentSync.ts, lib/pollBackoff.ts), next to   *)
(* its saves, whose merging is WorkspaceSync's.                            *)
(*                                                                         *)
(* A revision stands for what its save changed; the document at revision r *)
(* holds 1..r.  The after-commit callbacks of a transaction run in one go, *)
(* but after the commit: others read the new state before.                 *)
(***************************************************************************)
EXTENDS Naturals, FiniteSets, Sequences, FiniteSetsExt, Functions

CONSTANTS
    Device,         \* engines that follow, each with its writer id
    Server,         \* the writer of a revision no device saved
    Kept,           \* _WRITES_KEPT
    MaxRev,         \* bound: saves
    MaxFaults,      \* bound: lost requests and answers, restarts
    MaxLifecycle,   \* bound: closes and reopens
    MaxQuiet        \* bound: revisions another process writes

ASSUME DeviceAssumption == Server \notin Device
ASSUME BoundAssumption ==
    /\ Kept \in Nat \ {0}
    /\ MaxRev \in Nat /\ MaxFaults \in Nat /\ MaxLifecycle \in Nat /\ MaxQuiet \in Nat

VARIABLES
    saves,          \* server: the writer of each revision (the row keeps their number)
    running,        \* server: is the incident open?
    hooks,          \* server: after-commit callbacks still to run
    writes,         \* server, in memory: the newest revisions on record and their writers
    viewers,        \* the devices that may not edit (readOnly)
    poll,           \* device: its request for news, or NoPoll
    put,            \* device: its save under way, or NoPut
    rev,            \* device: the engine's revision
    liveRev,        \* device: how far the follow has come
    shown,          \* device: the saves in what it shows, its own apart
    dirty,          \* device: hasUnsynced
    edited,         \* device: has it been edited since its save went out?
    believed,       \* device: claimOpen()
    quiet,          \* history: the revisions another process wrote
    faults, lifecycle

server == <<saves, running, hooks, writes, quiet, viewers>>
engine == <<put, rev, dirty, edited>>
vars == <<server, poll, engine, liveRev, shown, believed, faults, lifecycle>>
-----------------------------------------------------------------------------
Rev == Len(saves)

NoPoll == [phase |-> "none", since |-> 0, wait |-> FALSE, claim |-> TRUE, quick |-> FALSE,
           heard |-> FALSE, rev |-> 0, running |-> TRUE, brings |-> "same"]
NoPut == [state |-> "none", rev |-> 0]

Max2(a, b) == IF a > b THEN a ELSE b

\* What the device has: a save of its own it has had since it made it.
Holds(d) == shown[d] \cup {k \in 1..Rev : saves[k] = d}

\* A device with unsynced edits asks about the lifecycle only.
Skips(d) == d \notin viewers /\ dirty[d]

Init ==
    /\ saves = <<>> /\ running = TRUE /\ hooks = {} /\ writes = [k \in {} |-> Server] /\ quiet = {}
    /\ viewers \in SUBSET Device
    /\ poll = [d \in Device |-> NoPoll] /\ put = [d \in Device |-> NoPut]
    /\ rev = [d \in Device |-> 0] /\ liveRev = [d \in Device |-> 0]
    /\ shown = [d \in Device |-> {}]
    /\ dirty = [d \in Device |-> FALSE] /\ edited = [d \in Device |-> FALSE]
    /\ believed = [d \in Device |-> TRUE]
    /\ faults = 0 /\ lifecycle = 0
-----------------------------------------------------------------------------
(* The writers.                                                            *)

\* A transaction that saves the next revision commits: its callbacks are to run.
Commit(w, records) ==
    /\ saves' = Append(saves, w)
    /\ hooks' = hooks \cup {[rev |-> Rev + 1, writer |-> w, records |-> records]}
    /\ UNCHANGED <<running, writes, viewers>>

\* _record_write: only the newest are kept.
Recorded(h) ==
    LET revs == [k \in DOMAIN writes \cup {h.rev} |-> IF k = h.rev THEN h.writer ELSE writes[k]]
    IN IF Cardinality(DOMAIN revs) > Kept
       THEN Restrict(revs, DOMAIN revs \ {Min(DOMAIN revs)})
       ELSE revs

\* Mutant: only a request that is parked already is woken (subscribed after the read).
Woken_Parked == [d \in Device |->
            IF poll[d].phase = "parked" THEN [poll[d] EXCEPT !.heard = TRUE] ELSE poll[d]]

\* notify: every request that is registered, whether it is parked yet or not.
Woken == [d \in Device |->
            IF poll[d].phase \in {"asked", "looked", "parked"} THEN [poll[d] EXCEPT !.heard = TRUE] ELSE poll[d]]

\* Mutant: every commit is put on record, also one that is no device's save.
AfterCommit_RecordsAll ==
    /\ \E h \in hooks : hooks' = hooks \ {h} /\ writes' = Recorded(h) /\ poll' = Woken
    /\ UNCHANGED <<saves, running, quiet, viewers, engine, liveRev, shown, believed, faults, lifecycle>>

\* The callbacks of one commit: the save goes on record, then the followers are woken.
AfterCommit ==
    /\ \E h \in hooks :
         /\ hooks' = hooks \ {h}
         /\ writes' = IF h.records THEN Recorded(h) ELSE writes
         /\ poll' = Woken
    /\ UNCHANGED <<saves, running, quiet, viewers, engine, liveRev, shown, believed, faults, lifecycle>>

\* cas_workspace: the alarm server's milestones, the vehicles' positions.
ServerWrites ==
    /\ Rev < MaxRev
    /\ Commit(Server, FALSE)
    /\ UNCHANGED <<quiet, poll, engine, liveRev, shown, believed, faults, lifecycle>>

\* Another process changes the document: nobody here is told.
OtherProcess ==
    /\ Rev < MaxRev /\ Cardinality(quiet) < MaxQuiet
    /\ saves' = Append(saves, Server)
    /\ quiet' = quiet \cup {Rev + 1}
    /\ UNCHANGED <<running, hooks, writes, viewers, poll, engine, liveRev, shown, believed, faults, lifecycle>>

\* Mutant: a close wakes nobody.
Lifecycle_Silent ==
    /\ lifecycle < MaxLifecycle
    /\ lifecycle' = lifecycle + 1 /\ running' = ~running
    /\ UNCHANGED <<saves, hooks, writes, quiet, viewers, poll, engine, liveRev, shown, believed, faults>>

\* A close or reopen does not move the revision, but wakes.
Lifecycle ==
    /\ lifecycle < MaxLifecycle
    /\ lifecycle' = lifecycle + 1
    /\ running' = ~running
    /\ hooks' = hooks \cup {[rev |-> 0, writer |-> Server, records |-> FALSE]}
    /\ UNCHANGED <<saves, writes, quiet, viewers, poll, engine, liveRev, shown, believed, faults>>

\* The one worker restarts: what it had in memory, and every connection, is gone.
Restart ==
    /\ faults < MaxFaults
    /\ faults' = faults + 1
    /\ hooks' = {} /\ writes' = [k \in {} |-> Server]
    /\ poll' = [d \in Device |-> NoPoll] /\ put' = [d \in Device |-> NoPut]
    /\ UNCHANGED <<saves, running, quiet, viewers, rev, dirty, edited, liveRev, shown, believed, lifecycle>>
-----------------------------------------------------------------------------
(* A device's saves.                                                       *)

Edit(d) ==
    /\ d \notin viewers /\ Rev < MaxRev
    /\ dirty' = [dirty EXCEPT ![d] = TRUE]
    /\ edited' = [edited EXCEPT ![d] = put[d] # NoPut]
    /\ UNCHANGED <<server, poll, put, rev, liveRev, shown, believed, faults, lifecycle>>

Push(d) ==
    /\ dirty[d] /\ put[d] = NoPut
    /\ put' = [put EXCEPT ![d] = [state |-> "sent", rev |-> rev[d]]]
    /\ edited' = [edited EXCEPT ![d] = FALSE]
    /\ UNCHANGED <<server, poll, rev, dirty, liveRev, shown, believed, faults, lifecycle>>

\* put_workspace: the revision it was made on must be the row's.
Save(d) ==
    /\ put[d].state = "sent"
    /\ IF put[d].rev = Rev
       THEN Commit(d, TRUE) /\ put' = [put EXCEPT ![d] = [state |-> "saved", rev |-> Rev + 1]]
       ELSE /\ put' = [put EXCEPT ![d] = [state |-> "conflict", rev |-> 0]]
            /\ UNCHANGED <<saves, running, hooks, writes, viewers>>
    /\ UNCHANGED <<quiet, poll, rev, dirty, edited, liveRev, shown, believed, faults, lifecycle>>

\* The answer follows the commit's callbacks; the engine goes on from the new revision.
Saved(d) ==
    /\ put[d].state = "saved" /\ \A h \in hooks : h.rev # put[d].rev
    /\ put' = [put EXCEPT ![d] = NoPut]
    /\ rev' = [rev EXCEPT ![d] = put[d].rev]
    /\ dirty' = [dirty EXCEPT ![d] = edited[d]]
    /\ edited' = [edited EXCEPT ![d] = FALSE]
    /\ UNCHANGED <<server, poll, liveRev, shown, believed, faults, lifecycle>>

\* The 409: the server's document is fetched, merged in place, and pushed again.
Merged(d) ==
    /\ put[d].state = "conflict"
    /\ put' = [put EXCEPT ![d] = NoPut]
    /\ rev' = [rev EXCEPT ![d] = Rev]
    /\ liveRev' = [liveRev EXCEPT ![d] = Rev]
    /\ shown' = [shown EXCEPT ![d] = 1..Rev]
    /\ UNCHANGED <<server, poll, dirty, edited, believed, faults, lifecycle>>

\* The request or its answer is lost: the engine keeps its revision and what is unsynced.
PutLost(d) ==
    /\ put[d] # NoPut /\ faults < MaxFaults
    /\ faults' = faults + 1
    /\ put' = [put EXCEPT ![d] = NoPut]
    /\ UNCHANGED <<server, poll, rev, dirty, edited, liveRev, shown, believed, lifecycle>>
-----------------------------------------------------------------------------
(* A device's round.                                                       *)

Since(d) == Max2(liveRev[d], rev[d])

\* The request registers before anything is read; a hidden tab does not ask to be held.
Ask(d, hidden) ==
    /\ poll[d] = NoPoll
    /\ poll' = [poll EXCEPT ![d] =
           [NoPoll EXCEPT !.phase = "asked", !.since = Since(d), !.claim = believed[d],
                          !.quick = Skips(d), !.wait = ~hidden /\ ~Skips(d)]]
    /\ UNCHANGED <<server, engine, liveRev, shown, believed, faults, lifecycle>>

\* _live_state: revision and lifecycle as they are now.
Fresh(d, phase) == [poll[d] EXCEPT !.phase = phase, !.rev = Rev, !.running = running]

\* What was asked is no longer of interest.
Read(p) == [p EXCEPT !.wait = FALSE, !.claim = TRUE, !.heard = FALSE]
Home(p, brings) == [p EXCEPT !.phase = "answered", !.brings = brings, !.since = 0]

Look(d) ==
    /\ poll[d].phase = "asked"
    /\ poll' = [poll EXCEPT ![d] = Fresh(d, "looked")]
    /\ UNCHANGED <<server, engine, liveRev, shown, believed, faults, lifecycle>>

\* It parks if that was nothing new for it; the database may have moved on meanwhile.
Park(d) ==
    /\ poll[d].phase = "looked"
    /\ poll' = [poll EXCEPT ![d] =
           IF @.wait /\ @.since = @.rev /\ @.claim = @.running
           THEN [@ EXCEPT !.phase = "parked"] ELSE Read([@ EXCEPT !.phase = "read"])]
    /\ UNCHANGED <<server, engine, liveRev, shown, believed, faults, lifecycle>>

Wake(d) ==
    /\ poll[d].phase = "parked" /\ poll[d].heard
    /\ poll' = [poll EXCEPT ![d] = Read(Fresh(d, "read"))]
    /\ UNCHANGED <<server, engine, liveRev, shown, believed, faults, lifecycle>>

\* LONG_POLL_TIMEOUT_S: answered from what was read before it parked.
TimeOut(d) ==
    /\ poll[d].phase = "parked"
    /\ poll' = [poll EXCEPT ![d] = Read([@ EXCEPT !.phase = "read"])]
    /\ UNCHANGED <<server, engine, liveRev, shown, believed, faults, lifecycle>>

\* Mutant: a revision that is not on record counts as the asking device's.
OnlyOwn_Unrecorded(d, since, upto) ==
    /\ upto > since
    /\ \A k \in (since + 1)..upto : k \in DOMAIN writes => writes[k] = d

\* only_own_writes
OnlyOwn(d, since, upto) ==
    /\ upto > since /\ upto - since <= Kept
    /\ \A k \in (since + 1)..upto : k \in DOMAIN writes /\ writes[k] = d

\* 304; the bodyless answer to a device that wrote all of it; or the document as it is now.
Answer(d) ==
    /\ poll[d].phase = "read"
    /\ poll' = [poll EXCEPT ![d] =
           CASE @.since = @.rev -> Home(@, "same")
             [] @.since # @.rev /\ OnlyOwn(d, @.since, @.rev) -> Home(@, "own")
             [] OTHER -> Home(Fresh(d, "read"), "document")]
    /\ UNCHANGED <<server, engine, liveRev, shown, believed, faults, lifecycle>>

\* The document is adopted, unless edits have come in meanwhile (a viewer's engine stays).
Adopted(d) ==
    /\ liveRev' = [liveRev EXCEPT ![d] = poll[d].rev]
    /\ shown' = [shown EXCEPT ![d] = 1..poll[d].rev]
    /\ rev' = IF d \in viewers THEN rev ELSE [rev EXCEPT ![d] = poll[d].rev]

\* The answer is home: what it says of the lifecycle is believed in every case.
Heard(d) ==
    LET answer == poll[d] IN
    /\ answer.phase = "answered"
    /\ poll' = [poll EXCEPT ![d] = NoPoll]
    /\ believed' = [believed EXCEPT ![d] = answer.running]
    /\ CASE answer.brings = "own" /\ ~answer.quick ->
              liveRev' = [liveRev EXCEPT ![d] = Max2(@, answer.rev)] /\ UNCHANGED <<shown, rev>>
         [] answer.brings = "document" /\ ~answer.quick /\ ~Skips(d) /\ answer.rev > rev[d] ->
              Adopted(d)
         [] OTHER -> UNCHANGED <<liveRev, shown, rev>>
    /\ UNCHANGED <<server, put, dirty, edited, faults, lifecycle>>

\* The request is lost, or the loop restarts and aborts it (hidden, online, «Jetzt
\* synchronisieren»).
Abort(d) ==
    /\ poll[d] # NoPoll /\ faults < MaxFaults
    /\ faults' = faults + 1
    /\ poll' = [poll EXCEPT ![d] = NoPoll]
    /\ UNCHANGED <<server, engine, liveRev, shown, believed, lifecycle>>

Next ==
    \/ AfterCommit \/ ServerWrites \/ OtherProcess \/ Lifecycle \/ Restart
    \/ \E d \in Device :
         \/ Edit(d) \/ Push(d) \/ Save(d) \/ Saved(d) \/ Merged(d) \/ PutLost(d)
         \/ \E hidden \in BOOLEAN : Ask(d, hidden)
         \/ Look(d) \/ Park(d) \/ Wake(d) \/ TimeOut(d) \/ Answer(d) \/ Heard(d) \/ Abort(d)

Spec == Init /\ [][Next]_vars

\* Server and devices go on, and the network delivers; that a parked request times out is
\* NOT assumed.
FairSpec ==
    /\ Spec
    /\ WF_vars(AfterCommit)
    /\ \A d \in Device :
        /\ WF_vars(Push(d)) /\ WF_vars(Save(d)) /\ WF_vars(Saved(d)) /\ WF_vars(Merged(d))
        /\ WF_vars(Ask(d, FALSE)) /\ WF_vars(Look(d)) /\ WF_vars(Park(d)) /\ WF_vars(Wake(d))
        /\ WF_vars(Answer(d)) /\ WF_vars(Heard(d))
-----------------------------------------------------------------------------
Phases == {"none", "asked", "looked", "parked", "read", "answered"}

TypeOK ==
    /\ saves \in Seq(Device \cup {Server}) /\ running \in BOOLEAN
    /\ hooks \subseteq [rev : Nat, writer : Device \cup {Server}, records : BOOLEAN]
    /\ DOMAIN writes \subseteq 1..Rev /\ \A k \in DOMAIN writes : writes[k] \in Device
    /\ quiet \subseteq 1..Rev /\ viewers \subseteq Device
    /\ poll \in [Device -> [phase : Phases, since : Nat, wait : BOOLEAN, claim : BOOLEAN,
                            quick : BOOLEAN, heard : BOOLEAN, rev : Nat, running : BOOLEAN,
                            brings : {"same", "own", "document"}]]
    /\ put \in [Device -> [state : {"none", "sent", "saved", "conflict"}, rev : Nat]]
    /\ rev \in [Device -> Nat] /\ liveRev \in [Device -> Nat]
    /\ shown \in [Device -> SUBSET Nat]
    /\ dirty \in [Device -> BOOLEAN] /\ edited \in [Device -> BOOLEAN]
    /\ believed \in [Device -> BOOLEAN]
    /\ faults \in Nat /\ lifecycle \in Nat

\* How far a device says it has come, it has: nothing another device saved is skipped, though
\* the bodyless answer moves the follow past revisions whose own answer is still out, lost, or
\* beaten by it (useIncidentSync: «the server vouched that nobody else wrote in between»).
HasWhatItPasses == \A d \in Device : 1..Since(d) \subseteq Holds(d)

\* A parked request for which there is news has been woken, or the callback that wakes it is
\* still to run: a change committed around its read costs nobody a timeout (subscribe).
NoneSleepsOnNews ==
    \A d \in Device :
        LET p == poll[d] IN
        /\ p.phase = "parked" /\ ~p.heard
        /\ p.claim # running \/ \E k \in (p.since + 1)..Rev : k \notin quiet
        => hooks # {}

\* Every device comes to show every save, and to know whether the incident runs, and no held
\* request has to time out for it - but for what another process wrote, which may wait for
\* the next change.
FollowersCatchUp ==
    []<>(\A d \in Device :
            believed[d] = running /\ (Skips(d) \/ (1..Rev) \ quiet \subseteq Holds(d)))
=============================================================================
