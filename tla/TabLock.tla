------------------------------- MODULE TabLock -------------------------------
(***************************************************************************)
(* The single-editor lock of an incident between the tabs of one browser   *)
(* (src/src/lib/tabLock.ts, IncidentTabLock and its hook) over the Web     *)
(* Locks API, which is the browser's: `lock` and `queue` are its state,    *)
(* and what it tells a tab arrives there later, in order (`inbox`).        *)
(*                                                                         *)
(* A request is <<tab, generation>>.  A tab's generation counts on over    *)
(* its mounts: a stopped instance's callbacks find it moved on, as they    *)
(* find `stopped` in the code.                                             *)
(***************************************************************************)
EXTENDS Naturals, FiniteSets, Sequences, SequencesExt

CONSTANTS
    Tab,            \* the tabs that may have the incident open
    None,           \* nobody's lock, no hold
    MaxOpens,       \* bound: mounts
    MaxTakeOvers,   \* bound: «Hier bearbeiten»
    MaxRejects      \* bound: requests the browser turns down

ASSUME NoneAssumption == None \notin Nat /\ None \notin Tab \X Nat
ASSUME BoundAssumption == MaxOpens \in Nat /\ MaxTakeOvers \in Nat /\ MaxRejects \in Nat

VARIABLES
    lock,           \* browser: the request that holds the lock, or None
    queue,          \* browser: the requests waiting for it
    inbox,          \* tab: what the browser has to tell it
    open,           \* tab: is the incident mounted?
    generation,     \* tab: generation
    hold,           \* tab: the generation whose hold() is running (release), or None
    held,           \* tab: the hook's state, "this tab edits"; true until it hears otherwise
    out,            \* tab: its request was turned down, and it waits no more
    opens, takeOvers, rejects

vars == <<lock, queue, inbox, open, generation, hold, held, out, opens, takeOvers, rejects>>

Request == Tab \X Nat
Event == [kind : {"granted", "unavailable", "stolen", "rejected"}, generation : Nat]
Tell(kind, g) == [kind |-> kind, generation |-> g]

Init ==
    /\ lock = None /\ queue = <<>> /\ inbox = [t \in Tab |-> <<>>]
    /\ open = [t \in Tab |-> FALSE] /\ generation = [t \in Tab |-> 0]
    /\ hold = [t \in Tab |-> None] /\ held = [t \in Tab |-> TRUE] /\ out = [t \in Tab |-> FALSE]
    /\ opens = 0 /\ takeOvers = 0 /\ rejects = 0
-----------------------------------------------------------------------------
(* The browser.                                                            *)

Owner == IF lock = None THEN None ELSE lock[1]

\* A tab has one request in line at most: that is the one it takes back (abort).
Others(s, t) ==
    LET mine == {i \in 1..Len(s) : s[i][1] = t}
    IN IF mine = {} THEN s ELSE RemoveAt(s, CHOOSE i \in mine : TRUE)

\* Mutant: whatever happened, the tab is told a word it does not know.
Deliver_Released(box, r, kind) == [box EXCEPT ![r[1]] = Append(@, Tell("released", r[2]))]

Deliver(box, r, kind) == [box EXCEPT ![r[1]] = Append(@, Tell(kind, r[2]))]

\* The lock is free: the first of those waiting has it.
PassOn(waiting, box) ==
    IF waiting = <<>>
    THEN lock' = None /\ queue' = <<>> /\ inbox' = box
    ELSE /\ lock' = Head(waiting) /\ queue' = Tail(waiting)
         /\ inbox' = Deliver(box, Head(waiting), "granted")

\* request(name, { signal })
WaitInLine(r, box) ==
    IF lock = None THEN PassOn(<<r>>, box)
    ELSE /\ queue' = Append(queue, r) /\ inbox' = box /\ UNCHANGED lock

\* The browser rejects a waiting request, as a departing document's.
Reject ==
    /\ rejects < MaxRejects
    /\ rejects' = rejects + 1
    /\ \E i \in 1..Len(queue) :
         /\ queue' = RemoveAt(queue, i)
         /\ inbox' = Deliver(inbox, queue[i], "rejected")
    /\ UNCHANGED <<lock, open, generation, hold, held, out, opens, takeOvers>>
-----------------------------------------------------------------------------
(* The tab.                                                                *)

\* The hook mounts, and start() tries without waiting.
Open(t) ==
    LET r == <<t, generation[t] + 1>> IN
    /\ ~open[t] /\ opens < MaxOpens
    /\ opens' = opens + 1
    /\ open' = [open EXCEPT ![t] = TRUE]
    /\ out' = [out EXCEPT ![t] = FALSE]
    /\ generation' = [generation EXCEPT ![t] = @ + 1]
    /\ IF lock = None THEN PassOn(<<r>>, inbox)
       ELSE inbox' = Deliver(inbox, r, "unavailable") /\ UNCHANGED <<lock, queue>>
    /\ UNCHANGED <<hold, held, takeOvers, rejects>>

Current(t, g) == g = generation[t]

Next1(t) == Head(inbox[t])
Read1(t) == [inbox EXCEPT ![t] = Tail(@)]
Hears(t, kind) == inbox[t] # <<>> /\ Next1(t).kind = kind

\* Mutant: a callback of a generation that has passed holds on to the lock.
Granted_StaleHolds(t) ==
    LET g == Next1(t).generation IN
    /\ Hears(t, "granted")
    /\ inbox' = Read1(t)
    /\ IF Current(t, g)
       THEN held' = [held EXCEPT ![t] = TRUE] /\ hold' = [hold EXCEPT ![t] = g]
       ELSE UNCHANGED <<held, hold>>
    /\ UNCHANGED <<lock, queue, open, generation, out, opens, takeOvers, rejects>>

\* The lock's callback: this tab edits until the hold is released.  A callback of a
\* generation that has passed returns at once, which gives the lock back.
Granted(t) ==
    LET g == Next1(t).generation IN
    /\ Hears(t, "granted")
    /\ IF Current(t, g)
       THEN /\ held' = [held EXCEPT ![t] = TRUE]
            /\ hold' = [hold EXCEPT ![t] = g]
            /\ inbox' = Read1(t)
            /\ UNCHANGED <<lock, queue>>
       ELSE /\ IF lock = <<t, g>> THEN PassOn(queue, Read1(t))
               ELSE inbox' = Read1(t) /\ UNCHANGED <<lock, queue>>
            /\ UNCHANGED <<held, hold>>
    /\ UNCHANGED <<open, generation, out, opens, takeOvers, rejects>>

\* The try failed: read-only, and in line behind the holder.
Unavailable(t) ==
    LET g == Next1(t).generation IN
    /\ Hears(t, "unavailable")
    /\ IF Current(t, g)
       THEN /\ held' = [held EXCEPT ![t] = FALSE]
            /\ WaitInLine(<<t, g>>, Read1(t))
       ELSE inbox' = Read1(t) /\ UNCHANGED <<held, lock, queue>>
    /\ UNCHANGED <<open, generation, hold, out, opens, takeOvers, rejects>>

\* Mutant: in line again without having said that the lock is lost.
Stolen_Believes(t) ==
    LET g == Next1(t).generation IN
    /\ Hears(t, "stolen")
    /\ IF Current(t, g)
       THEN /\ generation' = [generation EXCEPT ![t] = @ + 1]
            /\ WaitInLine(<<t, g + 1>>, Read1(t))
       ELSE inbox' = Read1(t) /\ UNCHANGED <<generation, lock, queue>>
    /\ UNCHANGED <<held, open, hold, out, opens, takeOvers, rejects>>

\* A held lock was stolen: read-only, and in line again (acquire(false)).
Stolen(t) ==
    LET g == Next1(t).generation IN
    /\ Hears(t, "stolen")
    /\ IF Current(t, g)
       THEN /\ held' = [held EXCEPT ![t] = FALSE]
            /\ generation' = [generation EXCEPT ![t] = @ + 1]
            /\ WaitInLine(<<t, g + 1>>, Read1(t))
       ELSE inbox' = Read1(t) /\ UNCHANGED <<held, generation, lock, queue>>
    /\ UNCHANGED <<open, hold, out, opens, takeOvers, rejects>>

\* A request never granted was rejected: it is not repeated.
Rejected(t) ==
    /\ Hears(t, "rejected")
    /\ inbox' = Read1(t)
    /\ IF Current(t, Next1(t).generation)
       THEN held' = [held EXCEPT ![t] = FALSE] /\ out' = [out EXCEPT ![t] = TRUE]
       ELSE UNCHANGED <<held, out>>
    /\ UNCHANGED <<lock, queue, open, generation, hold, opens, takeOvers, rejects>>

\* Mutant: the take-over is offered to a tab that takes itself for the editing one.
TakeOver_Always(t) ==
    LET r == <<t, generation[t] + 1>> IN
    /\ open[t] /\ takeOvers < MaxTakeOvers
    /\ takeOvers' = takeOvers + 1
    /\ generation' = [generation EXCEPT ![t] = @ + 1]
    /\ out' = [out EXCEPT ![t] = FALSE]
    /\ lock' = r /\ queue' = Others(queue, t)
    /\ inbox' = LET box == IF lock = None THEN inbox ELSE Deliver(inbox, lock, "stolen")
                IN Deliver(box, r, "granted")
    /\ UNCHANGED <<open, hold, held, opens, rejects>>

\* takeOver(), from the read-only banner: out of the line, and the lock is stolen.
TakeOver(t) ==
    LET r == <<t, generation[t] + 1>> IN
    /\ open[t] /\ ~held[t] /\ takeOvers < MaxTakeOvers
    /\ takeOvers' = takeOvers + 1
    /\ generation' = [generation EXCEPT ![t] = @ + 1]
    /\ out' = [out EXCEPT ![t] = FALSE]
    /\ lock' = r
    /\ queue' = Others(queue, t)
    /\ inbox' = LET box == IF lock = None THEN inbox ELSE Deliver(inbox, lock, "stolen")
                IN Deliver(box, r, "granted")
    /\ UNCHANGED <<open, hold, held, opens, rejects>>

\* stop(): out of the line; a running hold is released.
Stop(t) ==
    /\ open[t]
    /\ open' = [open EXCEPT ![t] = FALSE]
    /\ generation' = [generation EXCEPT ![t] = @ + 1]
    /\ hold' = [hold EXCEPT ![t] = None]
    /\ held' = [held EXCEPT ![t] = TRUE]
    /\ IF lock = <<t, hold[t]>> THEN PassOn(Others(queue, t), inbox)
       ELSE queue' = Others(queue, t) /\ UNCHANGED <<lock, inbox>>
    /\ UNCHANGED <<out, opens, takeOvers, rejects>>

\* The whole page goes: the browser drops what it had asked for and held.
Close(t) ==
    /\ open[t]
    /\ open' = [open EXCEPT ![t] = FALSE]
    /\ generation' = [generation EXCEPT ![t] = @ + 1]
    /\ hold' = [hold EXCEPT ![t] = None]
    /\ held' = [held EXCEPT ![t] = TRUE]
    /\ LET box == [inbox EXCEPT ![t] = <<>>]
       IN IF Owner = t THEN PassOn(Others(queue, t), box)
          ELSE queue' = Others(queue, t) /\ inbox' = box /\ UNCHANGED lock
    /\ UNCHANGED <<out, opens, takeOvers, rejects>>

Hear(t) == Granted(t) \/ Unavailable(t) \/ Stolen(t) \/ Rejected(t)

Next == \/ \E t \in Tab : Open(t) \/ Hear(t) \/ TakeOver(t) \/ Stop(t) \/ Close(t)
        \/ Reject

Spec == Init /\ [][Next]_vars

\* The browser delivers what it has to say.
FairSpec == Spec /\ \A t \in Tab : WF_vars(Hear(t))
-----------------------------------------------------------------------------
TypeOK ==
    /\ lock \in Request \cup {None} /\ queue \in Seq(Request)
    /\ inbox \in [Tab -> Seq(Event)]
    /\ open \in [Tab -> BOOLEAN] /\ generation \in [Tab -> Nat]
    /\ hold \in [Tab -> Nat \cup {None}]
    /\ held \in [Tab -> BOOLEAN] /\ out \in [Tab -> BOOLEAN]
    /\ opens \in Nat /\ takeOvers \in Nat /\ rejects \in Nat

Told(t) == \E i \in 1..Len(inbox[t]) :
              /\ inbox[t][i].kind \in {"stolen", "unavailable", "rejected"}
              /\ Current(t, inbox[t][i].generation)

\* The lock is this mount's, not one that a mount before it has left behind.
Has(t) == lock = <<t, generation[t]>>

\* A tab that takes itself for the editing one has the lock, or what will correct it is
\* on its way: two tabs edit for no longer than a notice needs («one tap, never a data
\* race», IncidentTabLock).
BeliefIsCorrected == \A t \in Tab : open[t] /\ held[t] /\ ~Has(t) => Told(t)

\* The lock comes to a tab that has just opened, or that knows it is read-only: nobody
\* gets it back without having heard that it was gone.  useJournal's setReadOnly makes the
\* store read the slot again on that change of `held`, and on no other.
ToldBeforeAgain ==
    [][\A t \in Tab : ~Has(t) /\ Has(t)' => ~open[t] \/ ~held'[t]]_vars

\* As long as the incident is open in a tab the browser did not turn away, one of them
\* has the lock and knows it, and no other tab edits: a waiting tab is promoted when the
\* holder goes, whichever way it goes.
OneEdits ==
    []<>(\/ \A t \in Tab : open[t] => out[t]
         \/ \E t \in Tab : /\ open[t] /\ held[t] /\ Has(t)
                           /\ \A u \in Tab \ {t} : open[u] => ~held[u])
=============================================================================
