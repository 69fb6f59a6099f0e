----------------------------- MODULE PrintRelay -----------------------------
(***************************************************************************)
(* The station print relay: the server's queue of composed Rapport sheets, *)
(* (src/backend/app/api/print_relay.py), the agents in the printer room    *)
(* that long-poll it, and the Rapport head that holds the outstanding job  *)
(* (src/src/components/ReportPreflight.tsx) together with the toast that   *)
(* follows it (src/src/lib/printJobToast.ts).                              *)
(*                                                                         *)
(* Every database statement is a step of its own, under READ COMMITTED: a  *)
(* handler that reads a row and then writes it is two actions.  The agent  *)
(* is not in this repository (tools/PRINT-AGENT.md): it is modelled by the *)
(* three calls the contract gives it.                                      *)
(***************************************************************************)
EXTENDS Integers

CONSTANTS MaxJobs,    \* bound: print jobs queued, by all surfaces together
          Agent,      \* the polling agents (PRINT-AGENT.md warns of two)
          MaxMishaps  \* bound: cancels, swept rows, lost answers, failed
                      \* requests, stopped agents and toasts that give up,
                      \* taken together

ASSUME PrintAssumption == MaxJobs \in Nat /\ MaxMishaps \in Nat

\* A job is named by its place in the order of created_at.
Job == 1..MaxJobs
NoJob == 0

Ended == {"done", "failed", "cancelled"}
Stored == {"queued", "printing"} \cup Ended
Tries == 3

VARIABLES
  row,        \* PrintJob.status; before the commit "new", "flushed"
  ready,      \* _job_ready.is_set()
  agent,      \* one claim loop per agent, then what the agent does with it
  handed,     \* how often a claim has taken the job (history)
  finished,   \* the jobs an agent has reported done (history)
  cancel,     \* a cancel request's progress
  owed,       \* own jobs whose id is on its way back to the Rapport
  rapport,    \* reportMeta: printJob, and the job that earned reportMadeAt
  shown,      \* metaRef: reportMeta as of the last render
  settled,    \* settledJobsRef
  following,  \* the jobs a toast still polls
  answers,    \* job reads on their way back
  mishaps     \* what the bound counts

server == <<row, ready, handed, finished>>
client == <<owed, rapport, shown, settled, following, answers>>
vars == <<server, agent, cancel, client, mishaps>>

Reads == {"head", "toast"} \X Job \X (Ended \cup {"gone"})

TypeOK ==
  /\ row \in [Job -> Stored \cup {"new", "flushed", "gone"}]
  /\ ready \in BOOLEAN
  /\ agent \in [Agent ->
       [pc : {"free", "select", "update", "hang", "claimed",
              "printing", "done", "failed"},
        job : Job \cup {NoJob}, tries : 0..Tries]]
  /\ handed \in [Job -> Nat]
  /\ finished \subseteq Job
  /\ cancel \in [Job -> {"no", "queued", "cancelled", "gone", "over"}]
  /\ owed \subseteq Job
  /\ rapport \in [job : Job \cup {NoJob}, madeBy : Job \cup {NoJob}]
  /\ shown \in [job : Job \cup {NoJob}, madeBy : Job \cup {NoJob}]
  /\ settled \subseteq Job
  /\ following \subseteq Job
  /\ answers \subseteq Reads
  /\ mishaps \in 0..MaxMishaps

Free == [pc |-> "free", job |-> NoJob, tries |-> 0]
Blank == [job |-> NoJob, madeBy |-> NoJob]

Init ==
  /\ row = [j \in Job |-> "new"]
  /\ ready = FALSE
  /\ agent = [a \in Agent |-> Free]
  /\ handed = [j \in Job |-> 0]
  /\ finished = {}
  /\ cancel = [j \in Job |-> "no"]
  /\ owed = {} /\ settled = {} /\ following = {} /\ answers = {}
  /\ rapport = Blank /\ shown = Blank
  /\ mishaps = 0

Mishap == mishaps < MaxMishaps /\ mishaps' = mishaps + 1

-----------------------------------------------------------------------------
(* Queueing a job *)

Busy == owed # {}   \* printBusy: one press at a time on this surface

Woken == [a \in Agent |->
            IF agent[a].pc = "hang" THEN Free
                                    ELSE agent[a]]

\* The row is written (created_at) and the waiting claims are woken, before the
\* commit.  The press is this Rapport's, or comes from elsewhere (the poster, a
\* Zeitplan sheet, another tablet).
Enqueue(j) ==
  /\ row[j] = "new"
  /\ \A k \in 1..(j - 1) : row[k] # "new"
  /\ row' = [row EXCEPT ![j] = "flushed"]
  /\ ready' = TRUE
  /\ agent' = Woken
  /\ \/ ~Busy /\ owed' = owed \cup {j}
     \/ UNCHANGED owed
  /\ UNCHANGED <<handed, finished, cancel, rapport, shown, settled, following,
                 answers, mishaps>>

Commit(j) ==
  /\ row[j] = "flushed"
  /\ row' = [row EXCEPT ![j] = "queued"]
  /\ UNCHANGED <<ready, handed, finished, agent, cancel, client, mishaps>>

\* The composer or the commit fails: the transaction is rolled back.
Abort(j) ==
  /\ row[j] = "flushed"
  /\ Mishap
  /\ row' = [row EXCEPT ![j] = "gone"]
  /\ owed' = owed \ {j}
  /\ UNCHANGED <<ready, handed, finished, agent, cancel, rapport, shown,
                 settled, following, answers>>

\* The id is back: the Rapport holds the job and the toast begins to follow it.
HoldPrintJob(j) ==
  /\ j \in owed
  /\ row[j] \in Stored \cup {"gone"}
  /\ owed' = owed \ {j}
  /\ rapport' = [shown EXCEPT !.job = j]
  /\ following' = following \cup {j}
  /\ UNCHANGED <<server, agent, cancel, shown, settled, answers, mishaps>>

\* The answer is lost: "failed" is shown for a job the relay does hold.
EnqueueLost(j) ==
  /\ j \in owed
  /\ row[j] \in Stored
  /\ Mishap
  /\ owed' = owed \ {j}
  /\ UNCHANGED <<server, agent, cancel, rapport, shown, settled, following,
                 answers>>

-----------------------------------------------------------------------------
(* The claim's long poll *)

Queued == {j \in Job : row[j] = "queued"}

\* SELECT ... WHERE status = 'queued' ORDER BY created_at LIMIT 1
Oldest == CHOOSE j \in Queued : \A k \in Queued : j =< k

\* Nothing to claim: at the deadline the answer is 204; before it the request
\* waits for the event, not at all when it is already set.
NothingQueued(a) ==
  \/ agent' = [agent EXCEPT ![a] = Free]
  \/ agent' = [agent EXCEPT ![a] =
                 [Free EXCEPT !.pc = IF ready THEN "free" ELSE "hang"]]

\* A new request, or the next turn of one that was woken: ev.clear() comes first.
Turn(a) ==
  /\ agent[a].pc = "free"
  /\ ready' = FALSE
  /\ agent' = [agent EXCEPT ![a] = [Free EXCEPT !.pc = "select", !.tries = Tries]]
  /\ UNCHANGED <<row, handed, finished, cancel, client, mishaps>>

SelectOldest(a) ==
  /\ agent[a].pc = "select"
  /\ IF Queued # {}
       THEN agent' = [agent EXCEPT ![a].pc = "update", ![a].job = Oldest]
       ELSE NothingQueued(a)
  /\ UNCHANGED <<server, cancel, client, mishaps>>

\* Mutant: the UPDATE goes by the primary key alone.
Claim_AnyStatus(a) ==
  LET j == agent[a].job IN
  /\ agent[a].pc = "update"
  /\ row[j] # "gone"
  /\ row' = [row EXCEPT ![j] = "printing"]
  /\ handed' = [handed EXCEPT ![j] = @ + 1]
  /\ agent' = [agent EXCEPT ![a].pc = "claimed", ![a].tries = 0]
  /\ UNCHANGED <<ready, finished, cancel, client, mishaps>>

\* The row lock makes the UPDATE and its commit one step for everybody else.
Claim(a) ==
  LET j == agent[a].job IN
  /\ agent[a].pc = "update"
  /\ row[j] = "queued"
  /\ row' = [row EXCEPT ![j] = "printing"]
  /\ handed' = [handed EXCEPT ![j] = @ + 1]
  /\ agent' = [agent EXCEPT ![a].pc = "claimed", ![a].tries = 0]
  /\ UNCHANGED <<ready, finished, cancel, client, mishaps>>

\* Another claim, a cancel or the sweep was faster: rowcount = 0, try again.
ClaimMissed(a) ==
  /\ agent[a].pc = "update"
  /\ row[agent[a].job] # "queued"
  /\ IF agent[a].tries > 1
       THEN agent' = [agent EXCEPT ![a].pc = "select", ![a].job = NoJob,
                                   ![a].tries = @ - 1]
       ELSE NothingQueued(a)
  /\ UNCHANGED <<server, cancel, client, mishaps>>

\* Mutant: the timer goes back to the wait, not to the query.
Recheck_OnlyWhenSet(a) ==
  /\ agent[a].pc = "hang"
  /\ agent' = IF ready THEN [agent EXCEPT ![a] = Free] ELSE agent
  /\ UNCHANGED <<server, cancel, client, mishaps>>

\* CLAIM_RECHECK_SEC is over although nobody set the event.
Recheck(a) ==
  /\ agent[a].pc = "hang"
  /\ agent' = [agent EXCEPT ![a] = Free]
  /\ UNCHANGED <<server, cancel, client, mishaps>>

-----------------------------------------------------------------------------
(* What the agent does with the job it was given *)

\* The claim's answer is lost, or the agent stops before the paper is out:
\* the row has no lease and stays "printing".
AgentLost(a) ==
  /\ agent[a].pc \in {"claimed", "printing"}
  /\ Mishap
  /\ agent' = [agent EXCEPT ![a] = Free]
  /\ UNCHANGED <<server, cancel, client>>

FetchFile(a) ==
  /\ agent[a].pc = "claimed"
  /\ agent' = [agent EXCEPT ![a] =
                 IF row[agent[a].job] \in {"cancelled", "gone"}
                   THEN Free ELSE [agent[a] EXCEPT !.pc = "printing"]]
  /\ UNCHANGED <<server, cancel, client, mishaps>>

\* The status report reads the row ...
ReportReads(a) ==
  /\ agent[a].pc = "printing"
  /\ \E outcome \in {"done", "failed"} :
       agent' = [agent EXCEPT ![a] =
                   IF row[agent[a].job] = "printing"
                     THEN [agent[a] EXCEPT !.pc = outcome] ELSE Free]
  /\ UNCHANGED <<server, cancel, client, mishaps>>

\* ... and writes it by primary key.
ReportWrites(a) ==
  LET j == agent[a].job IN
  /\ agent[a].pc \in {"done", "failed"}
  /\ row' = IF row[j] = "gone" THEN row ELSE [row EXCEPT ![j] = agent[a].pc]
  /\ finished' = IF row'[j] = "done" THEN finished \cup {j} ELSE finished
  /\ agent' = [agent EXCEPT ![a] = Free]
  /\ UNCHANGED <<ready, handed, cancel, client, mishaps>>

\* PRINT_JOB_RETENTION_DAYS are over: whatever its status, the row goes.
Sweep(j) ==
  /\ row[j] \in Stored
  /\ Mishap
  /\ row' = [row EXCEPT ![j] = "gone"]
  /\ UNCHANGED <<ready, handed, finished, agent, cancel, client>>

-----------------------------------------------------------------------------
(* The Rapport head and the toast *)

\* Mutants: every end earns the stamp; a late answer settles whatever is held.
Settle_StampsAny(j, status) ==
  IF shown.job = j /\ j \notin settled
    THEN settled' = settled \cup {j} /\ rapport' = [job |-> NoJob, madeBy |-> j]
    ELSE UNCHANGED <<settled, rapport>>
Settle_AnyJob(j, status) ==
  IF j \notin settled
    THEN /\ settled' = settled \cup {j}
         /\ rapport' = [job |-> NoJob,
                        madeBy |-> IF status = "done" THEN j ELSE shown.madeBy]
    ELSE UNCHANGED <<settled, rapport>>

\* Only the named job, only once per surface, and only "done" earns the stamp.
Settle(j, status) ==
  IF shown.job = j /\ j \notin settled
    THEN /\ settled' = settled \cup {j}
         /\ rapport' = [job |-> NoJob,
                        madeBy |-> IF status = "done" THEN j ELSE shown.madeBy]
    ELSE UNCHANGED <<settled, rapport>>

\* The next render brings metaRef up to date; another job under the head drops
\* the reads of the one before.
Render ==
  /\ shown # rapport
  /\ shown' = rapport
  /\ answers' = IF rapport.job = shown.job THEN answers
                ELSE {r \in answers : r[1] # "head"}
  /\ UNCHANGED <<server, agent, cancel, owed, rapport, settled, following,
                 mishaps>>

\* A status read that says something: "queued" and "printing" settle nothing.
HeadReads ==
  /\ shown.job # NoJob
  /\ row[shown.job] \in Ended \cup {"gone"}
  /\ <<"head", shown.job, row[shown.job]>> \notin answers
  /\ answers' = answers \cup {<<"head", shown.job, row[shown.job]>>}
  /\ UNCHANGED <<server, agent, cancel, owed, rapport, shown, settled,
                 following, mishaps>>

\* Mutant: the poll ends with the first status it reads.
ToastReads_AnyStatus(j) ==
  /\ j \in following
  /\ following' = following \ {j}
  /\ answers' = answers \cup {<<"toast", j, row[j]>>}
  /\ UNCHANGED <<server, agent, cancel, owed, rapport, shown, settled, mishaps>>

\* The toast's poll ends with the job.
ToastReads(j) ==
  /\ j \in following
  /\ row[j] \in Ended \cup {"gone"}
  /\ following' = following \ {j}
  /\ answers' = answers \cup {<<"toast", j, row[j]>>}
  /\ UNCHANGED <<server, agent, cancel, owed, rapport, shown, settled, mishaps>>

\* The toast's poll gives up after 90 s: the job stays outstanding.
ToastGivesUp(j) ==
  /\ j \in following
  /\ Mishap
  /\ following' = following \ {j}
  /\ UNCHANGED <<server, agent, cancel, owed, rapport, shown, settled, answers>>

\* The toast says nothing about a job that is gone; the head lets go of it.
AnswerRead(r) ==
  /\ r \in answers
  /\ answers' = answers \ {r}
  /\ IF r[1] = "toast" /\ r[3] = "gone"
       THEN UNCHANGED <<settled, rapport>>
       ELSE Settle(r[2], r[3])
  /\ UNCHANGED <<server, agent, cancel, owed, shown, following, mishaps>>

\* A cancel reads the row ...
CancelReads(j) ==
  /\ j \in following \/ j = shown.job
  /\ cancel[j] = "no"
  /\ Mishap
  /\ cancel' = [cancel EXCEPT ![j] =
                  CASE row[j] = "queued" -> "queued"
                    [] row[j] = "gone"   -> "gone"
                    [] OTHER             -> "over"]
  /\ UNCHANGED <<server, agent, client>>

\* ... and writes it by primary key, whatever has become of it since.
CancelWrites(j) ==
  /\ cancel[j] = "queued"
  /\ IF row[j] = "gone"
       THEN cancel' = [cancel EXCEPT ![j] = "over"] /\ UNCHANGED row
       ELSE /\ cancel' = [cancel EXCEPT ![j] = "cancelled"]
            /\ row' = [row EXCEPT ![j] = "cancelled"]
  /\ UNCHANGED <<ready, handed, finished, agent, client, mishaps>>

CancelAnswered(j) ==
  /\ cancel[j] \in {"cancelled", "gone"}
  /\ cancel' = [cancel EXCEPT ![j] = "over"]
  /\ Settle(j, cancel[j])
  /\ UNCHANGED <<server, agent, owed, shown, following, answers, mishaps>>

CancelLost(j) ==
  /\ cancel[j] \in {"cancelled", "gone"}
  /\ Mishap
  /\ cancel' = [cancel EXCEPT ![j] = "over"]
  /\ UNCHANGED <<server, agent, client>>

-----------------------------------------------------------------------------
JobStep(j) ==
  \/ Enqueue(j) \/ Commit(j) \/ Abort(j)
  \/ HoldPrintJob(j) \/ EnqueueLost(j) \/ Sweep(j)
  \/ ToastReads(j) \/ ToastGivesUp(j)
  \/ CancelReads(j) \/ CancelWrites(j) \/ CancelAnswered(j) \/ CancelLost(j)

AgentStep(a) ==
  \/ Turn(a) \/ SelectOldest(a) \/ Claim(a) \/ ClaimMissed(a)
  \/ Recheck(a) \/ AgentLost(a) \/ FetchFile(a) \/ ReportReads(a)
  \/ ReportWrites(a)

Next ==
  \/ \E j \in Job : JobStep(j)
  \/ \E a \in Agent : AgentStep(a)
  \/ Render \/ HeadReads
  \/ \E r \in answers : AnswerRead(r)

Spec == Init /\ [][Next]_vars

\* The request handlers run to their end, the recheck timer fires, and an agent
\* polls when it has nothing to do and finishes a job it was given, unless it
\* stops (AgentLost).  Neither the sweep nor any tap is assumed.
FairSpec ==
  /\ Spec
  /\ \A j \in Job : WF_vars(Commit(j))
  /\ \A a \in Agent :
       WF_vars(Turn(a) \/ SelectOldest(a) \/ Claim(a)
               \/ ClaimMissed(a) \/ Recheck(a) \/ FetchFile(a)
               \/ ReportReads(a) \/ ReportWrites(a))

-----------------------------------------------------------------------------
(* Properties *)

\* A job is handed to an agent once, however many agents ask for the oldest
\* queued row at the same time: the claim's conditional UPDATE decides.
HandedOutOnce == \A j \in Job : handed[j] =< 1

\* "Eingereiht ist nicht gedruckt": the stamp "Rapport erstellt", the condition
\* for offering to close the Einsatz, is earned only by a job an agent has
\* reported as printed, whichever of the toast, the head's poll and a cancel
\* answers first and however late.
StampMeansPaper == rapport.madeBy # NoJob => rapport.madeBy \in finished

\* While the head shows what is recorded, it lets go of an outstanding job only
\* when that job itself has ended or is gone: a late answer about an earlier
\* job, or a second answer about this one, never clears it.
HeadLetsGoKnowingly ==
  [][\A j \in Job :
       (rapport.job = j /\ shown = rapport /\ rapport'.job = NoJob)
         => row[j] \in Ended \cup {"gone"}]_vars

\* The event is set before the commit, so the claim it wakes may find nothing;
\* a queued job nevertheless leaves the queue while an agent polls.
EveryJobLeavesQueue ==
  \A j \in Job : (row[j] = "queued") ~> (row[j] # "queued")

\* What cancel_print_job's docstring says: "Cancel iff still queued ... Already
\* claimed -> 409".
CancelledWasNeverClaimed == \A j \in Job : row[j] = "cancelled" => handed[j] = 0

=============================================================================
