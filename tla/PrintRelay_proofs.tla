-------------------------- MODULE PrintRelay_proofs --------------------------
(***************************************************************************)
(* Proofs about PrintRelay, for any number of jobs, agents and mishaps.    *)
(***************************************************************************)
EXTENDS PrintRelay, TLAPS, WellFoundedInduction

-----------------------------------------------------------------------------
(* The inductive invariant *)

Over == Ended \cup {"gone"}
Mind == [job : Job \cup {NoJob}, madeBy : Job \cup {NoJob}]
Loop == [pc : {"free", "select", "update", "hang", "claimed",
               "printing", "done", "failed"},
         job : Job \cup {NoJob}, tries : 0..Tries]
RowState == Stored \cup {"new", "flushed", "gone"}
CancelState == {"no", "queued", "cancelled", "gone", "over"}

\* A job that may still be claimed was never claimed, and nobody's job is handed out
\* twice: nothing leads back to "queued".
Unclaimed == \A j \in Job : row[j] \in {"new", "flushed", "queued"} => handed[j] = 0

\* Only an agent's word makes a row "done", and it is remembered.
DoneIsReported == \A j \in Job : row[j] = "done" => j \in finished
\* Nothing that is on its way to the Rapport, or already there, says more than that.
AnswersAreTrue ==
    \A r \in answers : /\ row[r[2]] \in Over
                       /\ r[3] = "done" => r[2] \in finished
CancelsAreTrue == \A j \in Job : cancel[j] \in {"cancelled", "gone"} => row[j] \in Over
ShownIsEarned == shown.madeBy # NoJob => shown.madeBy \in finished

\* A loop that holds on to a job has one.
Busily == \A a \in Agent :
    agent[a].pc \in {"update", "claimed", "printing", "done", "failed"} => agent[a].job \in Job

Queue == Unclaimed /\ HandedOutOnce
Paper == DoneIsReported /\ AnswersAreTrue /\ CancelsAreTrue /\ ShownIsEarned /\ StampMeansPaper
IInv == TypeOK /\ Busily /\ Queue /\ Paper

-----------------------------------------------------------------------------
(* Facts about the operators *)

LEMMA NoJobIsNone == NoJob \notin Job
BY DEF NoJob, Job

\* The oldest queued job is a queued job.
LEMMA OldestIsQueued ==
    ASSUME Queued # {}
    PROVE  Oldest \in Queued
<1>1. Queued \subseteq Nat
  BY PrintAssumption DEF Queued, Job
<1>2. PICK j \in Queued : \A k \in Queued : ~ (<<k, j>> \in OpToRel(<, Nat))
  BY <1>1, NatLessThanWellFounded, WFMin, Zenon
<1>3. \A k \in Queued : ~ (k < j)
  BY <1>1, <1>2, Zenon DEF OpToRel
<1>4. \A k \in Queued : j =< k
  BY <1>1, <1>3
<1> QED
  BY <1>4 DEF Oldest

\* What a loop may become.
LEMMA LoopChanges ==
    ASSUME NEW l \in Loop
    PROVE  /\ Free \in Loop /\ [Free EXCEPT !.pc = "hang"] \in Loop
           /\ [Free EXCEPT !.pc = "select", !.tries = Tries] \in Loop
           /\ \A j \in Job : [l EXCEPT !.pc = "update", !.job = j] \in Loop
           /\ [l EXCEPT !.pc = "claimed", !.tries = 0] \in Loop
           /\ l.tries > 1 => [l EXCEPT !.pc = "select", !.job = NoJob, !.tries = l.tries - 1] \in Loop
           /\ \A pc \in {"printing", "done", "failed"} : [l EXCEPT !.pc = pc] \in Loop
<1>1. l.pc \in {"free", "select", "update", "hang", "claimed", "printing", "done", "failed"}
  BY DEF Loop
<1>2. l.job \in Job \cup {NoJob} /\ l.tries \in 0..Tries /\ 0 \in 0..Tries /\ Tries \in 0..Tries
  BY DEF Loop, Tries
<1>3. Free \in Loop /\ Free.job = NoJob /\ Free.tries = 0
  BY <1>2 DEF Loop, Free
<1>4. /\ [Free EXCEPT !.pc = "hang"] \in Loop
      /\ [Free EXCEPT !.pc = "select", !.tries = Tries] \in Loop
  BY <1>2, <1>3 DEF Loop
<1>5. /\ \A j \in Job : [l EXCEPT !.pc = "update", !.job = j] \in Loop
      /\ [l EXCEPT !.pc = "claimed", !.tries = 0] \in Loop
      /\ \A pc \in {"printing", "done", "failed"} : [l EXCEPT !.pc = pc] \in Loop
  BY <1>2 DEF Loop
<1>6. l.tries > 1 => l.tries - 1 \in 0..Tries
  BY <1>2 DEF Tries
<1>7. l.tries > 1 => [l EXCEPT !.pc = "select", !.job = NoJob, !.tries = l.tries - 1] \in Loop
  BY <1>6 DEF Loop
<1> QED
  BY <1>3, <1>4, <1>5, <1>7

-----------------------------------------------------------------------------
(* The initial states *)

LEMMA InitInv == Init => IInv
<1> SUFFICES ASSUME Init PROVE IInv
  OBVIOUS
<1>1. TypeOK
  <2>1. \A a \in Agent : agent[a] = Free
    BY DEF Init
  <2>2. agent \in [Agent -> Loop]
    <3>1. 0 \in 0..Tries
      BY DEF Tries
    <3>2. Free \in Loop
      BY <3>1 DEF Loop, Free
    <3> QED
      BY <3>2 DEF Init
  <2>3. mishaps \in 0..MaxMishaps
    BY PrintAssumption DEF Init
  <2>4. rapport \in Mind /\ shown \in Mind
    BY DEF Init, Blank, Mind
  <2>5. ready \in BOOLEAN
    BY DEF Init
  <2> QED
    BY <2>2, <2>3, <2>4, <2>5 DEF Init, TypeOK, Loop, Mind
<1>2. Busily /\ Queue
  BY DEF Init, Busily, Queue, Unclaimed, HandedOutOnce, Free
<1>3. Paper
  BY DEF Init, Paper, DoneIsReported, AnswersAreTrue, CancelsAreTrue, ShownIsEarned,
     StampMeansPaper, Blank
<1> QED
  BY <1>1, <1>2, <1>3 DEF IInv

-----------------------------------------------------------------------------
(* Types *)

Typed == TypeOK /\ Busily

\* A step that leaves the loops alone.
LEMMA LoopsKept ==
    ASSUME Busily, UNCHANGED agent
    PROVE  Busily'
BY DEF Busily

\* A step that gives one loop a new state that has a job if it needs one.
LEMMA LoopMoves ==
    ASSUME Typed, NEW a \in Agent, NEW l \in Loop, agent' = [agent EXCEPT ![a] = l],
           l.pc \in {"update", "claimed", "printing", "done", "failed"} => l.job \in Job
    PROVE  agent' \in [Agent -> Loop] /\ Busily'
BY DEF Typed, TypeOK, Busily, Loop

LEMMA SettleTypes ==
    ASSUME Typed, NEW j \in Job, NEW status, Settle(j, status)
    PROVE  settled' \subseteq Job /\ rapport' \in Mind
BY DEF Typed, TypeOK, Settle, Mind

LEMMA MishapTypes == ASSUME Typed, Mishap PROVE mishaps' \in 0..MaxMishaps
BY PrintAssumption DEF Typed, TypeOK, Mishap

LEMMA JobTypes ==
    ASSUME Typed, NEW j \in Job, JobStep(j)
    PROVE  Typed'
<1> USE DEF Typed
<1>1. CASE Enqueue(j)
  <2>1. Woken \in [Agent -> Loop] /\ Busily'
    <3>1. Free \in Loop
      BY DEF Free, Loop, Tries
    <3>2. \A a \in Agent : agent[a] \in Loop
      BY DEF TypeOK, Loop
    <3> QED
      BY <1>1, <3>1, <3>2 DEF Enqueue, Woken, Busily, Free
  <2> QED
    BY <1>1, <2>1 DEF Enqueue, TypeOK, Loop
<1>2. CASE Commit(j)
  BY <1>2, LoopsKept DEF Commit, TypeOK, Stored, client
<1>3. CASE Abort(j)
  BY <1>3, LoopsKept, MishapTypes DEF Abort, TypeOK
<1>4. CASE HoldPrintJob(j)
  BY <1>4, LoopsKept DEF HoldPrintJob, TypeOK, server
<1>5. CASE EnqueueLost(j)
  BY <1>5, LoopsKept, MishapTypes DEF EnqueueLost, TypeOK, server
<1>6. CASE Sweep(j)
  BY <1>6, LoopsKept, MishapTypes DEF Sweep, TypeOK, client
<1>7. CASE ToastReads(j)
  BY <1>7, LoopsKept DEF ToastReads, TypeOK, server, Reads
<1>8. CASE ToastGivesUp(j)
  BY <1>8, LoopsKept, MishapTypes DEF ToastGivesUp, TypeOK, server
<1>9. CASE CancelReads(j)
  BY <1>9, LoopsKept, MishapTypes DEF CancelReads, TypeOK, server, client
<1>10. CASE CancelWrites(j)
  BY <1>10, LoopsKept DEF CancelWrites, TypeOK, client, Stored, Ended
<1>11. CASE CancelAnswered(j)
  <2>1. settled' \subseteq Job /\ rapport' \in Mind
    BY <1>11, SettleTypes DEF CancelAnswered
  <2> QED
    BY <1>11, <2>1, LoopsKept DEF CancelAnswered, TypeOK, server, Mind
<1>12. CASE CancelLost(j)
  BY <1>12, LoopsKept, MishapTypes DEF CancelLost, TypeOK, server, client
<1> QED
  BY <1>1, <1>2, <1>3, <1>4, <1>5, <1>6, <1>7, <1>8, <1>9, <1>10, <1>11, <1>12 DEF JobStep

LEMMA AgentTypes ==
    ASSUME Typed, NEW a \in Agent, AgentStep(a)
    PROVE  Typed'
<1> USE DEF Typed
<1> DEFINE l == agent[a]
<1>0. /\ l \in Loop
      /\ l.pc \in {"update", "claimed", "printing", "done", "failed"} => l.job \in Job
  BY DEF TypeOK, Loop, Busily
<1>l. /\ Free \in Loop /\ Free.pc = "free" /\ [Free EXCEPT !.pc = "hang"] \in Loop
      /\ [Free EXCEPT !.pc = "hang"].pc = "hang"
      /\ [Free EXCEPT !.pc = "select", !.tries = Tries] \in Loop
      /\ [Free EXCEPT !.pc = "select", !.tries = Tries].pc = "select"
  BY <1>0, LoopChanges DEF Free
<1>n. ASSUME NothingQueued(a)
      PROVE  agent' \in [Agent -> Loop] /\ Busily'
  <2> DEFINE m == [Free EXCEPT !.pc = IF ready THEN "free" ELSE "hang"]
  <2>1. m \in Loop /\ m.pc \in {"free", "hang"}
    BY <1>l DEF Free, Loop
  <2>2. agent' = [agent EXCEPT ![a] = Free] \/ agent' = [agent EXCEPT ![a] = m]
    BY <1>n DEF NothingQueued
  <2> HIDE DEF m
  <2> QED
    BY <1>l, <2>1, <2>2, LoopMoves
<1>1. CASE Turn(a)
  <2>1. agent' \in [Agent -> Loop] /\ Busily'
    <3> DEFINE m == [Free EXCEPT !.pc = "select", !.tries = Tries]
    <3>1. agent' = [agent EXCEPT ![a] = m] /\ m \in Loop /\ m.pc = "select"
      BY <1>1, <1>l DEF Turn
    <3> HIDE DEF m
    <3> QED
      BY <3>1, LoopMoves
  <2> QED
    BY <1>1, <2>1 DEF Turn, TypeOK, Loop, client
<1>2. CASE SelectOldest(a)
  <2>1. agent' \in [Agent -> Loop] /\ Busily'
    <3>1. CASE Queued # {}
      <4> DEFINE m == [l EXCEPT !.pc = "update", !.job = Oldest]
      <4>1. Oldest \in Job
        BY <3>1, OldestIsQueued DEF Queued
      <4>2. m \in Loop
        BY <1>0, <4>1, LoopChanges
      <4>4. m.job = Oldest
        BY <1>0 DEF Loop
      <4>3. agent' = [agent EXCEPT ![a] = m]
        BY <1>2, <3>1 DEF SelectOldest, TypeOK
      <4> HIDE DEF m
      <4> QED
        BY <4>1, <4>2, <4>3, <4>4, LoopMoves
    <3> QED
      BY <1>2, <1>n, <3>1 DEF SelectOldest
  <2> QED
    BY <1>2, <2>1 DEF SelectOldest, TypeOK, Loop, server, client
<1>3. CASE Claim(a)
  <2>1. agent' \in [Agent -> Loop] /\ Busily'
    <3> DEFINE m == [l EXCEPT !.pc = "claimed", !.tries = 0]
    <3>1. m \in Loop
      BY <1>0, LoopChanges
    <3>3. m.job = l.job
      BY <1>0 DEF Loop
    <3>2. agent' = [agent EXCEPT ![a] = m] /\ l.job \in Job
      BY <1>0, <1>3 DEF Claim, TypeOK
    <3> HIDE DEF m
    <3> QED
      BY <3>1, <3>2, <3>3, LoopMoves
  <2>2. l.job \in Job
    BY <1>0, <1>3 DEF Claim
  <2>3. row' \in [Job -> RowState] /\ handed' \in [Job -> Nat]
    BY <1>3, <2>2 DEF Claim, TypeOK, RowState, Stored
  <2> QED
    BY <1>3, <2>1, <2>3 DEF Claim, TypeOK, Loop, client, RowState
<1>4. CASE ClaimMissed(a)
  <2>1. agent' \in [Agent -> Loop] /\ Busily'
    <3>1. CASE l.tries > 1
      <4> DEFINE m == [l EXCEPT !.pc = "select", !.job = NoJob, !.tries = l.tries - 1]
      <4>1. m \in Loop
        BY <1>0, <3>1, LoopChanges
      <4>3. m.pc = "select"
        BY <1>0 DEF Loop
      <4>2. agent' = [agent EXCEPT ![a] = m]
        BY <1>4, <3>1 DEF ClaimMissed, TypeOK
      <4> HIDE DEF m
      <4> QED
        BY <4>1, <4>2, <4>3, LoopMoves
    <3> QED
      BY <1>4, <1>n, <3>1 DEF ClaimMissed
  <2> QED
    BY <1>4, <2>1 DEF ClaimMissed, TypeOK, Loop, server, client
<1>5. CASE Recheck(a)
  BY <1>5, <1>l, LoopMoves DEF Recheck, TypeOK, Loop, server, client
<1>6. CASE AgentLost(a)
  BY <1>6, <1>l, LoopMoves, MishapTypes DEF AgentLost, TypeOK, Loop, server, client
<1>7. CASE FetchFile(a)
  <2> DEFINE m == IF row[l.job] \in {"cancelled", "gone"} THEN Free ELSE [l EXCEPT !.pc = "printing"]
  <2>1. m \in Loop /\ (m.pc = "free" \/ m.job = l.job) /\ l.job \in Job
    BY <1>0, <1>l, <1>7, LoopChanges DEF Loop, FetchFile
  <2>2. agent' = [agent EXCEPT ![a] = m]
    BY <1>7 DEF FetchFile
  <2> HIDE DEF m
  <2>3. agent' \in [Agent -> Loop] /\ Busily'
    BY <2>1, <2>2, LoopMoves
  <2> QED
    BY <1>7, <2>3 DEF FetchFile, TypeOK, Loop, server, client
<1>8. CASE ReportReads(a)
  <2>1. PICK outcome \in {"done", "failed"} :
          agent' = [agent EXCEPT ![a] = IF row[l.job] = "printing"
                                          THEN [l EXCEPT !.pc = outcome] ELSE Free]
    BY <1>8 DEF ReportReads
  <2> DEFINE m == IF row[l.job] = "printing" THEN [l EXCEPT !.pc = outcome] ELSE Free
  <2>2. m \in Loop /\ (m.pc = "free" \/ m.job = l.job) /\ l.job \in Job
    BY <1>0, <1>l, <1>8, LoopChanges DEF Loop, ReportReads
  <2>3. agent' = [agent EXCEPT ![a] = m]
    BY <2>1
  <2> HIDE DEF m
  <2>4. agent' \in [Agent -> Loop] /\ Busily'
    BY <2>2, <2>3, LoopMoves
  <2> QED
    BY <1>8, <2>4 DEF ReportReads, TypeOK, Loop, server, client
<1>9. CASE ReportWrites(a)
  <2>1. agent' \in [Agent -> Loop] /\ Busily'
    BY <1>9, <1>l, LoopMoves DEF ReportWrites
  <2>2. l.job \in Job /\ l.pc \in {"done", "failed"}
    BY <1>0, <1>9 DEF ReportWrites
  <2>3. row' \in [Job -> RowState] /\ finished' \subseteq Job
    BY <1>9, <2>2 DEF ReportWrites, TypeOK, RowState, Stored, Ended
  <2> QED
    BY <1>9, <2>1, <2>3 DEF ReportWrites, TypeOK, Loop, client, RowState
<1> QED
  BY <1>1, <1>2, <1>3, <1>4, <1>5, <1>6, <1>7, <1>8, <1>9 DEF AgentStep

LEMMA HeadTypes ==
    ASSUME Typed, Render \/ HeadReads \/ \E r \in answers : AnswerRead(r)
    PROVE  Typed'
<1> USE DEF Typed
<1>1. CASE Render
  BY <1>1, LoopsKept DEF Render, TypeOK, server
<1>2. CASE HeadReads
  BY <1>2, LoopsKept DEF HeadReads, TypeOK, server, Reads
<1>3. ASSUME NEW r \in answers, AnswerRead(r)
      PROVE  Typed'
  <2>1. r[2] \in Job
    BY DEF TypeOK, Reads
  <2>2. settled' \subseteq Job /\ rapport' \in Mind
    BY <1>3, <2>1, SettleTypes DEF AnswerRead, TypeOK, Mind
  <2> QED
    BY <1>3, <2>2, LoopsKept DEF AnswerRead, TypeOK, server, Mind
<1> QED
  BY <1>1, <1>2, <1>3

LEMMA TypesStep == Typed /\ [Next]_vars => Typed'
<1> SUFFICES ASSUME Typed, [Next]_vars PROVE Typed'
  OBVIOUS
<1>1. CASE Next
  BY <1>1, JobTypes, AgentTypes, HeadTypes DEF Next
<1>2. CASE UNCHANGED vars
  BY <1>2, LoopsKept DEF vars, server, client, Typed, TypeOK
<1> QED
  BY <1>1, <1>2

-----------------------------------------------------------------------------
(* The queue *)

\* Nothing but Enqueue, Commit and Claim touches a row that may still be claimed
\* without ending it.
LEMMA QueueStep ==
    ASSUME Typed, Queue, [Next]_vars
    PROVE  Queue'
<1> USE DEF Typed, Queue, Unclaimed, HandedOutOnce
<1>1. ASSUME NEW j \in Job, JobStep(j)
      PROVE  Queue'
  <2>1. handed' = handed
    BY <1>1 DEF JobStep, Enqueue, Commit, Abort, HoldPrintJob, EnqueueLost, Sweep, ToastReads,
       ToastGivesUp, CancelReads, CancelWrites, CancelAnswered, CancelLost, server
  <2>2. \A k \in Job : row'[k] \in {"new", "flushed", "queued"}
                         => row[k] \in {"new", "flushed", "queued"}
    BY <1>1 DEF JobStep, Enqueue, Commit, Abort, HoldPrintJob, EnqueueLost, Sweep, ToastReads,
       ToastGivesUp, CancelReads, CancelWrites, CancelAnswered, CancelLost, server, TypeOK
  <2> QED
    BY <2>1, <2>2
<1>2. ASSUME NEW a \in Agent, AgentStep(a)
      PROVE  Queue'
  <2>1. CASE Claim(a)
    <3>1. agent[a].job \in Job
      BY <2>1 DEF Claim, Busily
    <3> QED
      BY <2>1, <3>1 DEF Claim, TypeOK
  <2>2. CASE ReportWrites(a)
    <3>1. agent[a].job \in Job /\ handed' = handed
      BY <2>2 DEF ReportWrites, Busily
    <3>2. \A k \in Job : row'[k] = row[k] \/ row'[k] \in {"done", "failed"}
      BY <2>2, <3>1 DEF ReportWrites, TypeOK
    <3> QED
      BY <3>1, <3>2
  <2>3. CASE Turn(a) \/ SelectOldest(a) \/ ClaimMissed(a) \/ Recheck(a) \/ AgentLost(a)
             \/ FetchFile(a) \/ ReportReads(a)
    <3>1. UNCHANGED <<row, handed>>
      BY <2>3 DEF Turn, SelectOldest, ClaimMissed, Recheck, AgentLost, FetchFile, ReportReads,
         server
    <3> QED
      BY <3>1
  <2> QED
    BY <1>2, <2>1, <2>2, <2>3 DEF AgentStep
<1>3. CASE Render \/ HeadReads \/ \E r \in answers : AnswerRead(r)
  BY <1>3 DEF Render, HeadReads, AnswerRead, server
<1>4. CASE UNCHANGED vars
  BY <1>4 DEF vars, server
<1> QED
  BY <1>1, <1>2, <1>3, <1>4 DEF Next

-----------------------------------------------------------------------------
(* The stamp *)

\* A job that has ended stays ended, and what was reported stays reported.
Kept == /\ \A j \in Job : row[j] \in Over => row'[j] \in Over
        /\ finished \subseteq finished'

LEMMA EndsAreFinal ==
    ASSUME Typed, DoneIsReported, [Next]_vars
    PROVE  Kept /\ DoneIsReported'
<1> USE DEF Typed, Kept, DoneIsReported, Over, Ended
<1>1. ASSUME NEW j \in Job, JobStep(j)
      PROVE  Kept /\ DoneIsReported'
  <2>1. finished' = finished
    BY <1>1 DEF JobStep, Enqueue, Commit, Abort, HoldPrintJob, EnqueueLost, Sweep, ToastReads,
       ToastGivesUp, CancelReads, CancelWrites, CancelAnswered, CancelLost, server
  <2>2. \A k \in Job : /\ row[k] \in Over => row'[k] \in Over
                       /\ row'[k] = "done" => row[k] = "done"
    BY <1>1 DEF JobStep, Enqueue, Commit, Abort, HoldPrintJob, EnqueueLost, Sweep, ToastReads,
       ToastGivesUp, CancelReads, CancelWrites, CancelAnswered, CancelLost, server, TypeOK
  <2> QED
    BY <2>1, <2>2
<1>2. ASSUME NEW a \in Agent, AgentStep(a)
      PROVE  Kept /\ DoneIsReported'
  <2>1. CASE Claim(a)
    BY <2>1 DEF Claim, TypeOK
  <2>2. CASE ReportWrites(a)
    <3> DEFINE j == agent[a].job
    <3>1. j \in Job /\ agent[a].pc \in {"done", "failed"}
      BY <2>2 DEF ReportWrites, Busily
    <3>2. \A k \in Job : row'[k] = row[k] \/ (k = j /\ row'[k] \in {"done", "failed"})
      BY <2>2, <3>1 DEF ReportWrites, TypeOK
    <3>3. finished \subseteq finished' /\ (row'[j] = "done" => j \in finished')
      BY <2>2 DEF ReportWrites
    <3> QED
      BY <3>1, <3>2, <3>3
  <2>3. CASE Turn(a) \/ SelectOldest(a) \/ ClaimMissed(a) \/ Recheck(a) \/ AgentLost(a)
             \/ FetchFile(a) \/ ReportReads(a)
    <3>1. UNCHANGED <<row, finished>>
      BY <2>3 DEF Turn, SelectOldest, ClaimMissed, Recheck, AgentLost, FetchFile, ReportReads,
         server
    <3> QED
      BY <3>1
  <2> QED
    BY <1>2, <2>1, <2>2, <2>3 DEF AgentStep
<1>3. CASE Render \/ HeadReads \/ \E r \in answers : AnswerRead(r)
  BY <1>3 DEF Render, HeadReads, AnswerRead, server
<1>4. CASE UNCHANGED vars
  BY <1>4 DEF vars, server
<1> QED
  BY <1>1, <1>2, <1>3, <1>4 DEF Next

\* Whoever settles, the stamp goes to a printed job or stays what it was on screen.
LEMMA SettleStamps ==
    ASSUME Typed, ShownIsEarned, StampMeansPaper, NEW j \in Job, NEW status,
           Settle(j, status), status = "done" => j \in finished
    PROVE  rapport'.madeBy # NoJob => rapport'.madeBy \in finished
BY DEF Settle, ShownIsEarned, StampMeansPaper

LEMMA PaperStep ==
    ASSUME Typed, Paper, [Next]_vars
    PROVE  Paper'
<1> USE DEF Typed
<1>0. Kept /\ DoneIsReported'
  BY EndsAreFinal DEF Paper
<1> DEFINE NewAnswer(r) == /\ row[r[2]] \in Over /\ r[3] = row[r[2]] /\ r[2] \in Job
<1>1. ASSUME \A r \in answers' : r \in answers \/ NewAnswer(r)
      PROVE  AnswersAreTrue'
  <2> SUFFICES ASSUME NEW r \in answers'
               PROVE  row'[r[2]] \in Over /\ (r[3] = "done" => r[2] \in finished')
    BY DEF AnswersAreTrue
  <2>1. r[2] \in Job /\ row[r[2]] \in Over /\ (r[3] = "done" => r[2] \in finished)
    BY <1>1 DEF Paper, AnswersAreTrue, DoneIsReported, TypeOK, Reads
  <2> QED
    BY <1>0, <2>1 DEF Kept
<1>2. ASSUME \A j \in Job : cancel'[j] \in {"cancelled", "gone"}
                            => cancel'[j] = cancel[j] \/ row'[j] \in Over
      PROVE  CancelsAreTrue'
  BY <1>0, <1>2 DEF Paper, CancelsAreTrue, Kept
<1>3. ASSUME shown' = shown \/ shown' = rapport
      PROVE  ShownIsEarned'
  BY <1>0, <1>3 DEF Paper, ShownIsEarned, StampMeansPaper, Kept
<1>4. ASSUME \/ rapport' = rapport
             \/ rapport'.madeBy = shown.madeBy
             \/ rapport'.madeBy # NoJob => rapport'.madeBy \in finished
      PROVE  StampMeansPaper'
  BY <1>0, <1>4 DEF Paper, ShownIsEarned, StampMeansPaper, Kept
<1> HIDE DEF NewAnswer
<1>5. ASSUME UNCHANGED <<answers, cancel, shown, rapport>>
      PROVE  Paper'
  BY <1>0, <1>1, <1>2, <1>3, <1>4, <1>5 DEF Paper
<1>6. ASSUME NEW j \in Job, JobStep(j)
      PROVE  Paper'
  <2>1. CASE Enqueue(j) \/ Commit(j) \/ Abort(j) \/ EnqueueLost(j) \/ Sweep(j) \/ ToastGivesUp(j)
    BY <1>5, <2>1 DEF Enqueue, Commit, Abort, EnqueueLost, Sweep, ToastGivesUp, client
  <2>2. CASE HoldPrintJob(j)
    <3>1. rapport'.madeBy = shown.madeBy
      BY <2>2 DEF HoldPrintJob, TypeOK
    <3>2. UNCHANGED <<answers, cancel, shown>>
      BY <2>2 DEF HoldPrintJob
    <3> QED
      BY <1>0, <1>1, <1>2, <1>3, <1>4, <3>1, <3>2 DEF Paper
  <2>3. CASE ToastReads(j)
    <3>1. \A r \in answers' : r \in answers \/ NewAnswer(r)
      BY <2>3 DEF ToastReads, NewAnswer, Over
    <3>2. UNCHANGED <<cancel, shown, rapport>>
      BY <2>3 DEF ToastReads
    <3> QED
      BY <1>0, <1>1, <1>2, <1>3, <1>4, <3>1, <3>2 DEF Paper
  <2>4. CASE CancelReads(j) \/ CancelWrites(j) \/ CancelLost(j)
    <3>1. \A k \in Job : cancel'[k] \in {"cancelled", "gone"}
                           => cancel'[k] = cancel[k] \/ row'[k] \in Over
      BY <2>4 DEF CancelReads, CancelWrites, CancelLost, TypeOK, Over, Ended, server
    <3>2. UNCHANGED <<answers, shown, rapport>>
      BY <2>4 DEF CancelReads, CancelWrites, CancelLost, client
    <3> QED
      BY <1>0, <1>1, <1>2, <1>3, <1>4, <3>1, <3>2 DEF Paper
  <2>5. CASE CancelAnswered(j)
    <3>1. rapport'.madeBy # NoJob => rapport'.madeBy \in finished
      BY <2>5, SettleStamps DEF CancelAnswered, Paper
    <3>2. \A k \in Job : cancel'[k] \in {"cancelled", "gone"} => cancel'[k] = cancel[k]
      BY <2>5 DEF CancelAnswered, TypeOK
    <3>3. UNCHANGED <<answers, shown>>
      BY <2>5 DEF CancelAnswered
    <3> QED
      BY <1>0, <1>1, <1>2, <1>3, <1>4, <3>1, <3>2, <3>3 DEF Paper
  <2> QED
    BY <1>6, <2>1, <2>2, <2>3, <2>4, <2>5 DEF JobStep
<1>7. ASSUME NEW a \in Agent, AgentStep(a)
      PROVE  Paper'
  BY <1>5, <1>7 DEF AgentStep, Turn, SelectOldest, Claim, ClaimMissed, Recheck, AgentLost,
     FetchFile, ReportReads, ReportWrites, client
<1>8. CASE Render
  BY <1>0, <1>1, <1>2, <1>3, <1>4, <1>8 DEF Render, Paper
<1>9. CASE HeadReads
  <2>1. shown.job \in Job
    BY <1>9 DEF HeadReads, TypeOK
  <2>2. \A r \in answers' : r \in answers \/ NewAnswer(r)
    BY <1>9, <2>1 DEF HeadReads, NewAnswer, Over
  <2> QED
    BY <1>0, <1>1, <1>2, <1>3, <1>4, <1>9, <2>2 DEF HeadReads, Paper
<1>10. ASSUME NEW r \in answers, AnswerRead(r)
       PROVE  Paper'
  <2>1. r[2] \in Job /\ (r[3] = "done" => r[2] \in finished)
    BY DEF Paper, AnswersAreTrue, TypeOK, Reads
  <2>2. rapport' = rapport \/ (rapport'.madeBy # NoJob => rapport'.madeBy \in finished)
    BY <1>10, <2>1, SettleStamps DEF AnswerRead, Paper
  <2>3. answers' \subseteq answers /\ UNCHANGED <<cancel, shown>>
    BY <1>10 DEF AnswerRead
  <2> QED
    BY <1>0, <1>1, <1>2, <1>3, <1>4, <2>2, <2>3 DEF Paper
<1>11. CASE UNCHANGED vars
  BY <1>5, <1>11 DEF vars, client
<1> QED
  BY <1>6, <1>7, <1>8, <1>9, <1>10, <1>11 DEF Next

-----------------------------------------------------------------------------
(* Theorems *)

\* The invariant of the queue, the claims and the Rapport head holds whatever agents
\* poll and however reads, renders, cancels and answers interleave.
THEOREM Invariance == Spec => []IInv
<1>1. IInv /\ [Next]_vars => IInv'
  BY TypesStep, QueueStep, PaperStep DEF IInv, Typed
<1> QED
  BY InitInv, <1>1, PTL DEF Spec

\* Every variable keeps its type: a row never leaves the list of states the client
\* knows, an answer always names one.
THEOREM TypeCorrect == Spec => []TypeOK
BY Invariance, PTL DEF IInv

\* However many agents ask for the oldest queued job at once, each job is handed out at
\* most once (_try_claim's conditional UPDATE).
THEOREM ClaimedOnce == Spec => []HandedOutOnce
<1>1. IInv => HandedOutOnce
  BY DEF IInv, Queue
<1> QED
  BY Invariance, <1>1, PTL

\* "Rapport erstellt" is earned only by a job that an agent has reported printed.
THEOREM StampIsEarned == Spec => []StampMeansPaper
<1>1. IInv => StampMeansPaper
  BY DEF IInv, Paper
<1> QED
  BY Invariance, <1>1, PTL

\* The head lets go of an outstanding job only when that job has ended or is gone.
THEOREM LetsGoKnowingly == Spec => HeadLetsGoKnowingly
<1>1. ASSUME IInv, [Next]_vars, NEW j \in Job,
             rapport.job = j, shown = rapport, rapport'.job = NoJob
      PROVE  row[j] \in Over
  <2>0. j # NoJob
    BY NoJobIsNone
  <2>1. ASSUME NEW k \in Job, NEW status, Settle(k, status) PROVE k = j
    BY <1>1, <2>0, <2>1 DEF Settle
  <2>2. ASSUME NEW k \in Job, JobStep(k) PROVE row[j] \in Over
    <3>1. CASE CancelAnswered(k)
      BY <1>1, <2>1, <3>1 DEF CancelAnswered, IInv, Paper, CancelsAreTrue
    <3>2. CASE HoldPrintJob(k)
      BY <1>1, <2>0, <3>2, NoJobIsNone DEF HoldPrintJob, IInv, TypeOK
    <3> QED
      BY <1>1, <2>0, <2>2, <3>1, <3>2 DEF JobStep, Enqueue, Commit, Abort, EnqueueLost, Sweep,
         ToastReads, ToastGivesUp, CancelReads, CancelWrites, CancelLost, client
  <2>3. ASSUME NEW a \in Agent, AgentStep(a) PROVE row[j] \in Over
    BY <1>1, <2>0, <2>3 DEF AgentStep, Turn, SelectOldest, Claim, ClaimMissed, Recheck,
       AgentLost, FetchFile, ReportReads, ReportWrites, client
  <2>4. CASE Render \/ HeadReads
    BY <1>1, <2>0, <2>4 DEF Render, HeadReads
  <2>5. ASSUME NEW r \in answers, AnswerRead(r) PROVE row[j] \in Over
    <3>1. r[2] \in Job /\ row[r[2]] \in Over
      BY <1>1 DEF IInv, Paper, AnswersAreTrue, TypeOK, Reads
    <3> QED
      BY <1>1, <2>0, <2>1, <2>5, <3>1 DEF AnswerRead
  <2>6. CASE UNCHANGED vars
    BY <1>1, <2>0, <2>6 DEF vars, client
  <2> QED
    BY <1>1, <2>2, <2>3, <2>4, <2>5, <2>6 DEF Next
<1> DEFINE Knowingly ==
      \A j \in Job :
        (rapport.job = j /\ shown = rapport /\ rapport'.job = NoJob)
          => row[j] \in Ended \cup {"gone"}
<1>2. IInv /\ [Next]_vars => [Knowingly]_vars
  BY <1>1 DEF Over
<1> QED
  BY Invariance, <1>2, PTL DEF Spec, HeadLetsGoKnowingly
=============================================================================
