-------------------------- MODULE LiveFollow_proofs --------------------------
(***************************************************************************)
(* Proofs about LiveFollow, for any number of devices, saves and faults.   *)
(***************************************************************************)
EXTENDS LiveFollow, TLAPS

-----------------------------------------------------------------------------
(* The inductive invariant *)

Hook == [rev : Nat, writer : Device \cup {Server}, records : BOOLEAN]
Poll == [phase : Phases, since : Nat, wait : BOOLEAN, claim : BOOLEAN,
         quick : BOOLEAN, heard : BOOLEAN, rev : Nat, running : BOOLEAN,
         brings : {"same", "own", "document"}]
Put == [state : {"none", "sent", "saved", "conflict"}, rev : Nat]

\* What is on record, or is about to be, is what was saved.
RecordIsTrue ==
    /\ \A k \in DOMAIN writes : writes[k] = saves[k]
    /\ \A h \in hooks : h.records => /\ h.rev \in 1..Rev /\ h.writer \in Device
                                     /\ saves[h.rev] = h.writer
ShownIsSaved == \A d \in Device : shown[d] \subseteq 1..Rev

\* The engine's revision, the follow's, and the one a save under way was made on, or will
\* bring back, cover nothing the device has not.
Passes == \A d \in Device : /\ 1..rev[d] \subseteq Holds(d)
                            /\ 1..liveRev[d] \subseteq Holds(d)
                            /\ 1..put[d].rev \subseteq Holds(d)
\* A device saves only what it has not synced, so nothing is adopted while its save is out.
SaveIsOwed == \A d \in Device : /\ put[d] # NoPut => dirty[d]
                                /\ dirty[d] => d \notin viewers

\* What p, the request of d, has read is not newer than the state, vouches for nothing d has
\* not, and was nothing new if it is parked; news since then are about to be told.
HasNews(p) == p.running # running \/ \E k \in (p.rev + 1)..Rev : k \notin quiet
PollOK(d, p) ==
    /\ p.rev <= Rev
    /\ 1..p.since \subseteq Holds(d)
    /\ p.brings = "own" => p.phase = "answered" /\ 1..p.rev \subseteq Holds(d)
    /\ p.phase = "parked" => p.since = p.rev /\ p.claim = p.running
    /\ p.phase \in {"looked", "parked"} /\ ~p.heard /\ HasNews(p) => hooks # {}
PollsFit == \A d \in Device : PollOK(d, poll[d])

IInv == TypeOK /\ RecordIsTrue /\ ShownIsSaved /\ Passes /\ SaveIsOwed /\ PollsFit

LEMMA InvImplies == IInv => TypeOK /\ HasWhatItPasses /\ NoneSleepsOnNews
<1> SUFFICES ASSUME IInv PROVE HasWhatItPasses /\ NoneSleepsOnNews
  BY DEF IInv
<1>1. HasWhatItPasses
  BY DEF IInv, Passes, HasWhatItPasses, Since, Max2
<1>2. NoneSleepsOnNews
  BY DEF IInv, PollsFit, PollOK, HasNews, NoneSleepsOnNews
<1> QED
  BY <1>1, <1>2

-----------------------------------------------------------------------------
(* Facts *)

LEMMA Types ==
    ASSUME TypeOK
    PROVE  /\ saves \in Seq(Device \cup {Server}) /\ Rev \in Nat /\ hooks \subseteq Hook
           /\ poll \in [Device -> Poll] /\ put \in [Device -> Put]
           /\ NoPoll \in Poll /\ NoPut \in Put
BY DEF TypeOK, Rev, Hook, Poll, Put, NoPoll, NoPut, Phases

Grown == saves' = saves \/ \E w \in Device \cup {Server} : saves' = Append(saves, w)

\* The document only grows, and with it what a device has.
LEMMA Growth ==
    ASSUME TypeOK, Grown
    PROVE  /\ saves' \in Seq(Device \cup {Server}) /\ Rev' \in Nat /\ Rev <= Rev'
           /\ \A k \in 1..Rev : saves'[k] = saves[k]
BY Types DEF Grown, Rev

LEMMA HoldsMore ==
    ASSUME TypeOK, Grown, NEW d \in Device, shown[d] \subseteq shown'[d]
    PROVE  Holds(d) \subseteq Holds(d)'
BY Growth, Types DEF Holds

\* Whatever a device held to, it holds to after a step that takes nothing from it.
LEMMA PassesKept ==
    ASSUME IInv, Grown, UNCHANGED <<rev, liveRev, put, dirty, viewers>>,
           \A d \in Device : shown[d] \subseteq shown'[d]
    PROVE  Passes' /\ SaveIsOwed'
<1>1. \A d \in Device : Holds(d) \subseteq Holds(d)'
  BY HoldsMore DEF IInv
<1> QED
  BY <1>1 DEF IInv, Passes, SaveIsOwed

-----------------------------------------------------------------------------
(* The steps of a request for news *)

\* A step that only moves the request of d on is checked by PollOK.
LEMMA PollStep ==
    ASSUME IInv, NEW d \in Device, NEW p \in Poll, poll' = [poll EXCEPT ![d] = p],
           UNCHANGED <<server, engine, liveRev, shown, lifecycle>>,
           believed' \in [Device -> BOOLEAN], faults' \in Nat, PollOK(d, p)
    PROVE  IInv'
<1>1. UNCHANGED <<saves, running, hooks, writes, quiet, viewers, put, rev, dirty, edited>>
  BY DEF server, engine
<1>2. TypeOK'
  BY <1>1, Types DEF IInv, TypeOK, Poll, Rev
<1>3. \A e \in Device : Holds(e)' = Holds(e)
  BY <1>1 DEF Holds, Rev
<1>4. RecordIsTrue' /\ ShownIsSaved' /\ Passes' /\ SaveIsOwed'
  BY <1>1, <1>3 DEF IInv, RecordIsTrue, ShownIsSaved, Passes, SaveIsOwed, Rev
<1>5. ASSUME NEW e \in Device PROVE PollOK(e, poll[e])'
  <2>1. poll'[e] = IF e = d THEN p ELSE poll[e]
    BY Types DEF IInv
  <2>2. PollOK(e, poll'[e])
    BY <2>1 DEF IInv, PollsFit
  <2> QED
    BY <1>1, <1>3, <2>2 DEF PollOK, HasNews, Rev
<1> QED
  BY <1>2, <1>4, <1>5 DEF IInv, PollsFit

LEMMA AskInv ==
    ASSUME IInv, NEW d \in Device, NEW hidden \in BOOLEAN, Ask(d, hidden)
    PROVE  IInv'
<1> DEFINE p == [NoPoll EXCEPT !.phase = "asked", !.since = Since(d), !.claim = believed[d],
                               !.quick = Skips(d), !.wait = ~hidden /\ ~Skips(d)]
<1>1. Since(d) \in Nat /\ believed[d] \in BOOLEAN /\ 1..Since(d) \subseteq Holds(d)
  BY InvImplies DEF IInv, TypeOK, Since, Max2, HasWhatItPasses
<1>2. Skips(d) \in BOOLEAN
  BY DEF Skips
<1>3. p \in Poll
  BY <1>1, <1>2 DEF NoPoll, Poll, Phases
<1>4. p.rev = 0 /\ p.since = Since(d) /\ p.brings = "same" /\ p.phase = "asked"
  BY DEF NoPoll
<1>5. PollOK(d, p)
  <2> HIDE DEF p
  <2>1. Rev \in Nat
    BY Types DEF IInv
  <2> QED
    BY <1>1, <1>4, <2>1 DEF PollOK
<1>6. poll' = [poll EXCEPT ![d] = p]
  BY DEF Ask
<1> HIDE DEF p
<1> QED
  BY <1>3, <1>5, <1>6, PollStep DEF Ask, IInv, TypeOK

LEMMA LookInv ==
    ASSUME IInv, NEW d \in Device, Look(d)
    PROVE  IInv'
<1> DEFINE p == Fresh(d, "looked")
<1>1. poll[d] \in Poll /\ Rev \in Nat /\ running \in BOOLEAN /\ PollOK(d, poll[d])
  BY Types DEF IInv, TypeOK, PollsFit
<1>2. p \in Poll
  BY <1>1 DEF Fresh, Poll, Phases
<1>3. /\ p.rev = Rev /\ p.running = running /\ p.phase = "looked" /\ p.since = poll[d].since
      /\ p.brings = poll[d].brings /\ poll[d].phase = "asked"
  BY <1>1 DEF Fresh, Poll, Look
<1>4. poll' = [poll EXCEPT ![d] = p]
  BY DEF Look
<1> HIDE DEF p
<1>5. PollOK(d, p)
  BY <1>1, <1>3 DEF PollOK, HasNews
<1> QED
  BY <1>2, <1>4, <1>5, PollStep DEF Look, IInv, TypeOK

\* A request that is read, and no longer of interest to anyone.
LEMMA ReadOK ==
    ASSUME IInv, NEW d \in Device, poll[d].phase \in {"looked", "parked"}, NEW p \in Poll,
           p.phase = "read", p.since = poll[d].since, p.brings = poll[d].brings, p.rev <= Rev
    PROVE  PollOK(d, p)
BY DEF IInv, PollsFit, PollOK

LEMMA ParkInv ==
    ASSUME IInv, NEW d \in Device, Park(d)
    PROVE  IInv'
<1>1. poll[d] \in Poll /\ PollOK(d, poll[d]) /\ poll[d].phase = "looked"
  BY Types DEF IInv, TypeOK, PollsFit, Park
<1>2. CASE poll[d].wait /\ poll[d].since = poll[d].rev /\ poll[d].claim = poll[d].running
  <2> DEFINE p == [poll[d] EXCEPT !.phase = "parked"]
  <2>1. p \in Poll
    BY <1>1 DEF Poll, Phases
  <2>2. /\ p.rev = poll[d].rev /\ p.running = poll[d].running /\ p.phase = "parked"
        /\ p.since = poll[d].since /\ p.brings = poll[d].brings /\ p.claim = poll[d].claim
        /\ p.heard = poll[d].heard
    BY <1>1 DEF Poll
  <2>3. poll' = [poll EXCEPT ![d] = p]
    BY <1>2 DEF Park
  <2> HIDE DEF p
  <2>4. PollOK(d, p)
    BY <1>1, <1>2, <2>2 DEF PollOK, HasNews
  <2> QED
    BY <2>1, <2>3, <2>4, PollStep DEF Park, IInv, TypeOK
<1>3. CASE ~ (poll[d].wait /\ poll[d].since = poll[d].rev /\ poll[d].claim = poll[d].running)
  <2> DEFINE p == Read([poll[d] EXCEPT !.phase = "read"])
  <2>1. p \in Poll
    BY <1>1 DEF Read, Poll, Phases
  <2>2. /\ p.rev = poll[d].rev /\ p.phase = "read"
        /\ p.since = poll[d].since /\ p.brings = poll[d].brings
    BY <1>1 DEF Read, Poll
  <2>3. poll' = [poll EXCEPT ![d] = p]
    BY <1>3 DEF Park
  <2> HIDE DEF p
  <2>4. PollOK(d, p)
    BY <1>1, <2>1, <2>2, ReadOK DEF PollOK
  <2> QED
    BY <2>1, <2>3, <2>4, PollStep DEF Park, IInv, TypeOK
<1> QED
  BY <1>2, <1>3

LEMMA WakeInv ==
    ASSUME IInv, NEW d \in Device, Wake(d) \/ TimeOut(d)
    PROVE  IInv'
<1>1. /\ poll[d] \in Poll /\ PollOK(d, poll[d]) /\ poll[d].phase = "parked"
      /\ Rev \in Nat /\ running \in BOOLEAN
  BY Types DEF IInv, TypeOK, PollsFit, Wake, TimeOut
<1>2. CASE Wake(d)
  <2> DEFINE p == Read(Fresh(d, "read"))
  <2>1. p \in Poll
    BY <1>1 DEF Read, Fresh, Poll, Phases
  <2>2. /\ p.rev = Rev /\ p.phase = "read"
        /\ p.since = poll[d].since /\ p.brings = poll[d].brings
    BY <1>1 DEF Read, Fresh, Poll
  <2>3. poll' = [poll EXCEPT ![d] = p]
    BY <1>2 DEF Wake
  <2> HIDE DEF p
  <2>4. PollOK(d, p)
    BY <1>1, <2>1, <2>2, ReadOK
  <2> QED
    BY <1>2, <2>1, <2>3, <2>4, PollStep DEF Wake, IInv, TypeOK
<1>3. CASE TimeOut(d)
  <2> DEFINE p == Read([poll[d] EXCEPT !.phase = "read"])
  <2>1. p \in Poll
    BY <1>1 DEF Read, Poll, Phases
  <2>2. /\ p.rev = poll[d].rev /\ p.phase = "read"
        /\ p.since = poll[d].since /\ p.brings = poll[d].brings
    BY <1>1 DEF Read, Poll
  <2>3. poll' = [poll EXCEPT ![d] = p]
    BY <1>3 DEF TimeOut
  <2> HIDE DEF p
  <2>4. PollOK(d, p)
    BY <1>1, <2>1, <2>2, ReadOK DEF PollOK
  <2> QED
    BY <1>3, <2>1, <2>3, <2>4, PollStep DEF TimeOut, IInv, TypeOK
<1> QED
  BY <1>2, <1>3

\* What only d has written, d has.
LEMMA OnlyOwnIsHeld ==
    ASSUME IInv, NEW d \in Device, NEW since \in Nat, NEW upto \in Nat, upto <= Rev,
           1..since \subseteq Holds(d), OnlyOwn(d, since, upto)
    PROVE  1..upto \subseteq Holds(d)
<1> SUFFICES ASSUME NEW k \in 1..upto PROVE k \in Holds(d)
  OBVIOUS
<1>1. CASE k <= since
  BY <1>1
<1>2. CASE k > since
  <2>1. k \in (since + 1)..upto
    BY <1>2
  <2>2. saves[k] = d
    BY <2>1 DEF OnlyOwn, IInv, RecordIsTrue
  <2>3. k \in 1..Rev
    BY Types DEF IInv
  <2> QED
    BY <2>2, <2>3 DEF Holds
<1> QED
  BY <1>1, <1>2

LEMMA AnswerInv ==
    ASSUME IInv, NEW d \in Device, Answer(d)
    PROVE  IInv'
<1>1. /\ poll[d] \in Poll /\ PollOK(d, poll[d]) /\ poll[d].phase = "read"
      /\ Rev \in Nat /\ running \in BOOLEAN
  BY Types DEF IInv, TypeOK, PollsFit, Answer
<1>2. PICK q \in {poll[d], Fresh(d, "read")}, b \in {"same", "own", "document"} :
        /\ poll' = [poll EXCEPT ![d] = Home(q, b)]
        /\ b = "own" => q = poll[d] /\ OnlyOwn(d, poll[d].since, poll[d].rev)
  BY DEF Answer
<1> DEFINE p == Home(q, b)
<1>3. q \in Poll /\ q.rev <= Rev
  <2>1. CASE q = poll[d]
    BY <1>1, <2>1 DEF PollOK
  <2>2. CASE q = Fresh(d, "read")
    <3>1. Fresh(d, "read") \in Poll
      BY <1>1 DEF Fresh, Poll, Phases
    <3>2. Fresh(d, "read").rev = Rev
      BY <1>1 DEF Fresh, Poll
    <3> QED
      BY <1>1, <2>2, <3>1, <3>2
  <2> QED
    BY <2>1, <2>2
<1>4. p \in Poll
  BY <1>3 DEF Home, Poll, Phases
<1>5. p.rev = q.rev /\ p.since = 0 /\ p.brings = b /\ p.phase = "answered"
  BY <1>3 DEF Home, Poll
<1>6. poll' = [poll EXCEPT ![d] = p]
  BY <1>2
<1> HIDE DEF p
<1>7. b = "own" => 1..q.rev \subseteq Holds(d)
  BY <1>1, <1>2, OnlyOwnIsHeld DEF PollOK, Poll
<1>8. PollOK(d, p)
  BY <1>3, <1>5, <1>7 DEF PollOK
<1> QED
  BY <1>4, <1>6, <1>8, PollStep DEF Answer, IInv, TypeOK

LEMMA NoPollOK == ASSUME TypeOK, NEW d \in Device PROVE PollOK(d, NoPoll)
<1>1. /\ NoPoll.rev = 0 /\ NoPoll.since = 0 /\ NoPoll.brings = "same" /\ NoPoll.phase = "none"
      /\ Rev \in Nat
  BY Types DEF NoPoll
<1> QED
  BY <1>1 DEF PollOK

LEMMA AbortInv ==
    ASSUME IInv, NEW d \in Device, Abort(d)
    PROVE  IInv'
<1>1. NoPoll \in Poll /\ PollOK(d, NoPoll)
  BY Types, NoPollOK DEF IInv
<1>2. /\ poll' = [poll EXCEPT ![d] = NoPoll] /\ faults' \in Nat
      /\ believed' \in [Device -> BOOLEAN]
      /\ UNCHANGED <<server, engine, liveRev, shown, lifecycle>>
  BY DEF Abort, IInv, TypeOK
<1> QED
  BY <1>1, <1>2, PollStep

LEMMA HeardInv ==
    ASSUME IInv, NEW d \in Device, Heard(d)
    PROVE  IInv'
<1>1. /\ poll[d] \in Poll /\ PollOK(d, poll[d]) /\ NoPoll \in Poll /\ PollOK(d, NoPoll)
      /\ poll[d].rev \in Nat /\ poll[d].rev <= Rev /\ Rev \in Nat
  BY Types, NoPollOK DEF IInv, PollsFit, PollOK, Poll
<1>2. believed' \in [Device -> BOOLEAN]
  BY <1>1 DEF Heard, Poll, IInv, TypeOK
<1>3. CASE UNCHANGED <<liveRev, shown, rev>>
  <2>1. /\ poll' = [poll EXCEPT ![d] = NoPoll] /\ faults' \in Nat
        /\ UNCHANGED <<server, engine, liveRev, shown, lifecycle>>
    BY <1>3 DEF Heard, engine, IInv, TypeOK
  <2>2. NoPoll \in Poll /\ PollOK(d, NoPoll)
    BY <1>1
  <2> QED
    BY <1>2, <2>1, <2>2, PollStep
<1>4. CASE ~ UNCHANGED <<liveRev, shown, rev>>
  <2>1. /\ poll' = [poll EXCEPT ![d] = NoPoll]
        /\ UNCHANGED <<saves, running, hooks, writes, quiet, viewers, put, dirty, edited, faults,
                       lifecycle>>
    BY DEF Heard, server
  <2>2. \/ /\ poll[d].brings = "own"
           /\ liveRev' = [liveRev EXCEPT ![d] = Max2(@, poll[d].rev)] /\ UNCHANGED <<shown, rev>>
        \/ ~Skips(d) /\ poll[d].rev > rev[d] /\ Adopted(d)
    BY <1>4 DEF Heard
  <2>3. rev' \in [Device -> Nat] /\ liveRev' \in [Device -> Nat] /\ shown' \in [Device -> SUBSET Nat]
    <3>1. CASE liveRev' = [liveRev EXCEPT ![d] = Max2(@, poll[d].rev)] /\ UNCHANGED <<shown, rev>>
      <4>1. Max2(liveRev[d], poll[d].rev) \in Nat
        BY <1>1 DEF Max2, IInv, TypeOK
      <4> QED
        BY <3>1, <4>1 DEF IInv, TypeOK
    <3>2. CASE Adopted(d)
      <4>1. 1..poll[d].rev \in SUBSET Nat
        BY <1>1
      <4>2. shown' \in [Device -> SUBSET Nat]
        BY <3>2, <4>1 DEF Adopted, IInv, TypeOK
      <4> QED
        BY <1>1, <3>2, <4>2 DEF Adopted, IInv, TypeOK
    <3> QED
      BY <2>2, <3>1, <3>2
  <2>4. TypeOK'
    <3>1. poll' \in [Device -> Poll]
      BY <1>1, <2>1, Types DEF IInv
    <3> QED
      BY <1>2, <2>1, <2>3, <3>1 DEF IInv, TypeOK, Poll, Rev
  <2>5. \A e \in Device \ {d} : /\ Holds(e)' = Holds(e) /\ poll'[e] = poll[e] /\ rev'[e] = rev[e]
                                /\ liveRev'[e] = liveRev[e] /\ shown'[e] = shown[e]
    BY <2>1, <2>2 DEF Adopted, Holds, Rev, IInv, TypeOK
  <2>6. /\ 1..rev'[d] \subseteq Holds(d)' /\ 1..liveRev'[d] \subseteq Holds(d)'
        /\ 1..put[d].rev \subseteq Holds(d)' /\ shown'[d] \subseteq 1..Rev
    <3>1. CASE /\ poll[d].brings = "own"
               /\ liveRev' = [liveRev EXCEPT ![d] = Max2(@, poll[d].rev)]
               /\ UNCHANGED <<shown, rev>>
      <4>1. Holds(d)' = Holds(d)
        BY <2>1, <3>1 DEF Holds, Rev
      <4>2. liveRev'[d] = liveRev[d] \/ liveRev'[d] = poll[d].rev
        BY <3>1 DEF Max2, IInv, TypeOK
      <4> QED
        BY <1>1, <3>1, <4>1, <4>2 DEF PollOK, IInv, Passes, ShownIsSaved
    <3>2. CASE ~Skips(d) /\ poll[d].rev > rev[d] /\ Adopted(d)
      <4>1. /\ liveRev'[d] = poll[d].rev /\ shown'[d] = 1..poll[d].rev
            /\ rev'[d] \in Nat /\ rev'[d] <= poll[d].rev
        BY <1>1, <3>2 DEF Adopted, IInv, TypeOK
      <4>2. 1..poll[d].rev \subseteq Holds(d)'
        BY <4>1 DEF Holds
      <4>3. put[d].rev = 0
        BY <3>2 DEF Skips, IInv, SaveIsOwed, NoPut
      <4> QED
        BY <1>1, <4>1, <4>2, <4>3
    <3> QED
      BY <2>2, <3>1, <3>2
  <2>7. Passes' /\ ShownIsSaved'
    BY <2>1, <2>5, <2>6 DEF IInv, Passes, ShownIsSaved, Rev
  <2>8. RecordIsTrue' /\ SaveIsOwed'
    BY <2>1 DEF IInv, RecordIsTrue, SaveIsOwed, Rev
  <2>9. ASSUME NEW e \in Device PROVE PollOK(e, poll[e])'
    <3>1. CASE e = d
      <4>1. poll'[e] = NoPoll
        BY <2>1, <3>1, Types DEF IInv
      <4>2. /\ NoPoll.rev = 0 /\ NoPoll.since = 0 /\ NoPoll.brings = "same"
            /\ NoPoll.phase = "none" /\ Rev' \in Nat
        BY <1>1, <2>1 DEF NoPoll, Rev
      <4> QED
        BY <4>1, <4>2 DEF PollOK
    <3>2. CASE e # d
      BY <2>1, <2>5, <3>2 DEF PollOK, HasNews, Rev, IInv, PollsFit
    <3> QED
      BY <3>1, <3>2
  <2> QED
    BY <2>4, <2>7, <2>8, <2>9 DEF IInv, PollsFit
<1> QED
  BY <1>3, <1>4

-----------------------------------------------------------------------------
(* The saves of a device *)

\* A step of d's engine that asks nothing of the server's state.
LEMMA EngineStep ==
    ASSUME IInv, NEW d \in Device, NEW p \in Put, put' = [put EXCEPT ![d] = p],
           NEW n \in Nat, rev' = [rev EXCEPT ![d] = n],
           1..p.rev \subseteq Holds(d), 1..n \subseteq Holds(d),
           p # NoPut => dirty'[d], dirty'[d] => d \notin viewers,
           \A e \in Device \ {d} : dirty'[e] = dirty[e],
           dirty' \in [Device -> BOOLEAN], edited' \in [Device -> BOOLEAN], faults' \in Nat,
           UNCHANGED <<server, poll, liveRev, shown, believed, lifecycle>>
    PROVE  IInv'
<1>1. UNCHANGED <<saves, running, hooks, writes, quiet, viewers>>
  BY DEF server
<1>2. put' \in [Device -> Put] /\ rev' \in [Device -> Nat]
  BY Types DEF IInv, TypeOK
<1>3. TypeOK'
  BY <1>1, <1>2 DEF IInv, TypeOK, Put, Rev
<1>4. \A e \in Device : Holds(e)' = Holds(e)
  BY <1>1 DEF Holds, Rev
<1>5. RecordIsTrue' /\ ShownIsSaved'
  BY <1>1 DEF IInv, RecordIsTrue, ShownIsSaved, Rev
<1>6. \A e \in Device : /\ put'[e] = IF e = d THEN p ELSE put[e]
                        /\ rev'[e] = IF e = d THEN n ELSE rev[e]
  BY Types DEF IInv, TypeOK
<1>7. Passes'
  BY <1>4, <1>6 DEF IInv, Passes
<1>8. SaveIsOwed'
  BY <1>1, <1>6 DEF IInv, SaveIsOwed, NoPut
<1>9. PollsFit'
  BY <1>1, <1>4 DEF IInv, PollsFit, PollOK, HasNews, Rev
<1> QED
  BY <1>3, <1>5, <1>7, <1>8, <1>9 DEF IInv

LEMMA EditInv ==
    ASSUME IInv, NEW d \in Device, Edit(d)
    PROVE  IInv'
<1>1. /\ d \notin viewers /\ dirty' = [dirty EXCEPT ![d] = TRUE]
      /\ edited' = [edited EXCEPT ![d] = put[d] # NoPut]
      /\ UNCHANGED <<server, poll, put, rev, liveRev, shown, believed, faults, lifecycle>>
  BY DEF Edit
<1>2. put[d] \in Put /\ rev[d] \in Nat /\ put' = [put EXCEPT ![d] = put[d]]
      /\ rev' = [rev EXCEPT ![d] = rev[d]]
  BY <1>1, Types DEF IInv, TypeOK
<1>3. /\ dirty' \in [Device -> BOOLEAN] /\ edited' \in [Device -> BOOLEAN]
      /\ dirty'[d] /\ \A e \in Device \ {d} : dirty'[e] = dirty[e]
  BY <1>1 DEF IInv, TypeOK
<1>4. 1..put[d].rev \subseteq Holds(d) /\ 1..rev[d] \subseteq Holds(d)
  BY DEF IInv, Passes
<1>5. faults' \in Nat
  BY <1>1 DEF IInv, TypeOK
<1> QED
  BY <1>1, <1>2, <1>3, <1>4, <1>5, EngineStep

LEMMA PushInv ==
    ASSUME IInv, NEW d \in Device, Push(d)
    PROVE  IInv'
<1> DEFINE p == [state |-> "sent", rev |-> rev[d]]
<1>1. /\ dirty[d] /\ put' = [put EXCEPT ![d] = p] /\ edited' = [edited EXCEPT ![d] = FALSE]
      /\ UNCHANGED <<server, poll, rev, dirty, liveRev, shown, believed, faults, lifecycle>>
  BY DEF Push
<1>2. rev[d] \in Nat /\ rev' = [rev EXCEPT ![d] = rev[d]] /\ p \in Put /\ p.rev = rev[d]
  BY <1>1 DEF IInv, TypeOK, Put
<1>3. dirty' \in [Device -> BOOLEAN] /\ edited' \in [Device -> BOOLEAN] /\ faults' \in Nat
  BY <1>1 DEF IInv, TypeOK
<1>4. 1..rev[d] \subseteq Holds(d) /\ d \notin viewers
  BY <1>1 DEF IInv, Passes, SaveIsOwed
<1> HIDE DEF p
<1> QED
  BY <1>1, <1>2, <1>3, <1>4, EngineStep

LEMMA SavedInv ==
    ASSUME IInv, NEW d \in Device, Saved(d)
    PROVE  IInv'
<1>1. /\ put[d].state = "saved" /\ put' = [put EXCEPT ![d] = NoPut]
      /\ rev' = [rev EXCEPT ![d] = put[d].rev] /\ dirty' = [dirty EXCEPT ![d] = edited[d]]
      /\ edited' = [edited EXCEPT ![d] = FALSE]
      /\ UNCHANGED <<server, poll, liveRev, shown, believed, faults, lifecycle>>
  BY DEF Saved
<1>2. put[d].rev \in Nat /\ NoPut \in Put /\ NoPut.rev = 0 /\ put[d] # NoPut
  BY <1>1, Types DEF IInv, Put, NoPut
<1>3. /\ dirty' \in [Device -> BOOLEAN] /\ edited' \in [Device -> BOOLEAN] /\ faults' \in Nat
      /\ \A e \in Device \ {d} : dirty'[e] = dirty[e]
  BY <1>1 DEF IInv, TypeOK
<1>4. 1..put[d].rev \subseteq Holds(d) /\ d \notin viewers
  BY <1>2 DEF IInv, Passes, SaveIsOwed
<1>5. 1..NoPut.rev \subseteq Holds(d)
  BY <1>2
<1> QED
  BY <1>1, <1>2, <1>3, <1>4, <1>5, EngineStep

LEMMA PutLostInv ==
    ASSUME IInv, NEW d \in Device, PutLost(d)
    PROVE  IInv'
<1>1. /\ put' = [put EXCEPT ![d] = NoPut] /\ faults' = faults + 1
      /\ UNCHANGED <<server, poll, rev, dirty, edited, liveRev, shown, believed, lifecycle>>
  BY DEF PutLost
<1>2. /\ rev[d] \in Nat /\ rev' = [rev EXCEPT ![d] = rev[d]] /\ NoPut \in Put
      /\ 1..NoPut.rev \subseteq Holds(d)
  BY <1>1, Types DEF IInv, TypeOK, NoPut
<1>3. dirty' \in [Device -> BOOLEAN] /\ edited' \in [Device -> BOOLEAN] /\ faults' \in Nat
  BY <1>1 DEF IInv, TypeOK
<1>4. 1..rev[d] \subseteq Holds(d) /\ (dirty'[d] => d \notin viewers)
  BY <1>1 DEF IInv, Passes, SaveIsOwed
<1> QED
  BY <1>1, <1>2, <1>3, <1>4, EngineStep

LEMMA MergedInv ==
    ASSUME IInv, NEW d \in Device, Merged(d)
    PROVE  IInv'
<1>1. /\ put' = [put EXCEPT ![d] = NoPut] /\ rev' = [rev EXCEPT ![d] = Rev]
      /\ liveRev' = [liveRev EXCEPT ![d] = Rev] /\ shown' = [shown EXCEPT ![d] = 1..Rev]
      /\ UNCHANGED <<saves, running, hooks, writes, quiet, viewers, poll, dirty, edited,
                     believed, faults, lifecycle>>
  BY DEF Merged, server
<1>2. Rev \in Nat /\ NoPut \in Put /\ NoPut.rev = 0 /\ 1..Rev \in SUBSET Nat
  BY Types DEF IInv, NoPut
<1>3. TypeOK'
  <2>1. put' \in [Device -> Put] /\ rev' \in [Device -> Nat] /\ liveRev' \in [Device -> Nat]
    BY <1>1, <1>2, Types DEF IInv, TypeOK
  <2>2. shown' \in [Device -> SUBSET Nat]
    BY <1>1, <1>2 DEF IInv, TypeOK
  <2> QED
    BY <1>1, <2>1, <2>2 DEF IInv, TypeOK, Put, Rev
<1>4. \A e \in Device : /\ put'[e] = IF e = d THEN NoPut ELSE put[e]
                        /\ rev'[e] = IF e = d THEN Rev ELSE rev[e]
                        /\ liveRev'[e] = IF e = d THEN Rev ELSE liveRev[e]
                        /\ shown'[e] = IF e = d THEN 1..Rev ELSE shown[e]
  BY <1>1, Types DEF IInv, TypeOK
<1>5. Rev' = Rev
  BY <1>1 DEF Rev
<1>6. \A e \in Device : Holds(e) \subseteq Holds(e)'
  BY <1>1, <1>4, <1>5 DEF Holds, IInv, ShownIsSaved
<1>7. 1..Rev \subseteq Holds(d)'
  BY <1>4 DEF Holds
<1>8. RecordIsTrue' /\ SaveIsOwed'
  BY <1>1, <1>4, <1>5 DEF IInv, RecordIsTrue, SaveIsOwed
<1>9. ShownIsSaved' /\ Passes'
  BY <1>2, <1>4, <1>5, <1>6, <1>7 DEF IInv, ShownIsSaved, Passes
<1>10. PollsFit'
  BY <1>1, <1>5, <1>6 DEF IInv, PollsFit, PollOK, HasNews
<1> QED
  BY <1>3, <1>8, <1>9, <1>10 DEF IInv

-----------------------------------------------------------------------------
(* The steps of the server *)

\* A revision is saved, and its callbacks are to run; or nobody here is told.
LEMMA CommitStep ==
    ASSUME IInv, NEW w \in Device \cup {Server}, saves' = Append(saves, w),
           \/ /\ quiet' = quiet
              /\ \E records \in BOOLEAN :
                   /\ hooks' = hooks \cup {[rev |-> Rev + 1, writer |-> w, records |-> records]}
                   /\ records => w \in Device
           \/ quiet' = quiet \cup {Rev + 1} /\ hooks' = hooks,
           UNCHANGED <<running, writes, viewers, poll>>
    PROVE  /\ saves' \in Seq(Device \cup {Server}) /\ hooks' \subseteq Hook /\ quiet' \subseteq 1..Rev'
           /\ DOMAIN writes \subseteq 1..Rev'
           /\ Rev' = Rev + 1 /\ saves'[Rev + 1] = w
           /\ RecordIsTrue' /\ (UNCHANGED shown => ShownIsSaved' /\ PollsFit')
<1>1. /\ saves' \in Seq(Device \cup {Server}) /\ Rev' = Rev + 1 /\ saves'[Rev + 1] = w
      /\ \A k \in 1..Rev : saves'[k] = saves[k]
      /\ Rev \in Nat
  BY Types DEF IInv, Rev
<1>2. hooks' \subseteq Hook
  BY <1>1, Types DEF IInv, Hook
<1>n. 1..Rev \subseteq 1..Rev' /\ Rev + 1 \in 1..Rev'
  BY <1>1
<1>t. quiet \subseteq 1..Rev /\ DOMAIN writes \subseteq 1..Rev
  BY DEF IInv, TypeOK
<1>3. quiet' \subseteq 1..Rev' /\ DOMAIN writes \subseteq 1..Rev'
  BY <1>n, <1>t
<1>4. RecordIsTrue'
  <2>1. \A k \in DOMAIN writes : writes[k] = saves'[k]
    BY <1>1, <1>t DEF IInv, RecordIsTrue
  <2>2. ASSUME NEW h \in hooks', h.records
        PROVE  h.rev \in 1..Rev' /\ h.writer \in Device /\ saves'[h.rev] = h.writer
    <3>1. CASE h \in hooks
      <4>1. h.rev \in 1..Rev /\ h.writer \in Device /\ saves[h.rev] = h.writer
        BY <2>2, <3>1 DEF IInv, RecordIsTrue
      <4>2. saves'[h.rev] = saves[h.rev]
        BY <1>1, <4>1
      <4> QED
        BY <1>n, <4>1, <4>2
    <3>2. CASE h \notin hooks
      <4>1. PICK records \in BOOLEAN : /\ h = [rev |-> Rev + 1, writer |-> w, records |-> records]
                                       /\ records => w \in Device
        BY <2>2, <3>2
      <4>2. h.rev = Rev + 1 /\ h.writer = w /\ w \in Device
        BY <2>2, <4>1
      <4> QED
        BY <1>1, <1>n, <4>2
    <3> QED
      BY <3>1, <3>2
  <2> QED
    BY <2>1, <2>2 DEF RecordIsTrue
<1>5. ASSUME UNCHANGED shown PROVE ShownIsSaved' /\ PollsFit'
  <2>1. \A d \in Device : Holds(d) \subseteq Holds(d)'
    BY <1>5, HoldsMore DEF IInv, Grown
  <2>2. ShownIsSaved'
    BY <1>1, <1>5 DEF IInv, ShownIsSaved
  <2>3. ASSUME NEW d \in Device PROVE PollOK(d, poll[d])'
    <3>1. PollOK(d, poll[d]) /\ poll[d].rev \in Nat
      BY Types DEF IInv, PollsFit, Poll
    <3>2. hooks' # {} \/ (hooks' = hooks /\ (HasNews(poll[d])' => HasNews(poll[d])))
      <4>1. CASE \E records \in BOOLEAN :
                   hooks' = hooks \cup {[rev |-> Rev + 1, writer |-> w, records |-> records]}
        BY <4>1
      <4>2. CASE quiet' = quiet \cup {Rev + 1} /\ hooks' = hooks
        <5>1. ASSUME NEW k \in (poll[d].rev + 1)..Rev', k \notin quiet'
              PROVE  k \in (poll[d].rev + 1)..Rev /\ k \notin quiet
          BY <1>1, <3>1, <4>2, <5>1
        <5> QED
          BY <4>2, <5>1 DEF HasNews
      <4> QED
        BY <4>1, <4>2
    <3> QED
      BY <1>1, <2>1, <3>1, <3>2 DEF PollOK
  <2> QED
    BY <2>2, <2>3 DEF PollsFit
<1> QED
  BY <1>1, <1>2, <1>3, <1>4, <1>5

LEMMA ServerWritesInv ==
    ASSUME IInv, ServerWrites \/ OtherProcess
    PROVE  IInv'
<1>1. /\ saves' = Append(saves, Server)
      /\ UNCHANGED <<running, writes, viewers, poll, put, rev, dirty, edited, liveRev, shown,
                     believed, faults, lifecycle>>
  BY DEF ServerWrites, OtherProcess, Commit, engine
<1>2. \/ /\ quiet' = quiet
         /\ hooks' = hooks \cup {[rev |-> Rev + 1, writer |-> Server, records |-> FALSE]}
      \/ quiet' = quiet \cup {Rev + 1} /\ hooks' = hooks
  BY DEF ServerWrites, OtherProcess, Commit
<1>3. /\ saves' \in Seq(Device \cup {Server}) /\ hooks' \subseteq Hook /\ quiet' \subseteq 1..Rev'
      /\ DOMAIN writes \subseteq 1..Rev' /\ RecordIsTrue' /\ ShownIsSaved' /\ PollsFit'
  BY <1>1, <1>2, CommitStep
<1>4. TypeOK'
  BY <1>1, <1>3 DEF IInv, TypeOK, Hook
<1>5. Passes' /\ SaveIsOwed'
  BY <1>1, PassesKept DEF Grown
<1> QED
  BY <1>3, <1>4, <1>5 DEF IInv

LEMMA SaveInv ==
    ASSUME IInv, NEW d \in Device, Save(d)
    PROVE  IInv'
<1>1. /\ put[d].state = "sent" /\ put[d] \in Put /\ put[d] # NoPut /\ Rev \in Nat
      /\ UNCHANGED <<running, writes, viewers, quiet, poll, rev, dirty, edited, liveRev, shown,
                     believed, faults, lifecycle>>
  BY Types DEF Save, Commit, IInv, NoPut
<1>2. CASE put[d].rev # Rev
  <2> DEFINE p == [state |-> "conflict", rev |-> 0]
  <2>1. /\ put' = [put EXCEPT ![d] = p] /\ rev' = [rev EXCEPT ![d] = rev[d]] /\ rev[d] \in Nat
        /\ UNCHANGED <<server, poll, dirty, edited, liveRev, shown, believed, faults, lifecycle>>
    BY <1>1, <1>2 DEF Save, server, IInv, TypeOK
  <2>2. p \in Put /\ p.rev = 0
    BY DEF Put
  <2>3. /\ dirty' \in [Device -> BOOLEAN] /\ edited' \in [Device -> BOOLEAN] /\ faults' \in Nat
        /\ dirty'[d] /\ d \notin viewers /\ 1..rev[d] \subseteq Holds(d)
    BY <1>1 DEF IInv, TypeOK, SaveIsOwed, Passes
  <2>4. 1..p.rev \subseteq Holds(d)
    BY <2>2
  <2> HIDE DEF p
  <2> QED
    BY <2>1, <2>2, <2>3, <2>4, EngineStep
<1>3. CASE put[d].rev = Rev
  <2> DEFINE p == [state |-> "saved", rev |-> Rev + 1]
  <2>1. /\ saves' = Append(saves, d) /\ put' = [put EXCEPT ![d] = p]
        /\ hooks' = hooks \cup {[rev |-> Rev + 1, writer |-> d, records |-> TRUE]}
    BY <1>3 DEF Save, Commit
  <2>2. /\ saves' \in Seq(Device \cup {Server}) /\ hooks' \subseteq Hook /\ quiet' \subseteq 1..Rev'
        /\ DOMAIN writes \subseteq 1..Rev' /\ RecordIsTrue' /\ ShownIsSaved' /\ PollsFit'
        /\ Rev' = Rev + 1 /\ saves'[Rev + 1] = d
    BY <1>1, <2>1, CommitStep
  <2>3. p \in Put /\ p.rev = Rev + 1
    BY <1>1 DEF Put
  <2> HIDE DEF p
  <2>4. put' \in [Device -> Put]
    BY <2>1, <2>3, Types DEF IInv
  <2>5. TypeOK'
    BY <1>1, <2>2, <2>4 DEF IInv, TypeOK, Hook, Put
  <2>6. \A e \in Device : Holds(e) \subseteq Holds(e)'
    BY <1>1, <2>1, HoldsMore DEF IInv, Grown
  <2>7. 1..(Rev + 1) \subseteq Holds(d)'
    <3>1. 1..Rev \subseteq Holds(d)
      BY <1>3 DEF IInv, Passes
    <3>2. Rev + 1 \in Holds(d)'
      BY <1>1, <2>2 DEF Holds
    <3> QED
      BY <1>1, <2>6, <3>1, <3>2
  <2>8. \A e \in Device : put'[e] = IF e = d THEN p ELSE put[e]
    BY <2>1, Types DEF IInv
  <2>9. Passes'
    BY <1>1, <2>3, <2>6, <2>7, <2>8 DEF IInv, Passes
  <2>10. SaveIsOwed'
    BY <1>1, <2>8 DEF IInv, SaveIsOwed, NoPut
  <2> QED
    BY <2>2, <2>5, <2>9, <2>10 DEF IInv
<1> QED
  BY <1>2, <1>3

\* What is put on record is what its callback says.
LEMMA RecordedIsTrue ==
    ASSUME IInv, NEW h \in hooks, h.records
    PROVE  /\ DOMAIN Recorded(h) \subseteq 1..Rev
           /\ \A k \in DOMAIN Recorded(h) : Recorded(h)[k] = saves[k] /\ Recorded(h)[k] \in Device
<1> DEFINE revs == [k \in DOMAIN writes \cup {h.rev} |-> IF k = h.rev THEN h.writer ELSE writes[k]]
<1>1. /\ h.rev \in 1..Rev /\ h.writer \in Device /\ saves[h.rev] = h.writer
      /\ DOMAIN writes \subseteq 1..Rev
      /\ \A k \in DOMAIN writes : writes[k] = saves[k] /\ writes[k] \in Device
  BY DEF IInv, RecordIsTrue, TypeOK
<1>2. /\ DOMAIN revs \subseteq 1..Rev
      /\ \A k \in DOMAIN revs : revs[k] = saves[k] /\ revs[k] \in Device
  BY <1>1
<1>3. Recorded(h) = revs \/ Recorded(h) = Restrict(revs, DOMAIN revs \ {Min(DOMAIN revs)})
  BY DEF Recorded
<1> HIDE DEF revs
<1>4. CASE Recorded(h) = revs
  BY <1>2, <1>4
<1>5. CASE Recorded(h) = Restrict(revs, DOMAIN revs \ {Min(DOMAIN revs)})
  <2> DEFINE m == Min(DOMAIN revs)
  <2>1. Recorded(h) = [k \in DOMAIN revs \ {m} |-> revs[k]]
    BY <1>5 DEF Restrict
  <2> HIDE DEF m
  <2> QED
    BY <1>2, <2>1
<1> QED
  BY <1>3, <1>4, <1>5

LEMMA AfterCommitInv ==
    ASSUME IInv, AfterCommit
    PROVE  IInv'
<1>1. PICK h \in hooks : /\ hooks' = hooks \ {h}
                         /\ writes' = IF h.records THEN Recorded(h) ELSE writes
                         /\ poll' = Woken
  BY DEF AfterCommit
<1>2. UNCHANGED <<saves, running, quiet, viewers, put, rev, dirty, edited, liveRev, shown,
                  believed, faults, lifecycle>>
  BY DEF AfterCommit, engine
<1>3. Rev' = Rev /\ \A e \in Device : Holds(e)' = Holds(e)
  BY <1>2 DEF Holds, Rev
<1>4. DOMAIN writes' \subseteq 1..Rev /\ \A k \in DOMAIN writes' : writes'[k] = saves[k] /\ writes'[k] \in Device
  <2>1. CASE h.records
    BY <1>1, <2>1, RecordedIsTrue
  <2>2. CASE ~h.records
    BY <1>1, <2>2 DEF IInv, TypeOK, RecordIsTrue
  <2> QED
    BY <2>1, <2>2
<1>5. \A d \in Device :
        \/ poll'[d] = [poll[d] EXCEPT !.heard = TRUE]
        \/ poll'[d] = poll[d] /\ poll[d].phase \notin {"looked", "parked"}
  BY <1>1 DEF Woken
<1>6. ASSUME NEW d \in Device
      PROVE  /\ poll'[d] \in Poll /\ poll'[d].rev = poll[d].rev /\ poll'[d].since = poll[d].since
             /\ poll'[d].brings = poll[d].brings /\ poll'[d].phase = poll[d].phase
             /\ poll'[d].claim = poll[d].claim /\ poll'[d].running = poll[d].running
             /\ poll[d].phase \in {"looked", "parked"} => poll'[d].heard
  <2>1. poll[d] \in Poll
    BY Types DEF IInv
  <2>2. CASE poll'[d] = [poll[d] EXCEPT !.heard = TRUE]
    BY <2>1, <2>2 DEF Poll
  <2>3. CASE poll'[d] = poll[d] /\ poll[d].phase \notin {"looked", "parked"}
    BY <2>1, <2>3
  <2> QED
    BY <1>5, <2>2, <2>3
<1>7. TypeOK'
  <2>1. poll' \in [Device -> Poll]
    BY <1>1, <1>6 DEF Woken
  <2> QED
    BY <1>1, <1>2, <1>3, <1>4, <2>1 DEF IInv, TypeOK, Poll
<1>8. RecordIsTrue'
  BY <1>1, <1>2, <1>3, <1>4 DEF IInv, RecordIsTrue
<1>9. ShownIsSaved' /\ Passes' /\ SaveIsOwed'
  BY <1>2, <1>3 DEF IInv, ShownIsSaved, Passes, SaveIsOwed
<1>10. PollsFit'
  BY <1>2, <1>3, <1>6 DEF IInv, PollsFit, PollOK
<1> QED
  BY <1>7, <1>8, <1>9, <1>10 DEF IInv

LEMMA LifecycleInv ==
    ASSUME IInv, Lifecycle
    PROVE  IInv'
<1>1. /\ running' = ~running /\ lifecycle' = lifecycle + 1
      /\ hooks' = hooks \cup {[rev |-> 0, writer |-> Server, records |-> FALSE]}
      /\ UNCHANGED <<saves, writes, quiet, viewers, poll, put, rev, dirty, edited, liveRev, shown,
                     believed, faults>>
  BY DEF Lifecycle, engine
<1>2. Rev' = Rev /\ \A e \in Device : Holds(e)' = Holds(e)
  BY <1>1 DEF Holds, Rev
<1>3. TypeOK'
  <2>1. [rev |-> 0, writer |-> Server, records |-> FALSE] \in Hook
    BY DEF Hook
  <2>2. hooks' \subseteq Hook
    BY <1>1, <2>1, Types DEF IInv
  <2> QED
    BY <1>1, <1>2, <2>2 DEF IInv, TypeOK, Hook
<1>4. RecordIsTrue'
  BY <1>1, <1>2 DEF IInv, RecordIsTrue
<1>5. ShownIsSaved' /\ Passes' /\ SaveIsOwed'
  BY <1>1, <1>2 DEF IInv, ShownIsSaved, Passes, SaveIsOwed
<1>6. PollsFit'
  BY <1>1, <1>2 DEF IInv, PollsFit, PollOK
<1> QED
  BY <1>3, <1>4, <1>5, <1>6 DEF IInv

LEMMA RestartInv ==
    ASSUME IInv, Restart
    PROVE  IInv'
<1>1. /\ hooks' = {} /\ writes' = [k \in {} |-> Server] /\ poll' = [d \in Device |-> NoPoll]
      /\ put' = [d \in Device |-> NoPut] /\ faults' = faults + 1
      /\ UNCHANGED <<saves, running, quiet, viewers, rev, dirty, edited, liveRev, shown, believed,
                     lifecycle>>
  BY DEF Restart
<1>2. Rev' = Rev /\ \A e \in Device : Holds(e)' = Holds(e)
  BY <1>1 DEF Holds, Rev
<1>3. TypeOK'
  <2>1. poll' \in [Device -> Poll] /\ put' \in [Device -> Put]
    BY <1>1, Types DEF IInv
  <2> QED
    BY <1>1, <1>2, <2>1 DEF IInv, TypeOK, Poll, Put
<1>4. RecordIsTrue'
  BY <1>1 DEF RecordIsTrue
<1>5. NoPut.rev = 0
  BY DEF NoPut
<1>6. ShownIsSaved' /\ Passes' /\ SaveIsOwed'
  BY <1>1, <1>2, <1>5 DEF IInv, ShownIsSaved, Passes, SaveIsOwed
<1>7. PollsFit'
  <2>1. \A d \in Device : PollOK(d, NoPoll)'
    <3>1. NoPoll.rev = 0 /\ NoPoll.since = 0 /\ NoPoll.brings = "same" /\ NoPoll.phase = "none"
          /\ Rev' \in Nat
      BY <1>2, Types DEF IInv, NoPoll
    <3> QED
      BY <3>1 DEF PollOK
  <2> QED
    BY <1>1, <2>1 DEF PollsFit
<1> QED
  BY <1>3, <1>4, <1>6, <1>7 DEF IInv

-----------------------------------------------------------------------------
(* The theorems *)

LEMMA InitInv == Init => IInv
<1> SUFFICES ASSUME Init PROVE IInv
  OBVIOUS
<1>1. /\ saves = <<>> /\ saves \in Seq(Device \cup {Server}) /\ Rev = 0 /\ hooks = {}
  BY DEF Init, Rev
<1>2. /\ \A d \in Device : poll[d] = NoPoll /\ put[d] = NoPut /\ rev[d] = 0 /\ liveRev[d] = 0
                           /\ shown[d] = {} /\ ~dirty[d]
      /\ NoPut.rev = 0 /\ NoPoll.rev = 0 /\ NoPoll.since = 0 /\ NoPoll.brings = "same"
      /\ NoPoll.phase = "none"
  BY DEF Init, NoPut, NoPoll
<1>3. TypeOK
  <2>1. NoPoll \in Poll /\ NoPut \in Put
    BY DEF NoPoll, NoPut, Poll, Put, Phases
  <2>2. poll \in [Device -> Poll] /\ put \in [Device -> Put]
    BY <2>1 DEF Init
  <2> QED
    BY <1>1, <2>2 DEF Init, TypeOK, Poll, Put
<1>4. RecordIsTrue
  BY DEF Init, RecordIsTrue
<1>5. ShownIsSaved /\ Passes /\ SaveIsOwed
  BY <1>1, <1>2 DEF ShownIsSaved, Passes, SaveIsOwed
<1>6. PollsFit
  BY <1>1, <1>2 DEF PollsFit, PollOK
<1> QED
  BY <1>3, <1>4, <1>5, <1>6 DEF IInv

LEMMA StutterInv == ASSUME IInv, UNCHANGED vars PROVE IInv'
<1>1. UNCHANGED <<saves, running, hooks, writes, quiet, viewers, poll, put, rev, dirty, edited,
                  liveRev, shown, believed, faults, lifecycle>>
  BY DEF vars, server, engine
<1>2. Rev' = Rev /\ \A e \in Device : Holds(e)' = Holds(e)
  BY <1>1 DEF Holds, Rev
<1>3. TypeOK'
  BY <1>1, <1>2 DEF IInv, TypeOK
<1>4. RecordIsTrue' /\ ShownIsSaved' /\ Passes' /\ SaveIsOwed'
  BY <1>1, <1>2 DEF IInv, RecordIsTrue, ShownIsSaved, Passes, SaveIsOwed
<1>5. PollsFit'
  BY <1>1, <1>2 DEF IInv, PollsFit, PollOK, HasNews
<1> QED
  BY <1>3, <1>4, <1>5 DEF IInv

LEMMA NextInv == IInv /\ [Next]_vars => IInv'
<1> SUFFICES ASSUME IInv, [Next]_vars PROVE IInv'
  OBVIOUS
<1>1. CASE AfterCommit
  BY <1>1, AfterCommitInv
<1>2. CASE ServerWrites \/ OtherProcess
  BY <1>2, ServerWritesInv
<1>3. CASE Lifecycle \/ Restart
  BY <1>3, LifecycleInv, RestartInv
<1>4. ASSUME NEW d \in Device,
             Edit(d) \/ Push(d) \/ Save(d) \/ Saved(d) \/ Merged(d) \/ PutLost(d)
      PROVE  IInv'
  BY <1>4, EditInv, PushInv, SaveInv, SavedInv, MergedInv, PutLostInv
<1>5. ASSUME NEW d \in Device, NEW hidden \in BOOLEAN, Ask(d, hidden) PROVE IInv'
  BY <1>5, AskInv
<1>6. ASSUME NEW d \in Device,
             Look(d) \/ Park(d) \/ Wake(d) \/ TimeOut(d) \/ Answer(d) \/ Heard(d) \/ Abort(d)
      PROVE  IInv'
  BY <1>6, LookInv, ParkInv, WakeInv, AnswerInv, HeardInv, AbortInv
<1>7. CASE UNCHANGED vars
  BY <1>7, StutterInv
<1> QED
  BY <1>1, <1>2, <1>3, <1>4, <1>5, <1>6, <1>7 DEF Next

\* The inductive invariant holds however many devices follow and save (live_wait.py,
\* useIncidentSync.ts), and however often the server restarts under them.
THEOREM Invariance == Spec => []IInv
BY InitInv, NextInv, PTL DEF Spec

\* Every variable keeps its type: only a device's own saves are ever on record
\* (live_wait.py, record_write).
THEOREM TypeCorrect == Spec => []TypeOK
BY Invariance, InvImplies, PTL

\* A device that says how far it has come (useIncidentSync.ts, liveRev and the engine's
\* revision) has every save up to there, for any number of devices and writes kept.
THEOREM NothingSkipped == Spec => []HasWhatItPasses
BY Invariance, InvImplies, PTL

\* No request parked in live_wait.py misses a save or a change of the lifecycle that commits
\* around its read: it has been woken, or its callback is still to run.
THEOREM WokenByNews == Spec => []NoneSleepsOnNews
BY Invariance, InvImplies, PTL

=============================================================================
