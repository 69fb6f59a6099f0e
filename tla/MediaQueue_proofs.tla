-------------------------- MODULE MediaQueue_proofs --------------------------
(***************************************************************************)
(* Proofs about MediaQueue, for any number of captures and mishaps.        *)
(***************************************************************************)
EXTENDS MediaQueue, TLAPS

-----------------------------------------------------------------------------
(* The inductive invariant *)

Held == [mode : {"no", "whole", "part"}, items : [Slot -> Entry]]
Flush == [on : BOOLEAN, retry : BOOLEAN,
          ended : [Slot -> {"-", "due", "landed", "offline", "refused"}]]
Replay == [pc : {"off", "asked", "listed", "retire"}, of : SUBSET Slot]

\* The link has reached the server with the Verlauf.
Through(s) == link[s] = "sent"

\* A page that holds the whole queue, since it could not write it, holds the capture too.
HeldIsWhole ==
    held.mode = "whole" => \A s \in durable : held.items[s] # None \/ Through(s)
\* Only what is through is retired, and a link made in this session is on its way.
RetiresThrough == replay.pc = "retire" => \A s \in replay.of : Through(s)
LinkedIsLinked == \A s \in linked : link[s] # "none"

\* A capture has its row from the start, and is not queued before its direct upload ends.
Absent(s) == /\ stored[s] = None /\ held.items[s] = None
             /\ s \notin durable /\ s \notin replay.of
RowFirst == \A s \in Slot : row[s] = "none" => Absent(s) /\ s \notin direct
DirectIsNew == \A s \in direct : Absent(s)
\* A Verlauf that has been read and pulled shows every row there is.
ShowsAll == loaded => \A s \in Slot : row[s] # "none" => s \in shown

\* What a page holds beside a queue it could not read is not in that queue.
PartIsNew == held.mode # "whole" => \A s \in Slot : held.items[s] # None => stored[s] = None
\* A pending item has a try left, an entry is there or is None, and the captures of a flush
\* are still captures.
Tries(items) == \A s \in Slot : /\ items[s].st = "pending" => items[s].n < MaxAttempts
                                /\ items[s].st = "none" => items[s] = None
HasTries == Tries(stored) /\ Tries(held.items)
TakenSt == {"none", "pending"} \cup IF flush.retry THEN {"failed"} ELSE {}
FlushFits == \A s \in Slot : flush.ended[s] # "-" => Items(TRUE)[s].st \in TakenSt

Safe == NoCaptureLost /\ HeldIsWhole /\ RetiresThrough /\ LinkedIsLinked
Order == RowFirst /\ DirectIsNew /\ ShowsAll
Fits == PartIsNew /\ HasTries /\ FlushFits
IInv == TypeOK /\ Safe /\ Order /\ Fits

-----------------------------------------------------------------------------
(* Facts about the lane *)

LEMMA EmptyEntries ==
    /\ None \in Entry /\ Empty \in [Slot -> Entry] /\ \A s \in Slot : Empty[s] = None
    /\ [st |-> "pending", n |-> 0] \in Entry
    /\ NotHeld \in Held /\ NoFlush \in Flush /\ NoReplay \in Replay
<1>1. 0 \in 0..MaxAttempts
  BY MediaAssumption
<1>2. None \in Entry /\ [st |-> "pending", n |-> 0] \in Entry
  BY <1>1 DEF None, Entry
<1>3. Empty \in [Slot -> Entry] /\ \A s \in Slot : Empty[s] = None
  BY <1>2 DEF Empty
<1>4. NotHeld \in Held
  BY <1>3 DEF NotHeld, Held
<1>5. NoFlush \in Flush /\ NoReplay \in Replay
  BY DEF NoFlush, NoReplay, Flush, Replay
<1> QED
  BY <1>2, <1>3, <1>4, <1>5

LEMMA TypeFacts ==
    ASSUME TypeOK
    PROVE  /\ held \in Held /\ flush \in Flush /\ replay \in Replay
           /\ held.mode \in {"no", "whole", "part"} /\ held.items \in [Slot -> Entry]
           /\ flush.ended \in [Slot -> {"-", "due", "landed", "offline", "refused"}]
           /\ replay.of \in SUBSET Slot /\ stored \in [Slot -> Entry]
BY DEF TypeOK, Held, Flush, Replay

LEMMA ItemsTypes ==
    ASSUME TypeOK, NEW r \in BOOLEAN
    PROVE  Items(r) \in [Slot -> Entry]
<1>1. held.items \in [Slot -> Entry] /\ stored \in [Slot -> Entry]
  BY TypeFacts
<1>2. None \in Entry
  BY EmptyEntries
<1> QED
  BY <1>1, <1>2 DEF Items

\* Whoever reads the queue and knows that it is the whole one finds every stored capture.
LEMMA KnownHasAll ==
    ASSUME TypeOK, NoCaptureLost, HeldIsWhole, NEW r \in BOOLEAN, Known(r), NEW s \in durable
    PROVE  Items(r)[s] # None \/ Through(s)
<1>1. s \in Slot
  BY DEF TypeOK
<1>2. CASE held.mode = "whole"
  BY <1>1, <1>2 DEF Items, HeldIsWhole
<1>3. CASE held.mode # "whole"
  <2>1. r = TRUE
    BY <1>3 DEF Known
  <2>2. Items(r)[s] = IF held.items[s] # None THEN held.items[s] ELSE stored[s]
    BY <1>1, <1>3, <2>1 DEF Items
  <2> QED
    BY <2>2 DEF NoCaptureLost, Through
<1> QED
  BY <1>2, <1>3

\* Storing a queue that lacks nothing but what is through loses nothing, whether the write
\* lands or not.
LEMMA StoreKeeps ==
    ASSUME TypeOK, NoCaptureLost, HeldIsWhole, NEW items \in [Slot -> Entry], NEW r \in BOOLEAN,
           NEW w \in BOOLEAN, StoreQueue(items, Known(r), w), NEW s \in durable,
           Known(r) => items[s] # None \/ Through(s)
    PROVE  /\ stored'[s] # None \/ Through(s)
           /\ held'.mode = "whole" => held'.items[s] # None \/ Through(s)
<1>1. CASE Known(r) /\ w
  BY <1>1 DEF StoreQueue, NotHeld
<1>2. CASE Known(r) /\ ~w
  BY <1>2 DEF StoreQueue, NoCaptureLost, Through
<1>3. CASE ~Known(r)
  BY <1>3 DEF StoreQueue, NoCaptureLost, Through, NotHeld
<1> QED
  BY <1>1, <1>2, <1>3

LEMMA StoreTypes ==
    ASSUME TypeOK, NEW items \in [Slot -> Entry], NEW known \in BOOLEAN, NEW w \in BOOLEAN,
           StoreQueue(items, known, w)
    PROVE  stored' \in [Slot -> Entry] /\ held' \in Held
<1>1. [mode |-> IF known THEN "whole" ELSE "part", items |-> items] \in Held
  BY DEF Held
<1> QED
  BY <1>1, EmptyEntries, TypeFacts DEF StoreQueue

LEMMA SettledTypes ==
    ASSUME NEW e \in Entry, e.st \in TakenSt, e.st # "none",
           e.st = "pending" => e.n < MaxAttempts,
           NEW how \in {"landed", "offline", "refused"}
    PROVE  /\ Settled(e, how) \in Entry /\ Settled(e, how) # None
           /\ Settled(e, how).st = "pending" => Settled(e, how).n < MaxAttempts
           /\ Settled(e, how).st # "none"
<1> DEFINE before == IF flush.retry /\ e.st = "failed" THEN 0 ELSE e.n
           after == IF how = "refused" THEN before + 1 ELSE before
<1>1. e.n \in 0..MaxAttempts /\ e.st \in {"pending", "failed"} /\ (e.st = "failed" => flush.retry)
  BY DEF Entry, TakenSt
<1>2. before \in 0..(MaxAttempts - 1)
  BY <1>1, MediaAssumption
<1>3. after \in 0..MaxAttempts /\ (how # "refused" => after < MaxAttempts)
  BY <1>2, MediaAssumption
<1>4. Settled(e, how) = IF how = "landed" THEN [st |-> "uploaded", n |-> e.n]
                        ELSE [st |-> IF how = "refused" /\ after >= MaxAttempts
                                       THEN "failed" ELSE "pending",
                              n |-> after]
  BY DEF Settled
<1> HIDE DEF before, after
<1> QED
  BY <1>1, <1>3, <1>4, MediaAssumption DEF Entry, None

\* Where a queue that is stored, or could not be, ends up.
LEMMA StoreSpreads ==
    ASSUME TypeOK, NEW items \in [Slot -> Entry], NEW r \in BOOLEAN, NEW w \in BOOLEAN,
           StoreQueue(items, Known(r), w), NEW s \in Slot
    PROVE  /\ stored'[s] = items[s] \/ stored'[s] = stored[s]
           /\ held'.items[s] = items[s] \/ held'.items[s] = None
           /\ held'.mode # "whole" /\ held'.items[s] # None => ~Known(r) /\ UNCHANGED stored
           /\ \/ Items(TRUE)'[s] = items[s]
              \/ ~Known(r) /\ items[s] = None /\ Items(TRUE)'[s] = stored[s]
<1>0. Empty[s] = None
  BY EmptyEntries
<1>1. CASE Known(r) /\ w
  <2>1. stored' = items /\ held'.mode = "no" /\ held'.items = Empty
    BY <1>1 DEF StoreQueue, NotHeld
  <2>2. Items(TRUE)'[s] = items[s]
    BY <1>0, <2>1 DEF Items
  <2> QED
    BY <1>0, <2>1, <2>2
<1>2. CASE Known(r) /\ ~w
  <2>1. stored' = stored /\ held'.mode = "whole" /\ held'.items = items
    BY <1>2 DEF StoreQueue
  <2>2. Items(TRUE)'[s] = items[s]
    BY <2>1 DEF Items
  <2> QED
    BY <2>1, <2>2
<1>3. CASE ~Known(r)
  <2>1. stored' = stored /\ held'.mode \in {"no", "part"} /\ held'.items[s] = items[s]
    BY <1>0, <1>3 DEF StoreQueue, NotHeld
  <2>2. Items(TRUE)'[s] = IF items[s] # None THEN items[s] ELSE stored[s]
    BY <2>1 DEF Items
  <2> QED
    BY <1>3, <2>1, <2>2
<1> QED
  BY <1>1, <1>2, <1>3

\* What one lane step keeps: nothing is lost, pending items have a try left.
LEMMA StoreSafe ==
    ASSUME IInv, NEW items \in [Slot -> Entry], NEW r \in BOOLEAN, NEW w \in BOOLEAN,
           StoreQueue(items, Known(r), w), Tries(items), UNCHANGED link,
           \A s \in durable : Known(r) => items[s] # None \/ Through(s),
           \A s \in Slot : ~Known(r) /\ items[s] # None => stored[s] = None
    PROVE  /\ \A s \in durable : stored'[s] # None \/ Through(s)'
           /\ held'.mode = "whole" => \A s \in durable : held'.items[s] # None \/ Through(s)'
           /\ PartIsNew' /\ HasTries'
<1> USE DEF IInv, Safe, Fits
<1>1. \A s \in durable : /\ stored'[s] # None \/ Through(s)
                         /\ held'.mode = "whole" => held'.items[s] # None \/ Through(s)
  BY StoreKeeps
<1>2. \A s \in Slot : Through(s)' <=> Through(s)
  BY DEF Through
<1>3. durable \subseteq Slot
  BY DEF TypeOK
<1>4. PartIsNew'
  BY StoreSpreads DEF PartIsNew
<1>5. HasTries'
  <2>1. None.st = "none"
    BY DEF None
  <2>2. ASSUME NEW s \in Slot
        PROVE  /\ stored'[s] = items[s] \/ stored'[s] = stored[s]
               /\ held'.items[s] = items[s] \/ held'.items[s] = None
    BY StoreSpreads
  <2>3. Tries(stored)'
    BY <2>2 DEF HasTries, Tries
  <2>4. Tries(held.items)'
    BY <2>1, <2>2 DEF Tries
  <2> QED
    BY <2>3, <2>4 DEF HasTries
<1> QED
  BY <1>1, <1>2, <1>3, <1>4, <1>5

LEMMA ItemsTries ==
    ASSUME IInv, NEW r \in BOOLEAN
    PROVE  /\ Tries(Items(r))
           /\ \A s \in Slot : Items(r)[s] = None \/ Items(r)[s] = Items(TRUE)[s]
           /\ \A s \in Slot : Absent(s) => Items(r)[s] = None
           /\ \A s \in Slot : ~Known(r) /\ Items(r)[s] # None => stored[s] = None
<1>1. None.st # "pending"
  BY DEF None
<1>2. Tries(Items(r))
  BY <1>1 DEF IInv, Fits, HasTries, Tries, Items
<1>3. \A s \in Slot : Items(r)[s] = None \/ Items(r)[s] = Items(TRUE)[s]
  BY DEF Items
<1>4. \A s \in Slot : Absent(s) => Items(r)[s] = None
  BY DEF Items, Absent
<1>5. \A s \in Slot : ~Known(r) /\ Items(r)[s] # None => stored[s] = None
  BY DEF Items, Known, IInv, Fits, PartIsNew
<1> QED
  BY <1>2, <1>3, <1>4, <1>5

LEMMA MishapTypes == ASSUME TypeOK, Mishap PROVE mishaps' \in 0..MaxMishaps
BY MediaAssumption DEF TypeOK, Mishap

LEMMA LaneTypes ==
    ASSUME TypeOK, NEW r \in BOOLEAN, NEW w \in BOOLEAN, Lane(r, w) PROVE mishaps' \in 0..MaxMishaps
BY MishapTypes DEF TypeOK, Lane

-----------------------------------------------------------------------------
(* The initial states *)

LEMMA InitInv == Init => IInv
<1> SUFFICES ASSUME Init PROVE IInv
  OBVIOUS
<1>1. TypeOK
  <2>1. held \in Held /\ flush \in Flush /\ replay \in Replay /\ stored \in [Slot -> Entry]
    BY EmptyEntries DEF Init
  <2>2. mishaps \in 0..MaxMishaps
    BY MediaAssumption DEF Init
  <2> QED
    BY <2>1, <2>2 DEF Init, TypeOK, Held, Flush, Replay
<1>2. Safe
  <2>1. replay.pc = "off" /\ held.mode = "no" /\ durable = {} /\ linked = {}
    BY DEF Init, NotHeld, NoReplay
  <2> QED
    BY <2>1 DEF Safe, NoCaptureLost, HeldIsWhole, RetiresThrough, LinkedIsLinked
<1>3. Order
  BY EmptyEntries DEF Init, Order, RowFirst, DirectIsNew, ShowsAll, Absent, NotHeld, NoReplay
<1>4. Fits
  <2>1. None.st = "none"
    BY DEF None
  <2>2. \A s \in Slot : stored[s] = None /\ held.items[s] = None
    BY EmptyEntries DEF Init, NotHeld
  <2>3. HasTries
    BY <2>1, <2>2 DEF HasTries, Tries
  <2>4. PartIsNew /\ FlushFits
    BY <2>2 DEF Init, PartIsNew, FlushFits, NoFlush
  <2> QED
    BY <2>3, <2>4 DEF Fits
<1> QED
  BY <1>1, <1>2, <1>3, <1>4 DEF IInv

-----------------------------------------------------------------------------
(* The steps that leave the queue alone *)

\* They keep what is through through; what they start is checked by each.
LEMMA QueueKept ==
    ASSUME IInv, UNCHANGED <<queue, durable>>,
           \A s \in durable : Through(s) => Through(s)'
    PROVE  NoCaptureLost' /\ HeldIsWhole' /\ PartIsNew' /\ HasTries'
           /\ Items(TRUE)' = Items(TRUE)
<1>1. UNCHANGED <<stored, held, durable>>
  BY DEF queue
<1>2. NoCaptureLost'
  BY <1>1 DEF IInv, Safe, NoCaptureLost, Through
<1>3. HeldIsWhole'
  BY <1>1 DEF IInv, Safe, HeldIsWhole
<1> QED
  BY <1>1, <1>2, <1>3 DEF IInv, Fits, PartIsNew, HasTries, Tries, Items

LEMMA CaptureInv ==
    ASSUME IInv, NEW s \in Slot, Capture(s)
    PROVE  IInv'
<1>1. NoCaptureLost' /\ HeldIsWhole' /\ PartIsNew' /\ HasTries' /\ Items(TRUE)' = Items(TRUE)
  BY QueueKept DEF Capture, Through
<1>2. TypeOK'
  BY DEF Capture, IInv, TypeOK, queue
<1>3. RetiresThrough' /\ LinkedIsLinked'
  BY DEF Capture, IInv, Safe, RetiresThrough, LinkedIsLinked, Through
<1>4. Order'
  BY DEF Capture, IInv, TypeOK, Order, RowFirst, DirectIsNew, ShowsAll, Absent, queue
<1>5. FlushFits'
  BY <1>1 DEF Capture, IInv, Fits, FlushFits, TakenSt
<1> QED
  BY <1>1, <1>2, <1>3, <1>4, <1>5 DEF IInv, Safe, Fits

LEMMA DirectLandsInv ==
    ASSUME IInv, NEW s \in Slot, DirectLands(s)
    PROVE  IInv'
<1>0. s \notin durable /\ s \notin replay.of
  BY DEF DirectLands, IInv, Order, DirectIsNew, ShowsAll, Absent
<1>t. \A k \in Slot : k # s /\ Through(k) => Through(k)'
  BY DEF DirectLands, IInv, TypeOK, Through
<1>d. durable \subseteq Slot /\ replay.of \subseteq Slot
  BY TypeFacts DEF IInv, TypeOK
<1>1. NoCaptureLost' /\ HeldIsWhole' /\ PartIsNew' /\ HasTries' /\ Items(TRUE)' = Items(TRUE)
  BY <1>0, <1>t, <1>d, QueueKept DEF DirectLands
<1>2. TypeOK'
  BY DEF DirectLands, IInv, TypeOK, queue
<1>3. RetiresThrough'
  BY <1>0, <1>t, <1>d DEF DirectLands, IInv, Safe, RetiresThrough
<1>4. LinkedIsLinked'
  BY DEF DirectLands, IInv, TypeOK, Safe, LinkedIsLinked
<1>5. Order'
  BY DEF DirectLands, IInv, Order, RowFirst, DirectIsNew, ShowsAll, Absent, queue
<1>6. FlushFits'
  BY <1>1 DEF DirectLands, IInv, Fits, FlushFits, TakenSt
<1> QED
  BY <1>1, <1>2, <1>3, <1>4, <1>5, <1>6 DEF IInv, Safe, Fits

LEMMA FlushStartInv ==
    ASSUME IInv, NEW retry \in BOOLEAN, FlushStart(retry)
    PROVE  IInv'
<1>1. NoCaptureLost' /\ HeldIsWhole' /\ PartIsNew' /\ HasTries' /\ Items(TRUE)' = Items(TRUE)
  BY QueueKept DEF FlushStart, Through
<1>2. PICK r \in BOOLEAN, due \in SUBSET Slot :
        /\ Lane(r, TRUE)
        /\ \A s \in due : IsCapture(Items(r)[s])
        /\ retry \/ \A s \in due : Items(r)[s].st = "pending"
        /\ flush' = [on |-> TRUE, retry |-> retry,
                     ended |-> [s \in Slot |-> IF s \in due THEN "due" ELSE "-"]]
  BY DEF FlushStart
<1>3. TypeOK'
  <2>1. flush' \in Flush
    BY <1>2 DEF Flush
  <2>2. mishaps' \in 0..MaxMishaps
    BY <1>2, LaneTypes DEF IInv
  <2> QED
    BY <2>1, <2>2 DEF FlushStart, IInv, TypeOK, Flush, queue
<1>4. RetiresThrough' /\ LinkedIsLinked' /\ Order'
  BY DEF FlushStart, IInv, Safe, RetiresThrough, LinkedIsLinked, Through, Order, RowFirst,
     DirectIsNew, ShowsAll, Absent, queue
<1>5. FlushFits'
  <2> SUFFICES ASSUME NEW s \in Slot, flush'.ended[s] # "-"
               PROVE  Items(TRUE)[s].st \in TakenSt'
    BY <1>1 DEF FlushFits
  <2>1. s \in due
    BY <1>2
  <2>2. IsCapture(Items(r)[s]) /\ (retry \/ Items(r)[s].st = "pending")
    BY <1>2, <2>1
  <2>3. Items(r)[s] = Items(TRUE)[s]
    <3>1. Items(r)[s] = None \/ Items(r)[s] = Items(TRUE)[s]
      BY ItemsTries
    <3>2. ~ IsCapture(None)
      BY DEF IsCapture, None
    <3> QED
      BY <2>2, <3>1, <3>2
  <2>4. flush'.retry = retry
    BY <1>2
  <2> QED
    BY <2>2, <2>3, <2>4 DEF IsCapture, TakenSt
<1> QED
  BY <1>1, <1>3, <1>4, <1>5 DEF IInv, Safe, Fits

LEMMA UploadInv ==
    ASSUME IInv, NEW s \in Slot, NEW how \in {"landed", "offline", "refused"}, Upload(s, how)
    PROVE  IInv'
<1>1. NoCaptureLost' /\ HeldIsWhole' /\ PartIsNew' /\ HasTries' /\ Items(TRUE)' = Items(TRUE)
  BY QueueKept DEF Upload, Through
<1>2. /\ flush' \in Flush /\ flush'.retry = flush.retry
      /\ \A k \in Slot : flush'.ended[k] # "-" => flush.ended[k] # "-"
  BY TypeFacts DEF Upload, IInv, Flush
<1>3. TypeOK'
  BY <1>2 DEF Upload, IInv, TypeOK, Flush, queue
<1>4. RetiresThrough' /\ LinkedIsLinked' /\ Order'
  BY DEF Upload, IInv, Safe, RetiresThrough, LinkedIsLinked, Through, Order, RowFirst,
     DirectIsNew, ShowsAll, Absent, queue
<1>5. FlushFits'
  BY <1>1, <1>2 DEF IInv, Fits, FlushFits, TakenSt
<1> QED
  BY <1>1, <1>3, <1>4, <1>5 DEF IInv, Safe, Fits

LEMMA ReplayStartInv ==
    ASSUME IInv, ReplayAgain \/ ReplayLists
    PROVE  IInv'
<1>1. NoCaptureLost' /\ HeldIsWhole' /\ PartIsNew' /\ HasTries' /\ Items(TRUE)' = Items(TRUE)
  BY QueueKept DEF ReplayAgain, ReplayLists, Through
<1>2. /\ replay' \in Replay /\ replay'.pc # "retire"
      /\ \A s \in Slot : Absent(s) => s \notin replay'.of
      /\ mishaps' \in 0..MaxMishaps
  <2>1. CASE ReplayAgain
    BY <2>1 DEF ReplayAgain, Replay, IInv, TypeOK
  <2>2. CASE ReplayLists
    <3>1. PICK r \in BOOLEAN :
            /\ Lane(r, TRUE)
            /\ replay' = IF Receipts(Items(r)) = {} THEN NoReplay
                         ELSE [pc |-> "listed", of |-> Receipts(Items(r))]
      BY <2>2 DEF ReplayLists
    <3>2. mishaps' \in 0..MaxMishaps
      BY <3>1, LaneTypes DEF IInv
    <3>3. \A s \in Slot : Absent(s) => s \notin Receipts(Items(r))
      <4>1. \A s \in Slot : Absent(s) => Items(r)[s] = None
        BY ItemsTries
      <4>2. None.st # "uploaded"
        BY DEF None
      <4> QED
        BY <4>1, <4>2 DEF Receipts
    <3>4. Receipts(Items(r)) \in SUBSET Slot
      BY DEF Receipts
    <3> QED
      BY <3>1, <3>2, <3>3, <3>4 DEF Replay, NoReplay
  <2> QED
    BY <2>1, <2>2
<1>3. TypeOK'
  BY <1>2 DEF ReplayAgain, ReplayLists, IInv, TypeOK, Replay, queue
<1>4. UNCHANGED <<row, link, linked, direct, stored, held, durable, flush, shown, loaded>>
  BY DEF ReplayAgain, ReplayLists, queue
<1>5. RetiresThrough' /\ LinkedIsLinked' /\ Order'
  BY <1>2, <1>4 DEF IInv, TypeOK, Safe, RetiresThrough, LinkedIsLinked, Order, RowFirst,
     DirectIsNew, ShowsAll, Absent
<1>6. FlushFits'
  BY <1>1, <1>4 DEF IInv, Fits, FlushFits, TakenSt
<1> QED
  BY <1>1, <1>3, <1>5, <1>6 DEF IInv, Safe, Fits

LEMMA LinkUploadedInv ==
    ASSUME IInv, LinkUploaded
    PROVE  IInv'
<1> DEFINE toLink == {s \in replay.of : s \in shown /\ link[s] = "none" /\ s \notin linked}
           rest == {s \in replay.of \ toLink : RowKnown(s)}
<1>1. PICK done \in SUBSET rest :
        /\ done # {} => Synced
        /\ replay' = IF done = {} THEN NoReplay ELSE [pc |-> "retire", of |-> done]
  BY DEF LinkUploaded
<1>2. /\ link' = [s \in Slot |-> IF s \in toLink THEN "outbox" ELSE link[s]]
      /\ linked' = linked \cup toLink
      /\ UNCHANGED <<row, queue, direct, flush, closed, canWrite, shown, loaded, durable, mishaps>>
  BY DEF LinkUploaded
<1>s. replay.of \subseteq Slot /\ durable \subseteq Slot
  BY TypeFacts DEF IInv, TypeOK
<1>3. \A s \in Slot : Through(s) => Through(s)'
  BY <1>1, <1>2 DEF Through
<1>4. NoCaptureLost' /\ HeldIsWhole' /\ PartIsNew' /\ HasTries' /\ Items(TRUE)' = Items(TRUE)
  BY <1>2, <1>3, <1>s, QueueKept
<1>5. TypeOK'
  <2>1. replay' \in Replay
    BY <1>1, <1>s DEF NoReplay, Replay
  <2>2. linked' \subseteq Slot
    BY <1>1, <1>2, <1>s DEF IInv, TypeOK
  <2>3. link' \in [Slot -> {"none", "outbox", "sent"}]
    BY <1>2 DEF IInv, TypeOK
  <2> QED
    BY <1>2, <2>1, <2>2, <2>3 DEF IInv, TypeOK, Replay, queue
<1>6. LinkedIsLinked'
  BY <1>2, <1>s DEF IInv, TypeOK, Safe, LinkedIsLinked
<1>7. RetiresThrough'
  <2> SUFFICES ASSUME NEW s \in done PROVE Through(s)'
    BY <1>1 DEF RetiresThrough, NoReplay
  <2>1. s \in Slot /\ s \notin toLink /\ s \in replay.of /\ RowKnown(s)
    BY <1>s
  <2>2. s \in shown
    <3>1. row[s] # "none"
      BY <2>1 DEF IInv, Order, RowFirst, Absent
    <3> QED
      BY <2>1, <3>1 DEF RowKnown, IInv, Order, ShowsAll
  <2>3. link[s] # "none"
    BY <2>1, <2>2 DEF IInv, Safe, LinkedIsLinked
  <2>4. link[s] # "outbox"
    BY <1>1, <2>2 DEF Synced
  <2>5. Through(s)
    BY <2>1, <2>3, <2>4 DEF IInv, TypeOK, Through
  <2> QED
    BY <1>3, <2>1, <2>5
<1>8. Order'
  <2>1. replay'.of \subseteq replay.of
    BY <1>1 DEF NoReplay
  <2> QED
    BY <1>2, <2>1 DEF IInv, Order, RowFirst, DirectIsNew, ShowsAll, Absent, queue
<1>9. FlushFits'
  BY <1>2, <1>4 DEF IInv, Fits, FlushFits, TakenSt
<1> QED
  BY <1>4, <1>5, <1>6, <1>7, <1>8, <1>9 DEF IInv, Safe, Fits

\* The Verlauf loaded and delivered, closings and reopenings elsewhere.
LEMMA AroundInv ==
    ASSUME IInv, LoadVerlauf \/ Deliver \/ CloseElsewhere \/ Reopen \/ LearnLifecycle
    PROVE  IInv'
<1>1. UNCHANGED <<queue, work, durable>>
  BY DEF LoadVerlauf, Deliver, CloseElsewhere, Reopen, LearnLifecycle
<1>2. /\ link' \in [Slot -> {"none", "outbox", "sent"}]
      /\ \A s \in Slot : /\ link[s] = "sent" => link'[s] = "sent"
                         /\ link'[s] = "none" => link[s] = "none"
  BY DEF LoadVerlauf, Deliver, CloseElsewhere, Reopen, LearnLifecycle, IInv, TypeOK
<1>3. /\ row' \in [Slot -> {"none", "outbox", "sent"}]
      /\ \A s \in Slot : row'[s] = "none" => row[s] = "none"
  BY DEF LoadVerlauf, Deliver, CloseElsewhere, Reopen, LearnLifecycle, IInv, TypeOK
<1>w. \A s \in Slot : row[s] = "none" => row'[s] = "none"
  BY DEF LoadVerlauf, Deliver, CloseElsewhere, Reopen, LearnLifecycle, IInv, TypeOK
<1>v. /\ shown' \subseteq Slot /\ loaded' \in BOOLEAN
      /\ loaded' => \A s \in Slot : row'[s] # "none" => s \in shown'
  <2>1. CASE LoadVerlauf
    BY <2>1 DEF LoadVerlauf
  <2>2. CASE Deliver \/ CloseElsewhere \/ Reopen \/ LearnLifecycle
    <3>1. shown' = shown /\ loaded' = loaded
      BY <2>2 DEF Deliver, CloseElsewhere, Reopen, LearnLifecycle
    <3>2. \A s \in Slot : row'[s] # "none" => row[s] # "none"
      BY <2>2 DEF Deliver, CloseElsewhere, Reopen, LearnLifecycle, IInv, TypeOK
    <3> QED
      BY <3>1, <3>2 DEF IInv, TypeOK, Order, ShowsAll
  <2> QED
    BY <2>1, <2>2
<1>4. closed' \in BOOLEAN /\ canWrite' \in BOOLEAN
  BY DEF LoadVerlauf, Deliver, CloseElsewhere, Reopen, LearnLifecycle, IInv, TypeOK
<1>5. mishaps' \in 0..MaxMishaps
  BY MishapTypes DEF LoadVerlauf, Deliver, CloseElsewhere, Reopen, LearnLifecycle, IInv, TypeOK
<1>s. durable \subseteq Slot /\ linked \subseteq Slot /\ replay.of \subseteq Slot
  BY TypeFacts DEF IInv, TypeOK
<1>6. \A s \in Slot : Through(s) => Through(s)'
  BY <1>1, <1>2 DEF Through
<1>7. NoCaptureLost' /\ HeldIsWhole' /\ PartIsNew' /\ HasTries' /\ Items(TRUE)' = Items(TRUE)
  BY <1>1, <1>6, <1>s, QueueKept
<1>8. TypeOK'
  BY <1>1, <1>2, <1>3, <1>v, <1>4, <1>5 DEF IInv, TypeOK, queue, work
<1>9. RetiresThrough' /\ LinkedIsLinked'
  BY <1>1, <1>2, <1>6, <1>s DEF IInv, Safe, RetiresThrough, LinkedIsLinked, work
<1>10. Order'
  BY <1>1, <1>3, <1>w, <1>v DEF IInv, Order, RowFirst, DirectIsNew, ShowsAll, Absent, queue, work
<1>11. FlushFits'
  BY <1>1, <1>7 DEF IInv, Fits, FlushFits, TakenSt, work
<1> QED
  BY <1>7, <1>8, <1>9, <1>10, <1>11 DEF IInv, Safe, Fits

-----------------------------------------------------------------------------
(* The steps in the lane *)

\* With the lane's store, what is left to show of a step.
LEMMA LaneStep ==
    ASSUME IInv, NEW items \in [Slot -> Entry], NEW r \in BOOLEAN, NEW w \in BOOLEAN,
           Lane(r, w), StoreQueue(items, Known(r), w), Tries(items), UNCHANGED link,
           \A s \in durable : Known(r) => items[s] # None \/ Through(s),
           \A s \in Slot : ~Known(r) /\ items[s] # None => stored[s] = None
    PROVE  /\ stored' \in [Slot -> Entry] /\ held' \in Held /\ mishaps' \in 0..MaxMishaps
           /\ \A s \in durable : stored'[s] # None \/ Through(s)'
           /\ held'.mode = "whole" => \A s \in durable : held'.items[s] # None \/ Through(s)'
           /\ PartIsNew' /\ HasTries'
           /\ \A s \in Slot : Absent(s) /\ items[s] = None => stored'[s] = None /\ held'.items[s] = None
<1>1. Known(r) \in BOOLEAN
  BY DEF Known
<1>2. stored' \in [Slot -> Entry] /\ held' \in Held
  BY <1>1, StoreTypes DEF IInv
<1>3. mishaps' \in 0..MaxMishaps
  BY LaneTypes DEF IInv
<1>4. \A s \in Slot : Absent(s) /\ items[s] = None => stored'[s] = None /\ held'.items[s] = None
  BY StoreSpreads DEF IInv, Absent
<1> QED
  BY <1>2, <1>3, <1>4, StoreSafe

LEMMA EnqueueInv ==
    ASSUME IInv, NEW s \in Slot, Enqueue(s)
    PROVE  IInv'
<1> DEFINE new == [st |-> "pending", n |-> 0]
<1>1. PICK r \in BOOLEAN, w \in BOOLEAN :
        /\ Lane(r, w)
        /\ StoreQueue([Items(r) EXCEPT ![s] = new], Known(r), w)
        /\ durable' = IF Durable THEN durable \cup {s} ELSE durable
  BY DEF Enqueue
<1> DEFINE items == [Items(r) EXCEPT ![s] = new]
<1>2. s \in direct /\ Absent(s) /\ row[s] # "none"
  BY DEF Enqueue, IInv, Order, DirectIsNew, RowFirst
<1>3. new \in Entry /\ new # None /\ new.st = "pending" /\ new.n = 0 /\ 0 < MaxAttempts
  BY EmptyEntries, MediaAssumption DEF None
<1>4. Items(r) \in [Slot -> Entry]
  BY ItemsTypes DEF IInv
<1> HIDE DEF new
<1>5. /\ items \in [Slot -> Entry] /\ items[s] = new
      /\ \A k \in Slot \ {s} : items[k] = Items(r)[k]
  BY <1>3, <1>4
<1>6. StoreQueue(items, Known(r), w)
  BY <1>1
<1> HIDE DEF items
<1>7. Tries(items)
  BY <1>3, <1>5, ItemsTries DEF Tries
<1>d. durable \subseteq Slot
  BY DEF IInv, TypeOK
<1>8. \A k \in durable : Known(r) => items[k] # None \/ Through(k)
  BY <1>3, <1>5, <1>d, KnownHasAll DEF IInv, Safe
<1>9. \A k \in Slot : ~Known(r) /\ items[k] # None => stored[k] = None
  BY <1>2, <1>5, ItemsTries DEF Absent
<1>10. /\ stored' \in [Slot -> Entry] /\ held' \in Held /\ mishaps' \in 0..MaxMishaps
       /\ \A k \in durable : stored'[k] # None \/ Through(k)'
       /\ held'.mode = "whole" => \A k \in durable : held'.items[k] # None \/ Through(k)'
       /\ PartIsNew' /\ HasTries'
       /\ \A k \in Slot : Absent(k) /\ items[k] = None => stored'[k] = None /\ held'.items[k] = None
  BY <1>1, <1>5, <1>6, <1>7, <1>8, <1>9, LaneStep DEF Enqueue
<1>11. Durable => stored'[s] # None /\ held'.mode = "no"
  <2>1. CASE Known(r) /\ w
    BY <1>3, <1>5, <1>6, <2>1 DEF Durable, StoreQueue
  <2>2. CASE ~ (Known(r) /\ w)
    <3>1. items # Empty
      BY <1>3, <1>5, EmptyEntries
    <3> QED
      BY <1>6, <2>2, <3>1 DEF Durable, StoreQueue
  <2> QED
    BY <2>1, <2>2
<1>12. NoCaptureLost' /\ HeldIsWhole'
  BY <1>1, <1>10, <1>11 DEF NoCaptureLost, HeldIsWhole, Through
<1>13. TypeOK'
  BY <1>1, <1>10 DEF Enqueue, IInv, TypeOK, Held
<1>14. RetiresThrough' /\ LinkedIsLinked'
  BY DEF Enqueue, IInv, Safe, RetiresThrough, LinkedIsLinked, Through
<1>15. \A k \in Slot \ {s} : Absent(k) => Absent(k)'
  BY <1>1, <1>5, <1>10, ItemsTries DEF Enqueue, Absent
<1>16. Order'
  <2>1. /\ direct' = direct \ {s} /\ UNCHANGED <<row, shown, loaded>> /\ direct \subseteq Slot
        /\ s \in Slot /\ row[s] # "none"
    BY <1>2 DEF Enqueue, IInv, TypeOK
  <2>2. RowFirst'
    BY <1>15, <2>1 DEF IInv, Order, RowFirst
  <2>3. DirectIsNew'
    BY <1>15, <2>1 DEF IInv, Order, DirectIsNew
  <2>4. ShowsAll'
    BY <2>1 DEF IInv, Order, ShowsAll
  <2> QED
    BY <2>2, <2>3, <2>4 DEF Order
<1>17. FlushFits'
  <2> SUFFICES ASSUME NEW k \in Slot, flush.ended[k] # "-"
               PROVE  Items(TRUE)'[k].st \in TakenSt
    BY DEF Enqueue, FlushFits, TakenSt
  <2>1. Items(TRUE)[k].st \in TakenSt
    BY DEF IInv, Fits, FlushFits
  <2>2. CASE k = s
    <3>1. Items(TRUE)'[k] = items[k] \/ items[k] = None
      BY <1>5, <1>6, StoreSpreads DEF IInv
    <3> QED
      BY <1>3, <1>5, <2>2, <3>1 DEF TakenSt
  <2>3. CASE k # s
    <3>1. items[k] = Items(r)[k]
      BY <1>5, <2>3
    <3>2. items[k].st \in TakenSt
      <4>1. Items(r)[k] = None \/ Items(r)[k] = Items(TRUE)[k]
        BY ItemsTries
      <4>2. None.st = "none"
        BY DEF None
      <4> QED
        BY <2>1, <3>1, <4>1, <4>2 DEF TakenSt
    <3>3. CASE Items(TRUE)'[k] = items[k]
      BY <3>2, <3>3
    <3>4. CASE ~Known(r) /\ items[k] = None /\ Items(TRUE)'[k] = stored[k]
      <4>1. held.mode # "whole" /\ held.items[k] = None
        BY <3>1, <3>4 DEF Known, Items
      <4>2. Items(TRUE)[k] = stored[k]
        BY <4>1 DEF Items
      <4> QED
        BY <2>1, <3>4, <4>2
    <3> QED
      BY <1>5, <1>6, <3>3, <3>4, StoreSpreads DEF IInv
  <2> QED
    BY <2>2, <2>3
<1> QED
  BY <1>10, <1>12, <1>13, <1>14, <1>16, <1>17 DEF IInv, Safe, Fits

LEMMA FlushSettleInv ==
    ASSUME IInv, FlushSettle
    PROVE  IInv'
<1>1. PICK r \in BOOLEAN, w \in BOOLEAN :
        /\ Lane(r, w)
        /\ StoreQueue([s \in Slot |-> IF flush.ended[s] # "-" /\ Items(r)[s] # None
                                        THEN Settled(Items(r)[s], flush.ended[s])
                                        ELSE Items(r)[s]],
                      Known(r), w)
  BY DEF FlushSettle
<1> DEFINE items == [s \in Slot |-> IF flush.ended[s] # "-" /\ Items(r)[s] # None
                                     THEN Settled(Items(r)[s], flush.ended[s])
                                     ELSE Items(r)[s]]
<1>2. Items(r) \in [Slot -> Entry]
  BY ItemsTypes DEF IInv
<1>3. ASSUME NEW s \in Slot
      PROVE  /\ items[s] \in Entry /\ (items[s] = None <=> Items(r)[s] = None)
             /\ items[s].st = "pending" => items[s].n < MaxAttempts
             /\ items[s].st = "none" => items[s] = None
  <2>1. /\ Items(r)[s] \in Entry /\ (Items(r)[s].st = "pending" => Items(r)[s].n < MaxAttempts)
        /\ Items(r)[s].st = "none" => Items(r)[s] = None
    <3>1. Tries(Items(r))
      BY ItemsTries
    <3>2. Items(r)[s] \in Entry
      BY <1>2
    <3>3. Items(r)[s].st = "none" => Items(r)[s] = None
      BY <3>1 DEF Tries
    <3>4. Items(r)[s].st = "pending" => Items(r)[s].n < MaxAttempts
      BY <3>1 DEF Tries
    <3> QED
      BY <3>2, <3>3, <3>4
  <2>2. CASE flush.ended[s] # "-" /\ Items(r)[s] # None
    <3>1. Items(r)[s] = Items(TRUE)[s]
      BY <2>2, ItemsTries
    <3>2. Items(r)[s].st \in TakenSt
      BY <2>2, <3>1 DEF IInv, Fits, FlushFits
    <3>3. flush.ended[s] \in {"landed", "offline", "refused"}
      BY <2>2, TypeFacts DEF FlushSettle, IInv
    <3>4. Items(r)[s].st # "none"
      BY <2>1, <2>2
    <3>5. items[s] = Settled(Items(r)[s], flush.ended[s])
      BY <2>2
    <3> HIDE DEF items
    <3> QED
      BY <2>1, <2>2, <3>2, <3>3, <3>4, <3>5, SettledTypes
  <2>3. CASE ~ (flush.ended[s] # "-" /\ Items(r)[s] # None)
    BY <2>1, <2>3
  <2> QED
    BY <2>2, <2>3
<1>4. items \in [Slot -> Entry]
  BY <1>3
<1>5. StoreQueue(items, Known(r), w)
  BY <1>1
<1> HIDE DEF items
<1>6. Tries(items)
  BY <1>3 DEF Tries
<1>d. durable \subseteq Slot
  BY DEF IInv, TypeOK
<1>7. \A k \in durable : Known(r) => items[k] # None \/ Through(k)
  BY <1>3, <1>d, KnownHasAll DEF IInv, Safe
<1>8. \A k \in Slot : ~Known(r) /\ items[k] # None => stored[k] = None
  BY <1>3, ItemsTries
<1>9. /\ stored' \in [Slot -> Entry] /\ held' \in Held /\ mishaps' \in 0..MaxMishaps
      /\ \A k \in durable : stored'[k] # None \/ Through(k)'
      /\ held'.mode = "whole" => \A k \in durable : held'.items[k] # None \/ Through(k)'
      /\ PartIsNew' /\ HasTries'
      /\ \A k \in Slot : Absent(k) /\ items[k] = None => stored'[k] = None /\ held'.items[k] = None
  BY <1>1, <1>4, <1>5, <1>6, <1>7, <1>8, LaneStep DEF FlushSettle
<1>10. /\ flush' = NoFlush /\ flush' \in Flush /\ replay' \in Replay
       /\ replay'.of \subseteq replay.of
       /\ replay'.pc = "retire" => replay' = replay
  BY EmptyEntries, TypeFacts DEF FlushSettle, IInv, Replay
<1>11. NoCaptureLost' /\ HeldIsWhole'
  BY <1>9 DEF FlushSettle, NoCaptureLost, HeldIsWhole, Through
<1>12. TypeOK'
  BY <1>9, <1>10 DEF FlushSettle, IInv, TypeOK, Held, Flush, Replay
<1>13. RetiresThrough' /\ LinkedIsLinked'
  BY <1>10 DEF FlushSettle, IInv, Safe, RetiresThrough, LinkedIsLinked, Through
<1>14. \A k \in Slot : Absent(k) => Absent(k)'
  <2>1. \A k \in Slot : Absent(k) => items[k] = None
    BY <1>3, ItemsTries
  <2>2. durable' = durable
    BY DEF FlushSettle
  <2> QED
    BY <1>9, <1>10, <2>1, <2>2 DEF Absent
<1>15. Order'
  <2>1. UNCHANGED <<row, direct, shown, loaded>> /\ direct \subseteq Slot
    BY DEF FlushSettle, IInv, TypeOK
  <2> QED
    BY <1>14, <2>1 DEF IInv, Order, RowFirst, DirectIsNew, ShowsAll
<1>16. FlushFits'
  BY <1>10 DEF FlushFits, NoFlush
<1> QED
  BY <1>9, <1>11, <1>12, <1>13, <1>15, <1>16 DEF IInv, Safe, Fits

LEMMA RetireInv ==
    ASSUME IInv, Retire
    PROVE  IInv'
<1>1. PICK r \in BOOLEAN, w \in BOOLEAN :
        /\ Lane(r, w)
        /\ LET gone == replay.of \cap Receipts(Items(r)) IN
           IF gone = {} THEN UNCHANGED queue
           ELSE StoreQueue([s \in Slot |-> IF s \in gone THEN None ELSE Items(r)[s]],
                           Known(r), w)
  BY DEF Retire
<1> DEFINE gone == replay.of \cap Receipts(Items(r))
           items == [s \in Slot |-> IF s \in gone THEN None ELSE Items(r)[s]]
<1>u. UNCHANGED <<row, link, direct, flush, linked, closed, canWrite, durable, shown, loaded>>
  BY DEF Retire
<1>d. durable \subseteq Slot /\ direct \subseteq Slot
  BY DEF IInv, TypeOK
<1>2. replay' = NoReplay /\ NoReplay \in Replay /\ replay'.pc = "off" /\ replay'.of = {}
  BY EmptyEntries DEF Retire, NoReplay
<1>3. RetiresThrough' /\ LinkedIsLinked'
  BY <1>2, <1>u DEF IInv, Safe, RetiresThrough, LinkedIsLinked
<1>4. mishaps' \in 0..MaxMishaps
  BY <1>1, LaneTypes DEF IInv
<1>5. CASE gone = {}
  <2>1. UNCHANGED queue
    BY <1>1, <1>5
  <2>2. NoCaptureLost' /\ HeldIsWhole' /\ PartIsNew' /\ HasTries' /\ Items(TRUE)' = Items(TRUE)
    BY <1>u, <2>1, QueueKept DEF Through
  <2>3. TypeOK'
    BY <1>2, <1>4, <1>u, <2>1 DEF IInv, TypeOK, Replay, queue
  <2>4. Order'
    BY <1>2, <1>u, <2>1 DEF IInv, Order, RowFirst, DirectIsNew, ShowsAll, Absent, queue
  <2>5. FlushFits'
    BY <1>u, <2>2 DEF IInv, Fits, FlushFits, TakenSt
  <2> QED
    BY <1>3, <2>2, <2>3, <2>4, <2>5 DEF IInv, Safe, Fits
<1>6. CASE gone # {}
  <2>1. Items(r) \in [Slot -> Entry] /\ None \in Entry
    BY ItemsTypes, EmptyEntries DEF IInv
  <2>2. \A k \in gone : /\ Through(k) /\ k \in Slot /\ Items(r)[k].st = "uploaded"
    BY DEF Retire, IInv, Safe, RetiresThrough, Receipts
  <2>3. /\ items \in [Slot -> Entry]
        /\ \A k \in Slot : IF k \in gone THEN items[k] = None ELSE items[k] = Items(r)[k]
    BY <2>1
  <2>4. StoreQueue(items, Known(r), w)
    BY <1>1, <1>6
  <2> HIDE DEF items, gone
  <2>5. Tries(items)
    <3>1. None.st = "none"
      BY DEF None
    <3> QED
      BY <2>3, <3>1, ItemsTries DEF Tries
  <2>6. \A k \in durable : Known(r) => items[k] # None \/ Through(k)
    BY <1>d, <2>2, <2>3, KnownHasAll DEF IInv, Safe
  <2>7. \A k \in Slot : ~Known(r) /\ items[k] # None => stored[k] = None
    BY <2>3, ItemsTries
  <2>8. /\ stored' \in [Slot -> Entry] /\ held' \in Held /\ mishaps' \in 0..MaxMishaps
        /\ \A k \in durable : stored'[k] # None \/ Through(k)'
        /\ held'.mode = "whole" => \A k \in durable : held'.items[k] # None \/ Through(k)'
        /\ PartIsNew' /\ HasTries'
        /\ \A k \in Slot : Absent(k) /\ items[k] = None => stored'[k] = None /\ held'.items[k] = None
    BY <1>1, <1>u, <2>3, <2>4, <2>5, <2>6, <2>7, LaneStep
  <2>9. NoCaptureLost' /\ HeldIsWhole'
    BY <1>u, <2>8 DEF NoCaptureLost, HeldIsWhole, Through
  <2>10. TypeOK'
    BY <1>2, <1>u, <2>8 DEF IInv, TypeOK, Held, Replay
  <2>11. \A k \in Slot : Absent(k) => Absent(k)'
    <3>1. \A k \in Slot : Absent(k) => items[k] = None
      BY <2>3, ItemsTries
    <3> QED
      BY <1>2, <1>u, <2>8, <3>1 DEF Absent
  <2>12. Order'
    BY <1>d, <1>u, <2>11 DEF IInv, Order, RowFirst, DirectIsNew, ShowsAll
  <2>13. FlushFits'
    <3> SUFFICES ASSUME NEW k \in Slot, flush.ended[k] # "-"
                 PROVE  Items(TRUE)'[k].st \in TakenSt
      BY <1>u DEF FlushFits, TakenSt
    <3>1. Items(TRUE)[k].st \in TakenSt /\ TakenSt \subseteq {"none", "pending", "failed"}
      BY DEF IInv, Fits, FlushFits, TakenSt
    <3>2. Items(r)[k] = None \/ Items(r)[k] = Items(TRUE)[k]
      BY ItemsTries
    <3>3. None.st = "none" /\ "none" \in TakenSt
      BY DEF None, TakenSt
    <3>4. items[k] = Items(r)[k]
      BY <2>2, <2>3, <3>1, <3>2, <3>3
    <3>5. CASE Items(TRUE)'[k] = items[k]
      BY <3>1, <3>2, <3>3, <3>4, <3>5
    <3>6. CASE ~Known(r) /\ items[k] = None /\ Items(TRUE)'[k] = stored[k]
      <4>1. held.mode # "whole" /\ held.items[k] = None
        BY <3>4, <3>6 DEF Known, Items
      <4>2. Items(TRUE)[k] = stored[k]
        BY <4>1 DEF Items
      <4> QED
        BY <3>1, <3>6, <4>2
    <3> QED
      BY <2>3, <2>4, <3>5, <3>6, StoreSpreads DEF IInv
  <2> QED
    BY <1>3, <2>8, <2>9, <2>10, <2>12, <2>13 DEF IInv, Safe, Fits
<1> QED
  BY <1>5, <1>6

-----------------------------------------------------------------------------
(* Closing on this device, and the crash *)

LEMMA CloseHereInv ==
    ASSUME IInv, CloseHere
    PROVE  IInv'
<1>1. PICK r \in BOOLEAN :
        stored' = IF Items(r) = Empty /\ Known(r) THEN Empty ELSE stored
  BY DEF CloseHere
<1>u. /\ UNCHANGED <<row, link, held, direct, flush, replay, linked, durable, shown, loaded>>
      /\ closed' = TRUE /\ canWrite' = FALSE /\ Mishap
  BY DEF CloseHere, work
<1>d. durable \subseteq Slot /\ direct \subseteq Slot
  BY DEF IInv, TypeOK
<1>e. Empty \in [Slot -> Entry] /\ (\A s \in Slot : Empty[s] = None) /\ None.st = "none"
  BY EmptyEntries DEF None
<1>2. stored' \in [Slot -> Entry] /\ mishaps' \in 0..MaxMishaps
  BY <1>1, <1>e, <1>u, MishapTypes, TypeFacts DEF IInv
<1>3. \A s \in Slot : stored'[s] = stored[s] \/ stored'[s] = None
  BY <1>1, <1>e
<1>4. \A s \in durable : stored'[s] # None \/ Through(s)
  <2>1. CASE Items(r) = Empty /\ Known(r)
    BY <1>d, <1>e, <2>1, KnownHasAll DEF IInv, Safe
  <2>2. CASE ~ (Items(r) = Empty /\ Known(r))
    BY <1>1, <2>2 DEF IInv, Safe, NoCaptureLost, Through
  <2> QED
    BY <2>1, <2>2
<1>5. TypeOK'
  BY <1>2, <1>u DEF IInv, TypeOK
<1>6. Safe'
  BY <1>4, <1>u DEF IInv, Safe, NoCaptureLost, HeldIsWhole, RetiresThrough, LinkedIsLinked, Through
<1>7. Order'
  BY <1>3, <1>d, <1>u DEF IInv, Order, RowFirst, DirectIsNew, ShowsAll, Absent
<1>8. PartIsNew' /\ HasTries'
  BY <1>3, <1>e, <1>u DEF IInv, Fits, PartIsNew, HasTries, Tries
<1>9. FlushFits'
  <2>1. \A s \in Slot : Items(TRUE)'[s] = Items(TRUE)[s] \/ Items(TRUE)'[s] = None
    BY <1>3, <1>u DEF Items
  <2> QED
    BY <1>e, <1>u, <2>1 DEF IInv, Fits, FlushFits, TakenSt
<1> QED
  BY <1>5, <1>6, <1>7, <1>8, <1>9 DEF IInv, Fits

LEMMA CrashInv ==
    ASSUME IInv, Crash
    PROVE  IInv'
<1>1. PICK lost \in SUBSET {s \in Slot : link[s] = "outbox"} :
        link' = [s \in Slot |-> IF s \in lost THEN "none" ELSE link[s]]
  BY DEF Crash
<1>2. /\ held' = NotHeld /\ direct' = {} /\ flush' = NoFlush /\ replay' = NoReplay
      /\ linked' = {} /\ canWrite' = ~closed /\ shown' = {} /\ loaded' = FALSE /\ Mishap
      /\ UNCHANGED <<row, stored, closed, durable>>
  BY DEF Crash
<1>3. /\ NotHeld \in Held /\ NoFlush \in Flush /\ NoReplay \in Replay
      /\ \A s \in Slot : NotHeld.items[s] = None
      /\ NotHeld.mode = "no" /\ NoReplay.pc = "off" /\ NoReplay.of = {}
      /\ \A s \in Slot : NoFlush.ended[s] = "-"
      /\ None.st = "none"
  BY EmptyEntries DEF NotHeld, NoFlush, NoReplay, None
<1>4. /\ link' \in [Slot -> {"none", "outbox", "sent"}]
      /\ \A s \in Slot : link[s] = "sent" => link'[s] = "sent"
  BY <1>1 DEF IInv, TypeOK
<1>d. durable \subseteq Slot
  BY DEF IInv, TypeOK
<1>5. TypeOK'
  <2>1. mishaps' \in 0..MaxMishaps
    BY <1>2, MishapTypes DEF IInv
  <2>2. canWrite' \in BOOLEAN
    BY <1>2 DEF IInv, TypeOK
  <2> QED
    BY <1>2, <1>3, <1>4, <2>1, <2>2 DEF IInv, TypeOK, Held, Flush, Replay
<1>6. Safe'
  <2>1. NoCaptureLost'
    BY <1>2, <1>4, <1>d DEF IInv, Safe, NoCaptureLost
  <2> QED
    BY <1>2, <1>3, <2>1 DEF Safe, HeldIsWhole, RetiresThrough, LinkedIsLinked
<1>7. Order'
  BY <1>2, <1>3 DEF IInv, Order, RowFirst, DirectIsNew, ShowsAll, Absent
<1>8. Fits'
  BY <1>2, <1>3 DEF IInv, Fits, PartIsNew, HasTries, Tries, FlushFits
<1> QED
  BY <1>5, <1>6, <1>7, <1>8 DEF IInv

-----------------------------------------------------------------------------
(* The theorems *)

LEMMA StutterInv == ASSUME IInv, UNCHANGED vars PROVE IInv'
BY DEF vars, queue, work, IInv, TypeOK, Safe, NoCaptureLost, HeldIsWhole, RetiresThrough,
   LinkedIsLinked, Through, Order, RowFirst, DirectIsNew, ShowsAll, Absent, Fits, PartIsNew,
   HasTries, Tries, FlushFits, TakenSt, Items

LEMMA NextInv == IInv /\ [Next]_vars => IInv'
<1> SUFFICES ASSUME IInv, [Next]_vars PROVE IInv'
  OBVIOUS
<1>1. ASSUME NEW s \in Slot, Capture(s) \/ DirectLands(s) \/ Enqueue(s) PROVE IInv'
  BY <1>1, CaptureInv, DirectLandsInv, EnqueueInv
<1>2. ASSUME NEW retry \in BOOLEAN, FlushStart(retry) PROVE IInv'
  BY <1>2, FlushStartInv
<1>3. ASSUME NEW s \in Slot, NEW how \in {"landed", "offline", "refused"}, Upload(s, how)
      PROVE  IInv'
  BY <1>3, UploadInv
<1>4. CASE FlushSettle
  BY <1>4, FlushSettleInv
<1>5. CASE ReplayAgain \/ ReplayLists
  BY <1>5, ReplayStartInv
<1>6. CASE LinkUploaded
  BY <1>6, LinkUploadedInv
<1>7. CASE Retire
  BY <1>7, RetireInv
<1>8. CASE LoadVerlauf \/ Deliver \/ CloseElsewhere \/ Reopen \/ LearnLifecycle
  BY <1>8, AroundInv
<1>9. CASE CloseHere \/ Crash
  BY <1>9, CloseHereInv, CrashInv
<1>10. CASE UNCHANGED vars
  BY <1>10, StutterInv
<1> QED
  BY <1>1, <1>2, <1>3, <1>4, <1>5, <1>6, <1>7, <1>8, <1>9, <1>10 DEF Next

\* The inductive invariant holds from the first capture on: the queue, what the page holds
\* beside it, the flush and the replay (mediaQueue.ts, useMediaQueue.ts) fit together.
THEOREM Invariance == Spec => []IInv
BY InitInv, NextInv, PTL DEF Spec

\* Every variable keeps its type: the attempts of an item (mediaQueue.ts, settleItems) never
\* pass MaxAttempts.
THEOREM TypeCorrect == Spec => []TypeOK
<1>1. IInv => TypeOK
  BY DEF IInv
<1> QED
  BY <1>1, Invariance, PTL

\* No capture that enqueueMedia (mediaQueue.ts) said was stored is lost, for any number of
\* captures, failed reads and writes, crashes, closings and reopenings: it is in the stored
\* queue until the server has the patch that links it.
THEOREM CaptureKept == Spec => []NoCaptureLost
<1>1. IInv => NoCaptureLost
  BY DEF IInv, Safe
<1> QED
  BY <1>1, Invariance, PTL

=============================================================================
