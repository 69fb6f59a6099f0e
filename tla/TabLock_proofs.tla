---------------------------- MODULE TabLock_proofs ----------------------------
(***************************************************************************)
(* Proofs about TabLock, for any number of tabs, mounts and take-overs.    *)
(***************************************************************************)
EXTENDS TabLock, SequenceTheorems, TLAPS

-----------------------------------------------------------------------------
(* The inductive invariant *)

\* A request stands in line at most once, and only while it is its tab's current one.
LineOK(q, gen) == /\ \A i \in 1..Len(q) : q[i][2] = gen[q[i][1]]
                  /\ \A i, j \in 1..Len(q) : q[i][1] = q[j][1] => i = j
LockOK(l, gen) == l # None => l[2] <= gen[l[1]]
Waits(q, t) == \E i \in 1..Len(q) : q[i][1] = t

\* One tab: s is what it is still to hear, g its generation, h whether it believes to hold.
\* A grant still to be heard is the tab's lock, or its theft is to be heard after it; who
\* stands in line, or is to hear that it must, is to hear nothing else that is current; and
\* what an open tab believes is true or about to be corrected.  A closed one has no part in it.
Quiet(s, g) == \A i \in 1..Len(s) : s[i].generation < g
GrantsHold(s, g, has) ==
    \A i \in 1..Len(s) : s[i].kind = "granted" /\ s[i].generation = g
      => has \/ \E j \in 1..Len(s) : i < j /\ s[j].kind = "stolen" /\ s[j].generation = g
RefusalsHold(s, g, has, waits) ==
    \A i \in 1..Len(s) : s[i].kind = "unavailable" /\ s[i].generation = g
      => ~has /\ ~waits /\ \A j \in 1..Len(s) : s[j].generation = g => j = i
ToldOf(s, g) == \E i \in 1..Len(s) : /\ s[i].kind \in {"stolen", "unavailable", "rejected"}
                                     /\ s[i].generation = g
TabOK(s, g, has, waits, h, o) ==
    /\ \A i \in 1..Len(s) : s[i].generation <= g
    /\ GrantsHold(s, g, has)
    /\ RefusalsHold(s, g, has, waits)
    /\ waits => ~has /\ ~h /\ Quiet(s, g)
    /\ o /\ h /\ ~has => ToldOf(s, g)
    /\ ~o => ~has /\ ~waits /\ Quiet(s, g)

TabsOK == \A t \in Tab : TabOK(inbox[t], generation[t], Has(t), Waits(queue, t), held[t], open[t])

IInv == TypeOK /\ LineOK(queue, generation) /\ LockOK(lock, generation) /\ TabsOK

-----------------------------------------------------------------------------
(* What a tab hears *)

\* What is told last, and what is heard first.
LEMMA SeqFacts ==
    ASSUME NEW S, NEW s \in Seq(S), NEW e \in S
    PROVE  /\ Append(s, e) \in Seq(S) /\ Len(Append(s, e)) = Len(s) + 1 /\ Len(s) \in Nat
           /\ Append(s, e)[Len(s) + 1] = e
           /\ \A i \in 1..Len(s) : Append(s, e)[i] = s[i]
           /\ s # <<>> => /\ Tail(s) \in Seq(S) /\ Len(Tail(s)) = Len(s) - 1 /\ Len(s) > 0
                          /\ Head(s) = s[1] /\ Head(s) \in S
                          /\ \A i \in 1..Len(s) - 1 : Tail(s)[i] = s[i + 1]
OBVIOUS

LEMMA Tells ==
    ASSUME NEW k \in {"granted", "unavailable", "stolen", "rejected"}, NEW g \in Nat
    PROVE  Tell(k, g) \in Event /\ Tell(k, g).kind = k /\ Tell(k, g).generation = g
BY DEF Tell, Event

LEMMA Generations ==
    ASSUME NEW s \in Seq(Event), NEW i \in 1..Len(s)
    PROVE  /\ s[i].generation \in Nat
           /\ s[i].kind \in {"granted", "unavailable", "stolen", "rejected"}
<1>1. s[i] \in Event
  OBVIOUS
<1> QED
  BY <1>1 DEF Event

\* Nothing current is to be heard: whatever follows is as it should be.
LEMMA QuietOK ==
    ASSUME NEW s \in Seq(Event), NEW g \in Nat, Quiet(s, g), NEW has, NEW waits, NEW h, NEW o,
           waits => ~has /\ ~h, o /\ h => has, ~o => ~has /\ ~waits
    PROVE  TabOK(s, g, has, waits, h, o)
BY Generations DEF TabOK, Quiet, GrantsHold, RefusalsHold

LEMMA GrantOK ==
    ASSUME NEW s \in Seq(Event), NEW g \in Nat, Quiet(s, g), NEW h, NEW o, o
    PROVE  TabOK(Append(s, Tell("granted", g)), g, TRUE, FALSE, h, o)
<1> DEFINE e == Tell("granted", g)
           a == Append(s, e)
<1>1. e \in Event /\ e.kind = "granted" /\ e.generation = g
  BY Tells
<1> HIDE DEF e
<1>2. /\ Len(a) = Len(s) + 1 /\ Len(s) \in Nat /\ a[Len(s) + 1] = e
      /\ \A i \in 1..Len(s) : a[i] = s[i]
  BY <1>1, SeqFacts
<1> HIDE DEF a
<1>3. \A i \in 1..Len(a) : (a[i] = e /\ i = Len(s) + 1) \/ (i \in 1..Len(s) /\ a[i] = s[i])
  BY <1>2
<1>4. \A i \in 1..Len(s) : s[i].generation \in Nat /\ s[i].generation < g
  BY Generations DEF Quiet
<1>5. TabOK(a, g, TRUE, FALSE, h, o)
  BY <1>1, <1>3, <1>4 DEF TabOK, GrantsHold, RefusalsHold
<1> QED
  BY <1>5 DEF a, e

LEMMA RefuseOK ==
    ASSUME NEW s \in Seq(Event), NEW g \in Nat, Quiet(s, g), NEW h, NEW o, o
    PROVE  TabOK(Append(s, Tell("unavailable", g)), g, FALSE, FALSE, h, o)
<1> DEFINE e == Tell("unavailable", g)
           a == Append(s, e)
<1>1. e \in Event /\ e.kind = "unavailable" /\ e.generation = g
  BY Tells
<1> HIDE DEF e
<1>2. /\ Len(a) = Len(s) + 1 /\ Len(s) \in Nat /\ a[Len(s) + 1] = e
      /\ \A i \in 1..Len(s) : a[i] = s[i]
  BY <1>1, SeqFacts
<1> HIDE DEF a
<1>3. \A i \in 1..Len(a) : (a[i] = e /\ i = Len(s) + 1) \/ (i \in 1..Len(s) /\ a[i] = s[i])
  BY <1>2
<1>4. \A i \in 1..Len(s) : s[i].generation \in Nat /\ s[i].generation < g
  BY Generations DEF Quiet
<1>5. Len(s) + 1 \in 1..Len(a)
  BY <1>2
<1>6. TabOK(a, g, FALSE, FALSE, h, o)
  BY <1>1, <1>2, <1>3, <1>4, <1>5 DEF TabOK, GrantsHold, RefusalsHold, ToldOf
<1> QED
  BY <1>6 DEF a, e

\* A holder is told of the theft; who waited, that it is out of the line.
LEMMA LossOK ==
    ASSUME NEW s \in Seq(Event), NEW g \in Nat, NEW e \in Event, e.generation = g,
           NEW has \in BOOLEAN, NEW waits \in BOOLEAN, NEW h, NEW o,
           TabOK(s, g, has, waits, h, o),
           (e.kind = "stolen" /\ has) \/ (e.kind = "rejected" /\ waits)
    PROVE  TabOK(Append(s, e), g, FALSE, FALSE, h, o)
<1> DEFINE a == Append(s, e)
<1>2. /\ Len(a) = Len(s) + 1 /\ Len(s) \in Nat /\ a[Len(s) + 1] = e
      /\ \A i \in 1..Len(s) : a[i] = s[i]
  BY SeqFacts
<1> HIDE DEF a
<1>3. \A i \in 1..Len(a) : (a[i] = e /\ i = Len(s) + 1) \/ (i \in 1..Len(s) /\ a[i] = s[i])
  BY <1>2
<1>4. \A i \in 1..Len(s) : s[i].generation \in Nat /\ s[i].generation <= g
  BY Generations DEF TabOK
<1>5. Len(s) + 1 \in 1..Len(a) /\ \A i \in 1..Len(s) : i < Len(s) + 1
  BY <1>2
<1>6. \A i \in 1..Len(a) : a[i].generation <= g
  BY <1>3, <1>4
<1>7. ToldOf(a, g)
  BY <1>2, <1>5 DEF ToldOf
<1>8. \A i \in 1..Len(s) : ~ (s[i].kind = "unavailable" /\ s[i].generation = g)
  BY DEF TabOK, RefusalsHold
<1>9. RefusalsHold(a, g, FALSE, FALSE)
  BY <1>3, <1>8 DEF RefusalsHold
<1>10. GrantsHold(a, g, FALSE)
  <2>1. CASE e.kind = "stolen"
    BY <1>2, <1>3, <1>5, <2>1 DEF GrantsHold
  <2>2. CASE e.kind = "rejected" /\ waits
    <3>1. \A i \in 1..Len(s) : s[i].generation < g
      BY <2>2 DEF TabOK, Quiet
    <3> QED
      BY <1>3, <1>4, <2>2, <3>1 DEF GrantsHold
  <2> QED
    BY <2>1, <2>2
<1>11. TabOK(a, g, FALSE, FALSE, h, o)
  BY <1>6, <1>7, <1>9, <1>10 DEF TabOK
<1> QED
  BY <1>11 DEF a

\* What is no longer current changes nothing, told or heard.
LEMMA StaleOK ==
    ASSUME NEW s \in Seq(Event), NEW g \in Nat, NEW e \in Event, e.generation < g,
           NEW has \in BOOLEAN, NEW waits \in BOOLEAN, NEW h, NEW o, TabOK(s, g, has, waits, h, o)
    PROVE  TabOK(Append(s, e), g, has, waits, h, o)
<1> DEFINE a == Append(s, e)
<1>2. /\ Len(a) = Len(s) + 1 /\ Len(s) \in Nat /\ a[Len(s) + 1] = e
      /\ \A i \in 1..Len(s) : a[i] = s[i]
  BY SeqFacts
<1> HIDE DEF a
<1>3. \A i \in 1..Len(a) : (a[i] = e /\ i = Len(s) + 1) \/ (i \in 1..Len(s) /\ a[i] = s[i])
  BY <1>2
<1>4. \A i \in 1..Len(s) : s[i].generation \in Nat /\ s[i].generation <= g /\ i \in 1..Len(a)
  BY <1>2, Generations DEF TabOK
<1>5. e.generation \in Nat
  BY DEF Event
<1>6. GrantsHold(a, g, has)
  BY <1>2, <1>3, <1>4, <1>5 DEF TabOK, GrantsHold
<1>7. RefusalsHold(a, g, has, waits)
  BY <1>2, <1>3, <1>4, <1>5 DEF TabOK, RefusalsHold
<1>8. (Quiet(s, g) => Quiet(a, g)) /\ (ToldOf(s, g) => ToldOf(a, g))
  BY <1>2, <1>3, <1>4, <1>5 DEF TabOK, Quiet, ToldOf
<1>9. TabOK(a, g, has, waits, h, o)
  BY <1>3, <1>4, <1>5, <1>6, <1>7, <1>8 DEF TabOK
<1> QED
  BY <1>9 DEF a

\* What a tab believes after a word: k, where it believed h.
Believes(w, g, h, k) ==
    IF w.generation # g THEN k = h
    ELSE IF k THEN w.kind = "granted" ELSE w.kind # "unavailable"

\* The first word is heard.  What the tab believes from now on, k, is as it was or as the
\* word says; a stale one changes nothing.
LEMMA HeardOK ==
    ASSUME NEW s \in Seq(Event), s # <<>>, NEW g \in Nat,
           NEW has \in BOOLEAN, NEW waits \in BOOLEAN, NEW h, NEW o,
           TabOK(s, g, has, waits, h, o)
    PROVE  /\ Tail(s) \in Seq(Event)
           /\ \A k : Believes(Head(s), g, h, k) => TabOK(Tail(s), g, has, waits, k, o)
           /\ Head(s).generation = g /\ Head(s).kind = "unavailable" => Quiet(Tail(s), g) /\ ~has
           /\ Head(s).generation = g => o /\ ~waits
           /\ \A i \in 1..Len(Tail(s)) : Tail(s)[i].generation <= g
<1> DEFINE r == Tail(s)
<1>1. /\ r \in Seq(Event) /\ Len(r) = Len(s) - 1 /\ Len(s) \in Nat /\ Len(s) > 0 /\ Head(s) = s[1]
      /\ \A i \in 1..Len(r) : r[i] = s[i + 1]
  BY SeqFacts
<1> HIDE DEF r
<1>2. \A i \in 1..Len(r) : i + 1 \in 1..Len(s) /\ r[i] = s[i + 1]
  BY <1>1
<1>3. \A i \in 1..Len(s) : i = 1 \/ (i - 1 \in 1..Len(r) /\ r[i - 1] = s[i])
  BY <1>1
<1>4. \A i \in 1..Len(s) : s[i].generation \in Nat /\ s[i].generation <= g
  BY Generations DEF TabOK
<1>5. \A i \in 1..Len(r) : r[i].generation <= g
  BY <1>2, <1>4
<1>6. GrantsHold(r, g, has)
  <2> SUFFICES ASSUME NEW i \in 1..Len(r), r[i].kind = "granted", r[i].generation = g, ~has
               PROVE  \E j \in 1..Len(r) : i < j /\ r[j].kind = "stolen" /\ r[j].generation = g
    BY DEF GrantsHold
  <2>1. PICK j \in 1..Len(s) : i + 1 < j /\ s[j].kind = "stolen" /\ s[j].generation = g
    BY <1>2 DEF TabOK, GrantsHold
  <2>2. j - 1 \in 1..Len(r) /\ r[j - 1] = s[j] /\ i < j - 1
    BY <1>1, <1>3, <2>1
  <2> QED
    BY <2>1, <2>2
<1>7. RefusalsHold(r, g, has, waits)
  <2> SUFFICES ASSUME NEW i \in 1..Len(r), r[i].kind = "unavailable", r[i].generation = g
               PROVE  ~has /\ ~waits /\ \A j \in 1..Len(r) : r[j].generation = g => j = i
    BY DEF RefusalsHold
  <2>1. /\ ~has /\ ~waits
        /\ \A j \in 1..Len(s) : s[j].generation = g => j = i + 1
    BY <1>2 DEF TabOK, RefusalsHold
  <2>2. \A j \in 1..Len(r) : r[j].generation = g => j + 1 = i + 1
    BY <1>2, <2>1
  <2> QED
    BY <2>1, <2>2
<1>8. /\ waits => ~has /\ ~h /\ Quiet(r, g)
      /\ ~o => ~has /\ ~waits /\ Quiet(r, g)
  BY <1>2 DEF TabOK, Quiet
<1>9. Head(s).generation # g => (ToldOf(s, g) => ToldOf(r, g))
  BY <1>1, <1>3 DEF ToldOf
<1>10. Head(s).generation # g => TabOK(r, g, has, waits, h, o)
  BY <1>5, <1>6, <1>7, <1>8, <1>9 DEF TabOK
<1>11. 1 \in 1..Len(s)
  BY <1>1
<1>12. Head(s).generation = g => ~waits /\ o
  BY <1>1, <1>4, <1>11 DEF TabOK, Quiet
<1>13. Head(s).generation = g /\ Head(s).kind = "granted" /\ ~has => ToldOf(r, g)
  <2> SUFFICES ASSUME Head(s).generation = g, Head(s).kind = "granted", ~has PROVE ToldOf(r, g)
    OBVIOUS
  <2>1. PICK j \in 1..Len(s) : 1 < j /\ s[j].kind = "stolen" /\ s[j].generation = g
    BY <1>1, <1>11 DEF TabOK, GrantsHold
  <2>2. j - 1 \in 1..Len(r) /\ r[j - 1] = s[j]
    BY <1>1, <1>3, <2>1
  <2> QED
    BY <2>1, <2>2 DEF ToldOf
<1>14. ASSUME NEW k, Believes(Head(s), g, h, k) PROVE TabOK(r, g, has, waits, k, o)
  <2>1. CASE Head(s).generation # g
    BY <1>14, <1>10, <2>1 DEF Believes
  <2>2. CASE Head(s).generation = g /\ k
    BY <1>14, <1>5, <1>6, <1>7, <1>12, <1>13, <2>2 DEF TabOK, Believes
  <2>3. CASE Head(s).generation = g /\ ~k
    BY <1>14, <1>5, <1>6, <1>7, <1>12, <2>3 DEF TabOK, Believes
  <2> QED
    BY <2>1, <2>2, <2>3
<1>16. Head(s).generation = g /\ Head(s).kind = "unavailable" => Quiet(r, g) /\ ~has
  <2> SUFFICES ASSUME Head(s).generation = g, Head(s).kind = "unavailable"
               PROVE  Quiet(r, g) /\ ~has
    OBVIOUS
  <2>1. ~has /\ ~waits /\ \A j \in 1..Len(s) : s[j].generation = g => j = 1
    BY <1>1, <1>11 DEF TabOK, RefusalsHold
  <2>2. ASSUME NEW i \in 1..Len(r) PROVE r[i].generation < g
    <3>1. i + 1 \in 1..Len(s) /\ i + 1 # 1 /\ r[i] = s[i + 1]
      BY <1>2
    <3>2. s[i + 1].generation # g /\ s[i + 1].generation \in Nat /\ s[i + 1].generation <= g
      BY <1>4, <2>1, <3>1
    <3> QED
      BY <3>1, <3>2
  <2> QED
    BY <2>1, <2>2 DEF Quiet
<1> QED
  BY <1>1, <1>5, <1>12, <1>14, <1>16 DEF r

-----------------------------------------------------------------------------
(* The line *)

LEMMA RemoveAtFacts ==
    ASSUME NEW q \in Seq(Request), NEW m \in 1..Len(q)
    PROVE  /\ RemoveAt(q, m) \in Seq(Request) /\ Len(RemoveAt(q, m)) = Len(q) - 1
           /\ \A k \in 1..Len(RemoveAt(q, m)) : RemoveAt(q, m)[k] = q[IF k < m THEN k ELSE k + 1]
<1> DEFINE a == SubSeq(q, 1, m - 1)
           b == SubSeq(q, m + 1, Len(q))
<1>1. Len(q) \in Nat /\ m \in Nat /\ m >= 1 /\ m <= Len(q) /\ \A k \in 1..Len(q) : q[k] \in Request
  OBVIOUS
<1>2. /\ a \in Seq(Request) /\ Len(a) = m - 1
      /\ \A k \in 1..(m - 1) : a[k] = q[k]
  <2>1. \A k \in 1..(m - 1) : q[k] \in Request
    BY <1>1
  <2> QED
    BY <1>1, <2>1, SubSeqProperties
<1>3. /\ b \in Seq(Request) /\ Len(b) = Len(q) - m
      /\ \A k \in 1..(Len(q) - m) : b[k] = q[m + k]
  <2>1. \A k \in (m + 1)..Len(q) : q[k] \in Request
    BY <1>1
  <2>2. /\ b \in Seq(Request) /\ Len(b) = IF m + 1 <= Len(q) THEN Len(q) - (m + 1) + 1 ELSE 0
        /\ \A k \in 1..(Len(q) - (m + 1) + 1) : b[k] = q[(m + 1) + k - 1]
    BY <1>1, <2>1, SubSeqProperties
  <2> QED
    BY <1>1, <2>2
<1>4. RemoveAt(q, m) = a \o b
  BY DEF RemoveAt
<1> HIDE DEF a, b
<1>5. /\ a \o b \in Seq(Request) /\ Len(a \o b) = Len(a) + Len(b)
      /\ \A k \in 1..(Len(a) + Len(b)) : (a \o b)[k] = IF k <= Len(a) THEN a[k] ELSE b[k - Len(a)]
  BY <1>2, <1>3, ConcatProperties
<1>6. ASSUME NEW k \in 1..(Len(q) - 1) PROVE (a \o b)[k] = q[IF k < m THEN k ELSE k + 1]
  <2>1. CASE k < m
    BY <1>1, <1>2, <1>3, <1>5, <2>1
  <2>2. CASE ~ (k < m)
    <3>1. (a \o b)[k] = b[k - (m - 1)]
      BY <1>1, <1>2, <1>3, <1>5, <2>2
    <3>2. k - (m - 1) \in 1..(Len(q) - m) /\ m + (k - (m - 1)) = k + 1
      BY <1>1, <2>2
    <3> QED
      BY <1>3, <2>2, <3>1, <3>2
  <2> QED
    BY <2>1, <2>2
<1> QED
  BY <1>1, <1>2, <1>3, <1>4, <1>5, <1>6

\* A line without one of its requests is a line.
LEMMA RemovedOK ==
    ASSUME NEW q \in Seq(Request), NEW m \in 1..Len(q), NEW gen, LineOK(q, gen)
    PROVE  /\ LineOK(RemoveAt(q, m), gen)
           /\ \A t \in Tab \ {q[m][1]} : Waits(RemoveAt(q, m), t) <=> Waits(q, t)
           /\ ~Waits(RemoveAt(q, m), q[m][1])
<1> DEFINE o == RemoveAt(q, m)
           at(k) == IF k < m THEN k ELSE k + 1
<1>1. /\ o \in Seq(Request) /\ Len(o) = Len(q) - 1 /\ Len(q) \in Nat
      /\ \A k \in 1..Len(o) : o[k] = q[at(k)]
  BY RemoveAtFacts
<1> HIDE DEF o
<1>2. \A k \in 1..Len(o) : at(k) \in 1..Len(q) /\ at(k) # m
  BY <1>1
<1>3. \A k, l \in 1..Len(o) : at(k) = at(l) => k = l
  BY <1>1
<1>4. \A k \in 1..Len(q) : k # m => \E l \in 1..Len(o) : at(l) = k
  <2> SUFFICES ASSUME NEW k \in 1..Len(q), k # m PROVE \E l \in 1..Len(o) : at(l) = k
    OBVIOUS
  <2>1. CASE k < m
    BY <1>1, <2>1
  <2>2. CASE k > m
    <3>1. k - 1 \in 1..Len(o) /\ at(k - 1) = k
      BY <1>1, <2>2
    <3> QED
      BY <3>1
  <2> QED
    BY <2>1, <2>2
<1> HIDE DEF at
<1>5. LineOK(o, gen)
  BY <1>1, <1>2, <1>3 DEF LineOK
<1>6. \A t \in Tab \ {q[m][1]} : Waits(o, t) <=> Waits(q, t)
  <2> SUFFICES ASSUME NEW t \in Tab \ {q[m][1]} PROVE Waits(o, t) <=> Waits(q, t)
    OBVIOUS
  <2>1. ASSUME NEW k \in 1..Len(o), o[k][1] = t PROVE Waits(q, t)
    BY <1>1, <1>2, <2>1 DEF Waits
  <2>2. ASSUME NEW k \in 1..Len(q), q[k][1] = t PROVE Waits(o, t)
    <3>1. PICK l \in 1..Len(o) : at(l) = k
      BY <1>4, <2>2
    <3> QED
      BY <1>1, <2>2, <3>1 DEF Waits
  <2> QED
    BY <2>1, <2>2 DEF Waits
<1>7. ~Waits(o, q[m][1])
  BY <1>1, <1>2 DEF Waits, LineOK
<1> QED
  BY <1>5, <1>6, <1>7 DEF o

\* The line without the request of t, which moves on to another generation.
LEMMA OthersOK ==
    ASSUME NEW q \in Seq(Request), NEW t \in Tab, NEW gen \in [Tab -> Nat], LineOK(q, gen),
           NEW g \in Nat
    PROVE  /\ Others(q, t) \in Seq(Request)
           /\ LineOK(Others(q, t), [gen EXCEPT ![t] = g])
           /\ ~Waits(Others(q, t), t)
           /\ \A u \in Tab \ {t} : Waits(Others(q, t), u) <=> Waits(q, u)
<1> DEFINE mine == {i \in 1..Len(q) : q[i][1] = t}
           new == [gen EXCEPT ![t] = g]
<1>1. ASSUME NEW o \in Seq(Request), LineOK(o, gen), ~Waits(o, t) PROVE LineOK(o, new)
  <2>1. \A i \in 1..Len(o) : o[i] \in Request /\ o[i][1] \in Tab \ {t}
    BY <1>1 DEF Waits, Request
  <2>2. \A u \in Tab \ {t} : new[u] = gen[u]
    OBVIOUS
  <2> HIDE DEF new
  <2> QED
    BY <1>1, <2>1, <2>2 DEF LineOK
<1> HIDE DEF new
<1>2. CASE mine = {}
  <2>1. Others(q, t) = q
    BY <1>2 DEF Others
  <2>2. ~Waits(q, t)
    BY <1>2 DEF Waits
  <2> QED
    BY <1>1, <2>1, <2>2 DEF new
<1>3. CASE mine # {}
  <2> DEFINE m == CHOOSE i \in mine : TRUE
  <2>1. m \in 1..Len(q) /\ q[m][1] = t
    BY <1>3
  <2>2. Others(q, t) = RemoveAt(q, m)
    BY <1>3 DEF Others
  <2> HIDE DEF m
  <2>3. /\ RemoveAt(q, m) \in Seq(Request) /\ LineOK(RemoveAt(q, m), gen)
        /\ ~Waits(RemoveAt(q, m), t)
        /\ \A u \in Tab \ {t} : Waits(RemoveAt(q, m), u) <=> Waits(q, u)
    BY <2>1, RemoveAtFacts, RemovedOK
  <2>4. LineOK(RemoveAt(q, m), new)
    BY <1>1, <2>3
  <2> QED
    BY <2>2, <2>3, <2>4 DEF new
<1> QED
  BY <1>2, <1>3

\* The next in line has the lock, and is to hear of it: nothing else it hears is current.
LEMMA PassOnOK ==
    ASSUME NEW waiting \in Seq(Request), NEW box \in [Tab -> Seq(Event)],
           generation' \in [Tab -> Nat], PassOn(waiting, box), LineOK(waiting, generation'),
           \A t \in Tab :
             IF waiting # <<>> /\ t = Head(waiting)[1] THEN Quiet(box[t], generation'[t]) /\ open'[t]
             ELSE TabOK(box[t], generation'[t], FALSE, Waits(waiting, t), held'[t], open'[t])
    PROVE  /\ lock' \in Request \cup {None} /\ queue' \in Seq(Request)
           /\ inbox' \in [Tab -> Seq(Event)]
           /\ LineOK(queue, generation)' /\ LockOK(lock, generation)' /\ TabsOK'
<1>1. CASE waiting = <<>>
  <2>1. lock' = None /\ queue' = <<>> /\ inbox' = box
    BY <1>1 DEF PassOn
  <2>2. \A t \in Tab : ~Has(t)'
    BY <2>1, NoneAssumption DEF Has
  <2>3. ASSUME NEW t \in Tab
        PROVE  TabOK(inbox'[t], generation'[t], Has(t)', Waits(queue', t), held'[t], open'[t])
    BY <1>1, <2>1, <2>2 DEF TabOK, GrantsHold, RefusalsHold
  <2> QED
    BY <1>1, <2>1, <2>3 DEF LineOK, LockOK, TabsOK
<1>2. CASE waiting # <<>>
  <2> DEFINE r == Head(waiting)
             u == r[1]
             g == r[2]
  <2>1. /\ lock' = r /\ queue' = Tail(waiting)
        /\ inbox' = [box EXCEPT ![u] = Append(@, Tell("granted", g))]
    BY <1>2 DEF PassOn, Deliver
  <2>2. /\ Len(waiting) \in Nat /\ Len(waiting) > 0 /\ r = waiting[1] /\ r \in Request
        /\ Tail(waiting) \in Seq(Request) /\ Len(Tail(waiting)) = Len(waiting) - 1
        /\ \A i \in 1..Len(waiting) - 1 : Tail(waiting)[i] = waiting[i + 1]
    BY <1>2, SeqFacts
  <2>3. u \in Tab /\ g \in Nat /\ r = <<u, g>> /\ g = generation'[u]
    BY <2>2 DEF Request, LineOK
  <2> HIDE DEF r, u, g
  <2>4. \A t \in Tab : Has(t)' <=> t = u
    BY <2>1, <2>3 DEF Has
  <2>5. LineOK(queue', generation')
    BY <2>1, <2>2 DEF LineOK
  <2>6. ~Waits(queue', u)
    <3>1. \A i \in 1..Len(waiting) - 1 : i + 1 \in 1..Len(waiting) /\ i + 1 # 1 /\ 1 \in 1..Len(waiting)
      BY <2>2
    <3>2. u = waiting[1][1]
      BY <2>2 DEF u
    <3> QED
      BY <2>1, <2>2, <3>1, <3>2 DEF LineOK, Waits
  <2>7. \A t \in Tab \ {u} : Waits(queue', t) <=> Waits(waiting, t)
    <3> SUFFICES ASSUME NEW t \in Tab \ {u} PROVE Waits(queue', t) <=> Waits(waiting, t)
      OBVIOUS
    <3>1. waiting[1][1] = u
      BY <2>2 DEF u
    <3>2. ASSUME NEW i \in 1..Len(waiting), waiting[i][1] = t
          PROVE  i - 1 \in 1..Len(queue') /\ queue'[i - 1] = waiting[i]
      BY <2>1, <2>2, <3>1, <3>2
    <3>3. ASSUME NEW i \in 1..Len(queue') PROVE i + 1 \in 1..Len(waiting) /\ queue'[i] = waiting[i + 1]
      BY <2>1, <2>2
    <3>4. Waits(waiting, t) => Waits(queue', t)
      BY <3>2 DEF Waits
    <3>5. ASSUME NEW i \in 1..Len(queue'), queue'[i][1] = t PROVE Waits(waiting, t)
      BY <3>3, <3>5 DEF Waits
    <3> QED
      BY <3>4, <3>5 DEF Waits
  <2>8. Tell("granted", g) \in Event
    BY <2>3, Tells
  <2>9. inbox' \in [Tab -> Seq(Event)]
    BY <2>1, <2>3, <2>8
  <2>10. ASSUME NEW t \in Tab
         PROVE  TabOK(inbox'[t], generation'[t], Has(t)', Waits(queue', t), held'[t], open'[t])
    <3>1. CASE t = u
      <4>1. inbox'[t] = Append(box[u], Tell("granted", g))
        BY <2>1, <2>3, <3>1
      <4>2. Quiet(box[u], g) /\ open'[u]
        BY <1>2, <2>3 DEF u, r
      <4>3. TabOK(Append(box[u], Tell("granted", g)), g, TRUE, FALSE, held'[u], open'[u])
        BY <2>3, <4>2, GrantOK
      <4> QED
        BY <2>3, <2>4, <2>6, <3>1, <4>1, <4>3 DEF TabOK, GrantsHold, RefusalsHold
    <3>2. CASE t # u
      <4>1. inbox'[t] = box[t] /\ ~Has(t)' /\ (Waits(queue', t) <=> Waits(waiting, t))
        BY <2>1, <2>4, <2>7, <3>2
      <4>2. TabOK(box[t], generation'[t], FALSE, Waits(waiting, t), held'[t], open'[t])
        BY <1>2, <3>2 DEF u, r
      <4> QED
        BY <4>1, <4>2 DEF TabOK, GrantsHold, RefusalsHold
    <3> QED
      BY <3>1, <3>2
  <2> QED
    BY <2>1, <2>2, <2>3, <2>5, <2>9, <2>10 DEF LineOK, LockOK, TabsOK
<1> QED
  BY <1>1, <1>2

-----------------------------------------------------------------------------
(* The steps *)

LEMMA TabFacts ==
    ASSUME IInv, NEW t \in Tab
    PROVE  /\ inbox[t] \in Seq(Event) /\ generation[t] \in Nat /\ generation[t] + 1 \in Nat
           /\ Quiet(inbox[t], generation[t] + 1)
           /\ TabOK(inbox[t], generation[t], Has(t), Waits(queue, t), held[t], open[t])
           /\ Has(t) \in BOOLEAN /\ Waits(queue, t) \in BOOLEAN
           /\ lock # <<t, generation[t] + 1>>
<1>1. inbox[t] \in Seq(Event) /\ generation[t] \in Nat
  BY DEF IInv, TypeOK
<1>2. TabOK(inbox[t], generation[t], Has(t), Waits(queue, t), held[t], open[t])
  BY DEF IInv, TabsOK
<1>3. Quiet(inbox[t], generation[t] + 1)
  BY <1>1, <1>2, Generations DEF TabOK, Quiet
<1>4. Has(t) \in BOOLEAN /\ Waits(queue, t) \in BOOLEAN
  BY DEF Has, Waits
<1>5. lock # <<t, generation[t] + 1>>
  <2> SUFFICES ASSUME lock = <<t, generation[t] + 1>> PROVE FALSE
    OBVIOUS
  <2>1. lock # None /\ lock[1] = t /\ lock[2] = generation[t] + 1
    BY <1>1, NoneAssumption
  <2> QED
    BY <1>1, <2>1 DEF IInv, LockOK
<1> QED
  BY <1>1, <1>2, <1>3, <1>4, <1>5

\* A tab that is not in line may move on to another generation.
LEMMA MovesOn ==
    ASSUME NEW q \in Seq(Request), NEW t \in Tab, NEW gen \in [Tab -> Nat], LineOK(q, gen),
           ~Waits(q, t), NEW g \in Nat
    PROVE  LineOK(q, [gen EXCEPT ![t] = g])
<1> DEFINE new == [gen EXCEPT ![t] = g]
<1>1. \A i \in 1..Len(q) : q[i] \in Request /\ q[i][1] \in Tab \ {t}
  BY DEF Waits, Request
<1>2. \A u \in Tab \ {t} : new[u] = gen[u]
  OBVIOUS
<1> HIDE DEF new
<1>3. LineOK(q, new)
  BY <1>1, <1>2 DEF LineOK
<1> QED
  BY <1>3 DEF new

\* The lock's own tab has moved on at most.
LEMMA LockMovesOn ==
    ASSUME IInv, NEW t \in Tab
    PROVE  LockOK(lock, [generation EXCEPT ![t] = generation[t] + 1])
<1>1. generation \in [Tab -> Nat] /\ (lock # None => lock[1] \in Tab /\ lock[2] \in Nat)
  BY DEF IInv, TypeOK, Request
<1> QED
  BY <1>1 DEF IInv, LockOK

\* A tab whose place in line is not asked for.
LEMMA Weaker ==
    ASSUME NEW s, NEW g, NEW has, NEW waits, NEW h, NEW o, TabOK(s, g, has, waits, h, o)
    PROVE  TabOK(s, g, has, FALSE, h, o)
BY DEF TabOK, RefusalsHold

\* Whoever is not in a step's focus is as it was.
LEMMA AsItWas ==
    ASSUME IInv, NEW u \in Tab, generation'[u] = generation[u], inbox'[u] = inbox[u],
           held'[u] = held[u], open'[u] = open[u], Has(u)' <=> Has(u),
           Waits(queue', u) <=> Waits(queue, u)
    PROVE  TabOK(inbox'[u], generation'[u], Has(u)', Waits(queue', u), held'[u], open'[u])
BY TabFacts DEF TabOK, GrantsHold, RefusalsHold

LEMMA InitInv == Init => IInv
<1> SUFFICES ASSUME Init PROVE IInv
  OBVIOUS
<1>1. TypeOK
  BY DEF Init, TypeOK
<1>2. lock = None /\ queue = <<>> /\ LineOK(queue, generation) /\ LockOK(lock, generation)
  BY DEF Init, LineOK, LockOK
<1>3. ASSUME NEW t \in Tab PROVE ~Has(t) /\ ~Waits(queue, t)
  BY <1>2, NoneAssumption DEF Has, Waits, Init
<1>4. ASSUME NEW t \in Tab PROVE inbox[t] = <<>> /\ generation[t] = 0 /\ ~open[t]
  BY DEF Init
<1>5. TabsOK
  BY <1>3, <1>4 DEF TabsOK, TabOK, GrantsHold, RefusalsHold, Quiet
<1> QED
  BY <1>1, <1>2, <1>5 DEF IInv

LEMMA RejectInv == ASSUME IInv, Reject PROVE IInv'
<1>1. PICK m \in 1..Len(queue) : /\ queue' = RemoveAt(queue, m)
                                 /\ inbox' = Deliver(inbox, queue[m], "rejected")
  BY DEF Reject
<1> DEFINE u == queue[m][1]
           e == Tell("rejected", queue[m][2])
<1>2. queue \in Seq(Request) /\ LineOK(queue, generation) /\ queue[m] \in Request
  BY DEF IInv, TypeOK
<1>3. u \in Tab /\ e \in Event /\ e.kind = "rejected" /\ e.generation = generation[u]
  BY <1>2, Tells DEF Request, LineOK
<1>4. /\ queue' \in Seq(Request) /\ LineOK(queue', generation) /\ ~Waits(queue', u)
      /\ \A t \in Tab \ {u} : Waits(queue', t) <=> Waits(queue, t)
  BY <1>1, <1>2, RemoveAtFacts, RemovedOK
<1>5. inbox' = [inbox EXCEPT ![u] = Append(@, e)]
  BY <1>1 DEF Deliver
<1>6. UNCHANGED <<lock, open, generation, hold, held, out, opens, takeOvers>>
  BY DEF Reject
<1>w. Waits(queue, u)
  BY DEF Waits
<1> HIDE DEF u, e
<1>7. inbox' \in [Tab -> Seq(Event)]
  BY <1>3, <1>5 DEF IInv, TypeOK
<1>8. TypeOK'
  BY <1>4, <1>6, <1>7 DEF IInv, TypeOK, Reject
<1>9. ASSUME NEW t \in Tab
      PROVE  TabOK(inbox'[t], generation'[t], Has(t)', Waits(queue', t), held'[t], open'[t])
  <2>1. Has(t)' <=> Has(t)
    BY <1>6 DEF Has
  <2>2. CASE t = u
    <3> DEFINE has == Has(t)
               waits == Waits(queue, t)
    <3>0. /\ inbox[t] \in Seq(Event) /\ generation[t] \in Nat /\ has \in BOOLEAN /\ waits \in BOOLEAN
          /\ TabOK(inbox[t], generation[t], has, waits, held[t], open[t])
      BY TabFacts
    <3>w. Waits(queue, t)
      BY <1>w, <2>2
    <3>1. ~has /\ waits
      BY <3>0, <3>w DEF TabOK
    <3>e. e \in Event /\ e.kind = "rejected" /\ e.generation = generation[t]
      BY <1>3, <2>2
    <3> HIDE DEF has, waits
    <3>2. TabOK(Append(inbox[t], e), generation[t], FALSE, FALSE, held[t], open[t])
      BY <3>0, <3>1, <3>e, LossOK
    <3>3. inbox'[t] = Append(inbox[t], e)
      BY <1>3, <1>5, <2>2 DEF IInv, TypeOK
    <3>4. /\ ~Has(t)' /\ ~Waits(queue', t) /\ generation'[t] = generation[t]
          /\ held'[t] = held[t] /\ open'[t] = open[t]
      BY <1>4, <1>6, <2>1, <2>2, <3>1 DEF has
    <3>5. TabOK(inbox'[t], generation'[t], FALSE, FALSE, held'[t], open'[t])
      BY <3>2, <3>3, <3>4
    <3> QED
      BY <3>4, <3>5 DEF TabOK, GrantsHold, RefusalsHold
  <2>3. CASE t # u
    <3>1. inbox'[t] = inbox[t]
      BY <1>5, <2>3 DEF IInv, TypeOK
    <3> QED
      BY <1>4, <1>6, <2>1, <2>3, <3>1, AsItWas
  <2> QED
    BY <2>2, <2>3
<1>10. LockOK(lock, generation)' /\ LineOK(queue, generation)'
  BY <1>4, <1>6 DEF IInv, LockOK, LineOK
<1> QED
  BY <1>8, <1>9, <1>10 DEF IInv, TabsOK

LEMMA OpenInv == ASSUME IInv, NEW t \in Tab, Open(t) PROVE IInv'
<1> DEFINE g == generation[t] + 1
           r == <<t, g>>
<1>1. /\ ~open[t] /\ open' = [open EXCEPT ![t] = TRUE] /\ generation' = [generation EXCEPT ![t] = g]
      /\ IF lock = None THEN PassOn(<<r>>, inbox)
         ELSE inbox' = Deliver(inbox, r, "unavailable") /\ UNCHANGED <<lock, queue>>
      /\ out' = [out EXCEPT ![t] = FALSE] /\ opens' = opens + 1
      /\ UNCHANGED <<hold, held, takeOvers, rejects>>
  BY DEF Open
<1>2. /\ g \in Nat /\ r \in Request /\ inbox[t] \in Seq(Event) /\ Quiet(inbox[t], g)
      /\ lock # r /\ ~Waits(queue, t)
  BY <1>1, TabFacts DEF Request, TabOK
<1>t. /\ generation \in [Tab -> Nat] /\ open \in [Tab -> BOOLEAN] /\ inbox \in [Tab -> Seq(Event)]
      /\ queue \in Seq(Request) /\ held \in [Tab -> BOOLEAN]
  BY DEF IInv, TypeOK
<1> HIDE DEF g
<1>3. /\ generation' \in [Tab -> Nat] /\ open' \in [Tab -> BOOLEAN]
      /\ generation'[t] = g /\ open'[t]
      /\ \A u \in Tab \ {t} : generation'[u] = generation[u] /\ open'[u] = open[u]
  BY <1>1, <1>2, <1>t
<1>4. /\ lock' \in Request \cup {None} /\ queue' \in Seq(Request)
      /\ inbox' \in [Tab -> Seq(Event)]
      /\ LineOK(queue, generation)' /\ LockOK(lock, generation)' /\ TabsOK'
  <2>1. CASE lock = None
    <3>1. PassOn(<<r>>, inbox) /\ <<r>> \in Seq(Request) /\ Len(<<r>>) = 1 /\ <<r>>[1] = r
          /\ Head(<<r>>) = r /\ <<r>> # <<>> /\ r[1] = t /\ r[2] = g
      BY <1>1, <1>2, <2>1
    <3> DEFINE w == <<r>>
    <3> HIDE DEF w
    <3>2. /\ PassOn(w, inbox) /\ w \in Seq(Request) /\ Len(w) = 1 /\ w[1] = r
          /\ Head(w)[1] = t /\ w # <<>>
      BY <3>1 DEF w
    <3>3. LineOK(w, generation')
      BY <1>3, <3>1, <3>2 DEF LineOK
    <3>4. ASSUME NEW u \in Tab \ {t}
          PROVE  TabOK(inbox[u], generation'[u], FALSE, Waits(w, u), held'[u], open'[u])
      <4>1. ~Waits(w, u) /\ ~Has(u)
        <5>1. \A i \in 1..Len(w) : w[i][1] = t
          BY <3>1, <3>2
        <5>2. generation[u] \in Nat
          BY <1>t
        <5> QED
          BY <2>1, <5>1, <5>2, NoneAssumption DEF Waits, Has
      <4>2. TabOK(inbox[u], generation[u], Has(u), FALSE, held[u], open[u])
        BY TabFacts, Weaker
      <4> QED
        BY <1>1, <1>3, <4>1, <4>2 DEF TabOK, GrantsHold, RefusalsHold
    <3> QED
      BY <1>2, <1>3, <1>t, <3>2, <3>3, <3>4, PassOnOK
  <2>2. CASE lock # None
    <3>1. /\ inbox' = [inbox EXCEPT ![t] = Append(@, Tell("unavailable", g))]
          /\ UNCHANGED <<lock, queue>>
      BY <1>1, <2>2 DEF Deliver
    <3>2. Tell("unavailable", g) \in Event
      BY <1>2, Tells
    <3>3. inbox' \in [Tab -> Seq(Event)]
      BY <1>t, <3>1, <3>2
    <3>4. LineOK(queue', generation') /\ LockOK(lock', generation')
      BY <1>1, <1>2, <1>t, <3>1, MovesOn, LockMovesOn DEF IInv, g
    <3>5. ASSUME NEW u \in Tab
          PROVE  TabOK(inbox'[u], generation'[u], Has(u)', Waits(queue', u), held'[u], open'[u])
      <4>1. CASE u = t
        <5>1. inbox'[u] = Append(inbox[t], Tell("unavailable", g))
          BY <1>t, <3>1, <4>1
        <5>2. TabOK(Append(inbox[t], Tell("unavailable", g)), g, FALSE, FALSE, held'[t], open'[t])
          BY <1>2, <1>3, RefuseOK
        <5>3. ~Has(u)' /\ ~Waits(queue', u)
          BY <1>2, <1>3, <3>1, <4>1 DEF Has
        <5> QED
          BY <1>3, <4>1, <5>1, <5>2, <5>3 DEF TabOK, GrantsHold, RefusalsHold
      <4>2. CASE u # t
        BY <1>1, <1>3, <1>t, <3>1, <4>2, AsItWas DEF Has
      <4> QED
        BY <4>1, <4>2
    <3> QED
      BY <1>t, <3>1, <3>3, <3>4, <3>5 DEF TabsOK, IInv, TypeOK
  <2> QED
    BY <2>1, <2>2
<1>5. TypeOK'
  BY <1>1, <1>3, <1>4 DEF IInv, TypeOK
<1> QED
  BY <1>4, <1>5 DEF IInv

\* A lock that is given back goes to the next in line, if anyone waits.
LEMMA HandedOn ==
    ASSUME NEW q \in Seq(Request), NEW box \in [Tab -> Seq(Event)],
           generation' \in [Tab -> Nat], PassOn(q, box), LineOK(q, generation'),
           \A u \in Tab :
             TabOK(box[u], generation'[u], FALSE, Waits(q, u), held'[u], open'[u])
    PROVE  /\ lock' \in Request \cup {None} /\ queue' \in Seq(Request)
           /\ inbox' \in [Tab -> Seq(Event)]
           /\ LineOK(queue, generation)' /\ LockOK(lock, generation)' /\ TabsOK'
<1>1. ASSUME q # <<>>, NEW u \in Tab, u = Head(q)[1]
      PROVE  Quiet(box[u], generation'[u]) /\ open'[u]
  <2>1. Len(q) > 0 /\ Len(q) \in Nat /\ Head(q) = q[1]
    BY <1>1, SeqFacts
  <2>2. Waits(q, u)
    BY <1>1, <2>1 DEF Waits
  <2> QED
    BY <2>2 DEF TabOK
<1> QED
  BY <1>1, PassOnOK

\* A tab that takes a place in line, or the free lock.
LEMMA JoinsOK ==
    ASSUME IInv, NEW t \in Tab, NEW box \in [Tab -> Seq(Event)], NEW g \in Nat,
           generation' \in [Tab -> Nat], generation'[t] = g, WaitInLine(<<t, g>>, box),
           Quiet(box[t], g), ~held'[t], open'[t], LineOK(queue, generation'), ~Waits(queue, t),
           LockOK(lock, generation'), lock # <<t, g>>,
           \A u \in Tab \ {t} : /\ generation'[u] = generation[u] /\ box[u] = inbox[u]
                                /\ held'[u] = held[u] /\ open'[u] = open[u]
    PROVE  /\ lock' \in Request \cup {None} /\ queue' \in Seq(Request)
           /\ inbox' \in [Tab -> Seq(Event)]
           /\ LineOK(queue, generation)' /\ LockOK(lock, generation)' /\ TabsOK'
<1> DEFINE r == <<t, g>>
<1>1. queue \in Seq(Request) /\ lock \in Request \cup {None} /\ r \in Request /\ r[1] = t /\ r[2] = g
  BY DEF IInv, TypeOK, Request
<1>2. \A u \in Tab \ {t} :
        TabOK(box[u], generation'[u], Has(u), Waits(queue, u), held'[u], open'[u])
  <2> SUFFICES ASSUME NEW u \in Tab \ {t}
               PROVE  TabOK(box[u], generation'[u], Has(u), Waits(queue, u), held'[u], open'[u])
    OBVIOUS
  <2>1. TabOK(inbox[u], generation[u], Has(u), Waits(queue, u), held[u], open[u])
    BY TabFacts
  <2>2. /\ generation'[u] = generation[u] /\ box[u] = inbox[u]
        /\ held'[u] = held[u] /\ open'[u] = open[u]
    OBVIOUS
  <2> QED
    BY <2>1, <2>2
<1> HIDE DEF r
<1>3. CASE lock = None
  <2> DEFINE w == <<r>>
  <2>1. w \in Seq(Request) /\ Len(w) = 1 /\ w[1] = r /\ Head(w) = r /\ w # <<>> /\ PassOn(w, box)
    BY <1>1, <1>3 DEF WaitInLine, r
  <2> HIDE DEF w
  <2>2. LineOK(w, generation')
    BY <1>1, <2>1 DEF LineOK
  <2>3. ASSUME NEW u \in Tab \ {t}
        PROVE  TabOK(box[u], generation'[u], FALSE, Waits(w, u), held'[u], open'[u])
    <3>1. ~Waits(w, u)
      BY <1>1, <2>1 DEF Waits
    <3>2. ~Has(u)
      BY <1>3, NoneAssumption DEF Has, IInv, TypeOK
    <3> QED
      BY <1>2, <3>1, <3>2 DEF TabOK, GrantsHold, RefusalsHold
  <2>4. ASSUME NEW u \in Tab
        PROVE  IF w # <<>> /\ u = Head(w)[1] THEN Quiet(box[u], generation'[u]) /\ open'[u]
               ELSE TabOK(box[u], generation'[u], FALSE, Waits(w, u), held'[u], open'[u])
    <3>1. Head(w)[1] = t
      BY <1>1, <2>1
    <3>2. CASE u = t
      BY <2>1, <3>1, <3>2
    <3>3. CASE u # t
      BY <2>1, <2>3, <3>1, <3>3
    <3> QED
      BY <3>2, <3>3
  <2> QED
    BY <2>1, <2>2, <2>4, PassOnOK
<1>4. CASE lock # None
  <2>1. queue' = Append(queue, r) /\ inbox' = box /\ lock' = lock
    BY <1>4 DEF WaitInLine, r
  <2>2. /\ queue' \in Seq(Request) /\ Len(queue') = Len(queue) + 1 /\ Len(queue) \in Nat
        /\ queue'[Len(queue) + 1] = r /\ \A i \in 1..Len(queue) : queue'[i] = queue[i]
    BY <1>1, <2>1, SeqFacts
  <2>3. \A i \in 1..Len(queue') :
          (i = Len(queue) + 1 /\ queue'[i] = r) \/ (i \in 1..Len(queue) /\ queue'[i] = queue[i])
    BY <2>2
  <2>4. \A i \in 1..Len(queue) : queue[i][1] # t
    BY DEF Waits
  <2>5. LineOK(queue', generation')
    <3>1. \A i \in 1..Len(queue') : queue'[i][2] = generation'[queue'[i][1]]
      BY <1>1, <2>3 DEF LineOK
    <3>2. ASSUME NEW i \in 1..Len(queue'), NEW j \in 1..Len(queue'), queue'[i][1] = queue'[j][1]
          PROVE  i = j
      <4>1. CASE i = Len(queue) + 1
        BY <1>1, <2>3, <2>4, <3>2, <4>1
      <4>2. CASE j = Len(queue) + 1
        BY <1>1, <2>3, <2>4, <3>2, <4>2
      <4>3. CASE i \in 1..Len(queue) /\ j \in 1..Len(queue)
        BY <2>2, <3>2, <4>3 DEF LineOK
      <4> QED
        BY <2>3, <4>1, <4>2, <4>3
    <3> QED
      BY <3>1, <3>2 DEF LineOK
  <2>6. \A u \in Tab \ {t} : Waits(queue', u) <=> Waits(queue, u)
    <3> SUFFICES ASSUME NEW u \in Tab \ {t} PROVE Waits(queue', u) <=> Waits(queue, u)
      OBVIOUS
    <3>1. ASSUME NEW i \in 1..Len(queue'), queue'[i][1] = u PROVE Waits(queue, u)
      BY <1>1, <2>3, <3>1 DEF Waits
    <3>2. ASSUME NEW i \in 1..Len(queue), queue[i][1] = u PROVE Waits(queue', u)
      <4>1. i \in 1..Len(queue') /\ queue'[i] = queue[i]
        BY <2>2
      <4> QED
        BY <3>2, <4>1 DEF Waits
    <3> QED
      BY <3>1, <3>2 DEF Waits
  <2>7. ASSUME NEW u \in Tab
        PROVE  TabOK(inbox'[u], generation'[u], Has(u)', Waits(queue', u), held'[u], open'[u])
    <3>1. CASE u = t
      <4>1. ~Has(u)'
        BY <2>1, <3>1 DEF Has
      <4>2. TabOK(box[t], g, FALSE, TRUE, held'[t], open'[t])
        BY QuietOK
      <4>3. Waits(queue', u)
        <5>1. Len(queue) + 1 \in 1..Len(queue')
          BY <2>2
        <5> QED
          BY <1>1, <2>2, <3>1, <5>1 DEF Waits
      <4> QED
        BY <2>1, <3>1, <4>1, <4>2, <4>3 DEF TabOK, GrantsHold, RefusalsHold
    <3>2. CASE u # t
      <4>1. (Has(u)' <=> Has(u)) /\ (Waits(queue', u) <=> Waits(queue, u)) /\ inbox'[u] = box[u]
        BY <2>1, <2>6, <3>2 DEF Has
      <4> QED
        BY <3>2, <4>1, AsItWas
    <3> QED
      BY <3>1, <3>2
  <2> QED
    BY <1>1, <2>1, <2>2, <2>5, <2>7 DEF TabsOK
<1> QED
  BY <1>3, <1>4

\* The first word for t is heard.
LEMMA ReadFacts ==
    ASSUME IInv, NEW t \in Tab, inbox[t] # <<>>
    PROVE  /\ Read1(t) \in [Tab -> Seq(Event)] /\ Read1(t)[t] = Tail(inbox[t])
           /\ \A u \in Tab \ {t} : Read1(t)[u] = inbox[u]
           /\ Next1(t) = Head(inbox[t]) /\ Next1(t).generation \in Nat
<1>1. inbox \in [Tab -> Seq(Event)] /\ Tail(inbox[t]) \in Seq(Event) /\ Head(inbox[t]) \in Event
  BY SeqFacts DEF IInv, TypeOK
<1> QED
  BY <1>1 DEF Read1, Next1, Event

LEMMA StaleHeard ==
    ASSUME IInv, NEW t \in Tab, inbox[t] # <<>>, Next1(t).generation # generation[t], NEW u \in Tab
    PROVE  TabOK(Read1(t)[u], generation[u], Has(u), Waits(queue, u), held[u], open[u])
<1>1. CASE u = t
  <2>0. /\ inbox[t] \in Seq(Event) /\ generation[t] \in Nat
        /\ TabOK(inbox[t], generation[t], Has(t), Waits(queue, t), held[t], open[t])
        /\ Has(t) \in BOOLEAN /\ Waits(queue, t) \in BOOLEAN 
        /\ Believes(Head(inbox[t]), generation[t], held[t], held[t])
        /\ held[t] \in BOOLEAN /\ open[t] \in BOOLEAN
    BY TabFacts DEF Next1, Has, Waits, IInv, TypeOK, Believes
  <2>1. TabOK(Tail(inbox[t]), generation[t], Has(t), Waits(queue, t), held[t], open[t])
    BY <2>0, HeardOK
  <2>2. Read1(t)[u] = Tail(inbox[t])
    BY <1>1, ReadFacts
  <2> QED
    BY <1>1, <2>1, <2>2 DEF TabOK, GrantsHold, RefusalsHold
<1>2. CASE u # t
  BY <1>2, ReadFacts, TabFacts
<1> QED
  BY <1>1, <1>2

\* Words that change no more than what a tab believes.
LEMMA HearsInv ==
    ASSUME IInv, NEW t \in Tab, inbox[t] # <<>>, inbox' = Read1(t),
           UNCHANGED <<lock, queue, generation, open, opens, takeOvers, rejects>>,
           hold' \in [Tab -> Nat \cup {None}], out' \in [Tab -> BOOLEAN],
           held' \in [Tab -> BOOLEAN], \A u \in Tab \ {t} : held'[u] = held[u],
           Believes(Next1(t), generation[t], held[t], held'[t])
    PROVE  IInv'
<1>1. ASSUME NEW u \in Tab PROVE (Has(u)' <=> Has(u)) /\ (Waits(queue', u) <=> Waits(queue, u))
  BY DEF Has
<1>2. TabOK(Tail(inbox[t]), generation[t], Has(t), Waits(queue, t), held'[t], open[t])
  <2>1. /\ inbox[t] \in Seq(Event) /\ generation[t] \in Nat
        /\ TabOK(inbox[t], generation[t], Has(t), Waits(queue, t), held[t], open[t])
        /\ Has(t) \in BOOLEAN /\ Waits(queue, t) \in BOOLEAN
        /\ held[t] \in BOOLEAN /\ held'[t] \in BOOLEAN /\ open[t] \in BOOLEAN
        /\ Believes(Head(inbox[t]), generation[t], held[t], held'[t])
    BY TabFacts DEF Next1, Has, Waits, IInv, TypeOK
  <2> QED
    BY <2>1, HeardOK
<1>3. ASSUME NEW u \in Tab
      PROVE  TabOK(inbox'[u], generation'[u], Has(u)', Waits(queue', u), held'[u], open'[u])
  <2>1. CASE u = t
    <3>1. inbox'[t] = Tail(inbox[t]) /\ generation'[t] = generation[t] /\ open'[t] = open[t]
      BY ReadFacts
    <3>2. TabOK(inbox'[t], generation'[t], Has(t), Waits(queue, t), held'[t], open'[t])
      BY <1>2, <3>1
    <3> QED
      BY <1>1, <2>1, <3>2 DEF TabOK, GrantsHold, RefusalsHold
  <2>2. CASE u # t
    BY <1>1, <2>2, ReadFacts, AsItWas
  <2> QED
    BY <2>1, <2>2
<1>4. TypeOK'
  BY ReadFacts DEF IInv, TypeOK
<1> QED
  BY <1>3, <1>4 DEF IInv, LineOK, LockOK, TabsOK

LEMMA GrantedInv == ASSUME IInv, NEW t \in Tab, Granted(t) PROVE IInv'
<1> DEFINE g == Next1(t).generation
<1>1. inbox[t] # <<>> /\ Next1(t).kind = "granted"
  BY DEF Granted, Hears
<1>2. CASE Current(t, g)
  <2>1. /\ inbox' = Read1(t) /\ held' = [held EXCEPT ![t] = TRUE] /\ hold' = [hold EXCEPT ![t] = g]
        /\ UNCHANGED <<lock, queue, generation, open, out, opens, takeOvers, rejects>>
    BY <1>2 DEF Granted
  <2>2. g \in Nat /\ held \in [Tab -> BOOLEAN] /\ hold \in [Tab -> Nat \cup {None}] /\ out \in [Tab -> BOOLEAN]
    BY <1>1, ReadFacts DEF IInv, TypeOK
  <2>3. /\ hold' \in [Tab -> Nat \cup {None}] /\ held' \in [Tab -> BOOLEAN] /\ out' \in [Tab -> BOOLEAN]
        /\ \A u \in Tab \ {t} : held'[u] = held[u]
    BY <2>1, <2>2
  <2>4. Believes(Next1(t), generation[t], held[t], held'[t])
    BY <1>1, <1>2, <2>1, <2>2 DEF Believes, Current
  <2> QED
    BY <1>1, <2>1, <2>3, <2>4, HearsInv
<1>3. CASE ~Current(t, g) /\ lock # <<t, g>>
  <2>1. /\ inbox' = Read1(t)
        /\ UNCHANGED <<lock, queue, generation, open, held, hold, out, opens, takeOvers, rejects>>
    BY <1>3 DEF Granted
  <2>2. /\ hold' \in [Tab -> Nat \cup {None}] /\ held' \in [Tab -> BOOLEAN] /\ out' \in [Tab -> BOOLEAN]
        /\ \A u \in Tab \ {t} : held'[u] = held[u]
    BY <2>1 DEF IInv, TypeOK
  <2>3. Believes(Next1(t), generation[t], held[t], held'[t])
    BY <1>3, <2>1 DEF Believes, Current
  <2> QED
    BY <1>1, <2>1, <2>2, <2>3, HearsInv
<1>4. CASE ~Current(t, g) /\ lock = <<t, g>>
  <2>1. /\ PassOn(queue, Read1(t))
        /\ UNCHANGED <<generation, open, held, hold, out, opens, takeOvers, rejects>>
    BY <1>4 DEF Granted
  <2>2. /\ queue \in Seq(Request) /\ Read1(t) \in [Tab -> Seq(Event)] /\ generation' \in [Tab -> Nat]
        /\ LineOK(queue, generation')
    BY <1>1, <2>1, ReadFacts DEF IInv, TypeOK
  <2>3. ASSUME NEW u \in Tab
        PROVE  TabOK(Read1(t)[u], generation'[u], FALSE, Waits(queue, u), held'[u], open'[u])
    <3>1. ~Has(u)
      BY <1>4 DEF Has, Current
    <3>2. TabOK(Read1(t)[u], generation[u], Has(u), Waits(queue, u), held[u], open[u])
      BY <1>1, <1>4, StaleHeard DEF Current
    <3>3. generation'[u] = generation[u] /\ held'[u] = held[u] /\ open'[u] = open[u]
      BY <2>1
    <3> QED
      BY <3>1, <3>2, <3>3 DEF TabOK, GrantsHold, RefusalsHold
  <2>4. /\ lock' \in Request \cup {None} /\ queue' \in Seq(Request)
        /\ inbox' \in [Tab -> Seq(Event)]
        /\ LineOK(queue, generation)' /\ LockOK(lock, generation)' /\ TabsOK'
    BY <2>1, <2>2, <2>3, HandedOn
  <2> QED
    BY <2>1, <2>4 DEF IInv, TypeOK
<1> QED
  BY <1>2, <1>3, <1>4

\* A word of a generation that has passed, by a step that does nothing for it.
LEMMA StaleInv ==
    ASSUME IInv, NEW t \in Tab, inbox[t] # <<>>, ~Current(t, Next1(t).generation), inbox' = Read1(t),
           UNCHANGED <<lock, queue, generation, open, held, hold, out, opens, takeOvers, rejects>>
    PROVE  IInv'
<1>1. /\ hold' \in [Tab -> Nat \cup {None}] /\ held' \in [Tab -> BOOLEAN] /\ out' \in [Tab -> BOOLEAN]
      /\ \A u \in Tab \ {t} : held'[u] = held[u]
  BY DEF IInv, TypeOK
<1>2. Believes(Next1(t), generation[t], held[t], held'[t])
  BY DEF Believes, Current
<1> QED
  BY <1>1, <1>2, HearsInv

\* What hearing a current word says of the one who hears it.
LEMMA CurrentFacts ==
    ASSUME IInv, NEW t \in Tab, inbox[t] # <<>>, Current(t, Next1(t).generation)
    PROVE  /\ open[t] /\ ~Waits(queue, t)
           /\ Quiet(Read1(t)[t], generation[t] + 1)
           /\ Next1(t).kind = "unavailable" => Quiet(Read1(t)[t], generation[t]) /\ ~Has(t)
<1>1. /\ inbox[t] \in Seq(Event) /\ generation[t] \in Nat
      /\ TabOK(inbox[t], generation[t], Has(t), Waits(queue, t), held[t], open[t])
      /\ Has(t) \in BOOLEAN /\ Waits(queue, t) \in BOOLEAN
      /\ Head(inbox[t]).generation = generation[t] /\ Next1(t) = Head(inbox[t])
  BY TabFacts DEF Next1, Current
<1>2. /\ Tail(inbox[t]) \in Seq(Event) /\ open[t] /\ ~Waits(queue, t)
      /\ Head(inbox[t]).kind = "unavailable" => Quiet(Tail(inbox[t]), generation[t]) /\ ~Has(t)
      /\ \A i \in 1..Len(Tail(inbox[t])) : Tail(inbox[t])[i].generation <= generation[t]
  BY <1>1, HeardOK
<1>3. Quiet(Tail(inbox[t]), generation[t] + 1)
  BY <1>1, <1>2, Generations DEF Quiet
<1>4. Read1(t)[t] = Tail(inbox[t])
  BY ReadFacts
<1> QED
  BY <1>1, <1>2, <1>3, <1>4

LEMMA UnavailableInv == ASSUME IInv, NEW t \in Tab, Unavailable(t) PROVE IInv'
<1> DEFINE g == Next1(t).generation
<1>1. inbox[t] # <<>> /\ Next1(t).kind = "unavailable"
  BY DEF Unavailable, Hears
<1>2. CASE Current(t, g)
  <2>1. /\ held' = [held EXCEPT ![t] = FALSE] /\ WaitInLine(<<t, g>>, Read1(t))
        /\ UNCHANGED <<open, generation, hold, out, opens, takeOvers, rejects>>
    BY <1>2 DEF Unavailable
  <2>2. g = generation[t] /\ g \in Nat
    BY <1>1, <1>2, ReadFacts DEF Current
  <2> HIDE DEF g
  <2>3. open[t] /\ ~Waits(queue, t) /\ Quiet(Read1(t)[t], g) /\ lock # <<t, g>>
    BY <1>1, <1>2, <2>2, CurrentFacts DEF Has, g
  <2>4. /\ held \in [Tab -> BOOLEAN] /\ held' \in [Tab -> BOOLEAN] /\ ~held'[t]
        /\ generation' \in [Tab -> Nat] /\ generation'[t] = g /\ open'[t]
        /\ LineOK(queue, generation') /\ LockOK(lock, generation')
    BY <2>1, <2>2, <2>3 DEF IInv, TypeOK
  <2>5. Read1(t) \in [Tab -> Seq(Event)] /\ \A u \in Tab \ {t} : Read1(t)[u] = inbox[u]
    BY <1>1, ReadFacts
  <2>6. \A u \in Tab \ {t} : /\ generation'[u] = generation[u] /\ Read1(t)[u] = inbox[u]
                             /\ held'[u] = held[u] /\ open'[u] = open[u]
    BY <2>1, <2>4, <2>5
  <2>7. /\ lock' \in Request \cup {None} /\ queue' \in Seq(Request)
        /\ inbox' \in [Tab -> Seq(Event)]
        /\ LineOK(queue, generation)' /\ LockOK(lock, generation)' /\ TabsOK'
    BY <2>1, <2>2, <2>3, <2>4, <2>5, <2>6, JoinsOK
  <2> QED
    BY <2>1, <2>4, <2>7 DEF IInv, TypeOK
<1>3. CASE ~Current(t, g)
  <2>1. /\ inbox' = Read1(t)
        /\ UNCHANGED <<lock, queue, generation, open, held, hold, out, opens, takeOvers, rejects>>
    BY <1>3 DEF Unavailable
  <2> QED
    BY <1>1, <1>3, <2>1, StaleInv
<1> QED
  BY <1>2, <1>3

LEMMA StolenInv == ASSUME IInv, NEW t \in Tab, Stolen(t) PROVE IInv'
<1> DEFINE g == Next1(t).generation
<1>1. inbox[t] # <<>>
  BY DEF Stolen, Hears
<1>2. CASE Current(t, g)
  <2> DEFINE n == generation[t] + 1
  <2>1. /\ held' = [held EXCEPT ![t] = FALSE] /\ generation' = [generation EXCEPT ![t] = n]
        /\ WaitInLine(<<t, n>>, Read1(t))
        /\ UNCHANGED <<open, hold, out, opens, takeOvers, rejects>>
    BY <1>2 DEF Stolen, Current
  <2>2. n \in Nat /\ lock # <<t, n>>
    BY TabFacts
  <2>3. open[t] /\ ~Waits(queue, t) /\ Quiet(Read1(t)[t], n)
    BY <1>1, <1>2, CurrentFacts
  <2>t. /\ held \in [Tab -> BOOLEAN] /\ generation \in [Tab -> Nat] /\ queue \in Seq(Request)
        /\ LineOK(queue, generation)
    BY DEF IInv, TypeOK
  <2>l. LockOK(lock, generation')
    BY <2>1, LockMovesOn
  <2> HIDE DEF n
  <2>4. /\ held' \in [Tab -> BOOLEAN] /\ ~held'[t]
        /\ generation' \in [Tab -> Nat] /\ generation'[t] = n /\ open'[t]
    BY <2>1, <2>2, <2>3, <2>t
  <2>5. LineOK(queue, generation')
    BY <2>1, <2>2, <2>3, <2>t, MovesOn
  <2>6. Read1(t) \in [Tab -> Seq(Event)] /\ \A u \in Tab \ {t} : Read1(t)[u] = inbox[u]
    BY <1>1, ReadFacts
  <2>7. \A u \in Tab \ {t} : /\ generation'[u] = generation[u] /\ Read1(t)[u] = inbox[u]
                             /\ held'[u] = held[u] /\ open'[u] = open[u]
    BY <2>1, <2>t, <2>6
  <2>8. /\ lock' \in Request \cup {None} /\ queue' \in Seq(Request)
        /\ inbox' \in [Tab -> Seq(Event)]
        /\ LineOK(queue, generation)' /\ LockOK(lock, generation)' /\ TabsOK'
    BY <2>1, <2>2, <2>3, <2>l, <2>4, <2>5, <2>6, <2>7, JoinsOK
  <2> QED
    BY <2>1, <2>4, <2>8 DEF IInv, TypeOK
<1>3. CASE ~Current(t, g)
  <2>1. /\ inbox' = Read1(t)
        /\ UNCHANGED <<lock, queue, generation, open, held, hold, out, opens, takeOvers, rejects>>
    BY <1>3 DEF Stolen
  <2> QED
    BY <1>1, <1>3, <2>1, StaleInv
<1> QED
  BY <1>2, <1>3

LEMMA RejectedInv == ASSUME IInv, NEW t \in Tab, Rejected(t) PROVE IInv'
<1>1. inbox[t] # <<>> /\ Next1(t).kind = "rejected" /\ inbox' = Read1(t)
  BY DEF Rejected, Hears
<1>2. CASE Current(t, Next1(t).generation)
  <2>1. /\ held' = [held EXCEPT ![t] = FALSE] /\ out' = [out EXCEPT ![t] = TRUE]
        /\ UNCHANGED <<lock, queue, open, generation, hold, opens, takeOvers, rejects>>
    BY <1>2 DEF Rejected
  <2>2. held \in [Tab -> BOOLEAN] /\ hold \in [Tab -> Nat \cup {None}] /\ out \in [Tab -> BOOLEAN]
    BY DEF IInv, TypeOK
  <2>3. /\ hold' \in [Tab -> Nat \cup {None}] /\ held' \in [Tab -> BOOLEAN] /\ out' \in [Tab -> BOOLEAN]
        /\ \A u \in Tab \ {t} : held'[u] = held[u]
    BY <2>1, <2>2
  <2>4. Believes(Next1(t), generation[t], held[t], held'[t])
    BY <1>1, <1>2, <2>1, <2>2 DEF Believes, Current
  <2> QED
    BY <1>1, <2>1, <2>3, <2>4, HearsInv
<1>3. CASE ~Current(t, Next1(t).generation)
  <2>1. UNCHANGED <<lock, queue, generation, open, held, hold, out, opens, takeOvers, rejects>>
    BY <1>3 DEF Rejected
  <2> QED
    BY <1>1, <1>3, <2>1, StaleInv
<1> QED
  BY <1>2, <1>3

LEMMA TakeOverInv == ASSUME IInv, NEW t \in Tab, TakeOver(t) PROVE IInv'
<1> DEFINE n == generation[t] + 1
           e == Tell("stolen", lock[2])
           box == IF lock = None THEN inbox ELSE Deliver(inbox, lock, "stolen")
<1>1. /\ open[t] /\ ~held[t] /\ takeOvers' = takeOvers + 1
      /\ generation' = [generation EXCEPT ![t] = n] /\ out' = [out EXCEPT ![t] = FALSE]
      /\ lock' = <<t, n>> /\ queue' = Others(queue, t)
      /\ inbox' = Deliver(box, <<t, n>>, "granted")
      /\ UNCHANGED <<open, hold, held, opens, rejects>>
  BY DEF TakeOver
<1>2. /\ lock \in Request \cup {None} /\ queue \in Seq(Request) /\ inbox \in [Tab -> Seq(Event)]
      /\ generation \in [Tab -> Nat] /\ LineOK(queue, generation)
      /\ n \in Nat
  BY TabFacts DEF IInv, TypeOK
<1>3. lock # None => /\ lock[1] \in Tab /\ lock[2] \in Nat /\ lock = <<lock[1], lock[2]>>
                     /\ lock[2] <= generation[lock[1]]
                     /\ e \in Event /\ e.kind = "stolen" /\ e.generation = lock[2]
  BY <1>2, Tells DEF IInv, LockOK, Request
<1>4. /\ lock = None => box = inbox
      /\ lock # None => box = [inbox EXCEPT ![lock[1]] = Append(inbox[lock[1]], e)]
  BY DEF Deliver
<1> HIDE DEF e, box
<1>5. box \in [Tab -> Seq(Event)]
  <2>1. CASE lock = None
    BY <1>2, <1>4, <2>1
  <2>2. CASE lock # None
    <3>1. inbox[lock[1]] \in Seq(Event) /\ e \in Event
      BY <1>2, <1>3, <2>2
    <3>2. Append(inbox[lock[1]], e) \in Seq(Event)
      BY <3>1, SeqFacts
    <3> QED
      BY <1>2, <1>4, <2>2, <3>2
  <2> QED
    BY <2>1, <2>2
<1>6. ASSUME NEW u \in Tab \ {t}
      PROVE  TabOK(box[u], generation[u], FALSE, Waits(queue, u), held[u], open[u])
  <2> DEFINE has == Has(u)
             waits == Waits(queue, u)
  <2>1. /\ inbox[u] \in Seq(Event) /\ generation[u] \in Nat /\ has \in BOOLEAN /\ waits \in BOOLEAN
        /\ TabOK(inbox[u], generation[u], has, waits, held[u], open[u]) /\ (waits => ~has)
    BY TabFacts DEF TabOK
  <2>2. CASE lock = None \/ lock[1] # u
    <3>1. ~has /\ box[u] = inbox[u]
      BY <1>2, <1>3, <1>4, <2>2, NoneAssumption DEF Has
    <3> QED
      BY <2>1, <3>1 DEF TabOK, GrantsHold, RefusalsHold
  <2>3. CASE lock # None /\ lock[1] = u /\ lock[2] = generation[u]
    <3>1. has /\ ~waits /\ box[u] = Append(inbox[u], e)
      BY <1>2, <1>3, <1>4, <2>1, <2>3 DEF Has
    <3>2. e \in Event /\ e.kind = "stolen" /\ e.generation = generation[u]
      BY <1>3, <2>3
    <3> HIDE DEF has, waits
    <3>3. TabOK(Append(inbox[u], e), generation[u], FALSE, FALSE, held[u], open[u])
      BY <2>1, <3>1, <3>2, LossOK
    <3> QED
      BY <3>1, <3>3 DEF waits, TabOK, GrantsHold, RefusalsHold
  <2>4. CASE lock # None /\ lock[1] = u /\ lock[2] # generation[u]
    <3>1. ~has /\ box[u] = Append(inbox[u], e)
      BY <1>2, <1>3, <1>4, <2>1, <2>4 DEF Has
    <3>2. e \in Event /\ e.generation < generation[u]
      BY <1>3, <2>1, <2>4
    <3> HIDE DEF has, waits
    <3>3. TabOK(Append(inbox[u], e), generation[u], has, waits, held[u], open[u])
      BY <2>1, <3>2, StaleOK
    <3> QED
      BY <3>1, <3>3 DEF waits, TabOK, GrantsHold, RefusalsHold
  <2> QED
    BY <2>2, <2>3, <2>4
<1>7. box[t] \in Seq(Event) /\ Quiet(box[t], n)
  <2>1. inbox[t] \in Seq(Event) /\ generation[t] \in Nat /\ Quiet(inbox[t], n)
    BY TabFacts
  <2>2. CASE lock = None \/ lock[1] # t
    BY <1>2, <1>3, <1>4, <2>1, <2>2
  <2>3. CASE lock # None /\ lock[1] = t
    <3>1. box[t] = Append(inbox[t], e) /\ e \in Event /\ e.generation < n
      BY <1>2, <1>3, <1>4, <2>1, <2>3
    <3> HIDE DEF n
    <3>2. /\ Append(inbox[t], e) \in Seq(Event) /\ Len(Append(inbox[t], e)) = Len(inbox[t]) + 1
          /\ Len(inbox[t]) \in Nat /\ Append(inbox[t], e)[Len(inbox[t]) + 1] = e
          /\ \A i \in 1..Len(inbox[t]) : Append(inbox[t], e)[i] = inbox[t][i]
      BY <2>1, <3>1, SeqFacts
    <3>3. \A i \in 1..Len(box[t]) :
            box[t][i] = e \/ (i \in 1..Len(inbox[t]) /\ box[t][i] = inbox[t][i])
      BY <3>1, <3>2
    <3> QED
      BY <2>1, <3>1, <3>2, <3>3 DEF Quiet
  <2> QED
    BY <2>2, <2>3
<1> HIDE DEF n
<1>8. /\ generation' \in [Tab -> Nat] /\ generation'[t] = n
      /\ \A u \in Tab \ {t} : generation'[u] = generation[u]
  BY <1>1, <1>2
<1>9. /\ queue' \in Seq(Request) /\ LineOK(queue', generation') /\ ~Waits(queue', t)
      /\ \A u \in Tab \ {t} : Waits(queue', u) <=> Waits(queue, u)
  BY <1>1, <1>2, OthersOK
<1>10. <<t, n>> \in Request /\ LockOK(lock', generation') /\ lock' \in Request
  BY <1>1, <1>2, <1>8 DEF LockOK, Request
<1>11. inbox' = [box EXCEPT ![t] = Append(box[t], Tell("granted", n))] /\ Tell("granted", n) \in Event
  BY <1>1, <1>2, Tells DEF Deliver
<1>12. inbox' \in [Tab -> Seq(Event)]
  BY <1>5, <1>11
<1>13. ASSUME NEW u \in Tab
       PROVE  TabOK(inbox'[u], generation'[u], Has(u)', Waits(queue', u), held'[u], open'[u])
  <2>1. CASE u = t
    <3>1. Has(u)' /\ ~Waits(queue', u)
      BY <1>1, <1>8, <1>9, <2>1 DEF Has
    <3>2. inbox'[u] = Append(box[t], Tell("granted", n))
      BY <1>5, <1>11, <2>1
    <3>3. TabOK(Append(box[t], Tell("granted", n)), n, TRUE, FALSE, held'[t], open'[t])
      BY <1>1, <1>2, <1>7, GrantOK
    <3> QED
      BY <1>8, <2>1, <3>1, <3>2, <3>3 DEF TabOK, GrantsHold, RefusalsHold
  <2>2. CASE u # t
    <3>1. ~Has(u)' /\ (Waits(queue', u) <=> Waits(queue, u)) /\ inbox'[u] = box[u]
      BY <1>1, <1>5, <1>9, <1>11, <2>2 DEF Has
    <3>2. TabOK(box[u], generation[u], FALSE, Waits(queue, u), held[u], open[u])
      BY <1>6, <2>2
    <3>3. generation'[u] = generation[u] /\ held'[u] = held[u] /\ open'[u] = open[u]
      BY <1>1, <1>8, <2>2
    <3> QED
      BY <3>1, <3>2, <3>3 DEF TabOK, GrantsHold, RefusalsHold
  <2> QED
    BY <2>1, <2>2
<1>14. TypeOK'
  <2>1. out \in [Tab -> BOOLEAN] /\ takeOvers \in Nat
    BY DEF IInv, TypeOK
  <2>2. out' \in [Tab -> BOOLEAN] /\ takeOvers' \in Nat
    BY <1>1, <2>1
  <2> QED
    BY <1>1, <1>8, <1>9, <1>10, <1>12, <2>2 DEF IInv, TypeOK
<1>15. TabsOK'
  BY <1>13 DEF TabsOK
<1> QED
  BY <1>9, <1>10, <1>14, <1>15 DEF IInv

\* A tab that goes: what it had asked for is taken out of the line, what it held is given back.
LEMMA LeavesInv ==
    ASSUME IInv, NEW t \in Tab, NEW box \in [Tab -> Seq(Event)],
           Quiet(box[t], generation[t] + 1), \A u \in Tab \ {t} : box[u] = inbox[u],
           open' = [open EXCEPT ![t] = FALSE], generation' = [generation EXCEPT ![t] = @ + 1],
           hold' = [hold EXCEPT ![t] = None], held' = [held EXCEPT ![t] = TRUE],
           UNCHANGED <<out, opens, takeOvers, rejects>>,
           \/ (\A u \in Tab \ {t} : ~Has(u)) /\ PassOn(Others(queue, t), box)
           \/ queue' = Others(queue, t) /\ inbox' = box /\ UNCHANGED lock
    PROVE  IInv'
<1> DEFINE n == generation[t] + 1
           q == Others(queue, t)
<1>1. /\ generation \in [Tab -> Nat] /\ queue \in Seq(Request) /\ LineOK(queue, generation)
      /\ open \in [Tab -> BOOLEAN] /\ held \in [Tab -> BOOLEAN] /\ n \in Nat
      /\ lock # <<t, n>>
  BY TabFacts DEF IInv, TypeOK
<1>2. generation' = [generation EXCEPT ![t] = n] /\ LockOK(lock, generation') /\ Quiet(box[t], n)
  BY <1>1, LockMovesOn
<1> HIDE DEF n
<1>3. /\ generation' \in [Tab -> Nat] /\ generation'[t] = n /\ held'[t] /\ ~open'[t]
      /\ \A u \in Tab \ {t} : /\ generation'[u] = generation[u] /\ box[u] = inbox[u]
                              /\ held'[u] = held[u] /\ open'[u] = open[u]
  BY <1>1, <1>2
<1>4. /\ q \in Seq(Request) /\ LineOK(q, generation') /\ ~Waits(q, t)
      /\ \A u \in Tab \ {t} : Waits(q, u) <=> Waits(queue, u)
  <2>1. /\ Others(queue, t) \in Seq(Request)
        /\ LineOK(Others(queue, t), [generation EXCEPT ![t] = n])
        /\ ~Waits(Others(queue, t), t)
        /\ \A u \in Tab \ {t} : Waits(Others(queue, t), u) <=> Waits(queue, u)
    BY <1>1, OthersOK
  <2> QED
    BY <1>2, <2>1
<1> HIDE DEF q
<1>5. TabOK(box[t], generation'[t], FALSE, FALSE, held'[t], open'[t])
  BY <1>1, <1>2, <1>3, QuietOK
<1>6. ASSUME NEW u \in Tab \ {t}
      PROVE  TabOK(box[u], generation'[u], Has(u), Waits(q, u), held'[u], open'[u])
  <2>1. TabOK(inbox[u], generation[u], Has(u), Waits(queue, u), held[u], open[u])
    BY TabFacts
  <2>2. TabOK(box[u], generation'[u], Has(u), Waits(queue, u), held'[u], open'[u])
    BY <1>3, <2>1
  <2> QED
    BY <1>4, <2>2 DEF TabOK, GrantsHold, RefusalsHold
<1>7. CASE (\A u \in Tab \ {t} : ~Has(u)) /\ PassOn(q, box)
  <2>1. ASSUME NEW u \in Tab
        PROVE  TabOK(box[u], generation'[u], FALSE, Waits(q, u), held'[u], open'[u])
    <3>1. CASE u = t
      <4>1. ~Waits(q, u)
        BY <1>4, <3>1
      <4> QED
        BY <1>5, <3>1, <4>1 DEF TabOK, GrantsHold, RefusalsHold
    <3>2. CASE u # t
      BY <1>6, <1>7, <3>2 DEF TabOK, GrantsHold, RefusalsHold
    <3> QED
      BY <3>1, <3>2
  <2>2. /\ lock' \in Request \cup {None} /\ queue' \in Seq(Request)
        /\ inbox' \in [Tab -> Seq(Event)]
        /\ LineOK(queue, generation)' /\ LockOK(lock, generation)' /\ TabsOK'
    BY <1>3, <1>4, <1>7, <2>1, HandedOn
  <2> QED
    BY <1>3, <2>2 DEF IInv, TypeOK
<1>8. CASE queue' = q /\ inbox' = box /\ UNCHANGED lock
  <2>1. ASSUME NEW u \in Tab
        PROVE  TabOK(inbox'[u], generation'[u], Has(u)', Waits(queue', u), held'[u], open'[u])
    <3>1. CASE u = t
      <4>1. ~Has(u)' /\ ~Waits(queue', u) /\ inbox'[u] = box[t]
        BY <1>1, <1>3, <1>4, <1>8, <3>1 DEF Has
      <4> QED
        BY <1>5, <3>1, <4>1 DEF TabOK, GrantsHold, RefusalsHold
    <3>2. CASE u # t
      <4>1. (Has(u)' <=> Has(u)) /\ (Waits(queue', u) <=> Waits(q, u)) /\ inbox'[u] = box[u]
        BY <1>3, <1>8, <3>2 DEF Has
      <4>2. TabOK(box[u], generation'[u], Has(u), Waits(q, u), held'[u], open'[u])
        BY <1>6, <3>2
      <4> QED
        BY <4>1, <4>2 DEF TabOK, GrantsHold, RefusalsHold
    <3> QED
      BY <3>1, <3>2
  <2>2. LineOK(queue, generation)' /\ LockOK(lock, generation)'
    BY <1>2, <1>4, <1>8
  <2> QED
    BY <1>3, <1>4, <1>8, <2>1, <2>2 DEF IInv, TypeOK, TabsOK
<1> QED
  BY <1>7, <1>8 DEF q

LEMMA StopInv == ASSUME IInv, NEW t \in Tab, Stop(t) PROVE IInv'
<1>1. inbox \in [Tab -> Seq(Event)] /\ Quiet(inbox[t], generation[t] + 1)
  BY TabFacts DEF IInv, TypeOK
<1>2. /\ open' = [open EXCEPT ![t] = FALSE] /\ generation' = [generation EXCEPT ![t] = @ + 1]
      /\ hold' = [hold EXCEPT ![t] = None] /\ held' = [held EXCEPT ![t] = TRUE]
      /\ UNCHANGED <<out, opens, takeOvers, rejects>>
      /\ IF lock = <<t, hold[t]>> THEN PassOn(Others(queue, t), inbox)
         ELSE queue' = Others(queue, t) /\ UNCHANGED <<lock, inbox>>
  BY DEF Stop
<1>3. lock = <<t, hold[t]>> => \A u \in Tab \ {t} : ~Has(u)
  BY DEF Has
<1> QED
  BY <1>1, <1>2, <1>3, LeavesInv

LEMMA CloseInv == ASSUME IInv, NEW t \in Tab, Close(t) PROVE IInv'
<1> DEFINE box == [inbox EXCEPT ![t] = <<>>]
<1>1. inbox \in [Tab -> Seq(Event)] /\ lock \in Request \cup {None}
  BY DEF IInv, TypeOK
<1>2. box \in [Tab -> Seq(Event)] /\ box[t] = <<>> /\ \A u \in Tab \ {t} : box[u] = inbox[u]
  BY <1>1
<1>3. /\ open' = [open EXCEPT ![t] = FALSE] /\ generation' = [generation EXCEPT ![t] = @ + 1]
      /\ hold' = [hold EXCEPT ![t] = None] /\ held' = [held EXCEPT ![t] = TRUE]
      /\ UNCHANGED <<out, opens, takeOvers, rejects>>
      /\ IF Owner = t THEN PassOn(Others(queue, t), box)
         ELSE queue' = Others(queue, t) /\ inbox' = box /\ UNCHANGED lock
  BY DEF Close
<1> HIDE DEF box
<1>4. Quiet(box[t], generation[t] + 1)
  BY <1>2 DEF Quiet
<1>5. Owner = t => \A u \in Tab \ {t} : ~Has(u)
  <2> SUFFICES ASSUME Owner = t, NEW u \in Tab \ {t}, Has(u) PROVE FALSE
    OBVIOUS
  <2>1. lock = <<u, generation[u]>> /\ generation[u] \in Nat
    BY TabFacts DEF Has
  <2>2. lock # None /\ lock[1] = u
    BY <2>1, NoneAssumption
  <2> QED
    BY <2>2 DEF Owner
<1> QED
  BY <1>2, <1>3, <1>4, <1>5, LeavesInv

LEMMA StutterInv == ASSUME IInv, UNCHANGED vars PROVE IInv'
BY DEF IInv, TypeOK, LineOK, LockOK, TabsOK, TabOK, GrantsHold, RefusalsHold, Quiet, ToldOf, Waits, Has, vars

LEMMA NextInv == ASSUME IInv, [Next]_vars PROVE IInv'
<1>1. CASE Reject
  BY <1>1, RejectInv
<1>2. CASE UNCHANGED vars
  BY <1>2, StutterInv
<1>3. ASSUME NEW t \in Tab, Open(t) \/ Hear(t) \/ TakeOver(t) \/ Stop(t) \/ Close(t) PROVE IInv'
  BY <1>3, OpenInv, GrantedInv, UnavailableInv, StolenInv, RejectedInv, TakeOverInv, StopInv,
     CloseInv DEF Hear
<1> QED
  BY <1>1, <1>2, <1>3 DEF Next

-----------------------------------------------------------------------------
(* Who comes to have the lock *)

Comes(t) == ~Has(t) /\ Has(t)'

LEMMA SameLock ==
    ASSUME UNCHANGED lock, NEW t \in Tab, generation'[t] = generation[t]
    PROVE  ~Comes(t)
BY DEF Comes, Has

\* The lock is handed on to a tab that waits for it, and whoever waits knows it is read-only.
LEMMA HandedToWaiting ==
    ASSUME IInv, NEW q \in Seq(Request), NEW box, PassOn(q, box), NEW t \in Tab, Comes(t),
           Waits(q, t) => Waits(queue, t) /\ held'[t] = held[t],
           generation'[t] \in Nat
    PROVE  ~held'[t]
<1>1. lock' = <<t, generation'[t]>> /\ lock' # None
  BY NoneAssumption DEF Comes, Has
<1>2. q # <<>> /\ lock' = Head(q)
  BY <1>1 DEF PassOn
<1>3. Len(q) \in Nat /\ Len(q) > 0 /\ Head(q) = q[1]
  BY <1>2, SeqFacts
<1>4. Waits(q, t)
  <2>1. 1 \in 1..Len(q) /\ q[1][1] = t
    BY <1>1, <1>2, <1>3
  <2> QED
    BY <2>1 DEF Waits
<1> QED
  BY <1>4, TabFacts DEF TabOK

LEMMA JoinsTold ==
    ASSUME NEW t \in Tab, NEW g, NEW box, WaitInLine(<<t, g>>, box), NEW u \in Tab \ {t},
           generation'[u] = generation[u]
    PROVE  ~Comes(u)
<1>1. lock' = lock \/ lock' = <<t, g>>
  BY DEF WaitInLine, PassOn
<1> QED
  BY <1>1 DEF Comes, Has

LEMMA LeavesTold ==
    ASSUME IInv, NEW t \in Tab, NEW box, Stop(t) \/ Close(t),
           PassOn(Others(queue, t), box) \/ UNCHANGED lock, NEW u \in Tab, Comes(u), open[u]
    PROVE  ~held'[u]
<1>1. /\ generation \in [Tab -> Nat] /\ held \in [Tab -> BOOLEAN] /\ queue \in Seq(Request)
      /\ LineOK(queue, generation) /\ lock # <<t, generation[t] + 1>> /\ generation[t] + 1 \in Nat
  BY TabFacts DEF IInv, TypeOK
<1>2. generation' = [generation EXCEPT ![t] = @ + 1] /\ held' = [held EXCEPT ![t] = TRUE]
  BY DEF Stop, Close
<1>3. generation'[u] \in Nat
  BY <1>1, <1>2
<1>4. CASE UNCHANGED lock
  BY <1>1, <1>2, <1>4 DEF Comes, Has
<1>5. CASE PassOn(Others(queue, t), box)
  <2>1. /\ Others(queue, t) \in Seq(Request) /\ ~Waits(Others(queue, t), t)
        /\ \A v \in Tab \ {t} : Waits(Others(queue, t), v) <=> Waits(queue, v)
    BY <1>1, OthersOK
  <2>2. Waits(Others(queue, t), u) => Waits(queue, u) /\ held'[u] = held[u]
    <3>1. CASE u = t
      <4>1. ~Waits(Others(queue, t), u)
        BY <2>1, <3>1
      <4> QED
        BY <4>1
    <3>2. CASE u # t
      BY <1>1, <1>2, <2>1, <3>2
    <3> QED
      BY <3>1, <3>2
  <2> QED
    BY <1>3, <1>5, <2>1, <2>2, HandedToWaiting
<1> QED
  BY <1>4, <1>5

LEMMA ComesTold == ASSUME IInv, Next, NEW u \in Tab, Comes(u), open[u] PROVE ~held'[u]
<1>1. CASE Reject
  BY <1>1, SameLock DEF Reject
<1>2. ASSUME NEW t \in Tab, Open(t) PROVE ~held'[u]
  <2> DEFINE n == generation[t] + 1
  <2>1. /\ ~open[t] /\ generation' = [generation EXCEPT ![t] = n]
        /\ lock' = lock \/ lock' = <<t, n>>
    BY <1>2 DEF Open, PassOn
  <2>2. generation \in [Tab -> Nat] /\ u # t
    BY <2>1 DEF IInv, TypeOK
  <2> QED
    BY <2>1, <2>2 DEF Comes, Has
<1>3. ASSUME NEW t \in Tab, Granted(t) PROVE ~held'[u]
  <2>1. /\ generation' = generation
        /\ lock' = lock \/ (PassOn(queue, Read1(t)) /\ held' = held)
    BY <1>3 DEF Granted
  <2>2. queue \in Seq(Request) /\ generation' \in [Tab -> Nat]
    BY <2>1 DEF IInv, TypeOK
  <2>3. CASE lock' = lock
    BY <2>1, <2>3, SameLock
  <2>4. CASE PassOn(queue, Read1(t)) /\ held' = held
    BY <2>2, <2>4, HandedToWaiting
  <2> QED
    BY <2>1, <2>3, <2>4
<1>4. ASSUME NEW t \in Tab, Unavailable(t) \/ Stolen(t) PROVE ~held'[u]
  <2> DEFINE g == Next1(t).generation
  <2>t. generation \in [Tab -> Nat] /\ held \in [Tab -> BOOLEAN]
    BY DEF IInv, TypeOK
  <2>1. CASE Current(t, g)
    <3>1. held' = [held EXCEPT ![t] = FALSE]
      BY <1>4, <2>1 DEF Unavailable, Stolen
    <3>2. CASE u = t
      BY <2>t, <3>1, <3>2
    <3>3. CASE u # t
      <4>1. \/ generation' = generation /\ WaitInLine(<<t, g>>, Read1(t))
            \/ generation' = [generation EXCEPT ![t] = @ + 1] /\ WaitInLine(<<t, g + 1>>, Read1(t))
        BY <1>4, <2>1 DEF Unavailable, Stolen
      <4>2. generation'[u] = generation[u]
        BY <2>t, <3>3, <4>1
      <4>3. ~Comes(u)
        <5>1. CASE WaitInLine(<<t, g>>, Read1(t))
          BY <3>3, <4>2, <5>1, JoinsTold
        <5>2. CASE WaitInLine(<<t, g + 1>>, Read1(t))
          BY <3>3, <4>2, <5>2, JoinsTold
        <5> QED
          BY <4>1, <5>1, <5>2
      <4> QED
        BY <4>3
    <3> QED
      BY <3>2, <3>3
  <2>2. CASE ~Current(t, g)
    <3>1. lock' = lock /\ generation' = generation
      BY <1>4, <2>2 DEF Unavailable, Stolen
    <3> QED
      BY <3>1, SameLock
  <2> QED
    BY <2>1, <2>2
<1>5. ASSUME NEW t \in Tab, Rejected(t) PROVE ~held'[u]
  BY <1>5, SameLock DEF Rejected
<1>6. ASSUME NEW t \in Tab, TakeOver(t) PROVE ~held'[u]
  <2>1. ~held[t] /\ held' = held /\ lock' = <<t, generation[t] + 1>>
    BY <1>6 DEF TakeOver
  <2> QED
    BY <2>1 DEF Comes, Has
<1>7. ASSUME NEW t \in Tab, Stop(t) PROVE ~held'[u]
  <2>1. PassOn(Others(queue, t), inbox) \/ UNCHANGED lock
    BY <1>7 DEF Stop
  <2> QED
    BY <1>7, <2>1, LeavesTold
<1>8. ASSUME NEW t \in Tab, Close(t) PROVE ~held'[u]
  <2> DEFINE box == [inbox EXCEPT ![t] = <<>>]
  <2>1. PassOn(Others(queue, t), box) \/ UNCHANGED lock
    BY <1>8 DEF Close
  <2> HIDE DEF box
  <2> QED
    BY <1>8, <2>1, LeavesTold
<1> QED
  BY <1>1, <1>2, <1>3, <1>4, <1>5, <1>6, <1>7, <1>8 DEF Next, Hear

-----------------------------------------------------------------------------
(* The theorems *)

\* The line, the lock and what each tab has still to hear stay consistent for any number of
\* tabs, mounts, take-overs and rejected requests.
THEOREM Invariance == Spec => []IInv
BY InitInv, NextInv, PTL DEF Spec

\* Every variable keeps its type: the browser tells a tab only what its callbacks know.
THEOREM TypeCorrect == Spec => []TypeOK
<1>1. IInv => TypeOK
  BY DEF IInv
<1> QED
  BY <1>1, Invariance, PTL

\* A tab that takes itself for the editing one has the lock, or its correction is on its way:
\* no interleaving of mounts, thefts, releases and late callbacks leaves two tabs editing.
THEOREM BeliefCorrected == Spec => []BeliefIsCorrected
<1>1. ASSUME IInv PROVE BeliefIsCorrected
  <2> SUFFICES ASSUME NEW t \in Tab, open[t], held[t], ~Has(t) PROVE Told(t)
    BY DEF BeliefIsCorrected
  <2>1. ToldOf(inbox[t], generation[t])
    BY <1>1, TabFacts DEF TabOK
  <2> QED
    BY <2>1 DEF ToldOf, Told, Current
<1> QED
  BY <1>1, Invariance, PTL

\* The lock comes to a tab that has just opened or that shows itself read-only: useJournal's
\* reading of the slot again, which hangs on that change of `held`, is never skipped.
THEOREM ToldFirst == Spec => ToldBeforeAgain
<1>1. ASSUME IInv, [Next]_vars
      PROVE  [\A t \in Tab : ~Has(t) /\ Has(t)' => ~open[t] \/ ~held'[t]]_vars
  <2>1. CASE Next
    BY <1>1, <2>1, ComesTold DEF Comes
  <2>2. CASE UNCHANGED vars
    BY <2>2
  <2> QED
    BY <1>1, <2>1, <2>2
<1> QED
  BY <1>1, Invariance, PTL DEF Spec, ToldBeforeAgain
====
