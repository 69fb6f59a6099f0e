--------------------------- MODULE Journal_proofs ---------------------------
(***************************************************************************)
(* Proofs about Journal, for any tabs, rows and bounds: its types, that it *)
(* implements Verlauf, and that no row is lost silently.                   *)
(***************************************************************************)
EXTENDS Journal, TLAPS, FiniteSetTheorems, SequenceTheorems, WellFoundedInduction

-----------------------------------------------------------------------------
(* The inductive invariant *)

Stores ==
    [outbox : Seq(Row), dead : SUBSET (Row \cup {Nothing}),
     refused : SUBSET (Row \cup {Nothing}), rows : SUBSET Entries, latestSeq : Nat,
     open : BOOLEAN, readOnly : BOOLEAN, initDone : BOOLEAN, readFailed : BOOLEAN,
     cacheDurable : BOOLEAN, singleMode : BOOLEAN, again : BOOLEAN]
Readings == [value : Copy, state : {"none", "read", "failed"}, asHolder : BOOLEAN]
Posts == [batch : Seq(Row), accepted : SUBSET Row,
          answer : {"none", "sent", "ok", "closed", "bad"}]

\* A copy holds a row in one place only.
Tidy(x) ==
    /\ IsInjective(x.outbox)
    /\ ToSet(x.outbox) \cap (x.dead \cup x.refused) = {}
    /\ x.dead \cap x.refused \subseteq {Nothing}

Written == {r \in Row : made[r] # Unmade}
Made == Written \cup {Nothing}

ServerOK ==
    /\ log \in Seq(Entries) /\ era \in Nat
    /\ made \in [Row -> Nat \cup {Unmade}] /\ denied \subseteq Row

LocalOK ==
    /\ slot \in Copy /\ Tidy(slot) /\ Pending(slot) \subseteq Made
    /\ store \in [Tab -> Stores]
    /\ early \in [Tab -> SUBSET Row] /\ handoff \in [Tab -> SUBSET Row]
    /\ holder \in Tab \cup {NoTab} /\ raced \in BOOLEAN
    /\ \A t \in Tab :
         /\ Tidy(store[t]) /\ Pending(store[t]) \subseteq Made
         /\ early[t] \subseteq Written /\ handoff[t] \subseteq Written
         /\ ~store[t].open => store[t] = NoStore
         /\ holder = t => store[t].open /\ ~store[t].readOnly

ReadingOK ==
    /\ reading \in [Tab -> Readings]
    /\ \A t \in Tab :
         /\ Tidy(reading[t].value) /\ Pending(reading[t].value) \subseteq Made
         /\ ~store[t].open => reading[t] = NoRead

WireOK ==
    /\ post \in [Tab -> Posts] /\ page \in [Tab -> Nat \X Nat] /\ strays \subseteq Seq(Row)
    /\ \A t \in Tab :
         /\ IsInjective(post[t].batch)
         /\ ~store[t].open => post[t] = NoPost /\ page[t] = NoPage
    /\ \A b \in strays : IsInjective(b)

StoreInv ==
    /\ ServerOK /\ LocalOK /\ ReadingOK /\ WireOK
    /\ diskFull \in BOOLEAN /\ forgone \subseteq Row

\* A copy has every row its cursor has passed, and no row that the record has not.
Covers(x) ==
    /\ x.latestSeq <= Len(log)
    /\ \A i \in 1..x.latestSeq : log[i] \in x.rows
    /\ x.rows \subseteq Recorded

CursorInv ==
    /\ IsInjective(log)
    /\ Covers(slot)
    /\ \A t \in Tab :
         /\ Covers(store[t]) /\ Covers(reading[t].value)
         /\ page[t][1] <= store[t].latestSeq /\ page[t][2] <= Len(log)
         /\ post[t].accepted \subseteq Recorded
         /\ post[t].answer = "ok" => ToSet(post[t].batch) \subseteq Recorded

\* What the record and the slot keep (Nothing is no row).
Kept == Recorded \cup Pending(slot) \cup {Nothing}

\* The row is where it can be found, or its tab says that it is not stored.
Safe(r) ==
    \/ r \in Recorded \cup Pending(slot) \cup forgone
    \/ \E t \in Tab : r \in handoff[t] \/ (Warns(t) /\ r \in Pending(store[t]))

\* May tab t write the slot as the lock's holder, from a read made as the holder?
InOrder(t) == holder = t /\ (IsReading(t) => reading[t].asHolder)

\* A store that does not warn has its rows in the slot; what the holder is about to write
\* over is its own; a read that is out is no older than the lock's last move.
LossTab(t) ==
    /\ store[t].cacheDurable => Pending(store[t]) \subseteq Kept
    /\ InOrder(t) /\ Writes(store[t]) =>
          Pending(slot) \subseteq Recorded \cup Pending(store[t]) \cup {Nothing}
    /\ reading[t].state = "read" => Pending(reading[t].value) \subseteq Kept
    /\ reading[t].asHolder =>
          /\ holder = t /\ reading[t].state = "read"
          /\ Pending(slot) \subseteq
                Recorded \cup Pending(reading[t].value) \cup {Nothing} \cup
                    IF Writes(store[t]) THEN Pending(store[t]) ELSE {}

LossInv == ~raced => (\A r \in Written : Safe(r)) /\ \A t \in Tab : LossTab(t)

-----------------------------------------------------------------------------
(* Facts about sequences and sets *)

\* A sequence over T is a function of its positions, and its elements are in T.
LEMMA ToSetType ==
    ASSUME NEW T, NEW s \in Seq(T)
    PROVE  /\ DOMAIN s = 1..Len(s) /\ Len(s) \in Nat
           /\ ToSet(s) = {s[i] : i \in 1..Len(s)}
           /\ ToSet(s) \subseteq T
BY LenProperties DEF ToSet

LEMMA ToSetEmpty == ToSet(<<>>) = {} /\ IsInjective(<<>>)
BY DEF ToSet, IsInjective

\* Concatenation joins the elements; it repeats none if the two share none.
LEMMA ToSetConcat ==
    ASSUME NEW T, NEW s \in Seq(T), NEW u \in Seq(T)
    PROVE  /\ s \o u \in Seq(T)
           /\ ToSet(s \o u) = ToSet(s) \cup ToSet(u)
           /\ IsInjective(s) /\ IsInjective(u) /\ ToSet(s) \cap ToSet(u) = {} => IsInjective(s \o u)
<1> DEFINE v == s \o u
<1>1. /\ v \in Seq(T) /\ Len(v) = Len(s) + Len(u) /\ Len(s) \in Nat /\ Len(u) \in Nat
      /\ \A i \in 1..Len(v) : v[i] = IF i <= Len(s) THEN s[i] ELSE u[i - Len(s)]
  BY ConcatProperties, LenProperties
<1>2. \A i \in 1..Len(s) : i \in 1..Len(v) /\ v[i] = s[i]
  BY <1>1
<1>3. \A i \in 1..Len(u) : i + Len(s) \in 1..Len(v) /\ v[i + Len(s)] = u[i]
  BY <1>1
<1>4. \A i \in 1..Len(v) : \/ i \in 1..Len(s) /\ v[i] = s[i]
                           \/ i - Len(s) \in 1..Len(u) /\ v[i] = u[i - Len(s)]
  BY <1>1
<1>t. /\ DOMAIN v = 1..Len(v) /\ ToSet(v) = {v[i] : i \in 1..Len(v)}
      /\ DOMAIN s = 1..Len(s) /\ ToSet(s) = {s[i] : i \in 1..Len(s)}
      /\ DOMAIN u = 1..Len(u) /\ ToSet(u) = {u[i] : i \in 1..Len(u)}
  BY <1>1, ToSetType
<1> HIDE DEF v
<1>5. ToSet(v) = ToSet(s) \cup ToSet(u)
  BY <1>t, <1>2, <1>3, <1>4
<1>6. ASSUME IsInjective(s), IsInjective(u), ToSet(s) \cap ToSet(u) = {}
      PROVE  IsInjective(v)
  <2> SUFFICES ASSUME NEW i \in 1..Len(v), NEW j \in 1..Len(v), v[i] = v[j] PROVE i = j
    BY <1>t DEF IsInjective
  <2>1. CASE i <= Len(s) /\ j <= Len(s)
    BY <2>1, <1>1, <1>6, <1>t DEF IsInjective
  <2>2. CASE i > Len(s) /\ j > Len(s)
    <3>1. i - Len(s) \in 1..Len(u) /\ j - Len(s) \in 1..Len(u) /\ u[i - Len(s)] = u[j - Len(s)]
      BY <2>2, <1>1
    <3>2. i - Len(s) = j - Len(s)
      BY <3>1, <1>6, <1>t DEF IsInjective
    <3> QED BY <3>2, <1>1
  <2>3. CASE i <= Len(s) /\ j > Len(s)
    <3>1. /\ i \in 1..Len(s) /\ v[i] = s[i]
          /\ j - Len(s) \in 1..Len(u) /\ v[j] = u[j - Len(s)]
      BY <2>3, <1>1
    <3>2. v[i] \in ToSet(s) /\ v[j] \in ToSet(u)
      BY <3>1, <1>t
    <3> QED BY <3>2, <1>6
  <2>4. CASE i > Len(s) /\ j <= Len(s)
    <3>1. /\ j \in 1..Len(s) /\ v[j] = s[j]
          /\ i - Len(s) \in 1..Len(u) /\ v[i] = u[i - Len(s)]
      BY <2>4, <1>1
    <3>2. v[i] \in ToSet(u) /\ v[j] \in ToSet(s)
      BY <3>1, <1>t
    <3> QED BY <3>2, <1>6
  <2> QED BY <2>1, <2>2, <2>3, <2>4, <1>1
<1> QED BY <1>1, <1>5, <1>6 DEF v

\* Appending adds one element.
LEMMA ToSetAppend ==
    ASSUME NEW T, NEW s \in Seq(T), NEW r \in T
    PROVE  /\ Append(s, r) \in Seq(T)
           /\ ToSet(Append(s, r)) = ToSet(s) \cup {r}
           /\ IsInjective(s) /\ r \notin ToSet(s) => IsInjective(Append(s, r))
<1> DEFINE v == Append(s, r)
<1>1. /\ v \in Seq(T) /\ Len(v) = Len(s) + 1 /\ Len(s) \in Nat
      /\ \A i \in 1..Len(s) : v[i] = s[i]
      /\ v[Len(s) + 1] = r
  BY AppendProperties, LenProperties
<1>2. 1..Len(v) = 1..Len(s) \cup {Len(s) + 1}
  BY <1>1
<1>t. /\ DOMAIN v = 1..Len(v) /\ ToSet(v) = {v[i] : i \in 1..Len(v)}
      /\ DOMAIN s = 1..Len(s) /\ ToSet(s) = {s[i] : i \in 1..Len(s)}
  BY <1>1, ToSetType
<1> HIDE DEF v
<1>3. ToSet(v) = ToSet(s) \cup {r}
  <2>1. \A i \in 1..Len(v) : v[i] = r \/ (i \in 1..Len(s) /\ v[i] = s[i])
    BY <1>1, <1>2
  <2>2. \A i \in 1..Len(s) : i \in 1..Len(v) /\ s[i] = v[i]
    BY <1>1, <1>2
  <2>3. Len(s) + 1 \in 1..Len(v)
    BY <1>1
  <2> QED BY <1>1, <1>t, <2>1, <2>2, <2>3
<1>4. ASSUME IsInjective(s), r \notin ToSet(s) PROVE IsInjective(v)
  <2>1. \A i \in 1..Len(s) : s[i] # r
    BY <1>4, <1>t
  <2> QED BY <1>1, <1>2, <1>4, <2>1, <1>t DEF IsInjective
<1> QED BY <1>1, <1>3, <1>4 DEF v

\* A sequence is its head and its tail.
LEMMA ToSetTail ==
    ASSUME NEW T, NEW s \in Seq(T), s # <<>>
    PROVE  /\ Head(s) \in T /\ Tail(s) \in Seq(T)
           /\ ToSet(s) = {Head(s)} \cup ToSet(Tail(s))
           /\ IsInjective(s) => IsInjective(Tail(s)) /\ Head(s) \notin ToSet(Tail(s))
<1> DEFINE v == Tail(s)
<1>1. /\ Head(s) \in T /\ v \in Seq(T) /\ Len(v) = Len(s) - 1 /\ Len(s) \in Nat \ {0}
      /\ \A i \in 1..Len(v) : v[i] = s[i + 1]
      /\ Head(s) = s[1]
  BY HeadTailProperties, LenProperties, EmptySeq
<1>2. /\ \A i \in 1..Len(v) : i + 1 \in 1..Len(s) /\ v[i] = s[i + 1]
      /\ \A i \in 1..Len(s) : i = 1 \/ (i - 1 \in 1..Len(v) /\ s[i] = v[i - 1])
  BY <1>1
<1>t. /\ DOMAIN v = 1..Len(v) /\ ToSet(v) = {v[i] : i \in 1..Len(v)}
      /\ DOMAIN s = 1..Len(s) /\ ToSet(s) = {s[i] : i \in 1..Len(s)}
  BY <1>1, ToSetType
<1> HIDE DEF v
<1>3. ToSet(s) = {Head(s)} \cup ToSet(v)
  BY <1>1, <1>2, <1>t
<1>4. ASSUME IsInjective(s) PROVE IsInjective(v) /\ Head(s) \notin ToSet(v)
  <2>1. \A i, j \in 1..Len(s) : s[i] = s[j] => i = j
    BY <1>4, <1>t DEF IsInjective
  <2>2. IsInjective(v)
    <3> SUFFICES ASSUME NEW i \in 1..Len(v), NEW j \in 1..Len(v), v[i] = v[j] PROVE i = j
      BY <1>1, <1>t DEF IsInjective
    <3>1. i + 1 = j + 1
      BY <1>2, <2>1
    <3> QED BY <3>1, <1>1
  <2>3. \A i \in 1..Len(v) : v[i] # s[1]
    <3> SUFFICES ASSUME NEW i \in 1..Len(v), v[i] = s[1] PROVE FALSE
      OBVIOUS
    <3>1. i + 1 \in 1..Len(s) /\ 1 \in 1..Len(s) /\ s[i + 1] = s[1]
      BY <1>1, <1>2
    <3> QED BY <3>1, <2>1, <1>1
  <2> QED BY <1>1, <2>2, <2>3, <1>t
<1> QED BY <1>1, <1>3, <1>4 DEF v

\* The first n elements.
LEMMA ToSetUpto ==
    ASSUME NEW T, NEW s \in Seq(T), NEW n \in Nat
    PROVE  /\ Upto(s, n) \in Seq(T)
           /\ ToSet(Upto(s, n)) \subseteq ToSet(s)
           /\ IsInjective(s) => IsInjective(Upto(s, n))
<1> DEFINE m == IF Len(s) < n THEN Len(s) ELSE n
           v == SubSeq(s, 1, m)
<1>1. m \in Nat /\ m <= Len(s) /\ Len(s) \in Nat /\ \A i \in 1..m : i \in 1..Len(s)
  BY LenProperties
<1>2. \A i \in 1..m : s[i] \in T
  BY <1>1, ElementOfSeq
<1>3. v \in Seq(T) /\ Len(v) = m /\ \A i \in 1..m : v[i] = s[i]
  BY <1>1, <1>2, SubSeqProperties
<1> HIDE DEF v, m
<1>t. /\ DOMAIN v = 1..Len(v) /\ ToSet(v) = {v[i] : i \in 1..Len(v)}
      /\ DOMAIN s = 1..Len(s) /\ ToSet(s) = {s[i] : i \in 1..Len(s)}
  BY <1>3, ToSetType
<1>4. ToSet(v) \subseteq ToSet(s)
  BY <1>1, <1>3, <1>t
<1>5. IsInjective(s) => IsInjective(v)
  BY <1>1, <1>3, <1>t DEF IsInjective
<1>6. Upto(s, n) = v
  BY DEF Upto, v, m
<1> QED BY <1>3, <1>4, <1>5, <1>6

\* SetToSeq lists every element of a finite set once.
LEMMA SetToSeqSpec ==
    ASSUME NEW T, NEW S \in SUBSET T, IsFiniteSet(S)
    PROVE  /\ SetToSeq(S) \in Seq(T)
           /\ ToSet(SetToSeq(S)) = S
           /\ IsInjective(SetToSeq(S))
<1> DEFINE n == Cardinality(S)
           f == SetToSeq(S)
<1>1. n \in Nat /\ ExistsBijection(1..n, S)
  BY FS_CardinalityType
<1>2. \E g \in [1..n -> S] : IsInjective(g)
  BY <1>1 DEF ExistsBijection, Bijection, Injection
<1>3. f \in [1..n -> S] /\ IsInjective(f)
  BY <1>2 DEF SetToSeq
<1>4. IsFiniteSet(1..n) /\ Cardinality(1..n) = n
  BY <1>1, FS_Interval
<1>5. f \in Injection(1..n, S)
  BY <1>3 DEF Injection
<1>6. f \in Surjection(1..n, S)
  BY <1>4, <1>5, FS_Injection
<1> HIDE DEF n, f
<1>7. \A x \in S : \E i \in 1..n : f[i] = x
  BY <1>6 DEF Surjection
<1>8. f \in Seq(T)
  BY <1>1, <1>3
<1>9. ToSet(f) = S
  BY <1>3, <1>7 DEF ToSet
<1> QED BY <1>3, <1>8, <1>9 DEF f

\* A set of naturals has a least element: what stands in for induction below.
LEMMA LeastElement ==
    ASSUME NEW N \in SUBSET Nat, N # {}
    PROVE  \E n \in N : \A m \in N : n <= m
<1>1. PICK n \in N : \A m \in N : ~(<<m, n>> \in OpToRel(<, Nat))
  BY NatLessThanWellFounded, WFMin, Zenon
<1>2. \A m \in N : ~(m < n)
  BY <1>1 DEF OpToRel
<1> QED BY <1>2

\* g goes through s and leaves the rows of S out, as `left` does in Without.
Filters(g, s, S) ==
    g = [n \in 0..Len(s) |->
            IF n = 0 THEN <<>>
            ELSE IF s[n] \in S THEN g[n - 1] ELSE Append(g[n - 1], s[n])]

\* The recursive function Without is built on exists, whatever the sequence.
LEMMA WithoutExists ==
    ASSUME NEW T, NEW S, NEW s \in Seq(T)
    PROVE  \E g : Filters(g, s, S)
<1> DEFINE Step(g, n) == IF n = 0 THEN <<>>
                         ELSE IF s[n] \in S THEN g[n - 1] ELSE Append(g[n - 1], s[n])
           None(n) == ~ \E g : g = [k \in 0..n |-> Step(g, k)]
           N == {n \in Nat : None(n)}
<1>1. SUFFICES N = {}
  <2>1. Len(s) \in Nat
    BY LenProperties
  <2>2. ~None(Len(s))
    BY <2>1, <1>1
  <2> QED BY <2>2 DEF Filters
<1>2. SUFFICES ASSUME N # {} PROVE FALSE
  OBVIOUS
<1>3. PICK n \in N : \A m \in N : n <= m
  <2> HIDE DEF N
  <2>1. N \in SUBSET Nat
    BY DEF N
  <2> QED BY <1>2, <2>1, LeastElement
<1>4. n \in Nat /\ None(n)
  BY <1>3
<1>5. CASE n = 0
  <2> DEFINE g == [k \in 0..0 |-> <<>>]
  <2>1. g = [k \in 0..0 |-> Step(g, k)]
    OBVIOUS
  <2> QED BY <1>4, <1>5, <2>1
<1>6. CASE n # 0
  <2>1. n - 1 \in Nat /\ n - 1 \notin N
    <3>1. n - 1 \in Nat /\ ~(n <= n - 1)
      BY <1>4, <1>6
    <3> HIDE DEF N
    <3> QED BY <3>1, <1>3
  <2>2. PICK g : g = [k \in 0..(n - 1) |-> Step(g, k)]
    BY <2>1
  <2> DEFINE h == [k \in 0..n |-> IF k = n THEN Step(g, n) ELSE g[k]]
  <2>3. \A k \in 0..(n - 1) : h[k] = g[k] /\ g[k] = Step(g, k)
    <3>1. \A k \in 0..(n - 1) : g[k] = Step(g, k)
      BY <2>2
    <3>2. \A k \in 0..(n - 1) : k \in 0..n /\ k # n
      BY <1>4
    <3> HIDE DEF Step
    <3>3. \A k \in 0..(n - 1) : h[k] = g[k]
      BY <3>2
    <3> QED BY <3>1, <3>3
  <2>4. \A k \in 0..n : h[k] = Step(h, k)
    <3> TAKE k \in 0..n
    <3>1. CASE k = 0
      <4>1. k \in 0..(n - 1)
        BY <3>1, <1>4, <1>6
      <4>2. h[k] = Step(g, k)
        BY <4>1, <2>3
      <4> HIDE DEF h
      <4> QED BY <4>2, <3>1
    <3>2. CASE k # 0 /\ k # n
      <4>1. k \in 0..(n - 1) /\ k - 1 \in 0..(n - 1)
        BY <3>2, <1>4
      <4>2. h[k] = Step(g, k) /\ h[k - 1] = g[k - 1]
        BY <4>1, <2>3
      <4> QED BY <4>2
    <3>3. CASE k = n
      <4>1. n - 1 \in 0..(n - 1)
        BY <1>4, <1>6
      <4>2. h[n - 1] = g[n - 1] /\ h[n] = Step(g, n)
        BY <4>1, <2>3, <1>4
      <4> QED BY <4>2, <3>3
    <3> QED BY <3>1, <3>2, <3>3
  <2>5. h = [k \in 0..n |-> Step(h, k)]
    <3>1. h = [k \in 0..n |-> h[k]]
      OBVIOUS
    <3> HIDE DEF h
    <3> QED BY <3>1, <2>4
  <2> QED BY <1>4, <2>5
<1> QED BY <1>5, <1>6

\* Without(s, S) holds the elements of s that are not in S, and repeats none.
LEMMA WithoutSpec ==
    ASSUME NEW T, NEW S, NEW s \in Seq(T)
    PROVE  /\ Without(s, S) \in Seq(T)
           /\ ToSet(Without(s, S)) = ToSet(s) \ S
           /\ IsInjective(s) => IsInjective(Without(s, S))
<1> DEFINE w == CHOOSE g : g = [n \in 0..Len(s) |->
                         IF n = 0 THEN <<>>
                         ELSE IF s[n] \in S THEN g[n - 1] ELSE Append(g[n - 1], s[n])]
           Upper(n) == {s[i] : i \in 1..n}
           Right(n) == /\ w[n] \in Seq(T)
                       /\ ToSet(w[n]) = Upper(n) \ S
                       /\ IsInjective(s) => IsInjective(w[n])
           N == {n \in 0..Len(s) : ~Right(n)}
<1>0. /\ DOMAIN s = 1..Len(s) /\ Len(s) \in Nat /\ ToSet(s) = Upper(Len(s))
      /\ \A i \in 1..Len(s) : s[i] \in T
  BY ToSetType, ElementOfSeq
<1>1. w = [n \in 0..Len(s) |->
              IF n = 0 THEN <<>>
              ELSE IF s[n] \in S THEN w[n - 1] ELSE Append(w[n - 1], s[n])]
  <2>1. w = CHOOSE g : Filters(g, s, S)
    BY DEF Filters
  <2>2. Filters(w, s, S)
    <3> HIDE DEF w
    <3> QED BY <2>1, WithoutExists
  <2> QED BY <2>2 DEF Filters
<1>2. Without(s, S) = w[Len(s)]
  BY DEF Without
<1> HIDE DEF w
<1>3. \A n \in 0..Len(s) : w[n] = IF n = 0 THEN <<>>
              ELSE IF s[n] \in S THEN w[n - 1] ELSE Append(w[n - 1], s[n])
  BY <1>1
<1>4. SUFFICES N = {}
  <2>1. Right(Len(s))
    <3>1. Len(s) \in 0..Len(s)
      BY <1>0
    <3> HIDE DEF Right
    <3> QED BY <3>1, <1>4
  <2> QED BY <2>1, <1>0, <1>2
<1>5. SUFFICES ASSUME N # {} PROVE FALSE
  OBVIOUS
<1>6. PICK n \in N : \A m \in N : n <= m
  <2> HIDE DEF N
  <2>1. N \in SUBSET Nat
    BY <1>0 DEF N
  <2> QED BY <1>5, <2>1, LeastElement
<1>7. n \in 0..Len(s) /\ n \in Nat /\ ~Right(n)
  BY <1>6, <1>0
<1>8. CASE n = 0
  <2>1. w[n] = <<>>
    BY <1>8, <1>3, <1>7
  <2>3. Upper(n) = {}
    BY <1>8
  <2>4. <<>> \in Seq(T)
    BY EmptySeq
  <2>2. Right(n)
    BY <2>1, <2>3, <2>4, ToSetEmpty
  <2> QED BY <2>2, <1>7
<1>9. CASE n # 0
  <2>1. n - 1 \in 0..Len(s) /\ n \in 1..Len(s) /\ ~(n <= n - 1)
    BY <1>7, <1>9, <1>0
  <2>2. Right(n - 1)
    <3>1. n - 1 \notin N
      <4> HIDE DEF N
      <4> QED BY <2>1, <1>6
    <3> HIDE DEF Right
    <3> QED BY <2>1, <3>1
  <2>3. Upper(n) = Upper(n - 1) \cup {s[n]}
    <3>1. 1..n = 1..(n - 1) \cup {n}
      BY <1>7, <1>9
    <3> QED BY <3>1
  <2>4. CASE s[n] \in S
    <3>1. w[n] = w[n - 1]
      BY <1>3, <1>7, <1>9, <2>4
    <3> QED BY <3>1, <2>2, <2>3, <2>4, <1>7
  <2>5. CASE s[n] \notin S
    <3>1. w[n] = Append(w[n - 1], s[n])
      BY <1>3, <1>7, <1>9, <2>5
    <3>2. s[n] \in T
      BY <2>1, <1>0
    <3>3. ASSUME IsInjective(s) PROVE s[n] \notin Upper(n - 1)
      BY <3>3, <2>1, <1>0 DEF IsInjective
    <3> DEFINE v == w[n - 1]
    <3>4. /\ v \in Seq(T) /\ ToSet(v) = Upper(n - 1) \ S
          /\ IsInjective(s) => IsInjective(v)
      BY <2>2
    <3> HIDE DEF v, Upper
    <3>5. /\ Append(v, s[n]) \in Seq(T)
          /\ ToSet(Append(v, s[n])) = ToSet(v) \cup {s[n]}
          /\ IsInjective(v) /\ s[n] \notin ToSet(v) => IsInjective(Append(v, s[n]))
      BY <3>2, <3>4, ToSetAppend
    <3>6. Right(n)
      BY <3>1, <3>3, <3>4, <3>5, <2>3, <2>5 DEF v
    <3> QED BY <3>6, <1>7
  <2> QED BY <2>4, <2>5
<1> QED BY <1>8, <1>9

-----------------------------------------------------------------------------
(* What the operators of the model do to a copy *)

SameFlags(st, x) ==
    /\ x.open = st.open /\ x.readOnly = st.readOnly /\ x.initDone = st.initDone
    /\ x.readFailed = st.readFailed /\ x.cacheDurable = st.cacheDurable

Later(m, n) == IF n > m THEN n ELSE m

\* The snapshot of a store holds what the store holds.
LEMMA StoreIsCopy ==
    ASSUME NEW st \in Stores
    PROVE  /\ Snapshot(st) \in Copy
           /\ Pending(Snapshot(st)) = Pending(st)
           /\ Tidy(st) => Tidy(Snapshot(st))
           /\ Snapshot(st).rows = st.rows /\ Snapshot(st).latestSeq = st.latestSeq
BY DEF Stores, Snapshot, Copy, Pending, Tidy

\* A new store, a closed one and the empty slot hold nothing.
LEMMA NewStoreSpec ==
    /\ NewStore \in Stores /\ NoStore \in Stores /\ Tidy(NewStore) /\ Tidy(NoStore)
    /\ Pending(NewStore) = {} /\ Pending(NoStore) = {}
    /\ NewStore.rows = {} /\ NewStore.latestSeq = 0
    /\ NoStore.rows = {} /\ NoStore.latestSeq = 0
    /\ ~Writes(NewStore) /\ ~Writes(NoStore)
    /\ NewStore.open /\ ~NewStore.readOnly /\ ~NoStore.open
    /\ EmptyCopy \in Copy /\ Tidy(EmptyCopy) /\ Pending(EmptyCopy) = {}
    /\ EmptyCopy.rows = {} /\ EmptyCopy.latestSeq = 0
<1>1. <<>> \in Seq(Row)
  BY EmptySeq
<1> QED
  BY <1>1, ToSetEmpty DEF NewStore, NoStore, Stores, Tidy, Pending, Writes, EmptyCopy, Copy

\* mergePersisted loses no row of either copy, except one the record is known to have.
LEMMA MergedSpec ==
    ASSUME NEW st \in Stores, NEW x \in Copy, Tidy(st), Tidy(x), NEW m, m = Merged(st, x)
    PROVE  /\ m \in Stores /\ Tidy(m) /\ SameFlags(st, m)
           /\ m.rows = st.rows \cup x.rows
           /\ m.latestSeq = Later(st.latestSeq, x.latestSeq)
           /\ Pending(st) \cup Pending(x) \subseteq Pending(m) \cup m.rows
           /\ Pending(m) \subseteq Pending(st) \cup Pending(x)
<1> DEFINE rows == st.rows \cup x.rows
           refused == x.refused \cup st.refused
           rest == Without(st.outbox, ToSet(x.outbox))
           queued == x.outbox \o rest
           outbox == Without(queued, rows \cup refused)
           dead == (x.dead \cup st.dead) \ (rows \cup refused \cup ToSet(queued))
           seq == Later(st.latestSeq, x.latestSeq)
<1>1. /\ st.outbox \in Seq(Row) /\ x.outbox \in Seq(Row)
      /\ st.dead \subseteq Row \cup {Nothing} /\ x.dead \subseteq Row \cup {Nothing}
      /\ st.refused \subseteq Row \cup {Nothing} /\ x.refused \subseteq Row \cup {Nothing}
      /\ st.rows \subseteq Entries /\ x.rows \subseteq Entries
      /\ st.latestSeq \in Nat /\ x.latestSeq \in Nat
  BY DEF Stores, Copy
<1>2. IsInjective(st.outbox) /\ IsInjective(x.outbox)
  BY DEF Tidy
<1>3. /\ rest \in Seq(Row) /\ IsInjective(rest)
      /\ ToSet(rest) = ToSet(st.outbox) \ ToSet(x.outbox)
  BY <1>1, <1>2, WithoutSpec
<1> HIDE DEF rest
<1>4. /\ queued \in Seq(Row) /\ IsInjective(queued)
      /\ ToSet(queued) = ToSet(st.outbox) \cup ToSet(x.outbox)
  BY <1>1, <1>2, <1>3, ToSetConcat
<1> HIDE DEF queued
<1>5. /\ outbox \in Seq(Row) /\ IsInjective(outbox)
      /\ ToSet(outbox) = ToSet(queued) \ (rows \cup refused)
  BY <1>4, WithoutSpec
<1> HIDE DEF outbox
<1>6. m = [st EXCEPT !.rows = rows, !.outbox = outbox, !.refused = refused \ rows,
                     !.dead = dead, !.latestSeq = seq]
  BY DEF Merged, rest, queued, outbox, Later
<1>7. seq \in Nat
  BY <1>1 DEF Later
<1>8. rows \subseteq Entries /\ dead \subseteq Row \cup {Nothing} /\ refused \subseteq Row \cup {Nothing}
  BY <1>1
<1>9. /\ m \in Stores /\ SameFlags(st, m)
      /\ m.rows = rows /\ m.outbox = outbox /\ m.refused = refused \ rows /\ m.dead = dead
      /\ m.latestSeq = seq
  <2> HIDE DEF rows, refused, dead, seq
  <2> QED BY <1>6, <1>5, <1>7, <1>8 DEF Stores, SameFlags
<1>10. Tidy(m)
  BY <1>9, <1>5 DEF Tidy
<1>11. /\ Pending(st) \cup Pending(x) \subseteq Pending(m) \cup m.rows
       /\ Pending(m) \subseteq Pending(st) \cup Pending(x)
  BY <1>9, <1>5, <1>4 DEF Pending
<1> QED BY <1>9, <1>10, <1>11

\* What a step does that lets go of rows of `taken` only.
Sheds(st, x, taken) ==
    /\ x \in Stores /\ Tidy(x) /\ SameFlags(st, x)
    /\ Pending(st) \subseteq Pending(x) \cup taken
    /\ Pending(x) \subseteq Pending(st) \cup {Nothing}

\* A delivered batch leaves the outbox; nothing else does.
LEMMA DeliveredSpec ==
    ASSUME NEW st \in Stores, Tidy(st), NEW p,
           p.batch \in Seq(Row), p.accepted \subseteq Entries, NEW x, x = Delivered(st, p)
    PROVE  /\ Sheds(st, x, ToSet(p.batch))
           /\ x.rows = st.rows \cup p.accepted /\ x.latestSeq = st.latestSeq
<1> DEFINE left == Without(st.outbox, ToSet(p.batch))
           alone == st.singleMode /\ left # <<>>
<1>1. left \in Seq(Row) /\ IsInjective(left) /\ ToSet(left) = ToSet(st.outbox) \ ToSet(p.batch)
  BY WithoutSpec DEF Tidy, Stores
<1> HIDE DEF left
<1>2. x = [st EXCEPT !.outbox = left, !.rows = @ \cup p.accepted, !.singleMode = alone]
  BY DEF Delivered, left
<1>3. alone \in BOOLEAN
  OBVIOUS
<1> HIDE DEF alone
<1>4. /\ x \in Stores /\ SameFlags(st, x) /\ x.outbox = left /\ x.dead = st.dead
      /\ x.refused = st.refused /\ x.rows = st.rows \cup p.accepted /\ x.latestSeq = st.latestSeq
  BY <1>1, <1>2, <1>3 DEF Stores, SameFlags
<1> QED BY <1>1, <1>4 DEF Sheds, Tidy, Pending

\* The head of the outbox moves elsewhere.
LEMMA HeadSpec ==
    ASSUME NEW st \in Stores, Tidy(st)
    PROVE  /\ Rest(st.outbox) \in Seq(Row) /\ IsInjective(Rest(st.outbox))
           /\ Head1(st.outbox) \in Row \cup {Nothing}
           /\ Head1(st.outbox) = Nothing =>
                  ToSet(Rest(st.outbox)) = {} /\ ToSet(st.outbox) = {}
           /\ Head1(st.outbox) # Nothing =>
                  /\ ToSet(st.outbox) = {Head1(st.outbox)} \cup ToSet(Rest(st.outbox))
                  /\ Head1(st.outbox) \notin ToSet(Rest(st.outbox))
<1> DEFINE s == st.outbox
<1>1. s \in Seq(Row) /\ IsInjective(s)
  BY DEF Stores, Tidy
<1> HIDE DEF s
<1>2. CASE s = <<>>
  BY <1>1, <1>2, ToSetEmpty DEF Head1, Rest, s
<1>3. CASE s # <<>>
  <2>1. /\ Head(s) \in Row /\ Tail(s) \in Seq(Row)
        /\ ToSet(s) = {Head(s)} \cup ToSet(Tail(s))
        /\ IsInjective(Tail(s)) /\ Head(s) \notin ToSet(Tail(s))
    BY <1>1, <1>3, ToSetTail
  <2>2. Nothing \notin Row
    BY RowAssumption DEF Entries
  <2>3. Head1(s) = Head(s) /\ Rest(s) = Tail(s)
    BY <1>3 DEF Head1, Rest
  <2> QED BY <2>1, <2>2, <2>3 DEF s
<1> QED BY <1>2, <1>3

\* A refused row is moved, not dropped.
LEMMA RefusedSpec ==
    ASSUME NEW st \in Stores, Tidy(st), NEW x, x = Refused(st)
    PROVE  Sheds(st, x, {}) /\ x.rows = st.rows /\ x.latestSeq = st.latestSeq
<1> DEFINE h == Head1(st.outbox)
           r == Rest(st.outbox)
           alone == st.singleMode /\ r # <<>>
<1>1. /\ r \in Seq(Row) /\ IsInjective(r) /\ h \in Row \cup {Nothing}
      /\ h = Nothing => ToSet(r) = {} /\ ToSet(st.outbox) = {}
      /\ h # Nothing => ToSet(st.outbox) = {h} \cup ToSet(r) /\ h \notin ToSet(r)
  BY HeadSpec
<1>2. x = [st EXCEPT !.refused = @ \cup {h}, !.outbox = r, !.singleMode = alone]
  BY DEF Refused
<1>3. alone \in BOOLEAN
  OBVIOUS
<1> HIDE DEF h, r, alone
<1>4. /\ x \in Stores /\ SameFlags(st, x) /\ x.outbox = r /\ x.dead = st.dead
      /\ x.refused = st.refused \cup {h} /\ x.rows = st.rows /\ x.latestSeq = st.latestSeq
  <2>1. st.refused \cup {h} \in SUBSET (Row \cup {Nothing})
    BY <1>1 DEF Stores
  <2> QED BY <2>1, <1>1, <1>2, <1>3 DEF Stores, SameFlags
<1>5. Nothing \notin ToSet(r)
  BY <1>1, ToSetType, RowAssumption DEF Entries
<1>6. Tidy(x)
  BY <1>1, <1>4, <1>5 DEF Tidy
<1> QED BY <1>1, <1>4, <1>6 DEF Sheds, Pending

\* A dead-lettered row is moved, not dropped.
LEMMA DeadLetteredSpec ==
    ASSUME NEW st \in Stores, Tidy(st), NEW x, x = DeadLettered(st)
    PROVE  Sheds(st, x, {}) /\ x.rows = st.rows /\ x.latestSeq = st.latestSeq
<1> DEFINE h == Head1(st.outbox)
           r == Rest(st.outbox)
<1>1. /\ r \in Seq(Row) /\ IsInjective(r) /\ h \in Row \cup {Nothing}
      /\ h = Nothing => ToSet(r) = {} /\ ToSet(st.outbox) = {}
      /\ h # Nothing => ToSet(st.outbox) = {h} \cup ToSet(r) /\ h \notin ToSet(r)
  BY HeadSpec
<1>2. x = [st EXCEPT !.dead = @ \cup {h}, !.outbox = r]
  BY DEF DeadLettered
<1> HIDE DEF h, r
<1>4. /\ x \in Stores /\ SameFlags(st, x) /\ x.outbox = r /\ x.dead = st.dead \cup {h}
      /\ x.refused = st.refused /\ x.rows = st.rows /\ x.latestSeq = st.latestSeq
  <2>1. st.dead \cup {h} \in SUBSET (Row \cup {Nothing})
    BY <1>1 DEF Stores
  <2> QED BY <2>1, <1>1, <1>2 DEF Stores, SameFlags
<1>5. Nothing \notin ToSet(r)
  BY <1>1, ToSetType, RowAssumption DEF Entries
<1>6. Tidy(x)
  BY <1>1, <1>4, <1>5 DEF Tidy
<1> QED BY <1>1, <1>4, <1>6 DEF Sheds, Pending

\* What retry() and requeueRefused() leave behind.
Retried(st) == [st EXCEPT !.outbox = @ \o SetToSeq(st.dead), !.dead = {}, !.singleMode = FALSE]
Requeued(st) == [st EXCEPT !.outbox = @ \o SetToSeq(st.refused \ ToSet(@)), !.refused = {},
                           !.singleMode = FALSE]

\* retry() puts the dead letters back, once.
LEMMA RetriedSpec ==
    ASSUME NEW st \in Stores, Tidy(st), Nothing \notin st.dead, NEW x, x = Retried(st)
    PROVE  Sheds(st, x, {}) /\ x.rows = st.rows /\ x.latestSeq = st.latestSeq
<1> DEFINE more == SetToSeq(st.dead)
           outbox == st.outbox \o more
<1>1. st.dead \subseteq Row /\ IsFiniteSet(st.dead)
  <2>1. st.dead \in SUBSET Entries
    BY DEF Stores, Entries
  <2>2. IsFiniteSet(st.dead)
    BY <2>1, RowAssumption, FS_Subset
  <2> QED BY <2>2 DEF Stores
<1>2. more \in Seq(Row) /\ ToSet(more) = st.dead /\ IsInjective(more)
  BY <1>1, SetToSeqSpec
<1>3. /\ st.outbox \in Seq(Row) /\ IsInjective(st.outbox) /\ ToSet(st.outbox) \cap st.dead = {}
  BY DEF Stores, Tidy
<1> HIDE DEF more
<1>4. /\ outbox \in Seq(Row) /\ IsInjective(outbox)
      /\ ToSet(outbox) = ToSet(st.outbox) \cup st.dead
  BY <1>2, <1>3, ToSetConcat
<1>5. x = [st EXCEPT !.outbox = outbox, !.dead = {}, !.singleMode = FALSE]
  BY DEF more, Retried
<1> HIDE DEF outbox
<1>6. /\ x \in Stores /\ SameFlags(st, x) /\ x.outbox = outbox /\ x.dead = {}
      /\ x.refused = st.refused /\ x.rows = st.rows /\ x.latestSeq = st.latestSeq
  BY <1>4, <1>5 DEF Stores, SameFlags
<1> QED BY <1>1, <1>4, <1>6 DEF Sheds, Pending, Tidy

\* requeueRefused() puts the refused rows back, once.
LEMMA RequeuedSpec ==
    ASSUME NEW st \in Stores, Tidy(st), Nothing \notin st.refused, NEW x, x = Requeued(st)
    PROVE  Sheds(st, x, {}) /\ x.rows = st.rows /\ x.latestSeq = st.latestSeq
<1> DEFINE S == st.refused \ ToSet(st.outbox)
           more == SetToSeq(S)
           outbox == st.outbox \o more
<1>1. S \subseteq Row /\ IsFiniteSet(S)
  <2>1. S \in SUBSET Entries
    BY DEF Stores, Entries
  <2>2. IsFiniteSet(S)
    BY <2>1, RowAssumption, FS_Subset
  <2> QED BY <2>2 DEF Stores
<1>2. more \in Seq(Row) /\ ToSet(more) = S /\ IsInjective(more)
  BY <1>1, SetToSeqSpec
<1>3. st.outbox \in Seq(Row) /\ IsInjective(st.outbox)
  BY DEF Stores, Tidy
<1> HIDE DEF more
<1>4. /\ outbox \in Seq(Row) /\ IsInjective(outbox)
      /\ ToSet(outbox) = ToSet(st.outbox) \cup st.refused
  BY <1>2, <1>3, ToSetConcat
<1>5. x = [st EXCEPT !.outbox = outbox, !.refused = {}, !.singleMode = FALSE]
  BY DEF more, Requeued
<1> HIDE DEF outbox, S
<1>6. /\ x \in Stores /\ SameFlags(st, x) /\ x.outbox = outbox /\ x.dead = st.dead
      /\ x.refused = {} /\ x.rows = st.rows /\ x.latestSeq = st.latestSeq
  BY <1>4, <1>5 DEF Stores, SameFlags
<1>7. Tidy(x)
  <2>1. /\ ToSet(st.outbox) \cap st.dead = {} /\ st.dead \cap st.refused = {}
    BY DEF Tidy
  <2> QED BY <1>4, <1>6, <2>1 DEF Tidy
<1> QED BY <1>4, <1>6, <1>7 DEF Sheds, Pending

\* Adopting a page lets go of the rows it shows.
LEMMA CaughtSpec ==
    ASSUME NEW st \in Stores, Tidy(st), NEW rows \in SUBSET Entries, NEW n \in Nat,
           NEW x, x = Caught(st, rows, n)
    PROVE  Sheds(st, x, rows) /\ x.rows = rows /\ x.latestSeq = Later(st.latestSeq, n)
<1> DEFINE left == Without(st.outbox, rows)
           seq == Later(st.latestSeq, n)
<1>1. left \in Seq(Row) /\ IsInjective(left) /\ ToSet(left) = ToSet(st.outbox) \ rows
  BY WithoutSpec DEF Tidy, Stores
<1>2. seq \in Nat
  BY DEF Later, Stores
<1>3. x = [st EXCEPT !.rows = rows, !.latestSeq = seq, !.outbox = left,
                     !.dead = @ \ rows, !.refused = @ \ rows]
  BY DEF Caught, Later
<1> HIDE DEF left, seq
<1>4. /\ x \in Stores /\ SameFlags(st, x) /\ x.outbox = left /\ x.dead = st.dead \ rows
      /\ x.refused = st.refused \ rows /\ x.rows = rows /\ x.latestSeq = seq
  BY <1>1, <1>2, <1>3 DEF Stores, SameFlags
<1> QED BY <1>1, <1>4 DEF Sheds, Tidy, Pending, seq

\* What Write and hydrate leave behind.
Appended(st, r, d) == [st EXCEPT !.outbox = Append(@, r), !.cacheDurable = d]
Ready(m, S) ==
    [m EXCEPT !.readFailed = FALSE, !.initDone = TRUE, !.again = FALSE,
              !.outbox = @ \o SetToSeq(S), !.cacheDurable = @ /\ S = {}]

\* An append adds one row at the end.
LEMMA AppendedSpec ==
    ASSUME NEW st \in Stores, Tidy(st), NEW r \in Row, r \notin Pending(st), NEW d \in BOOLEAN,
           NEW x, x = Appended(st, r, d)
    PROVE  /\ x \in Stores /\ Tidy(x)
           /\ x.open = st.open /\ x.readOnly = st.readOnly /\ x.initDone = st.initDone
           /\ x.readFailed = st.readFailed /\ x.cacheDurable = d
           /\ x.rows = st.rows /\ x.latestSeq = st.latestSeq
           /\ Pending(x) = Pending(st) \cup {r}
<1> DEFINE outbox == Append(st.outbox, r)
<1>1. /\ st.outbox \in Seq(Row) /\ IsInjective(st.outbox) /\ r \notin ToSet(st.outbox)
  BY DEF Stores, Tidy, Pending
<1>2. /\ outbox \in Seq(Row) /\ IsInjective(outbox) /\ ToSet(outbox) = ToSet(st.outbox) \cup {r}
  BY <1>1, ToSetAppend
<1>3. x = [st EXCEPT !.outbox = outbox, !.cacheDurable = d]
  BY DEF Appended
<1> HIDE DEF outbox
<1>4. /\ x \in Stores /\ x.outbox = outbox /\ x.dead = st.dead /\ x.refused = st.refused
      /\ x.open = st.open /\ x.readOnly = st.readOnly /\ x.initDone = st.initDone
      /\ x.readFailed = st.readFailed /\ x.cacheDurable = d
      /\ x.rows = st.rows /\ x.latestSeq = st.latestSeq
  BY <1>2, <1>3 DEF Stores
<1>5. Tidy(x)
  BY <1>2, <1>4 DEF Tidy, Pending
<1>6. Pending(x) = Pending(st) \cup {r}
  BY <1>2, <1>4 DEF Pending
<1> QED BY <1>4, <1>5, <1>6

\* hydrate() is through: what it read is merged in, what the page handed on comes after.
LEMMA ReadySpec ==
    ASSUME NEW m \in Stores, Tidy(m), NEW S \in SUBSET Row, S \cap Known(m) = {},
           NEW x, x = Ready(m, S)
    PROVE  /\ x \in Stores /\ Tidy(x)
           /\ x.open = m.open /\ x.readOnly = m.readOnly /\ x.initDone /\ ~x.readFailed
           /\ x.cacheDurable => m.cacheDurable /\ S = {}
           /\ x.rows = m.rows /\ x.latestSeq = m.latestSeq
           /\ Pending(x) = Pending(m) \cup S
<1> DEFINE more == SetToSeq(S)
           outbox == m.outbox \o more
           durable == m.cacheDurable /\ S = {}
<1>1. IsFiniteSet(S)
  <2>1. S \in SUBSET Entries
    BY DEF Entries
  <2> QED BY <2>1, RowAssumption, FS_Subset
<1>2. more \in Seq(Row) /\ ToSet(more) = S /\ IsInjective(more)
  BY <1>1, SetToSeqSpec
<1>3. /\ m.outbox \in Seq(Row) /\ IsInjective(m.outbox) /\ ToSet(m.outbox) \cap S = {}
      /\ S \cap (m.dead \cup m.refused) = {}
  BY DEF Stores, Tidy, Known, Pending
<1> HIDE DEF more
<1>4. /\ outbox \in Seq(Row) /\ IsInjective(outbox) /\ ToSet(outbox) = ToSet(m.outbox) \cup S
  BY <1>2, <1>3, ToSetConcat
<1>5. x = [m EXCEPT !.readFailed = FALSE, !.initDone = TRUE, !.again = FALSE,
                    !.outbox = outbox, !.cacheDurable = durable]
  BY DEF Ready, more
<1>6. durable \in BOOLEAN
  OBVIOUS
<1> HIDE DEF outbox, durable
<1>7. /\ x \in Stores /\ x.outbox = outbox /\ x.dead = m.dead /\ x.refused = m.refused
      /\ x.open = m.open /\ x.readOnly = m.readOnly /\ x.initDone /\ ~x.readFailed
      /\ x.cacheDurable = durable /\ x.rows = m.rows /\ x.latestSeq = m.latestSeq
  BY <1>4, <1>5, <1>6 DEF Stores
<1>8. Tidy(x)
  BY <1>3, <1>4, <1>7 DEF Tidy
<1>9. Pending(x) = Pending(m) \cup S
  BY <1>4, <1>7 DEF Pending
<1> QED BY <1>7, <1>8, <1>9 DEF durable

-----------------------------------------------------------------------------
(* What the steps of the page have in common *)

\* What Put and Set do, whichever of the two, if the disk takes it or not.
Puts(t, st, e) ==
    /\ store' \in [Tab -> Stores] /\ slot' \in Copy /\ Tidy(slot') /\ raced' \in BOOLEAN
    /\ early' \in [Tab -> SUBSET Row] /\ handoff' \in [Tab -> SUBSET Row]
    /\ \A u \in Tab \ {t} : store'[u] = store[u] /\ early'[u] = early[u] /\ handoff'[u] = handoff[u]
    /\ Tidy(store'[t]) /\ Pending(store'[t]) = Pending(st)
    /\ store'[t].rows = st.rows /\ store'[t].latestSeq = st.latestSeq
    /\ store'[t].open = st.open /\ store'[t].readOnly = st.readOnly
    /\ Writes(store'[t]) = Writes(st)
    /\ early'[t] \subseteq e /\ handoff'[t] \subseteq handoff[t]
    /\ Pending(slot') \subseteq Pending(slot) \cup Pending(st)
    /\ \/ slot' = slot
       \/ slot'.rows = st.rows /\ slot'.latestSeq = st.latestSeq

\* Put, case by case: the snapshot lands, is turned down by the disk, or is not written.
LEMMA PutPuts ==
    ASSUME LocalOK, NEW t \in Tab, NEW st \in Stores, Tidy(st), NEW e \in SUBSET Row,
           Put(t, st, e)
    PROVE  /\ Puts(t, st, e)
           /\ raced' = (raced \/ (Writes(st) /\ (holder # t \/ (IsReading(t) /\ ~reading[t].asHolder))))
           /\ \/ /\ Writes(st) /\ store'[t].cacheDurable /\ Pending(slot') = Pending(st)
                 /\ handoff'[t] = handoff[t] \ Known(st)
              \/ /\ Writes(st) /\ ~store'[t].cacheDurable /\ slot' = slot /\ handoff' = handoff
              \/ /\ ~Writes(st) /\ store'[t] = st /\ slot' = slot /\ handoff' = handoff
<1> DEFINE landed == Writes(st) /\ ~diskFull
           x == IF Writes(st) THEN [st EXCEPT !.cacheDurable = landed] ELSE st
<1>1. /\ store \in [Tab -> Stores] /\ slot \in Copy /\ Tidy(slot) /\ raced \in BOOLEAN
      /\ early \in [Tab -> SUBSET Row] /\ handoff \in [Tab -> SUBSET Row]
  BY DEF LocalOK
<1>2. /\ store' = [store EXCEPT ![t] = x]
      /\ slot' = IF landed THEN Snapshot(st) ELSE slot
      /\ early' = [early EXCEPT ![t] = IF landed THEN e \ Known(st) ELSE e]
      /\ handoff' = [handoff EXCEPT ![t] = IF landed THEN @ \ Known(st) ELSE @]
      /\ raced' = (raced \/ (Writes(st) /\ (holder # t \/ (IsReading(t) /\ ~reading[t].asHolder))))
  BY DEF Put
<1>3. landed \in BOOLEAN
  OBVIOUS
<1>4. CASE Writes(st)
  <2>1. x = [st EXCEPT !.cacheDurable = landed]
    BY <1>4
  <2> HIDE DEF x, landed
  <2>2. /\ x \in Stores /\ x.outbox = st.outbox /\ x.dead = st.dead /\ x.refused = st.refused
        /\ x.rows = st.rows /\ x.latestSeq = st.latestSeq /\ x.cacheDurable = landed
        /\ x.open = st.open /\ x.readOnly = st.readOnly
        /\ x.initDone = st.initDone /\ x.readFailed = st.readFailed
    BY <2>1, <1>3 DEF Stores
  <2>3. Tidy(x) /\ Pending(x) = Pending(st) /\ Writes(x) = Writes(st)
    BY <2>2 DEF Tidy, Pending, Writes
  <2>4. CASE landed
    <3>1. slot' = Snapshot(st)
      BY <2>4, <1>2
    <3>2. /\ slot' \in Copy /\ Tidy(slot') /\ Pending(slot') = Pending(st)
          /\ slot'.rows = st.rows /\ slot'.latestSeq = st.latestSeq
      BY <3>1, StoreIsCopy
    <3>3. /\ early' = [early EXCEPT ![t] = e \ Known(st)]
          /\ handoff' = [handoff EXCEPT ![t] = @ \ Known(st)]
      BY <2>4, <1>2
    <3>4. Puts(t, st, e)
      BY <1>1, <1>2, <2>2, <2>3, <3>2, <3>3 DEF Puts
    <3> QED BY <1>1, <1>2, <1>4, <2>2, <2>4, <3>2, <3>3, <3>4
  <2>5. CASE ~landed
    <3>1. /\ slot' = slot /\ early' = [early EXCEPT ![t] = e] /\ handoff' = handoff
      BY <2>5, <1>1, <1>2
    <3>2. Puts(t, st, e)
      BY <1>1, <1>2, <2>2, <2>3, <3>1 DEF Puts
    <3> QED BY <1>1, <1>2, <1>4, <2>2, <2>5, <3>1, <3>2
  <2> QED BY <2>4, <2>5
<1>5. CASE ~Writes(st)
  <2>1. /\ store' = [store EXCEPT ![t] = st] /\ slot' = slot
        /\ early' = [early EXCEPT ![t] = e] /\ handoff' = handoff
    BY <1>5, <1>1, <1>2
  <2>2. Puts(t, st, e)
    BY <1>1, <1>2, <2>1 DEF Puts
  <2> QED BY <1>1, <1>2, <1>5, <2>1, <2>2
<1> QED BY <1>4, <1>5

LEMMA SetPuts ==
    ASSUME LocalOK, NEW t \in Tab, NEW st \in Stores, Tidy(st), Set(t, st)
    PROVE  Puts(t, st, early[t])
BY DEF LocalOK, Set, Puts

\* The page's own copies after such a step.
LEMMA PutsLocalOK ==
    ASSUME LocalOK, NEW t \in Tab, NEW st \in Stores, NEW e \in SUBSET Row, Puts(t, st, e),
           Pending(st) \subseteq Made', e \subseteq Written', Written \subseteq Written',
           st.open, holder = t => ~st.readOnly, holder' = holder
    PROVE  LocalOK'
<1>1. Made \subseteq Made'
  BY DEF Made
<1>2. \A u \in Tab :
         /\ Tidy(store'[u]) /\ Pending(store'[u]) \subseteq Made'
         /\ early'[u] \subseteq Written' /\ handoff'[u] \subseteq Written'
         /\ ~store'[u].open => store'[u] = NoStore
         /\ holder' = u => store'[u].open /\ ~store'[u].readOnly
  <2> TAKE u \in Tab
  <2>1. CASE u = t
    BY <2>1, <1>1 DEF Puts, LocalOK
  <2>2. CASE u # t
    <3>1. store'[u] = store[u] /\ early'[u] = early[u] /\ handoff'[u] = handoff[u]
      BY <2>2 DEF Puts
    <3> QED BY <3>1, <1>1 DEF LocalOK
  <2> QED BY <2>1, <2>2
<1>3. Pending(slot') \subseteq Made'
  BY <1>1 DEF Puts, LocalOK
<1> QED BY <1>2, <1>3 DEF LocalOK, Puts

\* The read failed: the store says so and goes on trying.
Fails(t, x) ==
    /\ Set(t, x) /\ reading[t].state = "failed" /\ ~store[t].readOnly
    /\ x \in Stores /\ Tidy(x) /\ Pending(x) = Pending(store[t])
    /\ x.open = store[t].open /\ x.readOnly = store[t].readOnly /\ x.readFailed
    /\ x.cacheDurable = store[t].cacheDurable
    /\ x.rows = store[t].rows /\ x.latestSeq = store[t].latestSeq

\* The read's rows, and those the page's last store handed on, are the store's.
Hydrates(t, x) ==
    /\ Put(t, x, early[t])
    /\ x \in Stores /\ Tidy(x)
    /\ x.open = store[t].open /\ x.readOnly = store[t].readOnly /\ x.initDone /\ ~x.readFailed
    /\ Pending(store[t]) \subseteq Pending(x) \cup x.rows
    /\ Pending(x) \subseteq Pending(store[t]) \cup Pending(reading[t].value) \cup handoff[t]
    /\ x.cacheDurable =>
          /\ store[t].cacheDurable
          /\ \/ Pending(x) \subseteq Pending(store[t])
             \/ /\ reading[t].state = "read"
                /\ Pending(x) \subseteq Pending(store[t]) \cup Pending(reading[t].value)
    /\ ~x.readOnly => reading[t].state = "read" /\ handoff[t] \subseteq Pending(x) \cup x.rows
    /\ reading[t].state = "read" => Pending(reading[t].value) \subseteq Pending(x) \cup x.rows
    /\ \/ /\ x.rows = store[t].rows \cup reading[t].value.rows
          /\ x.latestSeq = Later(store[t].latestSeq, reading[t].value.latestSeq)
       \/ x.rows = store[t].rows /\ x.latestSeq = store[t].latestSeq

\* The end of a hydration is one or the other.
LEMMA HydrateSpec ==
    ASSUME StoreInv, NEW t \in Tab, Hydrate(t)
    PROVE  \E x : Fails(t, x) \/ Hydrates(t, x)
<1> DEFINE read == reading[t]
           st == store[t]
           m == IF read.state = "read" THEN Merged(st, read.value) ELSE st
           S == IF st.readOnly THEN {} ELSE handoff[t] \ Known(m)
           x == [m EXCEPT !.readFailed = FALSE, !.initDone = TRUE, !.again = FALSE,
                          !.outbox = @ \o SetToSeq(S), !.cacheDurable = @ /\ S = {}]
           f == [st EXCEPT !.readFailed = TRUE, !.initDone = TRUE, !.again = FALSE]
<1>1. /\ st \in Stores /\ Tidy(st) /\ read \in Readings /\ Tidy(read.value)
      /\ read.value \in Copy /\ handoff[t] \subseteq Row /\ read.state # "none"
      /\ read.state \in {"none", "read", "failed"}
  BY DEF StoreInv, LocalOK, ReadingOK, Readings, Hydrate, IsReading
<1>2. IF read.state = "failed" /\ ~st.readOnly THEN Set(t, f) ELSE Put(t, x, early[t])
  BY DEF Hydrate
<1>3. CASE read.state = "failed" /\ ~st.readOnly
  <2>1. Set(t, f)
    BY <1>2, <1>3
  <2>2. /\ f \in Stores /\ f.outbox = st.outbox /\ f.dead = st.dead /\ f.refused = st.refused
        /\ f.open = st.open /\ f.readOnly = st.readOnly /\ f.readFailed
        /\ f.cacheDurable = st.cacheDurable
        /\ f.rows = st.rows /\ f.latestSeq = st.latestSeq
    BY <1>1 DEF Stores
  <2> HIDE DEF f
  <2>3. Fails(t, f)
    BY <1>1, <1>3, <2>1, <2>2 DEF Fails, Tidy, Pending
  <2> QED BY <2>3
<1>4. CASE ~(read.state = "failed" /\ ~st.readOnly)
  <2>1. Put(t, x, early[t])
    BY <1>2, <1>4
  <2>2. /\ m \in Stores /\ Tidy(m) /\ SameFlags(st, m)
        /\ Pending(st) \subseteq Pending(m) \cup m.rows
        /\ Pending(m) \subseteq Pending(st) \cup Pending(read.value)
        /\ read.state # "read" =>
              m.rows = st.rows /\ m.latestSeq = st.latestSeq /\ Pending(m) = Pending(st)
        /\ read.state = "read" =>
              /\ Pending(read.value) \subseteq Pending(m) \cup m.rows
              /\ m.rows = st.rows \cup read.value.rows
              /\ m.latestSeq = Later(st.latestSeq, read.value.latestSeq)
    <3>1. CASE read.state = "read"
      <4> DEFINE y == Merged(st, read.value)
      <4>1. m = y
        BY <3>1
      <4>2. /\ y \in Stores /\ Tidy(y) /\ SameFlags(st, y)
            /\ y.rows = st.rows \cup read.value.rows
            /\ y.latestSeq = Later(st.latestSeq, read.value.latestSeq)
            /\ Pending(st) \cup Pending(read.value) \subseteq Pending(y) \cup y.rows
            /\ Pending(y) \subseteq Pending(st) \cup Pending(read.value)
        <5> HIDE DEF read, st
        <5> QED BY <1>1, MergedSpec
      <4> HIDE DEF y, m
      <4> QED BY <4>1, <4>2, <3>1
    <3>2. CASE read.state # "read"
      <4>1. m = st
        BY <3>2
      <4> HIDE DEF m
      <4> QED BY <4>1, <1>1, <3>2 DEF SameFlags
    <3> QED BY <3>1, <3>2
  <2> HIDE DEF m
  <2>3. S \in SUBSET Row /\ S \cap Known(m) = {}
    BY <1>1
  <2>4. (st.readOnly => S = {}) /\ (~st.readOnly => handoff[t] \subseteq S \cup Known(m)) /\ S \subseteq handoff[t]
    OBVIOUS
  <2> HIDE DEF S
  <2>5. /\ x \in Stores /\ Tidy(x)
        /\ x.open = m.open /\ x.readOnly = m.readOnly /\ x.initDone /\ ~x.readFailed
        /\ x.cacheDurable => m.cacheDurable /\ S = {}
        /\ x.rows = m.rows /\ x.latestSeq = m.latestSeq
        /\ Pending(x) = Pending(m) \cup S
    <3>1. x = Ready(m, S)
      BY DEF Ready
    <3> HIDE DEF x
    <3> QED BY <2>2, <2>3, <3>1, ReadySpec
  <2> HIDE DEF x
  <2>6. x.open = st.open /\ x.readOnly = st.readOnly /\ (x.cacheDurable => st.cacheDurable /\ S = {})
    BY <2>2, <2>5 DEF SameFlags
  <2>7. Hydrates(t, x)
    BY <1>1, <1>4, <2>1, <2>2, <2>4, <2>5, <2>6 DEF Hydrates, Known
  <2> QED BY <2>7
<1> QED BY <1>3, <1>4

\* What a request is still out for stays what it was.
LEMMA ReadingStays ==
    ASSUME StoreInv, Written \subseteq Written', reading' = reading,
           \A u \in Tab : ~store'[u].open => ~store[u].open
    PROVE  ReadingOK'
BY DEF StoreInv, ReadingOK, Made

LEMMA WireStays ==
    ASSUME StoreInv, UNCHANGED wire, \A u \in Tab : ~store'[u].open => ~store[u].open
    PROVE  WireOK'
BY DEF StoreInv, WireOK, wire

LEMMA ServerStays ==
    ASSUME StoreInv, UNCHANGED server
    PROVE  ServerOK' /\ Written' = Written
BY DEF StoreInv, ServerOK, Written, server

LEMMA LocalStays ==
    ASSUME StoreInv, UNCHANGED <<slot, store, early, handoff, holder, raced>>, Written \subseteq Written'
    PROVE  LocalOK'
BY DEF StoreInv, LocalOK, Made

\* A read stays what it read; it is the holder's as long as the lock stays.
LEMMA StillHoldersSpec ==
    ASSUME reading \in [Tab -> Readings], NEW u \in Tab
    PROVE  /\ StillHolders(u) \in Readings
           /\ StillHolders(u).value = reading[u].value /\ StillHolders(u).state = reading[u].state
           /\ StillHolders(u).asHolder = (reading[u].asHolder /\ holder' = u)
           /\ reading[u] = NoRead => StillHolders(u) = NoRead
<1> DEFINE w == reading[u]
           b == w.asHolder /\ holder' = u
<1>1. w \in Readings /\ b \in BOOLEAN
  OBVIOUS
<1>2. StillHolders(u) = [w EXCEPT !.asHolder = b]
  BY DEF StillHolders
<1>3. ASSUME w = NoRead PROVE [w EXCEPT !.asHolder = b] = NoRead
  <2>1. b = FALSE
    BY <1>3 DEF NoRead
  <2>2. NoRead \in Readings /\ NoRead.asHolder = FALSE
    BY NewStoreSpec DEF NoRead, Readings
  <2>3. \A p \in Readings : p.asHolder = FALSE => [p EXCEPT !.asHolder = FALSE] = p
    BY DEF Readings
  <2> HIDE DEF b, w
  <2> QED BY <1>3, <2>1, <2>2, <2>3
<1>4. b = (reading[u].asHolder /\ holder' = u)
  OBVIOUS
<1> HIDE DEF b
<1>5. /\ [w EXCEPT !.asHolder = b] \in Readings /\ [w EXCEPT !.asHolder = b].value = w.value
      /\ [w EXCEPT !.asHolder = b].state = w.state /\ [w EXCEPT !.asHolder = b].asHolder = b
  <2> HIDE DEF w
  <2> QED BY <1>1 DEF Readings
<1> QED BY <1>2, <1>3, <1>4, <1>5

\* The reads after one is issued, of a copy that is in order ...
LEMMA ReadReads ==
    ASSUME StoreInv, NEW t \in Tab, NEW v \in Copy, Tidy(v), Read(t, v),
           Pending(v) \subseteq Made', Written \subseteq Written', store'[t].open,
           \A u \in Tab \ {t} : ~store'[u].open => ~store[u].open
    PROVE  ReadingOK'
<1>1. reading \in [Tab -> Readings]
  BY DEF StoreInv, ReadingOK
<1>2. \A u \in Tab : /\ StillHolders(u) \in Readings /\ StillHolders(u).value = reading[u].value
                     /\ reading[u] = NoRead => StillHolders(u) = NoRead
  BY <1>1, StillHoldersSpec
<1>3. /\ EmptyCopy \in Copy /\ Tidy(EmptyCopy) /\ Pending(EmptyCopy) = {}
  BY NewStoreSpec
<1>4. \E w \in Readings :
         /\ w.value \in {v, EmptyCopy}
         /\ reading' = [u \in Tab |-> IF u = t THEN w ELSE StillHolders(u)]
  <2>1. CASE reading' = [u \in Tab |->
            IF u = t THEN [value |-> v, state |-> "read", asHolder |-> holder' = t]
            ELSE StillHolders(u)]
    <3> DEFINE w == [value |-> v, state |-> "read", asHolder |-> holder' = t]
    <3>1. w \in Readings /\ w.value = v
      BY DEF Readings
    <3> QED BY <2>1, <3>1
  <2>2. CASE reading' = [u \in Tab |->
            IF u = t THEN [NoRead EXCEPT !.state = "failed"] ELSE StillHolders(u)]
    <3> DEFINE w == [NoRead EXCEPT !.state = "failed"]
    <3>1. w \in Readings /\ w.value = EmptyCopy
      BY <1>3 DEF Readings, NoRead
    <3> QED BY <2>2, <3>1
  <2> QED BY <2>1, <2>2 DEF Read
<1>5. PICK w \in Readings : /\ w.value \in {v, EmptyCopy}
                            /\ reading' = [u \in Tab |-> IF u = t THEN w ELSE StillHolders(u)]
  BY <1>4
<1>6. Tidy(w.value) /\ Pending(w.value) \subseteq Made'
  BY <1>3, <1>5
<1>7. \A u \in Tab : reading'[u] = IF u = t THEN w ELSE StillHolders(u)
  BY <1>5
<1>8. reading' \in [Tab -> Readings]
  BY <1>2, <1>5
<1>9. \A u \in Tab :
         /\ Tidy(reading'[u].value) /\ Pending(reading'[u].value) \subseteq Made'
         /\ ~store'[u].open => reading'[u] = NoRead
  <2> TAKE u \in Tab
  <2>1. CASE u = t
    BY <2>1, <1>6, <1>7
  <2>2. CASE u # t
    BY <2>2, <1>2, <1>7 DEF StoreInv, ReadingOK, Made
  <2> QED BY <2>1, <2>2
<1> QED BY <1>8, <1>9 DEF ReadingOK

\* ... and after none is.
LEMMA NoNewReadReads ==
    ASSUME StoreInv, NoNewRead, Written \subseteq Written',
           \A u \in Tab : ~store'[u].open => ~store[u].open
    PROVE  ReadingOK'
<1>1. reading \in [Tab -> Readings]
  BY DEF StoreInv, ReadingOK
<1>2. \A u \in Tab : /\ StillHolders(u) \in Readings /\ StillHolders(u).value = reading[u].value
                     /\ reading[u] = NoRead => StillHolders(u) = NoRead
  BY <1>1, StillHoldersSpec
<1>3. reading' = [u \in Tab |-> StillHolders(u)]
  BY DEF NoNewRead
<1> QED BY <1>2, <1>3 DEF StoreInv, ReadingOK, Made

\* The record as a set.
LEMMA RecordedType ==
    ASSUME StoreInv
    PROVE  /\ log \in Seq(Entries) /\ Len(log) \in Nat
           /\ Recorded = {log[i] : i \in 1..Len(log)} /\ Recorded \subseteq Entries
           /\ Nothing \notin Recorded
<1>1. log \in Seq(Entries)
  BY DEF StoreInv, ServerOK
<1>2. /\ DOMAIN log = 1..Len(log) /\ Len(log) \in Nat
      /\ ToSet(log) = {log[i] : i \in 1..Len(log)} /\ ToSet(log) \subseteq Entries
  BY <1>1, ToSetType
<1> QED BY <1>1, <1>2, RowAssumption DEF Recorded

\* The steps of a page that move rows within its store, or let go of recorded ones.
LEMMA ShedsSpec ==
    ASSUME StoreInv, CursorInv, NEW t \in Tab,
           Answered(t) \/ Retry(t) \/ Requeue(t) \/ Adopt(t)
    PROVE  \E x : /\ Put(t, x, early[t]) \/ Set(t, x)
                  /\ Sheds(store[t], x, Recorded) /\ Covers(x)
                  /\ x.latestSeq >= store[t].latestSeq
<1> DEFINE st == store[t]
           p == post[t]
<1>1. /\ st \in Stores /\ Tidy(st) /\ p \in Posts
      /\ p.batch \in Seq(Row) /\ p.accepted \subseteq Entries /\ p.accepted \subseteq Recorded
      /\ Covers(st) /\ st.latestSeq \in Nat /\ st.rows \subseteq Entries /\ st.rows \subseteq Recorded
  BY DEF StoreInv, LocalOK, WireOK, Posts, Entries, CursorInv, Stores, Covers
<1>2. ASSUME Put(t, Delivered(st, p), early[t]), p.answer = "ok"
      PROVE  \E x : /\ Put(t, x, early[t]) \/ Set(t, x)
                    /\ Sheds(st, x, Recorded) /\ Covers(x) /\ x.latestSeq >= st.latestSeq
  <2> DEFINE x == Delivered(st, p)
  <2>1. Sheds(st, x, ToSet(p.batch)) /\ x.rows = st.rows \cup p.accepted /\ x.latestSeq = st.latestSeq
    BY <1>1, DeliveredSpec
  <2>2. ToSet(p.batch) \subseteq Recorded
    BY <1>2 DEF CursorInv
  <2> HIDE DEF x, st, p
  <2>3. Sheds(st, x, Recorded)
    BY <2>1, <2>2 DEF Sheds
  <2>4. Covers(x)
    BY <1>1, <2>1 DEF Covers
  <2>5. x.latestSeq >= st.latestSeq
    BY <1>1, <2>1
  <2> QED BY <1>2, <2>3, <2>4, <2>5 DEF x
<1>3. ASSUME NEW x, Sheds(st, x, {}), x.rows = st.rows, x.latestSeq = st.latestSeq,
             Put(t, x, early[t]) \/ Set(t, x)
      PROVE  \E y : /\ Put(t, y, early[t]) \/ Set(t, y)
                    /\ Sheds(st, y, Recorded) /\ Covers(y) /\ y.latestSeq >= st.latestSeq
  <2> HIDE DEF st, p
  <2>1. Sheds(st, x, Recorded) /\ Covers(x) /\ x.latestSeq >= st.latestSeq
    BY <1>1, <1>3 DEF Sheds, Covers
  <2> QED BY <2>1, <1>3
<1>4. CASE Answered(t)
  <2>1. \/ p.answer = "ok" /\ Put(t, Delivered(st, p), early[t])
        \/ Put(t, Refused(st), early[t])
        \/ Put(t, DeadLettered(st), early[t])
        \/ Set(t, [st EXCEPT !.singleMode = TRUE])
    BY <1>4 DEF Answered
  <2>2. CASE Put(t, Refused(st), early[t])
    BY <2>2, <1>1, <1>3, RefusedSpec
  <2>3. CASE Put(t, DeadLettered(st), early[t])
    BY <2>3, <1>1, <1>3, DeadLetteredSpec
  <2>4. CASE Set(t, [st EXCEPT !.singleMode = TRUE])
    <3> DEFINE x == [st EXCEPT !.singleMode = TRUE]
    <3>1. /\ x \in Stores /\ x.outbox = st.outbox /\ x.dead = st.dead /\ x.refused = st.refused
          /\ x.rows = st.rows /\ x.latestSeq = st.latestSeq /\ SameFlags(st, x)
      <4> HIDE DEF st
      <4> QED BY <1>1 DEF Stores, SameFlags
    <3> HIDE DEF x
    <3>2. Sheds(st, x, {})
      BY <1>1, <3>1 DEF Sheds, Tidy, Pending
    <3>3. Set(t, x)
      BY <2>4 DEF x
    <3> QED BY <3>1, <3>2, <3>3, <1>3
  <2> QED BY <2>1, <2>2, <2>3, <2>4, <1>2
<1>5. CASE Retry(t)
  <2>1. Nothing \notin st.dead /\ Put(t, Retried(st), early[t])
    BY <1>5 DEF Retry, Retried
  <2> QED BY <2>1, <1>1, <1>3, RetriedSpec
<1>6. CASE Requeue(t)
  <2>1. Nothing \notin st.refused /\ Put(t, Requeued(st), early[t])
    BY <1>6 DEF Requeue, Requeued
  <2> QED BY <2>1, <1>1, <1>3, RequeuedSpec
<1>7. CASE Adopt(t)
  <2> DEFINE m == page[t][1]
             n == page[t][2]
             rows == st.rows \cup {log[i] : i \in (m + 1)..n}
             x == Caught(st, rows, n)
  <2>1. Put(t, x, early[t])
    BY <1>7 DEF Adopt
  <2>2. /\ m \in Nat /\ n \in Nat /\ m <= st.latestSeq /\ n <= Len(log) /\ Len(log) \in Nat
    BY RecordedType DEF CursorInv, StoreInv, WireOK
  <2>3. {log[i] : i \in (m + 1)..n} \subseteq Recorded
    <3> HIDE DEF m, n
    <3>1. (m + 1)..n \subseteq 1..Len(log)
      BY <2>2
    <3> QED BY <3>1, RecordedType
  <2>4. rows \subseteq Recorded /\ rows \in SUBSET Entries
    BY <2>3, <1>1, RecordedType
  <2>5. \A i \in 1..Later(st.latestSeq, n) : log[i] \in rows
    <3> HIDE DEF m, n, st
    <3> TAKE i \in 1..Later(st.latestSeq, n)
    <3>1. i \in 1..st.latestSeq \/ i \in (m + 1)..n
      BY <1>1, <2>2 DEF Later
    <3> QED BY <3>1, <1>1 DEF Covers
  <2> HIDE DEF rows
  <2>6. Sheds(st, x, rows) /\ x.rows = rows /\ x.latestSeq = Later(st.latestSeq, n)
    BY <1>1, <2>2, <2>4, CaughtSpec
  <2> HIDE DEF x, st, n
  <2>7. Sheds(st, x, Recorded)
    BY <2>4, <2>6 DEF Sheds
  <2>8. Covers(x) /\ x.latestSeq >= st.latestSeq
    BY <1>1, <2>2, <2>4, <2>5, <2>6 DEF Covers, Later
  <2> QED BY <2>1, <2>7, <2>8 DEF st
<1> QED BY <1>4, <1>5, <1>6, <1>7

-----------------------------------------------------------------------------
(* Every step preserves StoreInv *)

\* A row is written: by a store that holds none of that name, since none was made.
LEMMA WriteSpec ==
    ASSUME StoreInv, NEW t \in Tab, NEW r \in Row, Write(t, r)
    PROVE  \E x \in Stores, e \in SUBSET Row :
             /\ Put(t, x, e) /\ Tidy(x) /\ e \subseteq early[t] \cup {r}
             /\ x.open = store[t].open /\ x.readOnly = store[t].readOnly
             /\ x.initDone = store[t].initDone /\ x.readFailed = store[t].readFailed
             /\ x.cacheDurable => store[t].cacheDurable /\ Writes(x)
             /\ x.rows = store[t].rows /\ x.latestSeq = store[t].latestSeq
             /\ Pending(x) = Pending(store[t]) \cup {r}
<1> DEFINE st == store[t]
           unsafe == ~st.initDone \/ st.readFailed
           d == st.cacheDurable /\ ~unsafe /\ ~st.readOnly
           x == Appended(st, r, d)
           e == early[t] \cup IF unsafe THEN {r} ELSE {}
<1>1. st \in Stores /\ Tidy(st) /\ Pending(st) \subseteq Made /\ early[t] \subseteq Row
  BY DEF StoreInv, LocalOK
<1>2. st.open /\ Put(t, x, e) /\ made[r] = Unmade
  BY DEF Write, Appended
<1>3. r # Nothing /\ r \notin Written
  BY <1>2, RowAssumption DEF Entries, Written
<1>4. r \notin Pending(st)
  BY <1>1, <1>3 DEF Made
<1>5. d \in BOOLEAN /\ (d => st.cacheDurable /\ st.initDone /\ ~st.readFailed /\ ~st.readOnly)
  OBVIOUS
<1>6. e \in SUBSET Row /\ e \subseteq early[t] \cup {r}
  BY <1>1
<1> HIDE DEF e, d, unsafe
<1>7. /\ x \in Stores /\ Tidy(x)
      /\ x.open = st.open /\ x.readOnly = st.readOnly /\ x.initDone = st.initDone
      /\ x.readFailed = st.readFailed /\ x.cacheDurable = d
      /\ x.rows = st.rows /\ x.latestSeq = st.latestSeq
      /\ Pending(x) = Pending(st) \cup {r}
  BY <1>1, <1>4, <1>5, AppendedSpec
<1> HIDE DEF x
<1>8. x.cacheDurable => st.cacheDurable /\ Writes(x)
  BY <1>2, <1>5, <1>7 DEF Writes
<1> QED BY <1>2, <1>6, <1>7, <1>8

\* The inductive invariant, action by action.
LEMMA StoreInit == Init => StoreInv
<1> SUFFICES ASSUME Init PROVE StoreInv
  OBVIOUS
<1>1. <<>> \in Seq(Entries) /\ <<>> \in Seq(Row) /\ IsInjective(<<>>)
  BY EmptySeq, ToSetEmpty
<1>2. ServerOK
  BY <1>1 DEF Init, ServerOK
<1>3. LocalOK
  BY NewStoreSpec, RowAssumption DEF Init, LocalOK
<1>4. ReadingOK
  BY NewStoreSpec DEF Init, ReadingOK, Readings, NoRead
<1>5. WireOK
  BY <1>1 DEF Init, WireOK, Posts, NoPost, NoPage
<1> QED BY <1>2, <1>3, <1>4, <1>5 DEF StoreInv, Init

\* A step of an open tab's own that leaves its rows written ones.
LEMMA PutsStores ==
    ASSUME StoreInv, NEW t \in Tab, NEW st \in Stores, Tidy(st), NEW e \in SUBSET Row,
           Put(t, st, e) \/ (Set(t, st) /\ e = early[t]),
           Pending(st) \subseteq Made', e \subseteq Written', Written \subseteq Written',
           store[t].open, st.open, holder = t => ~st.readOnly, holder' = holder
    PROVE  /\ LocalOK' /\ Puts(t, st, e)
           /\ \A u \in Tab : ~store'[u].open => ~store[u].open
<1>1. LocalOK
  BY DEF StoreInv
<1>2. Puts(t, st, e)
  BY <1>1, PutPuts, SetPuts
<1>3. LocalOK'
  BY <1>1, <1>2, PutsLocalOK
<1> QED BY <1>2, <1>3 DEF Puts

LEMMA StoreHydrate ==
    ASSUME StoreInv, NEW t \in Tab, Hydrate(t)
    PROVE  StoreInv'
<1>1. /\ UNCHANGED <<server, diskFull, wire, forgone, holder>>
      /\ IF store[t].again THEN Read(t, slot')
                           ELSE reading' = [reading EXCEPT ![t] = NoRead] /\ UNCHANGED unread
      /\ IsReading(t)
  BY DEF Hydrate
<1>2. store[t].open
  BY <1>1 DEF StoreInv, ReadingOK, IsReading, NoRead
<1>3. Written' = Written /\ Made' = Made /\ ServerOK'
  BY <1>1, ServerStays DEF Made
<1>4. PICK x : Fails(t, x) \/ Hydrates(t, x)
  BY HydrateSpec
<1>5. /\ x \in Stores /\ Tidy(x) /\ (Put(t, x, early[t]) \/ Set(t, x))
      /\ x.open = store[t].open /\ x.readOnly = store[t].readOnly
      /\ Pending(x) \subseteq Made
  <2>1. /\ Pending(store[t]) \subseteq Made /\ Pending(reading[t].value) \subseteq Made
        /\ handoff[t] \subseteq Made
    BY DEF StoreInv, LocalOK, ReadingOK, Made
  <2> QED BY <1>4, <2>1 DEF Fails, Hydrates
<1>6. /\ LocalOK' /\ Puts(t, x, early[t])
      /\ \A u \in Tab : ~store'[u].open => ~store[u].open
  <2>1. early[t] \in SUBSET Row /\ early[t] \subseteq Written' /\ (holder = t => ~x.readOnly)
    BY <1>3, <1>5 DEF StoreInv, LocalOK
  <2> QED BY <1>1, <1>2, <1>3, <1>5, <2>1, PutsStores
<1>7. ReadingOK'
  <2>1. CASE store[t].again
    <3>1. slot' \in Copy /\ Tidy(slot') /\ Pending(slot') \subseteq Made'
      BY <1>6 DEF LocalOK
    <3>2. store'[t].open
      BY <1>2, <1>5, <1>6 DEF Puts
    <3> QED BY <1>1, <1>3, <1>6, <2>1, <3>1, <3>2, ReadReads
  <2>2. CASE ~store[t].again
    <3>1. NoRead \in Readings /\ Tidy(NoRead.value) /\ Pending(NoRead.value) = {}
      BY NewStoreSpec DEF NoRead, Readings
    <3>2. reading' = [reading EXCEPT ![t] = NoRead]
      BY <1>1, <2>2
    <3> QED BY <1>3, <1>6, <3>1, <3>2 DEF StoreInv, ReadingOK
  <2> QED BY <2>1, <2>2
<1>8. WireOK'
  BY <1>1, <1>6, WireStays
<1> QED BY <1>1, <1>3, <1>6, <1>7, <1>8 DEF StoreInv

LEMMA StoreSheds ==
    ASSUME StoreInv, CursorInv, NEW t \in Tab,
           Answered(t) \/ Retry(t) \/ Requeue(t) \/ Adopt(t)
    PROVE  StoreInv'
<1>1. UNCHANGED <<server, diskFull, reading, strays, holder, forgone>>
  BY DEF Answered, Retry, Requeue, Adopt, wire
<1>2. store[t].open
  <2>1. Answered(t) => post[t] # NoPost
    BY DEF Answered, NoPost
  <2>2. Adopt(t) => page[t] # NoPage
    BY DEF Adopt
  <2> QED BY <2>1, <2>2 DEF StoreInv, WireOK, Retry, Requeue
<1>3. Written' = Written /\ Made' = Made /\ ServerOK'
  BY <1>1, ServerStays DEF Made
<1>4. PICK x : /\ Put(t, x, early[t]) \/ Set(t, x)
               /\ Sheds(store[t], x, Recorded)
  BY ShedsSpec
<1>5. /\ x \in Stores /\ Tidy(x)
      /\ x.open = store[t].open /\ x.readOnly = store[t].readOnly
      /\ Pending(x) \subseteq Made
  BY <1>4 DEF Sheds, SameFlags, StoreInv, LocalOK, Made
<1>6. /\ LocalOK' /\ Puts(t, x, early[t])
      /\ \A u \in Tab : ~store'[u].open => ~store[u].open
  <2>1. early[t] \in SUBSET Row /\ early[t] \subseteq Written' /\ (holder = t => ~x.readOnly)
    BY <1>3, <1>5 DEF StoreInv, LocalOK
  <2> QED BY <1>1, <1>2, <1>3, <1>4, <1>5, <2>1, PutsStores
<1>7. ReadingOK'
  BY <1>1, <1>3, <1>6, ReadingStays
<1>8. WireOK'
  <2>1. /\ NoPost \in Posts /\ IsInjective(NoPost.batch) /\ NoPage \in Nat \X Nat
    BY EmptySeq, ToSetEmpty DEF NoPost, Posts, NoPage
  <2>2. /\ post' = post \/ post' = [post EXCEPT ![t] = NoPost]
        /\ page' = page \/ page' = [page EXCEPT ![t] = NoPage]
    BY DEF Answered, Retry, Requeue, Adopt, wire
  <2>3. post' \in [Tab -> Posts] /\ page' \in [Tab -> Nat \X Nat]
    BY <2>1, <2>2 DEF StoreInv, WireOK
  <2>4. \A u \in Tab : /\ post'[u] \in {post[u], NoPost}
                       /\ page'[u] \in {page[u], NoPage}
    BY <2>2 DEF StoreInv, WireOK
  <2>5. \A u \in Tab :
           /\ IsInjective(post'[u].batch)
           /\ ~store'[u].open => post'[u] = NoPost /\ page'[u] = NoPage
    BY <1>6, <2>1, <2>4 DEF StoreInv, WireOK
  <2> QED BY <1>1, <2>3, <2>5 DEF StoreInv, WireOK
<1> QED BY <1>1, <1>3, <1>6, <1>7, <1>8 DEF StoreInv

LEMMA StoreWrite ==
    ASSUME StoreInv, NEW t \in Tab, NEW r \in Row, Write(t, r)
    PROVE  StoreInv' /\ Written' = Written \cup {r}
<1>1. /\ UNCHANGED <<log, era, denied, diskFull, reading, wire, holder, forgone>>
      /\ store[t].open /\ made[r] = Unmade /\ made' = [made EXCEPT ![r] = era]
  BY DEF Write
<1>2. ServerOK' /\ Written' = Written \cup {r}
  <2>1. era \in Nat /\ era # Unmade /\ made \in [Row -> Nat \cup {Unmade}]
    BY RowAssumption DEF StoreInv, ServerOK
  <2> QED BY <1>1, <2>1 DEF StoreInv, ServerOK, Written
<1>3. PICK x \in Stores, e \in SUBSET Row :
             /\ Put(t, x, e) /\ Tidy(x) /\ e \subseteq early[t] \cup {r}
             /\ x.open = store[t].open /\ x.readOnly = store[t].readOnly
             /\ Pending(x) = Pending(store[t]) \cup {r}
  BY WriteSpec
<1>4. /\ LocalOK' /\ \A u \in Tab : ~store'[u].open => ~store[u].open
  <2>1. /\ Pending(x) \subseteq Made' /\ e \subseteq Written' /\ (holder = t => ~x.readOnly)
    BY <1>2, <1>3 DEF StoreInv, LocalOK, Made
  <2> QED BY <1>1, <1>2, <1>3, <2>1, PutsStores
<1>5. ReadingOK'
  BY <1>1, <1>2, <1>4, ReadingStays
<1>6. WireOK'
  BY <1>1, <1>4, WireStays
<1> QED BY <1>1, <1>2, <1>4, <1>5, <1>6 DEF StoreInv

\* The record is only ever added to.
Grows ==
    /\ log' \in Seq(Entries) /\ IsInjective(log')
    /\ Len(log) <= Len(log') /\ \A i \in 1..Len(log) : log'[i] = log[i]
    /\ Recorded \subseteq Recorded'

\* Rows added at the end, none of them held before.
LEMMA GrowsSpec ==
    ASSUME StoreInv, IsInjective(log), NEW f \in Seq(Entries), IsInjective(f),
           ToSet(f) \cap Recorded = {}, log' = log \o f
    PROVE  Grows /\ Recorded' = Recorded \cup ToSet(f)
<1>1. log \in Seq(Entries) /\ Len(log) \in Nat /\ Len(f) \in Nat
  BY LenProperties DEF StoreInv, ServerOK
<1>2. /\ log' \in Seq(Entries) /\ ToSet(log') = ToSet(log) \cup ToSet(f) /\ IsInjective(log')
  BY <1>1, ToSetConcat DEF Recorded
<1>3. /\ Len(log') = Len(log) + Len(f)
      /\ \A i \in 1..Len(log') : log'[i] = IF i <= Len(log) THEN log[i] ELSE f[i - Len(log)]
  BY <1>1, ConcatProperties
<1>4. Len(log) <= Len(log') /\ \A i \in 1..Len(log) : log'[i] = log[i]
  BY <1>1, <1>3
<1> QED BY <1>2, <1>4 DEF Grows, Recorded

\* append_journal() adds the rows of a batch it has not got, or none.
LEMMA ReceiveSpec ==
    ASSUME StoreInv, IsInjective(log), NEW b \in Seq(Row), IsInjective(b), Receive(b)
    PROVE  /\ Grows /\ ServerOK' /\ UNCHANGED made
           /\ Verdict(b) \in {"ok", "closed", "bad"}
           /\ Verdict(b) = "ok" => ToSet(b) \subseteq Recorded'
           /\ ToSet(Fresh(b)) \subseteq ToSet(b)
<1> DEFINE f == Fresh(b)
<1>1. /\ f \in Seq(Row) /\ ToSet(f) = ToSet(b) \ Recorded /\ IsInjective(f)
  BY WithoutSpec DEF Fresh
<1>2. Verdict(b) \in {"ok", "closed", "bad"}
  BY DEF Verdict
<1>3. f \in Seq(Entries)
  BY <1>1, SeqMonotonic DEF Entries
<1>4. /\ log' = IF Verdict(b) = "ok" THEN log \o f ELSE log
      /\ UNCHANGED <<era, made>>
      /\ denied' = denied \cup IF Verdict(b) = "ok" THEN {} ELSE ToSet(b)
  BY DEF Receive
<1>5. ToSet(b) \subseteq Row
  BY ToSetType
<1> HIDE DEF f
<1>6. CASE Verdict(b) = "ok"
  <2>1. log' = log \o f
    BY <1>4, <1>6
  <2>2. Grows /\ Recorded' = Recorded \cup ToSet(f)
    BY <1>1, <1>3, <2>1, GrowsSpec
  <2> QED BY <1>1, <1>2, <1>4, <1>5, <2>2 DEF f, StoreInv, ServerOK, Grows
<1>7. CASE Verdict(b) # "ok"
  <2>1. log' = log
    BY <1>4, <1>7
  <2>2. Len(log) \in Nat /\ log \in Seq(Entries)
    BY RecordedType
  <2>3. Grows
    BY <2>1, <2>2 DEF Grows, Recorded
  <2> QED BY <1>1, <1>2, <1>4, <1>5, <1>7, <2>1, <2>3 DEF f, StoreInv, ServerOK
<1> QED BY <1>6, <1>7

\* A row another device or the server writes.
LEMMA OthersSpec ==
    ASSUME StoreInv, IsInjective(log), OtherDevice \/ Lifecycle
    PROVE  Grows /\ ServerOK' /\ UNCHANGED made
<1>1. \E r \in Entries : r \notin Recorded /\ log' = Append(log, r)
  <2>1. CASE OtherDevice
    BY <2>1 DEF OtherDevice, Entries
  <2>2. CASE Lifecycle
    <3>1. (CHOOSE b \in Boundary : b \notin Recorded) \in Boundary \ Recorded
      BY <2>2 DEF Lifecycle
    <3> QED BY <2>2, <3>1 DEF Lifecycle, Entries
  <2> QED BY <2>1, <2>2
<1>2. PICK r \in Entries : r \notin Recorded /\ log' = Append(log, r)
  BY <1>1
<1>3. log \in Seq(Entries)
  BY DEF StoreInv, ServerOK
<1>4. /\ log' \in Seq(Entries) /\ ToSet(log') = ToSet(log) \cup {r} /\ IsInjective(log')
  BY <1>2, <1>3, ToSetAppend DEF Recorded
<1>5. /\ Len(log') = Len(log) + 1 /\ Len(log) \in Nat
      /\ \A i \in 1..Len(log) : log'[i] = log[i]
  BY <1>2, <1>3, AppendProperties, LenProperties
<1>6. Grows
  BY <1>4, <1>5 DEF Grows, Recorded
<1>7. ServerOK' /\ UNCHANGED made
  BY <1>4 DEF StoreInv, ServerOK, OtherDevice, Lifecycle
<1> QED BY <1>6, <1>7

LEMMA WrittenStays ==
    ASSUME UNCHANGED made
    PROVE  Written' = Written /\ Made' = Made
BY DEF Written, Made

LEMMA StoreOpen ==
    ASSUME StoreInv, NEW t \in Tab, Open(t)
    PROVE  StoreInv'
<1>1. /\ UNCHANGED <<server, slot, diskFull, early, handoff, wire, forgone, raced>>
      /\ ~store[t].open /\ store' = [store EXCEPT ![t] = NewStore] /\ Read(t, slot)
      /\ holder' = IF holder = NoTab THEN t ELSE holder
  BY DEF Open
<1>2. Written' = Written /\ Made' = Made /\ ServerOK'
  BY <1>1, ServerStays DEF Made
<1>3. store' \in [Tab -> Stores] /\ store'[t] = NewStore /\ \A u \in Tab \ {t} : store'[u] = store[u]
  BY <1>1, NewStoreSpec DEF StoreInv, LocalOK
<1>4. LocalOK'
  <2>1. holder' \in Tab \cup {NoTab} /\ (holder' # holder => holder' = t)
    BY <1>1 DEF StoreInv, LocalOK
  <2>2. \A u \in Tab :
         /\ Tidy(store'[u]) /\ Pending(store'[u]) \subseteq Made'
         /\ ~store'[u].open => store'[u] = NoStore
         /\ holder' = u => store'[u].open /\ ~store'[u].readOnly
    BY <1>2, <1>3, <2>1, NewStoreSpec DEF StoreInv, LocalOK
  <2> QED BY <1>1, <1>2, <1>3, <2>1, <2>2 DEF StoreInv, LocalOK
<1>5. ReadingOK'
  <2>1. slot \in Copy /\ Tidy(slot) /\ Pending(slot) \subseteq Made'
    BY <1>2 DEF StoreInv, LocalOK
  <2> QED BY <1>1, <1>2, <1>3, <2>1, NewStoreSpec, ReadReads
<1>6. WireOK'
  BY <1>1, <1>3, NewStoreSpec, WireStays
<1> QED BY <1>1, <1>2, <1>4, <1>5, <1>6 DEF StoreInv

LEMMA PromotedSpec ==
    ASSUME NEW st \in Stores, Tidy(st), NEW b \in BOOLEAN, NEW x, x = Promoted(st, b)
    PROVE  /\ x \in Stores /\ Tidy(x) /\ Pending(x) = Pending(st)
           /\ x.open = st.open /\ ~x.readOnly /\ ~x.initDone /\ ~Writes(x)
           /\ x.cacheDurable = st.cacheDurable /\ x.readFailed = st.readFailed
           /\ x.rows = st.rows /\ x.latestSeq = st.latestSeq
<1>1. /\ x \in Stores /\ x.outbox = st.outbox /\ x.dead = st.dead /\ x.refused = st.refused
      /\ x.open = st.open /\ ~x.readOnly /\ ~x.initDone
      /\ x.cacheDurable = st.cacheDurable /\ x.readFailed = st.readFailed
      /\ x.rows = st.rows /\ x.latestSeq = st.latestSeq
  BY DEF Promoted, Stores
<1> QED BY <1>1 DEF Tidy, Pending, Writes

LEMMA DemotedSpec ==
    ASSUME NEW st \in Stores, Tidy(st), NEW x, x = Demoted(st)
    PROVE  /\ x \in Stores /\ Tidy(x) /\ Pending(x) = Pending(st)
           /\ x.open = st.open /\ x.readOnly /\ ~Writes(x)
           /\ x.cacheDurable = st.cacheDurable
           /\ x.rows = st.rows /\ x.latestSeq = st.latestSeq
<1>1. /\ x \in Stores /\ x.outbox = st.outbox /\ x.dead = st.dead /\ x.refused = st.refused
      /\ x.open = st.open /\ x.readOnly /\ x.cacheDurable = st.cacheDurable
      /\ x.rows = st.rows /\ x.latestSeq = st.latestSeq
  BY DEF Demoted, Stores
<1> QED BY <1>1 DEF Tidy, Pending, Writes

\* A tab that gets the lock keeps its rows, and does not write before it has read again.
LEMMA TakeSpec ==
    ASSUME StoreInv, NEW t \in Tab, Take(t)
    PROVE  /\ store' \in [Tab -> Stores] /\ \A u \in Tab \ {t} : store'[u] = store[u]
           /\ store[t].open /\ store[t].readOnly /\ store'[t].open /\ ~store'[t].readOnly
           /\ Tidy(store'[t]) /\ Pending(store'[t]) = Pending(store[t]) /\ ~Writes(store'[t])
           /\ store'[t].cacheDurable = store[t].cacheDurable
           /\ store'[t].readFailed = store[t].readFailed
           /\ store'[t].rows = store[t].rows /\ store'[t].latestSeq = store[t].latestSeq
<1> DEFINE x == Promoted(store[t], IsReading(t))
<1>1. store \in [Tab -> Stores] /\ Tidy(store[t]) /\ IsReading(t) \in BOOLEAN
  BY DEF StoreInv, LocalOK, IsReading
<1>2. store[t].open /\ store[t].readOnly /\ store' = [store EXCEPT ![t] = x]
  BY DEF Take
<1> HIDE DEF x
<1>3. /\ x \in Stores /\ Tidy(x) /\ Pending(x) = Pending(store[t])
      /\ x.open = store[t].open /\ ~x.readOnly /\ ~x.initDone /\ ~Writes(x)
      /\ x.cacheDurable = store[t].cacheDurable /\ x.readFailed = store[t].readFailed
      /\ x.rows = store[t].rows /\ x.latestSeq = store[t].latestSeq
  BY <1>1, PromotedSpec DEF x
<1> QED BY <1>1, <1>2, <1>3

LEMMA StoreTake ==
    ASSUME StoreInv, NEW t \in Tab, Take(t)
    PROVE  StoreInv'
<1>1. /\ UNCHANGED <<server, slot, diskFull, early, handoff, wire, forgone, raced>>
      /\ holder' = t
      /\ IF IsReading(t) THEN NoNewRead ELSE Read(t, slot)
  BY DEF Take
<1>2. Written' = Written /\ Made' = Made /\ ServerOK'
  BY <1>1, ServerStays DEF Made
<1>3. /\ store' \in [Tab -> Stores] /\ \A u \in Tab \ {t} : store'[u] = store[u]
      /\ store'[t].open /\ ~store'[t].readOnly
      /\ Tidy(store'[t]) /\ Pending(store'[t]) = Pending(store[t])
      /\ \A u \in Tab : ~store'[u].open => ~store[u].open
  BY TakeSpec
<1>4. LocalOK'
  BY <1>1, <1>2, <1>3 DEF StoreInv, LocalOK
<1>5. ReadingOK'
  <2>1. slot \in Copy /\ Tidy(slot) /\ Pending(slot) \subseteq Made'
    BY <1>2 DEF StoreInv, LocalOK
  <2> QED BY <1>1, <1>2, <1>3, <2>1, ReadReads, NoNewReadReads
<1>6. WireOK'
  BY <1>1, <1>3, WireStays
<1> QED BY <1>1, <1>2, <1>4, <1>5, <1>6 DEF StoreInv

LEMMA StoreTold ==
    ASSUME StoreInv, NEW t \in Tab, Told(t)
    PROVE  StoreInv'
<1> DEFINE x == Demoted(store[t])
<1>1. /\ UNCHANGED <<server, diskFull, reading, wire, holder, forgone>>
      /\ store[t].open /\ Set(t, x)
  BY DEF Told
<1>2. Written' = Written /\ Made' = Made /\ ServerOK'
  BY <1>1, ServerStays DEF Made
<1>3. store[t] \in Stores /\ Tidy(store[t]) /\ Pending(store[t]) \subseteq Made
      /\ early[t] \in SUBSET Row /\ early[t] \subseteq Written /\ holder # t
  BY DEF StoreInv, LocalOK, Told
<1>4. /\ x \in Stores /\ Tidy(x) /\ Pending(x) = Pending(store[t]) /\ x.open = store[t].open
  BY <1>3, DemotedSpec
<1> HIDE DEF x
<1>5. LocalOK' /\ \A u \in Tab : ~store'[u].open => ~store[u].open
  BY <1>1, <1>2, <1>3, <1>4, PutsStores
<1>6. ReadingOK' /\ WireOK'
  BY <1>1, <1>2, <1>5, ReadingStays, WireStays
<1> QED BY <1>1, <1>2, <1>5, <1>6 DEF StoreInv

LEMMA StoreReread ==
    ASSUME StoreInv, NEW t \in Tab, Reread(t)
    PROVE  StoreInv'
<1>1. /\ UNCHANGED <<server, slot, diskFull, store, early, handoff, wire, forgone, raced, holder>>
      /\ store[t].open /\ Read(t, slot)
  BY DEF Reread
<1>2. Written' = Written /\ Made' = Made /\ ServerOK'
  BY <1>1, ServerStays DEF Made
<1>3. LocalOK'
  BY <1>1, <1>2, LocalStays
<1>4. ReadingOK'
  <2>1. slot \in Copy /\ Tidy(slot) /\ Pending(slot) \subseteq Made'
    BY <1>2 DEF StoreInv, LocalOK
  <2> QED BY <1>1, <1>2, <2>1, ReadReads
<1>5. WireOK'
  BY <1>1, WireStays
<1> QED BY <1>1, <1>2, <1>3, <1>4, <1>5 DEF StoreInv

LEMMA StoreGone ==
    ASSUME StoreInv, NEW t \in Tab, Leave(t) \/ Crash(t)
    PROVE  StoreInv'
<1>1. PICK crash \in BOOLEAN : Gone(t, crash)
  BY DEF Leave, Crash
<1>2. /\ UNCHANGED <<server, slot, diskFull, raced>>
      /\ store' = [store EXCEPT ![t] = NoStore] /\ reading' = [reading EXCEPT ![t] = NoRead]
      /\ handoff' = [handoff EXCEPT ![t] = IF crash THEN {} ELSE @ \cup early[t]]
      /\ early' = [early EXCEPT ![t] = {}]
      /\ forgone' = forgone \cup ((OnlyIn(t) \cap Announced(t)) \ handoff'[t])
      /\ strays' = strays \cup IF post[t].answer = "sent" THEN {post[t].batch} ELSE {}
      /\ post' = [post EXCEPT ![t] = NoPost] /\ page' = [page EXCEPT ![t] = NoPage]
      /\ holder' = IF holder = t THEN NoTab ELSE holder
  BY <1>1 DEF Gone
<1>3. Written' = Written /\ Made' = Made /\ ServerOK'
  BY <1>2, ServerStays DEF Made
<1>4. LocalOK'
  <2>1. handoff' \in [Tab -> SUBSET Row] /\ early' \in [Tab -> SUBSET Row]
        /\ \A u \in Tab : early'[u] \subseteq Written /\ handoff'[u] \subseteq Written
    <3>1. (IF crash THEN {} ELSE handoff[t] \cup early[t]) \in SUBSET Row
      BY DEF StoreInv, LocalOK
    <3> QED BY <1>2, <3>1 DEF StoreInv, LocalOK
  <2>2. holder' \in Tab \cup {NoTab} /\ holder' # t /\ (holder' = holder \/ holder' = NoTab)
    BY <1>2, RowAssumption DEF StoreInv, LocalOK
  <2>3. store' \in [Tab -> Stores] /\ store'[t] = NoStore /\ \A u \in Tab \ {t} : store'[u] = store[u]
    BY <1>2, NewStoreSpec DEF StoreInv, LocalOK
  <2>4. \A u \in Tab :
         /\ Tidy(store'[u]) /\ Pending(store'[u]) \subseteq Made'
         /\ ~store'[u].open => store'[u] = NoStore
         /\ holder' = u => store'[u].open /\ ~store'[u].readOnly
    BY <1>3, <2>2, <2>3, NewStoreSpec, RowAssumption DEF StoreInv, LocalOK
  <2> QED BY <1>2, <1>3, <2>1, <2>2, <2>3, <2>4 DEF StoreInv, LocalOK
<1>5. ReadingOK'
  <2>1. NoRead \in Readings /\ Tidy(NoRead.value) /\ Pending(NoRead.value) = {}
    BY NewStoreSpec DEF NoRead, Readings
  <2>2. store \in [Tab -> Stores] /\ \A u \in Tab \ {t} : store'[u] = store[u]
    BY <1>2 DEF StoreInv, LocalOK
  <2> QED BY <1>2, <1>3, <2>1, <2>2 DEF StoreInv, ReadingOK
<1>6. WireOK'
  <2>1. /\ NoPost \in Posts /\ IsInjective(NoPost.batch) /\ NoPage \in Nat \X Nat
    BY EmptySeq, ToSetEmpty DEF NoPost, Posts, NoPage
  <2>2. post' \in [Tab -> Posts] /\ page' \in [Tab -> Nat \X Nat]
    BY <1>2, <2>1 DEF StoreInv, WireOK
  <2>3. strays' \subseteq Seq(Row) /\ \A b \in strays' : IsInjective(b)
    BY <1>2 DEF StoreInv, WireOK, Posts
  <2>4. \A u \in Tab :
           /\ IsInjective(post'[u].batch)
           /\ ~store'[u].open => post'[u] = NoPost /\ page'[u] = NoPage
    <3> TAKE u \in Tab
    <3>1. CASE u = t
      BY <1>2, <2>1, <3>1 DEF StoreInv, WireOK
    <3>2. CASE u # t
      <4>1. store'[u] = store[u] /\ post'[u] = post[u] /\ page'[u] = page[u]
        BY <1>2, <3>2 DEF StoreInv, WireOK, LocalOK
      <4> QED BY <4>1 DEF StoreInv, WireOK
    <3> QED BY <3>1, <3>2
  <2> QED BY <2>2, <2>3, <2>4 DEF WireOK
<1>7. forgone' \subseteq Row
  <2>1. OnlyIn(t) \subseteq Row
    BY DEF OnlyIn
  <2> QED BY <1>2, <2>1 DEF StoreInv
<1> QED BY <1>2, <1>3, <1>4, <1>5, <1>6, <1>7 DEF StoreInv

\* Steps of the network and the server: the page's own copies stay as they are.
LEMMA StoreWire ==
    ASSUME StoreInv, UNCHANGED <<local, holder, raced, forgone>>, UNCHANGED made, ServerOK', WireOK'
    PROVE  StoreInv'
<1>1. Written' = Written /\ Made' = Made
  BY WrittenStays
<1>2. LocalOK' /\ ReadingOK'
  BY <1>1, LocalStays, ReadingStays DEF local
<1> QED BY <1>2 DEF StoreInv, local

LEMMA StoreFlush ==
    ASSUME StoreInv, NEW t \in Tab, Flush(t)
    PROVE  StoreInv'
<1> DEFINE b == Upto(store[t].outbox, IF store[t].singleMode THEN 1 ELSE Batch)
           p == [NoPost EXCEPT !.answer = "sent", !.batch = b]
<1>1. /\ UNCHANGED <<server, local, page, strays, holder, forgone, raced>>
      /\ store[t].open /\ post' = [post EXCEPT ![t] = p]
  BY DEF Flush, Drains
<1>2. b \in Seq(Row) /\ IsInjective(b)
  <2>1. store[t].outbox \in Seq(Row) /\ IsInjective(store[t].outbox)
    BY DEF StoreInv, LocalOK, Stores, Tidy
  <2>2. (IF store[t].singleMode THEN 1 ELSE Batch) \in Nat
    BY BoundAssumption
  <2> QED BY <2>1, <2>2, ToSetUpto
<1> HIDE DEF b
<1>3. p \in Posts /\ p.batch = b
  BY <1>2 DEF Posts, NoPost
<1> HIDE DEF p
<1>4. WireOK'
  BY <1>1, <1>2, <1>3 DEF StoreInv, WireOK, local
<1>5. ServerOK'
  BY <1>1, ServerStays
<1> QED BY <1>1, <1>4, <1>5, StoreWire DEF server

LEMMA StoreLose ==
    ASSUME StoreInv, NEW t \in Tab, Lose(t)
    PROVE  StoreInv'
<1>1. /\ UNCHANGED <<server, local, page, holder, forgone, raced>>
      /\ post' = [post EXCEPT ![t] = NoPost]
      /\ strays' = strays \cup IF post[t].answer = "sent" THEN {post[t].batch} ELSE {}
  BY DEF Lose
<1>2. NoPost \in Posts /\ IsInjective(NoPost.batch)
  BY EmptySeq, ToSetEmpty DEF NoPost, Posts
<1>3. WireOK'
  BY <1>1, <1>2 DEF StoreInv, WireOK, Posts, local
<1>4. ServerOK'
  BY <1>1, ServerStays
<1> QED BY <1>1, <1>3, <1>4, StoreWire DEF server

LEMMA StoreBeacon ==
    ASSUME StoreInv, NEW t \in Tab, Beacon(t)
    PROVE  StoreInv'
<1> DEFINE b == Upto(store[t].outbox, Batch)
<1>1. /\ UNCHANGED <<server, local, post, page, holder, forgone, raced>>
      /\ strays' = strays \cup {b}
  BY DEF Beacon
<1>2. b \in Seq(Row) /\ IsInjective(b)
  <2>1. store[t].outbox \in Seq(Row) /\ IsInjective(store[t].outbox)
    BY DEF StoreInv, LocalOK, Stores, Tidy
  <2>2. Batch \in Nat
    BY BoundAssumption
  <2> QED BY <2>1, <2>2, ToSetUpto
<1> HIDE DEF b
<1>3. WireOK'
  BY <1>1, <1>2 DEF StoreInv, WireOK, local
<1>4. ServerOK'
  BY <1>1, ServerStays
<1> QED BY <1>1, <1>3, <1>4, StoreWire DEF server

LEMMA StorePull ==
    ASSUME StoreInv, NEW t \in Tab, Pull(t)
    PROVE  StoreInv'
<1>1. /\ UNCHANGED <<server, local, post, strays, holder, forgone, raced>>
      /\ store[t].open /\ page' = [page EXCEPT ![t] = <<store[t].latestSeq, Len(log)>>]
  BY DEF Pull
<1>2. <<store[t].latestSeq, Len(log)>> \in Nat \X Nat
  BY RecordedType DEF StoreInv, LocalOK, Stores
<1>3. WireOK'
  BY <1>1, <1>2 DEF StoreInv, WireOK, local
<1>4. ServerOK'
  BY <1>1, ServerStays
<1> QED BY <1>1, <1>3, <1>4, StoreWire DEF server

LEMMA StoreServerTakes ==
    ASSUME StoreInv, CursorInv, NEW t \in Tab, ServerTakes(t)
    PROVE  StoreInv' /\ Grows
<1> DEFINE b == post[t].batch
           v == Verdict(b)
           a == IF v = "ok" THEN ToSet(Fresh(b)) ELSE {}
           p == [post[t] EXCEPT !.answer = v, !.accepted = a]
<1>1. /\ UNCHANGED <<local, page, strays, holder, forgone, raced>>
      /\ Receive(b) /\ post[t].answer = "sent" /\ post \in [Tab -> Posts]
  BY DEF ServerTakes, StoreInv, WireOK
<1>2. post' = [post EXCEPT ![t] = p]
  BY <1>1 DEF ServerTakes
<1>3. b \in Seq(Row) /\ IsInjective(b) /\ IsInjective(log) /\ post[t] \in Posts
  BY <1>1 DEF StoreInv, WireOK, Posts, CursorInv
<1>4. /\ Grows /\ ServerOK' /\ UNCHANGED made /\ v \in {"ok", "closed", "bad"}
      /\ ToSet(Fresh(b)) \subseteq ToSet(b)
  BY <1>1, <1>3, ReceiveSpec
<1>5. a \in SUBSET Row
  BY <1>3, <1>4, ToSetType
<1> HIDE DEF a, v
<1>6. p \in Posts /\ p.batch = b
  BY <1>3, <1>4, <1>5 DEF Posts
<1>7. store[t].open
  BY <1>1 DEF StoreInv, WireOK, NoPost
<1> HIDE DEF p, b
<1>8. WireOK'
  BY <1>1, <1>2, <1>3, <1>6, <1>7 DEF StoreInv, WireOK, local
<1> QED BY <1>1, <1>4, <1>8, StoreWire

LEMMA StoreStray ==
    ASSUME StoreInv, CursorInv, StrayArrives
    PROVE  StoreInv' /\ Grows
<1>1. PICK b \in strays : Receive(b) /\ strays' = strays \ {b}
  BY DEF StrayArrives
<1>2. UNCHANGED <<local, post, page, holder, forgone, raced>>
  BY DEF StrayArrives
<1>3. b \in Seq(Row) /\ IsInjective(b) /\ IsInjective(log)
  BY DEF StoreInv, WireOK, CursorInv
<1>4. Grows /\ ServerOK' /\ UNCHANGED made
  BY <1>1, <1>3, ReceiveSpec
<1>5. WireOK'
  BY <1>1, <1>2 DEF StoreInv, WireOK, local
<1> QED BY <1>2, <1>4, <1>5, StoreWire

LEMMA StoreOthers ==
    ASSUME StoreInv, CursorInv, OtherDevice \/ Lifecycle
    PROVE  StoreInv' /\ Grows
<1>1. UNCHANGED <<local, wire, holder, forgone, raced>>
  BY DEF OtherDevice, Lifecycle
<1>2. Grows /\ ServerOK' /\ UNCHANGED made
  BY OthersSpec DEF CursorInv
<1>3. WireOK'
  BY <1>1, WireStays DEF local
<1> QED BY <1>1, <1>2, <1>3, StoreWire

LEMMA StoreDisk ==
    ASSUME StoreInv, Disk
    PROVE  StoreInv'
<1>1. /\ UNCHANGED <<server, slot, store, reading, early, handoff, wire, holder, forgone, raced>>
      /\ diskFull' \in BOOLEAN
  BY DEF Disk, StoreInv
<1>2. ServerOK' /\ Written' = Written
  BY <1>1, ServerStays
<1> QED BY <1>1, <1>2, LocalStays, ReadingStays, WireStays DEF StoreInv

\* Every step preserves StoreInv.
LEMMA StoreNext == StoreInv /\ CursorInv /\ [Next]_vars => StoreInv'
<1> SUFFICES ASSUME StoreInv, CursorInv, [Next]_vars PROVE StoreInv'
  OBVIOUS
<1>1. ASSUME NEW t \in Tab, Open(t) PROVE StoreInv'
  BY <1>1, StoreOpen
<1>2. ASSUME NEW t \in Tab, Grant(t) \/ TakeOver(t) PROVE StoreInv'
  BY <1>2, StoreTake DEF Grant, TakeOver
<1>3. ASSUME NEW t \in Tab, Told(t) PROVE StoreInv'
  BY <1>3, StoreTold
<1>4. ASSUME NEW t \in Tab, Hydrate(t) PROVE StoreInv'
  BY <1>4, StoreHydrate
<1>5. ASSUME NEW t \in Tab, Reread(t) PROVE StoreInv'
  BY <1>5, StoreReread
<1>6. ASSUME NEW t \in Tab, Leave(t) \/ Crash(t) PROVE StoreInv'
  BY <1>6, StoreGone
<1>7. ASSUME NEW t \in Tab, NEW r \in Row, Write(t, r) PROVE StoreInv'
  BY <1>7, StoreWrite
<1>8. ASSUME NEW t \in Tab, Answered(t) \/ Retry(t) \/ Requeue(t) \/ Adopt(t) PROVE StoreInv'
  BY <1>8, StoreSheds
<1>9. ASSUME NEW t \in Tab, Flush(t) \/ Lose(t) \/ Beacon(t) \/ Pull(t) PROVE StoreInv'
  BY <1>9, StoreFlush, StoreLose, StoreBeacon, StorePull
<1>10. ASSUME NEW t \in Tab, ServerTakes(t) PROVE StoreInv'
  BY <1>10, StoreServerTakes
<1>11. ASSUME StrayArrives \/ OtherDevice \/ Lifecycle \/ Disk PROVE StoreInv'
  BY <1>11, StoreStray, StoreOthers, StoreDisk
<1>12. CASE UNCHANGED vars
  <2>1. UNCHANGED <<server, local, wire, holder, forgone, raced>>
    BY <1>12 DEF vars
  <2>2. ServerOK' /\ WireOK'
    BY <2>1, ServerStays, WireStays DEF local
  <2> QED BY <2>1, <2>2, StoreWire DEF server
<1> QED
  BY <1>1, <1>2, <1>3, <1>4, <1>5, <1>6, <1>7, <1>8, <1>9, <1>10, <1>11, <1>12 DEF Next

-----------------------------------------------------------------------------
(* Every step preserves CursorInv *)

\* What tab t's step means to the readers of the record: only t's cursor moves, and never
\* back, unless t starts over.
Follows(t) ==
    /\ UNCHANGED log
    /\ \A u \in Tab \ {t} : store'[u].latestSeq = store[u].latestSeq /\ store'[u].rows = store[u].rows
    /\ \/ store[t].latestSeq <= store'[t].latestSeq
       \/ store'[t].latestSeq = 0 /\ store'[t].rows = {}

LEMMA CoversType ==
    ASSUME StoreInv
    PROVE  /\ slot.latestSeq \in Nat
           /\ \A t \in Tab : /\ store[t].latestSeq \in Nat /\ reading[t].value.latestSeq \in Nat
                             /\ store[t].rows \subseteq Entries
                             /\ page[t] \in Nat \X Nat
BY DEF StoreInv, LocalOK, ReadingOK, WireOK, Stores, Readings, Copy

\* What covered the record still does when it has grown.
LEMMA CoversGrows ==
    ASSUME StoreInv, Grows, NEW x, x.latestSeq \in Nat, Covers(x)
    PROVE  /\ x.latestSeq <= Len(log')
           /\ \A i \in 1..x.latestSeq : log'[i] \in x.rows
           /\ x.rows \subseteq Recorded'
<1>1. Len(log) \in Nat /\ Len(log') \in Nat
  BY RecordedType, LenProperties DEF Grows
<1> QED BY <1>1 DEF Grows, Covers

\* ... and so does a step of the server.
LEMMA CursorGrows ==
    ASSUME StoreInv, CursorInv, Grows, UNCHANGED <<slot, store, reading, page>>,
           \A u \in Tab :
              \/ post'[u] = post[u]
              \/ /\ post'[u].accepted \subseteq Recorded'
                 /\ post'[u].answer = "ok" => ToSet(post'[u].batch) \subseteq Recorded'
    PROVE  CursorInv'
<1>1. Covers(slot)'
  BY CoversType, CoversGrows DEF CursorInv, Covers
<1>2. ASSUME NEW u \in Tab PROVE Covers(store[u])'
  BY CoversType, CoversGrows DEF CursorInv, Covers
<1>3. ASSUME NEW u \in Tab PROVE Covers(reading[u].value)'
  BY CoversType, CoversGrows DEF CursorInv, Covers
<1>4. ASSUME NEW u \in Tab
      PROVE  page'[u][1] <= store'[u].latestSeq /\ page'[u][2] <= Len(log')
  <2>1. /\ page[u][1] <= store[u].latestSeq /\ page[u][2] <= Len(log) /\ Len(log) <= Len(log')
    BY DEF CursorInv, Grows
  <2>2. page[u][2] \in Nat /\ Len(log) \in Nat /\ Len(log') \in Nat
    BY CoversType, RecordedType, LenProperties DEF Grows
  <2> QED BY <2>1, <2>2
<1>5. ASSUME NEW u \in Tab
      PROVE  /\ post'[u].accepted \subseteq Recorded'
             /\ post'[u].answer = "ok" => ToSet(post'[u].batch) \subseteq Recorded'
  BY DEF CursorInv, Grows
<1>6. IsInjective(log')
  BY DEF Grows
<1> QED BY <1>1, <1>2, <1>3, <1>4, <1>5, <1>6 DEF CursorInv

\* A step of the page preserves CursorInv if it takes rows and cursors from copies that cover.
LEMMA CursorStays ==
    ASSUME StoreInv, CursorInv, UNCHANGED log, Covers(slot'), StoreInv',
           \A u \in Tab :
              /\ Covers(store'[u]) /\ Covers(reading'[u].value)
              /\ \/ page'[u] = NoPage
                 \/ page'[u] = page[u] /\ store[u].latestSeq <= store'[u].latestSeq
              /\ \/ post'[u] = post[u]
                 \/ post'[u].accepted = {} /\ post'[u].answer # "ok"
    PROVE  CursorInv'
<1>1. Covers(slot)' /\ \A u \in Tab : Covers(store[u])' /\ Covers(reading[u].value)'
  BY DEF Covers, Recorded
<1>2. ASSUME NEW u \in Tab
      PROVE  page'[u][1] <= store'[u].latestSeq /\ page'[u][2] <= Len(log')
  <2>1. /\ page[u][1] \in Nat /\ page[u][2] \in Nat /\ Len(log) \in Nat
        /\ store[u].latestSeq \in Nat /\ store'[u].latestSeq \in Nat
    <3>1. store'[u].latestSeq \in Nat
      BY DEF StoreInv, LocalOK, Stores
    <3> QED BY <3>1, CoversType, RecordedType
  <2>2. page[u][1] <= store[u].latestSeq /\ page[u][2] <= Len(log)
    BY DEF CursorInv
  <2> QED BY <2>1, <2>2 DEF NoPage
<1>3. ASSUME NEW u \in Tab
      PROVE  /\ post'[u].accepted \subseteq Recorded'
             /\ post'[u].answer = "ok" => ToSet(post'[u].batch) \subseteq Recorded'
  BY DEF CursorInv, Recorded
<1>4. IsInjective(log')
  BY DEF CursorInv
<1> QED BY <1>1, <1>2, <1>3, <1>4 DEF CursorInv

\* The readings after a step that issues a read of a covered slot, or none.
LEMMA ReadCovers ==
    ASSUME StoreInv, CursorInv, NEW t \in Tab, NEW v, Covers(v), Read(t, v) \/ NoNewRead
    PROVE  \A u \in Tab : Covers(reading'[u].value)
<1>1. \A u \in Tab : StillHolders(u).value = reading[u].value
  BY StillHoldersSpec DEF StoreInv, ReadingOK
<1>2. Covers(EmptyCopy)
  BY NewStoreSpec, RecordedType DEF Covers
<1>3. Covers([NoRead EXCEPT !.state = "failed"].value)
  BY <1>2 DEF NoRead
<1>4. CASE NoNewRead
  BY <1>1, <1>4 DEF NoNewRead, CursorInv
<1>5. CASE Read(t, v)
  <2> TAKE u \in Tab
  <2>1. CASE u = t
    <3>1. \/ reading'[u] = [value |-> v, state |-> "read", asHolder |-> holder' = t]
          \/ reading'[u] = [NoRead EXCEPT !.state = "failed"]
      BY <1>5, <2>1 DEF Read
    <3>2. [value |-> v, state |-> "read", asHolder |-> holder' = t].value = v
      OBVIOUS
    <3> QED BY <3>1, <3>2, <1>3
  <2>2. CASE u # t
    <3>1. reading'[u] = StillHolders(u)
      BY <1>5, <2>2 DEF Read
    <3> QED BY <3>1, <1>1 DEF CursorInv
  <2> QED BY <2>1, <2>2
<1> QED BY <1>4, <1>5

\* A step of tab t's own that leaves it with a copy of the record no worse than before.
LEMMA PutsFollows ==
    ASSUME StoreInv, CursorInv, NEW t \in Tab, NEW st, NEW e, Puts(t, st, e), UNCHANGED log,
           Covers(st), store[t].latestSeq <= st.latestSeq
    PROVE  /\ Follows(t) /\ Covers(slot')
           /\ \A u \in Tab : Covers(store'[u]) /\ store[u].latestSeq <= store'[u].latestSeq
<1>1. Covers(store'[t]) /\ store'[t].latestSeq = st.latestSeq
  BY DEF Puts, Covers
<1>2. \A u \in Tab \ {t} : store'[u] = store[u]
  BY DEF Puts
<1>3. Covers(slot')
  BY DEF Puts, Covers, CursorInv
<1>4. \A u \in Tab : Covers(store'[u]) /\ store[u].latestSeq <= store'[u].latestSeq
  <2> TAKE u \in Tab
  <2>1. CASE u = t
    BY <1>1, <2>1
  <2>2. CASE u # t
    BY <1>2, <2>2, CoversType DEF CursorInv
  <2> QED BY <2>1, <2>2
<1> QED BY <1>2, <1>3, <1>4 DEF Follows

\* An empty copy covers any record.
LEMMA EmptyCovers ==
    ASSUME StoreInv, NEW x, x.latestSeq = 0, x.rows = {}
    PROVE  Covers(x)
BY RecordedType DEF Covers

LEMMA NoPostSpec == NoPost.accepted = {} /\ NoPost.answer = "none" /\ NoPost.batch = <<>>
BY DEF NoPost

LEMMA CursorInit == Init => CursorInv
<1> SUFFICES ASSUME Init PROVE CursorInv
  OBVIOUS
<1>1. StoreInv
  BY StoreInit
<1>2. log = <<>> /\ Len(log) = 0 /\ IsInjective(log)
  BY ToSetEmpty DEF Init
<1>3. Covers(EmptyCopy) /\ Covers(NoStore) /\ NoStore.latestSeq = 0
  BY <1>1, NewStoreSpec, EmptyCovers
<1>4. \A t \in Tab : /\ store[t] = NoStore /\ reading[t].value = EmptyCopy
                     /\ page[t] = <<0, 0>> /\ post[t] = NoPost
  BY DEF Init, NoRead, NoPage
<1>5. slot = EmptyCopy
  BY DEF Init
<1> QED BY <1>2, <1>3, <1>4, <1>5, NoPostSpec DEF CursorInv

LEMMA CursorOpen ==
    ASSUME StoreInv, CursorInv, NEW t \in Tab, Open(t)
    PROVE  CursorInv' /\ Follows(t)
<1>1. /\ UNCHANGED <<log, slot, wire>> /\ store' = [store EXCEPT ![t] = NewStore]
      /\ Read(t, slot) /\ ~store[t].open
  BY DEF Open, server
<1>2. /\ store'[t] = NewStore /\ \A u \in Tab \ {t} : store'[u] = store[u]
  BY <1>1 DEF StoreInv, LocalOK
<1>3. Covers(NewStore) /\ NewStore.latestSeq = 0 /\ NewStore.rows = {}
  BY NewStoreSpec, EmptyCovers
<1>4. \A u \in Tab : Covers(reading'[u].value)
  BY <1>1, ReadCovers DEF CursorInv
<1>5. page[t] = NoPage
  BY <1>1 DEF StoreInv, WireOK
<1>6. ASSUME NEW u \in Tab
      PROVE  /\ Covers(store'[u])
             /\ \/ page'[u] = NoPage
                \/ page'[u] = page[u] /\ store[u].latestSeq <= store'[u].latestSeq
             /\ post'[u] = post[u]
  BY <1>1, <1>2, <1>3, <1>5, CoversType DEF CursorInv, wire
<1>7. CursorInv'
  <2>1. Covers(slot')
    BY <1>1 DEF CursorInv
  <2> QED BY <1>1, <1>4, <1>6, <2>1, StoreOpen, CursorStays
<1> QED BY <1>1, <1>2, <1>3, <1>7 DEF Follows

LEMMA CursorTake ==
    ASSUME StoreInv, CursorInv, NEW t \in Tab, Take(t)
    PROVE  CursorInv' /\ Follows(t)
<1>1. UNCHANGED <<log, slot, wire>> /\ (Read(t, slot) \/ NoNewRead)
  BY DEF Take, server
<1>2. /\ \A u \in Tab \ {t} : store'[u] = store[u]
      /\ store'[t].rows = store[t].rows /\ store'[t].latestSeq = store[t].latestSeq
  BY TakeSpec
<1>3. \A u \in Tab : Covers(reading'[u].value)
  BY <1>1, ReadCovers DEF CursorInv
<1>4. \A u \in Tab : /\ Covers(store'[u]) /\ store'[u].latestSeq = store[u].latestSeq
                     /\ store'[u].rows = store[u].rows
  BY <1>2 DEF CursorInv, Covers
<1>5. CursorInv'
  <2>1. Covers(slot')
    BY <1>1 DEF CursorInv
  <2>2. \A u \in Tab : /\ page'[u] = page[u] /\ store[u].latestSeq <= store'[u].latestSeq
                       /\ post'[u] = post[u]
    BY <1>1, <1>4, CoversType DEF wire
  <2> QED BY <1>1, <1>3, <1>4, <2>1, <2>2, StoreTake, CursorStays
<1> QED BY <1>1, <1>4, <1>5, CoversType DEF Follows

LEMMA CursorReread ==
    ASSUME StoreInv, CursorInv, NEW t \in Tab, Reread(t)
    PROVE  CursorInv' /\ Follows(t)
<1>1. UNCHANGED <<log, slot, store, wire>> /\ Read(t, slot)
  BY DEF Reread, server
<1>2. \A u \in Tab : Covers(reading'[u].value)
  BY <1>1, ReadCovers DEF CursorInv
<1>3. CursorInv'
  <2>1. Covers(slot')
    BY <1>1 DEF CursorInv
  <2>2. \A u \in Tab : /\ page'[u] = page[u] /\ store[u].latestSeq <= store'[u].latestSeq
                       /\ post'[u] = post[u] /\ Covers(store'[u])
    BY <1>1, CoversType DEF wire, CursorInv
  <2> QED BY <1>1, <1>2, <2>1, <2>2, StoreReread, CursorStays
<1> QED BY <1>1, <1>3, CoversType DEF Follows

LEMMA CursorGone ==
    ASSUME StoreInv, CursorInv, NEW t \in Tab, Leave(t) \/ Crash(t)
    PROVE  CursorInv' /\ Follows(t)
<1>1. /\ UNCHANGED <<log, slot>> /\ store' = [store EXCEPT ![t] = NoStore]
      /\ reading' = [reading EXCEPT ![t] = NoRead]
      /\ post' = [post EXCEPT ![t] = NoPost] /\ page' = [page EXCEPT ![t] = NoPage]
  BY DEF Leave, Crash, Gone, server
<1>2. \A u \in Tab : IF u = t THEN /\ store'[u] = NoStore /\ reading'[u] = NoRead
                                   /\ post'[u] = NoPost /\ page'[u] = NoPage
                     ELSE /\ store'[u] = store[u] /\ reading'[u] = reading[u]
                          /\ post'[u] = post[u] /\ page'[u] = page[u]
  BY <1>1 DEF StoreInv, LocalOK, ReadingOK, WireOK
<1>3. /\ Covers(NoStore) /\ NoStore.latestSeq = 0 /\ NoStore.rows = {}
      /\ NoRead.value = EmptyCopy /\ Covers(EmptyCopy)
  BY NewStoreSpec, EmptyCovers DEF NoRead
<1>4. CursorInv'
  <2>1. Covers(slot')
    BY <1>1 DEF CursorInv
  <2>2. ASSUME NEW u \in Tab
        PROVE  /\ Covers(store'[u]) /\ Covers(reading'[u].value)
               /\ \/ page'[u] = NoPage
                  \/ page'[u] = page[u] /\ store[u].latestSeq <= store'[u].latestSeq
               /\ \/ post'[u] = post[u]
                  \/ post'[u].accepted = {} /\ post'[u].answer # "ok"
    BY <1>2, <1>3, NoPostSpec, CoversType DEF CursorInv
  <2> QED BY <1>1, <2>1, <2>2, StoreGone, CursorStays
<1> QED BY <1>1, <1>2, <1>3, <1>4 DEF Follows

\* The steps that put a store in place and keep the reads that are out.
LEMMA CursorPuts ==
    ASSUME StoreInv, CursorInv, StoreInv', NEW t \in Tab, NEW st, NEW e, Puts(t, st, e),
           UNCHANGED log, Covers(st), store[t].latestSeq <= st.latestSeq,
           \A u \in Tab : /\ Covers(reading'[u].value)
                          /\ page'[u] = page[u] \/ page'[u] = NoPage
                          /\ post'[u] = post[u] \/ post'[u] = NoPost
    PROVE  CursorInv' /\ Follows(t)
<1>1. /\ Follows(t) /\ Covers(slot')
      /\ \A u \in Tab : Covers(store'[u]) /\ store[u].latestSeq <= store'[u].latestSeq
  BY PutsFollows
<1> QED BY <1>1, NoPostSpec, CursorStays

LEMMA CursorHydrate ==
    ASSUME StoreInv, CursorInv, NEW t \in Tab, Hydrate(t)
    PROVE  CursorInv' /\ Follows(t)
<1>1. /\ UNCHANGED <<log, wire>>
      /\ IF store[t].again THEN Read(t, slot')
                           ELSE reading' = [reading EXCEPT ![t] = NoRead] /\ UNCHANGED unread
  BY DEF Hydrate, server
<1>2. PICK x : Fails(t, x) \/ Hydrates(t, x)
  BY HydrateSpec
<1>3. Puts(t, x, early[t])
  <2>1. LocalOK /\ x \in Stores /\ Tidy(x) /\ early[t] \in SUBSET Row
    BY <1>2 DEF StoreInv, LocalOK, Fails, Hydrates
  <2>2. Put(t, x, early[t]) \/ Set(t, x)
    BY <1>2 DEF Fails, Hydrates
  <2> QED BY <2>1, <2>2, PutPuts, SetPuts
<1>4. Covers(x) /\ store[t].latestSeq <= x.latestSeq
  <2>1. /\ Covers(store[t]) /\ Covers(reading[t].value)
        /\ store[t].latestSeq \in Nat /\ reading[t].value.latestSeq \in Nat /\ Len(log) \in Nat
    BY CoversType, RecordedType DEF CursorInv
  <2>2. CASE x.rows = store[t].rows /\ x.latestSeq = store[t].latestSeq
    BY <2>1, <2>2 DEF Covers
  <2>3. CASE /\ x.rows = store[t].rows \cup reading[t].value.rows
             /\ x.latestSeq = Later(store[t].latestSeq, reading[t].value.latestSeq)
    BY <2>1, <2>3 DEF Covers, Later
  <2> QED BY <1>2, <2>2, <2>3 DEF Fails, Hydrates
<1>5. Covers(slot')
  BY <1>1, <1>3, <1>4, PutsFollows
<1>6. \A u \in Tab : Covers(reading'[u].value)
  <2>1. CASE store[t].again
    BY <1>1, <1>5, <2>1, ReadCovers
  <2>2. CASE ~store[t].again
    <3>1. Covers(NoRead.value)
      BY NewStoreSpec, EmptyCovers DEF NoRead
    <3>2. \A u \in Tab : reading'[u] = NoRead \/ reading'[u] = reading[u]
      BY <1>1, <2>2 DEF StoreInv, ReadingOK
    <3> QED BY <3>1, <3>2 DEF CursorInv
  <2> QED BY <2>1, <2>2
<1>7. StoreInv'
  BY StoreHydrate
<1> QED BY <1>1, <1>3, <1>4, <1>6, <1>7, CursorPuts DEF wire

LEMMA CursorTold ==
    ASSUME StoreInv, CursorInv, NEW t \in Tab, Told(t)
    PROVE  CursorInv' /\ Follows(t)
<1> DEFINE x == Demoted(store[t])
<1>1. UNCHANGED <<log, reading, wire>> /\ Set(t, x)
  BY DEF Told, server
<1>2. LocalOK /\ store[t] \in Stores /\ Tidy(store[t])
  BY DEF StoreInv, LocalOK
<1>3. /\ x \in Stores /\ Tidy(x) /\ x.rows = store[t].rows /\ x.latestSeq = store[t].latestSeq
  BY <1>2, DemotedSpec
<1> HIDE DEF x
<1>4. Puts(t, x, early[t])
  BY <1>1, <1>2, <1>3, SetPuts
<1>5. Covers(x) /\ store[t].latestSeq <= x.latestSeq
  BY <1>3, CoversType DEF CursorInv, Covers
<1> QED BY <1>1, <1>4, <1>5, StoreTold, CursorPuts DEF wire, CursorInv

LEMMA CursorWrite ==
    ASSUME StoreInv, CursorInv, NEW t \in Tab, NEW r \in Row, Write(t, r)
    PROVE  CursorInv' /\ Follows(t)
<1>1. UNCHANGED <<log, reading, wire>>
  BY DEF Write
<1>2. PICK x \in Stores, e \in SUBSET Row :
         /\ Put(t, x, e) /\ Tidy(x)
         /\ x.rows = store[t].rows /\ x.latestSeq = store[t].latestSeq
  BY WriteSpec
<1>3. Puts(t, x, e)
  BY <1>2, PutPuts DEF StoreInv
<1>4. Covers(x) /\ store[t].latestSeq <= x.latestSeq
  BY <1>2, CoversType DEF CursorInv, Covers
<1> QED BY <1>1, <1>3, <1>4, StoreWrite, CursorPuts DEF wire, CursorInv

LEMMA CursorSheds ==
    ASSUME StoreInv, CursorInv, NEW t \in Tab,
           Answered(t) \/ Retry(t) \/ Requeue(t) \/ Adopt(t)
    PROVE  CursorInv' /\ Follows(t)
<1>1. UNCHANGED <<log, reading>>
  BY DEF Answered, Retry, Requeue, Adopt, server
<1>2. PICK x : /\ Put(t, x, early[t]) \/ Set(t, x)
               /\ Sheds(store[t], x, Recorded) /\ Covers(x)
               /\ x.latestSeq >= store[t].latestSeq
  BY ShedsSpec
<1>3. Puts(t, x, early[t])
  <2>1. LocalOK /\ x \in Stores /\ Tidy(x) /\ early[t] \in SUBSET Row
    BY <1>2 DEF StoreInv, LocalOK, Sheds
  <2> QED BY <1>2, <2>1, PutPuts, SetPuts
<1>4. store[t].latestSeq <= x.latestSeq
  BY <1>2, <1>3, CoversType DEF Sheds, Stores
<1>5. /\ post' = post \/ post' = [post EXCEPT ![t] = NoPost]
      /\ page' = page \/ page' = [page EXCEPT ![t] = NoPage]
  BY DEF Answered, Retry, Requeue, Adopt, wire
<1>6. \A u \in Tab : /\ page'[u] = page[u] \/ page'[u] = NoPage
                     /\ post'[u] = post[u] \/ post'[u] = NoPost
  BY <1>5 DEF StoreInv, WireOK
<1> QED BY <1>1, <1>2, <1>3, <1>4, <1>6, StoreSheds, CursorPuts DEF CursorInv

\* Steps of the network that leave the page's copies and the record alone.
LEMMA CursorWire ==
    ASSUME StoreInv, CursorInv, NEW t \in Tab, Flush(t) \/ Lose(t) \/ Beacon(t) \/ Pull(t)
    PROVE  CursorInv' /\ UNCHANGED <<log, store>>
<1>1. UNCHANGED <<log, slot, store, reading>>
  BY DEF Flush, Lose, Beacon, Pull, server, local
<1>2. StoreInv'
  BY StoreFlush, StoreLose, StoreBeacon, StorePull
<1>3. Covers(slot') /\ \A u \in Tab : /\ Covers(store'[u]) /\ Covers(reading'[u].value)
                                      /\ store[u].latestSeq <= store'[u].latestSeq
  BY <1>1, CoversType DEF CursorInv
<1>4. CASE Flush(t) \/ Lose(t) \/ Beacon(t)
  <2>1. /\ page' = page
        /\ \/ post' = post \/ post' = [post EXCEPT ![t] = NoPost]
           \/ \E b : post' = [post EXCEPT ![t] = [NoPost EXCEPT !.answer = "sent", !.batch = b]]
    BY <1>4 DEF Flush, Lose, Beacon
  <2>2. \A b : /\ [NoPost EXCEPT !.answer = "sent", !.batch = b].accepted = {}
               /\ [NoPost EXCEPT !.answer = "sent", !.batch = b].answer = "sent"
    BY DEF NoPost
  <2>3. \A u \in Tab : \/ post'[u] = post[u]
                       \/ post'[u].accepted = {} /\ post'[u].answer # "ok"
    BY <2>1, <2>2, NoPostSpec DEF StoreInv, WireOK
  <2> QED BY <1>1, <1>2, <1>3, <2>1, <2>3, CursorStays
<1>5. CASE Pull(t)
  <2>1. post' = post /\ page' = [page EXCEPT ![t] = <<store[t].latestSeq, Len(log)>>]
    BY <1>5 DEF Pull
  <2>2. Len(log) \in Nat /\ Len(log) <= Len(log) /\ store[t].latestSeq <= store[t].latestSeq
    BY RecordedType, CoversType
  <2>3. \A u \in Tab : page'[u][1] <= store[u].latestSeq /\ page'[u][2] <= Len(log)
    BY <2>1, <2>2 DEF CursorInv, StoreInv, WireOK
  <2> QED BY <1>1, <2>1, <2>3 DEF CursorInv, Covers, Recorded
<1> QED BY <1>1, <1>4, <1>5

LEMMA CursorServerTakes ==
    ASSUME StoreInv, CursorInv, NEW t \in Tab, ServerTakes(t)
    PROVE  CursorInv'
<1> DEFINE b == post[t].batch
           v == Verdict(b)
           a == IF v = "ok" THEN ToSet(Fresh(b)) ELSE {}
           p == [post[t] EXCEPT !.answer = v, !.accepted = a]
<1>1. /\ UNCHANGED <<slot, store, reading, page>> /\ Receive(b)
      /\ post' = [post EXCEPT ![t] = p]
  BY DEF ServerTakes, local
<1>2. b \in Seq(Row) /\ IsInjective(b) /\ IsInjective(log) /\ post[t] \in Posts
  BY DEF StoreInv, WireOK, Posts, CursorInv
<1>3. /\ Grows
      /\ v = "ok" => ToSet(b) \subseteq Recorded'
      /\ ToSet(Fresh(b)) \subseteq ToSet(b)
  BY <1>1, <1>2, ReceiveSpec
<1>4. a \subseteq Recorded'
  BY <1>3
<1> HIDE DEF a, v, b
<1>5. p.answer = v /\ p.accepted = a /\ p.batch = b
  BY <1>2 DEF Posts, b
<1> HIDE DEF p
<1>6. \A u \in Tab : \/ post'[u] = post[u]
                     \/ /\ post'[u].accepted \subseteq Recorded'
                        /\ post'[u].answer = "ok" => ToSet(post'[u].batch) \subseteq Recorded'
  BY <1>1, <1>3, <1>4, <1>5 DEF StoreInv, WireOK
<1> QED BY <1>1, <1>3, <1>6, CursorGrows

LEMMA CursorOthers ==
    ASSUME StoreInv, CursorInv, StrayArrives \/ OtherDevice \/ Lifecycle
    PROVE  CursorInv'
<1>1. UNCHANGED <<slot, store, reading, page, post>> /\ Grows
  BY StoreStray, StoreOthers DEF StrayArrives, OtherDevice, Lifecycle, local, wire
<1> QED BY <1>1, CursorGrows

LEMMA CursorUnchanged ==
    ASSUME CursorInv, UNCHANGED <<log, slot, store, reading, post, page>>
    PROVE  CursorInv'
BY DEF CursorInv, Covers, Recorded

\* Every step preserves CursorInv.
LEMMA CursorNext == StoreInv /\ CursorInv /\ [Next]_vars => CursorInv'
<1> SUFFICES ASSUME StoreInv, CursorInv, [Next]_vars PROVE CursorInv'
  OBVIOUS
<1>1. ASSUME NEW t \in Tab,
             Open(t) \/ Grant(t) \/ TakeOver(t) \/ Told(t) \/ Hydrate(t) \/ Reread(t)
      PROVE  CursorInv'
  BY <1>1, CursorOpen, CursorTake, CursorTold, CursorHydrate, CursorReread DEF Grant, TakeOver
<1>2. ASSUME NEW t \in Tab, Leave(t) \/ Crash(t) PROVE CursorInv'
  BY <1>2, CursorGone
<1>3. ASSUME NEW t \in Tab, NEW r \in Row, Write(t, r) PROVE CursorInv'
  BY <1>3, CursorWrite
<1>4. ASSUME NEW t \in Tab, Answered(t) \/ Retry(t) \/ Requeue(t) \/ Adopt(t) PROVE CursorInv'
  BY <1>4, CursorSheds
<1>5. ASSUME NEW t \in Tab, Flush(t) \/ Lose(t) \/ Beacon(t) \/ Pull(t) PROVE CursorInv'
  BY <1>5, CursorWire
<1>6. ASSUME NEW t \in Tab, ServerTakes(t) PROVE CursorInv'
  BY <1>6, CursorServerTakes
<1>7. ASSUME StrayArrives \/ OtherDevice \/ Lifecycle PROVE CursorInv'
  BY <1>7, CursorOthers
<1>8. CASE Disk
  BY <1>8, CursorUnchanged DEF Disk, server, wire
<1>9. CASE UNCHANGED vars
  BY <1>9, CursorUnchanged DEF vars, server, local, wire
<1> QED BY <1>1, <1>2, <1>3, <1>4, <1>5, <1>6, <1>7, <1>8, <1>9 DEF Next

-----------------------------------------------------------------------------
(* Types, and the refinement of Verlauf *)

LEMMA StoreType == StoreInv => TypeOK
<1> SUFFICES ASSUME StoreInv PROVE TypeOK
  OBVIOUS
<1>1. ASSUME NEW t \in Tab PROVE Snapshot(store[t]) \in Copy
  BY StoreIsCopy DEF StoreInv, LocalOK
<1> QED
  BY <1>1 DEF TypeOK, StoreInv, ServerOK, LocalOK, ReadingOK, WireOK, Readings, Posts

\* The inductive invariant holds: every copy of the page is well-formed, holds a row in one
\* place and only rows that were written, a closed tab has nothing out, the lock's holder edits
\* (StoreInv); and every copy has all rows its cursor has passed (CursorInv).  This is what
\* journalStore.ts keeps through hydration, merge, flush, refusal, retry, handover and crash.
THEOREM Invariance == Spec => [](StoreInv /\ CursorInv)
<1>1. Init => StoreInv /\ CursorInv
  BY StoreInit, CursorInit
<1>2. StoreInv /\ CursorInv /\ [Next]_vars => (StoreInv /\ CursorInv)'
  BY StoreNext, CursorNext
<1> QED BY <1>1, <1>2, PTL DEF Spec

\* The variables of the journal and its outbox have their types (journalStore.ts, journal.py).
THEOREM TypeCorrect == Spec => []TypeOK
<1>1. StoreInv => TypeOK
  BY StoreType
<1> QED BY <1>1, Invariance, PTL

\* What Verlauf sees of a step.
LEMMA GrowExtends ==
    ASSUME StoreInv, Grows, store' = store, log' # log
    PROVE  V!Extend
<1>1. log \in Seq(Entries) /\ log' \in Seq(Entries) /\ IsInjective(log')
  BY DEF StoreInv, ServerOK, Grows
<1>2. IsStrictPrefix(log, log')
  <2>1. /\ Len(log) \in Nat /\ Len(log') \in Nat /\ Len(log) <= Len(log')
        /\ \A i \in 1..Len(log) : log'[i] = log[i]
    BY <1>1, LenProperties DEF Grows
  <2>2. IsPrefix(log, log')
    <3>1. SubSeq(log', 1, Len(log)) = log
      <4>1. /\ SubSeq(log', 1, Len(log)) \in Seq(Entries)
            /\ Len(SubSeq(log', 1, Len(log))) = Len(log)
            /\ \A i \in 1..Len(log) : SubSeq(log', 1, Len(log))[i] = log'[i]
        BY <1>1, <2>1, SubSeqProperties
      <4> QED BY <1>1, <2>1, <4>1, SeqEqual
    <3> QED BY <2>1, <3>1 DEF IsPrefix
  <2> QED BY <2>2 DEF IsStrictPrefix
<1>3. V!IsStrictPrefix(log, log') /\ V!IsInjective(log')
  BY <1>1, <1>2 DEF V!IsStrictPrefix, V!IsPrefix, IsStrictPrefix, IsPrefix, V!IsInjective, IsInjective
<1> QED BY <1>1, <1>3 DEF V!Extend

\* A step of the server is an Extend of Verlauf, or nothing it sees ...
LEMMA GrowRefines ==
    ASSUME StoreInv, Grows, store' = store
    PROVE  [V!Next]_V!vars
<1>1. CASE log' = log
  BY <1>1 DEF V!vars
<1>2. CASE log' # log
  BY <1>2, GrowExtends DEF V!Next
<1> QED BY <1>1, <1>2

\* ... and a step of a tab is a Read.
LEMMA FollowRefines ==
    ASSUME StoreInv', CursorInv', NEW t \in Tab, Follows(t), StoreInv
    PROVE  [V!Next]_V!vars
<1>1. Covers(store[t])' /\ store'[t].latestSeq \in Nat /\ store[t].latestSeq \in Nat
      /\ Len(log') \in Nat /\ DOMAIN log' = 1..Len(log')
  BY CoversType, LenProperties DEF StoreInv, ServerOK, LocalOK, Stores, CursorInv
<1>2. V!Covered(t)'
  <2>1. Recorded' = {log'[i] : i \in 1..Len(log')}
    BY ToSetType DEF Recorded, StoreInv, ServerOK
  <2> QED BY <1>1, <2>1 DEF V!Covered, Covers, V!Range
<1>3. V!Read
  BY <1>1, <1>2 DEF V!Read, Follows
<1> QED BY <1>3 DEF V!Next

LEMMA InitRefines == Init => V!Init
BY NewStoreSpec DEF Init, V!Init

\* Every step of the model is a step of Verlauf, or none that it sees.
LEMMA NextRefines ==
    StoreInv /\ CursorInv /\ StoreInv' /\ CursorInv' /\ [Next]_vars => [V!Next]_V!vars
<1> SUFFICES ASSUME StoreInv, CursorInv, StoreInv', CursorInv', [Next]_vars
             PROVE  [V!Next]_V!vars
  OBVIOUS
<1>1. ASSUME NEW t \in Tab, Follows(t) PROVE [V!Next]_V!vars
  BY <1>1, FollowRefines
<1>2. ASSUME Grows, store' = store PROVE [V!Next]_V!vars
  BY <1>2, GrowRefines
<1>3. ASSUME UNCHANGED <<log, store>> PROVE [V!Next]_V!vars
  BY <1>3 DEF V!vars
<1>4. ASSUME NEW t \in Tab,
             \/ Open(t) \/ Grant(t) \/ TakeOver(t) \/ Told(t) \/ Hydrate(t) \/ Reread(t)
             \/ Leave(t) \/ Crash(t) \/ Answered(t) \/ Retry(t) \/ Requeue(t) \/ Adopt(t)
      PROVE  Follows(t)
  BY <1>4, CursorOpen, CursorTake, CursorTold, CursorHydrate, CursorReread, CursorGone, CursorSheds
     DEF Grant, TakeOver
<1>5. ASSUME NEW t \in Tab, NEW r \in Row, Write(t, r) PROVE Follows(t)
  BY <1>5, CursorWrite
<1>6. ASSUME NEW t \in Tab, Flush(t) \/ Lose(t) \/ Beacon(t) \/ Pull(t)
      PROVE  UNCHANGED <<log, store>>
  BY <1>6, CursorWire
<1>7. ASSUME NEW t \in Tab, ServerTakes(t) PROVE Grows /\ store' = store
  BY <1>7, StoreServerTakes DEF ServerTakes, local
<1>8. ASSUME StrayArrives \/ OtherDevice \/ Lifecycle PROVE Grows /\ store' = store
  BY <1>8, StoreStray, StoreOthers DEF StrayArrives, OtherDevice, Lifecycle, local
<1>9. ASSUME Disk \/ UNCHANGED vars PROVE UNCHANGED <<log, store>>
  BY <1>9 DEF Disk, server, vars, local
<1> QED BY <1>1, <1>2, <1>3, <1>4, <1>5, <1>6, <1>7, <1>8, <1>9 DEF Next

\* journal.py and journalStore.ts implement Verlauf: one append-only record with every row
\* once, and readers that never skip a row below their cursor.
THEOREM Refinement == Spec => ImplementsVerlauf
<1>1. Init => V!Init
  BY InitRefines
<1>2. StoreInv /\ CursorInv /\ (StoreInv /\ CursorInv)' /\ [Next]_vars => [V!Next]_V!vars
  BY NextRefines
<1> QED BY <1>1, <1>2, Invariance, PTL DEF Spec, ImplementsVerlauf, V!Spec

-----------------------------------------------------------------------------
(* No silent loss *)

\* What a step does to a read that is out: it stays, or a new one is made.
KeepsRead(u) ==
    /\ reading'[u].value = reading[u].value /\ reading'[u].state = reading[u].state
    /\ reading'[u].asHolder => reading[u].asHolder /\ holder' = u
NewRead(u) ==
    \/ reading'[u].state # "read" /\ ~reading'[u].asHolder
    \/ /\ reading'[u].value = slot' /\ reading'[u].state = "read"
       /\ reading'[u].asHolder => holder' = u

LEMMA KeepsReads ==
    ASSUME StoreInv, LossInv, ~raced, UNCHANGED <<reading, holder>>
    PROVE  \A u \in Tab : KeepsRead(u)
BY DEF LossInv, LossTab, KeepsRead

\* A read that is issued is a new one for its tab, and leaves the other tabs theirs.
LEMMA ReadIsNew ==
    ASSUME StoreInv, NEW t \in Tab, NEW v, Read(t, v), v = slot'
    PROVE  NewRead(t) /\ \A u \in Tab \ {t} : KeepsRead(u)
<1>1. \A u \in Tab : /\ StillHolders(u).value = reading[u].value
                     /\ StillHolders(u).state = reading[u].state
                     /\ StillHolders(u).asHolder = (reading[u].asHolder /\ holder' = u)
  BY StillHoldersSpec DEF StoreInv, ReadingOK
<1>2. \A u \in Tab \ {t} : reading'[u] = StillHolders(u)
  BY DEF Read
<1>3. \/ reading'[t] = [value |-> v, state |-> "read", asHolder |-> holder' = t]
      \/ reading'[t] = [NoRead EXCEPT !.state = "failed"]
  BY DEF Read
<1>4. [NoRead EXCEPT !.state = "failed"].state = "failed" /\ ~[NoRead EXCEPT !.state = "failed"].asHolder
  BY DEF NoRead
<1>5. NewRead(t)
  <2> DEFINE w == [value |-> v, state |-> "read", asHolder |-> holder' = t]
  <2>1. w.value = v /\ w.state = "read" /\ w.asHolder = (holder' = t)
    OBVIOUS
  <2> HIDE DEF w
  <2>2. CASE reading'[t] = w
    BY <2>1, <2>2 DEF NewRead
  <2>3. CASE reading'[t] = [NoRead EXCEPT !.state = "failed"]
    BY <1>4, <2>3 DEF NewRead
  <2> QED BY <1>3, <2>2, <2>3 DEF w
<1> QED BY <1>1, <1>2, <1>5 DEF KeepsRead

LEMMA NoReadIsNew ==
    ASSUME StoreInv, NoNewRead
    PROVE  \A u \in Tab : KeepsRead(u)
<1>1. \A u \in Tab : /\ StillHolders(u).value = reading[u].value
                     /\ StillHolders(u).state = reading[u].state
                     /\ StillHolders(u).asHolder = (reading[u].asHolder /\ holder' = u)
  BY StillHoldersSpec DEF StoreInv, ReadingOK
<1> QED BY <1>1 DEF NoNewRead, KeepsRead

LEMMA NoRowIsNothing ==
    ASSUME StoreInv
    PROVE  Nothing \notin Row /\ Nothing \notin Written /\ \A t \in Tab : Nothing \notin handoff[t]
BY RowAssumption DEF StoreInv, LocalOK, Entries, Written

LEMMA LossInit == Init => LossInv
<1> SUFFICES ASSUME Init PROVE LossInv
  OBVIOUS
<1>1. Written = {}
  BY DEF Init, Written
<1>2. \A t \in Tab : LossTab(t)
  BY NewStoreSpec DEF Init, LossTab, NoRead, InOrder
<1> QED BY <1>1, <1>2 DEF LossInv

\* A step in which tab t puts a store x in place (persisted, if it may and can be).
LEMMA LossPut ==
    ASSUME StoreInv, LossInv, ~raced', NEW t \in Tab,
           NEW x \in Stores, Tidy(x), NEW e \in SUBSET Row, Put(t, x, e) \/ Set(t, x),
           UNCHANGED <<log, forgone, holder>>, x.rows \subseteq Recorded,
           Pending(store[t]) \subseteq Pending(x) \cup Recorded \cup {Nothing},
           x.cacheDurable /\ (Writes(x) => Set(t, x)) => Pending(x) \subseteq Kept,
           InOrder(t) /\ Writes(x) =>
               Pending(slot) \subseteq Recorded \cup Pending(x) \cup {Nothing},
           Written' \subseteq Written \cup Pending(x),
           reading[t].asHolder /\ holder = t /\ Writes(store[t]) => Writes(x),
           \A u \in Tab : \/ KeepsRead(u)
                          \/ u = t /\ NewRead(u) /\ (Writes(x) => Put(t, x, e))
    PROVE  LossInv'
<1>1. LocalOK
  BY DEF StoreInv
<1>2. /\ store' \in [Tab -> Stores]
      /\ \A u \in Tab \ {t} : store'[u] = store[u] /\ handoff'[u] = handoff[u]
      /\ Pending(store'[t]) = Pending(x) /\ Writes(store'[t]) = Writes(x)
  <2>1. Puts(t, x, e) \/ Puts(t, x, early[t])
    BY <1>1, PutPuts, SetPuts
  <2> QED BY <2>1 DEF Puts
<1>2a. Put(t, x, e) /\ Writes(x) => InOrder(t)
  BY <1>1, PutPuts DEF InOrder
<1>3. \/ /\ Writes(x) /\ store'[t].cacheDurable /\ Pending(slot') = Pending(x)
         /\ handoff'[t] = handoff[t] \ Known(x) /\ InOrder(t)
      \/ /\ Writes(x) /\ ~store'[t].cacheDurable /\ slot' = slot /\ handoff' = handoff /\ InOrder(t)
      \/ /\ ~Writes(x) \/ Set(t, x)
         /\ store'[t] = x /\ slot' = slot /\ handoff' = handoff
  <2>1. CASE Put(t, x, e)
    <3>1. \/ /\ Writes(x) /\ store'[t].cacheDurable /\ Pending(slot') = Pending(x)
             /\ handoff'[t] = handoff[t] \ Known(x)
          \/ /\ Writes(x) /\ ~store'[t].cacheDurable /\ slot' = slot /\ handoff' = handoff
          \/ /\ ~Writes(x) /\ store'[t] = x /\ slot' = slot /\ handoff' = handoff
      BY <1>1, <2>1, PutPuts
    <3> QED BY <1>2a, <2>1, <3>1
  <2>2. CASE Set(t, x)
    BY <2>2, <1>1 DEF Set, LocalOK
  <2> QED BY <2>1, <2>2
<1>4. ~raced
  <2>1. raced => raced'
    BY DEF Put, Set
  <2> QED BY <2>1
<1>5. Recorded' = Recorded /\ holder' = holder /\ forgone' = forgone
  BY DEF Recorded
<1>6. Kept \subseteq Kept'
  BY <1>3, <1>5 DEF Kept
<1>7. store'[t].cacheDurable => Pending(x) \subseteq Kept'
  BY <1>3, <1>6 DEF Kept
<1>8. handoff[t] \subseteq handoff'[t] \cup Kept'
  BY <1>3, <1>5 DEF Kept, Known
<1>9. slot' = slot \/ (Pending(slot') = Pending(x) /\ Writes(x) /\ holder = t)
  BY <1>3 DEF InOrder
<1>10. \A u \in Tab : LossTab(u)
  BY <1>4 DEF LossInv
<1>11. ASSUME NEW r \in Written' PROVE Safe(r)'
  <2>1. r # Nothing
    BY RowAssumption DEF Written, Entries
  <2>2. r \in Kept' => Safe(r)'
    BY <2>1 DEF Kept, Safe
  <2>3. r \in Pending(x) => Safe(r)'
    <3>1. ASSUME r \in Pending(x), ~store'[t].cacheDurable PROVE Safe(r)'
      BY <3>1, <1>2 DEF Safe, Warns
    <3> QED BY <3>1, <1>7, <2>2
  <2>4. r \in Pending(store[t]) => Safe(r)'
    <3>1. Recorded \subseteq Kept'
      BY <1>5 DEF Kept
    <3> QED BY <3>1, <2>1, <2>2, <2>3
  <2>5. r \in handoff[t] => Safe(r)'
    <3>1. r \in handoff'[t] => Safe(r)'
      BY DEF Safe
    <3> QED BY <3>1, <1>8, <2>2
  <2>6. ASSUME Safe(r) PROVE Safe(r)'
    <3>1. CASE r \in Recorded \cup Pending(slot)
      BY <3>1, <1>6, <2>2 DEF Kept
    <3>2. CASE r \in forgone
      BY <3>2, <1>5 DEF Safe
    <3>3. ASSUME NEW u \in Tab, r \in handoff[u] \/ (Warns(u) /\ r \in Pending(store[u]))
          PROVE  Safe(r)'
      <4>1. CASE u = t
        BY <4>1, <3>3, <2>4, <2>5
      <4>2. CASE u # t
        <5>1. store'[u] = store[u] /\ handoff'[u] = handoff[u]
          BY <4>2, <1>2
        <5>2. r \in handoff'[u] \/ (Warns(u)' /\ r \in Pending(store'[u]))
          BY <5>1, <3>3 DEF Warns
        <5> QED BY <5>2 DEF Safe
      <4> QED BY <4>1, <4>2
    <3> QED BY <2>6, <3>1, <3>2, <3>3 DEF Safe
  <2> QED BY <2>3, <2>6, <1>4 DEF LossInv
<1>12. ASSUME NEW u \in Tab PROVE LossTab(u)'
  <2>1. store'[u].cacheDurable => Pending(store'[u]) \subseteq Kept'
    BY <1>2, <1>6, <1>7, <1>10 DEF LossTab
  <2>2. ASSUME InOrder(u)', Writes(store'[u])
        PROVE  Pending(slot') \subseteq Recorded' \cup Pending(store'[u]) \cup {Nothing}
    <3>1. CASE u # t
      <4>1. slot' = slot /\ store'[u] = store[u] /\ KeepsRead(u) /\ holder = u
        BY <3>1, <2>2, <1>2, <1>5, <1>9 DEF InOrder
      <4>2. InOrder(u)
        BY <4>1, <2>2, <1>5 DEF InOrder, IsReading, KeepsRead
      <4> QED BY <4>1, <4>2, <2>2, <1>5, <1>10 DEF LossTab
    <3>2. CASE u = t
      <4>1. Writes(x) /\ holder = t
        BY <3>2, <2>2, <1>2, <1>5 DEF InOrder
      <4>2. CASE InOrder(t)
        BY <4>1, <4>2, <3>2, <1>2, <1>3, <1>5
      <4>3. CASE ~InOrder(t)
        <5>1. KeepsRead(t)
          BY <4>1, <4>3, <1>2a
        <5>2. InOrder(t)
          BY <5>1, <4>1, <3>2, <2>2 DEF InOrder, IsReading, KeepsRead
        <5> QED BY <5>2, <4>3
      <4> QED BY <4>2, <4>3
    <3> QED BY <3>1, <3>2
  <2>3. ASSUME reading'[u].state = "read" PROVE Pending(reading'[u].value) \subseteq Kept'
    <3>1. CASE KeepsRead(u)
      BY <3>1, <2>3, <1>6, <1>10 DEF KeepsRead, LossTab
    <3>2. CASE NewRead(u)
      BY <3>2, <2>3 DEF NewRead, Kept
    <3> QED BY <3>1, <3>2
  <2>4. ASSUME reading'[u].asHolder
        PROVE  /\ holder' = u /\ reading'[u].state = "read"
               /\ Pending(slot') \subseteq
                     Recorded' \cup Pending(reading'[u].value) \cup {Nothing} \cup
                         IF Writes(store'[u]) THEN Pending(store'[u]) ELSE {}
    <3>1. CASE NewRead(u)
      BY <3>1, <2>4 DEF NewRead
    <3>2. CASE KeepsRead(u)
      <4>1. /\ holder' = u /\ holder = u /\ reading[u].asHolder /\ reading'[u].state = "read"
            /\ reading'[u].value = reading[u].value
            /\ Pending(slot) \subseteq
                  Recorded \cup Pending(reading[u].value) \cup {Nothing} \cup
                      IF Writes(store[u]) THEN Pending(store[u]) ELSE {}
        BY <3>2, <2>4, <1>5, <1>10 DEF KeepsRead, LossTab
      <4>2. CASE slot' = slot
        <5>1. CASE u = t
          BY <4>1, <4>2, <5>1, <1>2, <1>5
        <5>2. CASE u # t
          BY <4>1, <4>2, <5>2, <1>2, <1>5
        <5> QED BY <5>1, <5>2
      <4>3. CASE slot' # slot
        BY <4>1, <4>3, <1>2, <1>9
      <4> QED BY <4>2, <4>3
    <3> QED BY <3>1, <3>2
  <2> QED BY <2>1, <2>2, <2>3, <2>4 DEF LossTab
<1> QED BY <1>11, <1>12 DEF LossInv

LEMMA LossHydrate ==
    ASSUME StoreInv, CursorInv, LossInv, NEW t \in Tab, Hydrate(t)
    PROVE  LossInv'
<1> SUFFICES ASSUME ~raced' PROVE LossInv'
  BY DEF LossInv
<1>1. /\ UNCHANGED <<log, made, forgone, holder>> /\ IsReading(t)
      /\ IF store[t].again THEN Read(t, slot')
                           ELSE reading' = [reading EXCEPT ![t] = NoRead] /\ UNCHANGED unread
  BY DEF Hydrate, server
<1>2. PICK x : Fails(t, x) \/ Hydrates(t, x)
  BY HydrateSpec
<1>3. /\ x \in Stores /\ Tidy(x) /\ early[t] \in SUBSET Row /\ (Put(t, x, early[t]) \/ Set(t, x))
      /\ ~raced /\ LossTab(t)
  <2>1. raced => raced'
    BY <1>2 DEF Fails, Hydrates, Put, Set
  <2> QED BY <1>2, <2>1 DEF Fails, Hydrates, StoreInv, LocalOK, LossInv
<1>4. x.rows \subseteq Recorded
  BY <1>2 DEF Fails, Hydrates, CursorInv, Covers
<1>5. Pending(store[t]) \subseteq Pending(x) \cup Recorded \cup {Nothing}
  BY <1>2, <1>4 DEF Fails, Hydrates
<1>6. x.cacheDurable => Pending(x) \subseteq Kept
  BY <1>2, <1>3 DEF Fails, Hydrates, LossTab
<1>7. ASSUME InOrder(t), Writes(x)
      PROVE  Pending(slot) \subseteq Recorded \cup Pending(x) \cup {Nothing}
  <2>1. Hydrates(t, x) /\ reading[t].state = "read"
    BY <1>2, <1>7 DEF Fails, Hydrates, Writes
  <2>2. Pending(reading[t].value) \cup Pending(store[t]) \subseteq Pending(x) \cup Recorded
    BY <1>4, <2>1 DEF Hydrates
  <2>3. Pending(slot) \subseteq
            Recorded \cup Pending(reading[t].value) \cup {Nothing} \cup
                IF Writes(store[t]) THEN Pending(store[t]) ELSE {}
    BY <1>1, <1>3, <1>7 DEF InOrder, LossTab
  <2> QED BY <2>2, <2>3
<1>8. reading[t].asHolder /\ holder = t /\ Writes(store[t]) => Writes(x)
  BY <1>2, <1>3 DEF Fails, Hydrates, Writes, LossTab
<1>9. Writes(x) => Put(t, x, early[t])
  BY <1>2 DEF Fails, Hydrates, Writes
<1>10. NewRead(t) /\ \A u \in Tab \ {t} : KeepsRead(u)
  <2>1. CASE store[t].again
    BY <1>1, <2>1, ReadIsNew
  <2>2. CASE ~store[t].again
    <3>1. reading'[t] = NoRead /\ \A u \in Tab \ {t} : reading'[u] = reading[u]
      BY <1>1, <2>2 DEF StoreInv, ReadingOK
    <3>2. \A u \in Tab : reading[u].asHolder => holder = u
      BY <1>3 DEF LossInv, LossTab
    <3> QED BY <1>1, <3>1, <3>2 DEF NewRead, KeepsRead, NoRead
  <2> QED BY <2>1, <2>2
<1>11. Written' = Written
  BY <1>1, WrittenStays
<1> QED
  BY <1>1, <1>2, <1>3, <1>4, <1>5, <1>6, <1>7, <1>8, <1>9, <1>10, <1>11, LossPut

LEMMA LossTold ==
    ASSUME StoreInv, CursorInv, LossInv, NEW t \in Tab, Told(t)
    PROVE  LossInv'
<1> SUFFICES ASSUME ~raced' PROVE LossInv'
  BY DEF LossInv
<1> DEFINE x == Demoted(store[t])
<1>1. /\ UNCHANGED <<log, made, reading, forgone, holder>> /\ Set(t, x) /\ holder # t
  BY DEF Told, server
<1>2. store[t] \in Stores /\ Tidy(store[t]) /\ early[t] \in SUBSET Row
  BY DEF StoreInv, LocalOK
<1>3. ~raced /\ LossTab(t) /\ \A u \in Tab : KeepsRead(u)
  <2>1. ~raced
    BY <1>1 DEF Set
  <2> QED BY <2>1, <1>1, KeepsReads DEF LossInv
<1>4. /\ x \in Stores /\ Tidy(x) /\ Pending(x) = Pending(store[t]) /\ ~Writes(x)
      /\ x.cacheDurable = store[t].cacheDurable /\ x.rows = store[t].rows
  BY <1>2, DemotedSpec
<1> HIDE DEF x
<1>5. x.rows \subseteq Recorded /\ (x.cacheDurable => Pending(x) \subseteq Kept)
  BY <1>3, <1>4 DEF CursorInv, Covers, LossTab
<1>6. Written' = Written
  BY <1>1, WrittenStays
<1> QED BY <1>1, <1>2, <1>3, <1>4, <1>5, <1>6, LossPut

LEMMA LossWrite ==
    ASSUME StoreInv, CursorInv, LossInv, NEW t \in Tab, NEW r \in Row, Write(t, r)
    PROVE  LossInv'
<1> SUFFICES ASSUME ~raced' PROVE LossInv'
  BY DEF LossInv
<1>1. UNCHANGED <<log, reading, forgone, holder>>
  BY DEF Write
<1>2. PICK x \in Stores, e \in SUBSET Row :
             /\ Put(t, x, e) /\ Tidy(x)
             /\ x.open = store[t].open /\ x.readOnly = store[t].readOnly
             /\ x.initDone = store[t].initDone /\ x.readFailed = store[t].readFailed
             /\ x.cacheDurable => store[t].cacheDurable /\ Writes(x)
             /\ x.rows = store[t].rows
             /\ Pending(x) = Pending(store[t]) \cup {r}
  BY WriteSpec
<1>3. ~raced /\ LossTab(t) /\ \A u \in Tab : KeepsRead(u)
  <2>1. ~raced
    BY <1>2 DEF Put
  <2> QED BY <2>1, <1>1, KeepsReads DEF LossInv
<1>4. Writes(x) = Writes(store[t]) /\ x.rows \subseteq Recorded
  BY <1>2 DEF Writes, CursorInv, Covers
<1>5. x.cacheDurable /\ (Writes(x) => Set(t, x)) => Pending(x) \subseteq Kept
  <2>1. Set(t, x) => store'[t] = x /\ slot' = slot
    BY DEF Set, StoreInv, LocalOK
  <2>2. Writes(x) /\ store'[t].cacheDurable => Pending(slot') = Pending(x) \/ ~Set(t, x)
    BY <1>2, PutPuts DEF StoreInv
  <2> QED BY <1>2, <2>1, <2>2 DEF Kept
<1>6. Written' \subseteq Written \cup Pending(x)
  BY <1>2, StoreWrite
<1>7. InOrder(t) /\ Writes(x) => Pending(slot) \subseteq Recorded \cup Pending(x) \cup {Nothing}
  BY <1>2, <1>3, <1>4 DEF LossTab
<1> QED BY <1>1, <1>2, <1>3, <1>4, <1>5, <1>6, <1>7, LossPut

LEMMA LossSheds ==
    ASSUME StoreInv, CursorInv, LossInv, NEW t \in Tab,
           Answered(t) \/ Retry(t) \/ Requeue(t) \/ Adopt(t)
    PROVE  LossInv'
<1> SUFFICES ASSUME ~raced' PROVE LossInv'
  BY DEF LossInv
<1>1. UNCHANGED <<log, made, reading, forgone, holder>>
  BY DEF Answered, Retry, Requeue, Adopt, server
<1>2. PICK x : /\ Put(t, x, early[t]) \/ Set(t, x)
               /\ Sheds(store[t], x, Recorded) /\ Covers(x)
  BY ShedsSpec
<1>3. ~raced /\ LossTab(t) /\ \A u \in Tab : KeepsRead(u)
  <2>1. ~raced
    BY <1>2 DEF Put, Set
  <2> QED BY <2>1, <1>1, KeepsReads DEF LossInv
<1>4. /\ x \in Stores /\ Tidy(x) /\ early[t] \in SUBSET Row
      /\ Writes(x) = Writes(store[t]) /\ x.cacheDurable = store[t].cacheDurable
      /\ x.rows \subseteq Recorded
      /\ Pending(store[t]) \subseteq Pending(x) \cup Recorded
      /\ Pending(x) \subseteq Pending(store[t]) \cup {Nothing}
  BY <1>2 DEF Sheds, SameFlags, Writes, Covers, StoreInv, LocalOK
<1>5. x.cacheDurable => Pending(x) \subseteq Kept
  BY <1>3, <1>4 DEF LossTab, Kept
<1>6. InOrder(t) /\ Writes(x) => Pending(slot) \subseteq Recorded \cup Pending(x) \cup {Nothing}
  BY <1>3, <1>4 DEF LossTab
<1>7. Written' = Written
  BY <1>1, WrittenStays
<1> QED BY <1>1, <1>2, <1>3, <1>4, <1>5, <1>6, <1>7, LossPut

\* A tab that is not the lock's holder has no read made as one.
LEMMA HolderReads ==
    ASSUME LossInv, ~raced
    PROVE  \A u \in Tab : reading[u].asHolder => holder = u
BY DEF LossInv, LossTab

\* The copies, and the record, stay; the lock and the reads move.
LEMMA LossLock ==
    ASSUME StoreInv, LossInv, NEW t \in Tab,
           UNCHANGED <<log, made, slot, handoff, forgone, raced>>,
           \A u \in Tab \ {t} : store'[u] = store[u] /\ KeepsRead(u),
           Pending(store'[t]) = Pending(store[t]),
           Warns(t) => Warns(t)',
           store'[t].cacheDurable => store[t].cacheDurable \/ Pending(store[t]) = {},
           ~Writes(store'[t]), (KeepsRead(t) /\ ~reading'[t].asHolder) \/ NewRead(t),
           holder' \in {holder, t}
    PROVE  LossInv'
<1> SUFFICES ASSUME ~raced PROVE LossInv'
  BY DEF LossInv
<1>1. Recorded' = Recorded /\ Kept' = Kept /\ Written' = Written
  BY WrittenStays DEF Recorded, Kept
<1>2. \A u \in Tab : LossTab(u)
  BY DEF LossInv
<1>3. ASSUME NEW r \in Written PROVE Safe(r)'
  <2>1. Safe(r)
    BY DEF LossInv
  <2>2. \A u \in Tab : Pending(store'[u]) = Pending(store[u]) /\ (Warns(u) => Warns(u)')
    BY DEF Warns
  <2> QED BY <1>1, <2>1, <2>2 DEF Safe
<1>4. ASSUME NEW u \in Tab PROVE LossTab(u)'
  <2>1. CASE u # t
    <3>1. store'[u] = store[u] /\ KeepsRead(u) /\ (holder' = u => holder = u)
      BY <2>1
    <3>2. InOrder(u)' => InOrder(u)
      BY <3>1 DEF InOrder, IsReading, KeepsRead
    <3> QED BY <3>1, <3>2, <1>1, <1>2 DEF LossTab, KeepsRead
  <2>2. CASE u = t
    <3>1. reading'[t].state = "read" => Pending(reading'[t].value) \subseteq Kept
      BY <1>2 DEF NewRead, KeepsRead, LossTab, Kept
    <3>2. store'[t].cacheDurable => Pending(store'[t]) \subseteq Kept
      BY <1>2 DEF LossTab
    <3>3. reading'[t].asHolder =>
            /\ holder' = t /\ reading'[t].state = "read" /\ reading'[t].value = slot
      BY DEF NewRead
    <3> QED BY <2>2, <3>1, <3>2, <3>3, <1>1 DEF LossTab
  <2> QED BY <2>1, <2>2
<1> QED BY <1>1, <1>3, <1>4 DEF LossInv

LEMMA LossOpen ==
    ASSUME StoreInv, LossInv, NEW t \in Tab, Open(t)
    PROVE  LossInv'
<1>1. /\ UNCHANGED <<log, made, slot, handoff, forgone, raced>>
      /\ store' = [store EXCEPT ![t] = NewStore] /\ Read(t, slot) /\ ~store[t].open
      /\ holder' = IF holder = NoTab THEN t ELSE holder
  BY DEF Open, server
<1>2. store'[t] = NewStore /\ \A u \in Tab \ {t} : store'[u] = store[u]
  BY <1>1 DEF StoreInv, LocalOK
<1>3. store[t] = NoStore
  BY <1>1 DEF StoreInv, LocalOK
<1>4. /\ Pending(NewStore) = {} /\ Pending(NoStore) = {} /\ ~Writes(NewStore)
      /\ NoStore.cacheDurable /\ ~NoStore.readFailed
  BY NewStoreSpec DEF NoStore, NewStore
<1>5. NewRead(t) /\ \A u \in Tab \ {t} : KeepsRead(u)
  BY <1>1, ReadIsNew
<1>6. ~Warns(t)
  BY <1>3, <1>4 DEF Warns
<1> QED BY <1>1, <1>2, <1>3, <1>4, <1>5, <1>6, LossLock

LEMMA LossTake ==
    ASSUME StoreInv, LossInv, NEW t \in Tab, Take(t)
    PROVE  LossInv'
<1> SUFFICES ASSUME ~raced' PROVE LossInv'
  BY DEF LossInv
<1>1. /\ UNCHANGED <<log, made, slot, handoff, forgone, raced>> /\ holder' = t
      /\ IF IsReading(t) THEN NoNewRead ELSE Read(t, slot)
  BY DEF Take, server
<1>2. /\ \A u \in Tab \ {t} : store'[u] = store[u]
      /\ store[t].readOnly
      /\ Pending(store'[t]) = Pending(store[t]) /\ ~Writes(store'[t])
      /\ store'[t].cacheDurable = store[t].cacheDurable
      /\ store'[t].readFailed = store[t].readFailed
  BY TakeSpec
<1>3. Warns(t) => Warns(t)'
  BY <1>2 DEF Warns
<1>4. ~reading[t].asHolder
  <2>1. holder # t
    BY <1>2 DEF StoreInv, LocalOK
  <2> QED BY <1>1, <2>1, HolderReads
<1>5. /\ \A u \in Tab \ {t} : KeepsRead(u)
      /\ (KeepsRead(t) /\ ~reading'[t].asHolder) \/ NewRead(t)
  <2>1. CASE IsReading(t)
    BY <1>1, <1>4, <2>1, NoReadIsNew DEF KeepsRead
  <2>2. CASE ~IsReading(t)
    BY <1>1, <2>2, ReadIsNew
  <2> QED BY <2>1, <2>2
<1> QED BY <1>1, <1>2, <1>3, <1>5, LossLock

LEMMA LossReread ==
    ASSUME StoreInv, LossInv, NEW t \in Tab, Reread(t)
    PROVE  LossInv'
<1>1. /\ UNCHANGED <<log, made, slot, store, handoff, forgone, raced, holder>>
      /\ store[t].readFailed /\ Read(t, slot)
  BY DEF Reread, server
<1>2. NewRead(t) /\ \A u \in Tab \ {t} : KeepsRead(u)
  BY <1>1, ReadIsNew
<1>3. ~Writes(store'[t]) /\ (Warns(t) => Warns(t)')
  BY <1>1 DEF Writes, Warns
<1> QED BY <1>1, <1>2, <1>3, LossLock

\* What dies with a tab is in forgone, if its tab had said so; else it was kept.
LEMMA LossGone ==
    ASSUME StoreInv, LossInv, NEW t \in Tab, Leave(t) \/ Crash(t)
    PROVE  LossInv'
<1>1. PICK crash \in BOOLEAN : Gone(t, crash)
  BY DEF Leave, Crash
<1>2. /\ UNCHANGED <<log, made, slot, raced>>
      /\ store' = [store EXCEPT ![t] = NoStore] /\ reading' = [reading EXCEPT ![t] = NoRead]
      /\ handoff' = [handoff EXCEPT ![t] = IF crash THEN {} ELSE @ \cup early[t]]
      /\ forgone' = forgone \cup ((OnlyIn(t) \cap Announced(t)) \ handoff'[t])
      /\ holder' = IF holder = t THEN NoTab ELSE holder
  BY <1>1 DEF Gone, server
<1> SUFFICES ASSUME ~raced PROVE LossInv'
  BY <1>2 DEF LossInv
<1>3. Recorded' = Recorded /\ Kept' = Kept /\ Written' = Written /\ Pending(slot') = Pending(slot)
  BY <1>2, WrittenStays DEF Recorded, Kept
<1>4. \A u \in Tab : LossTab(u)
  BY DEF LossInv
<1>5. /\ store'[t] = NoStore /\ reading'[t] = NoRead
      /\ \A u \in Tab \ {t} : /\ store'[u] = store[u] /\ reading'[u] = reading[u]
                              /\ handoff'[u] = handoff[u]
  BY <1>2 DEF StoreInv, LocalOK, ReadingOK
<1>6. ASSUME NEW r \in Written PROVE Safe(r)'
  <2>1. r \in Row /\ r # Nothing /\ Safe(r)
    BY NoRowIsNothing DEF Written, LossInv
  <2>2. r \in Recorded \cup Pending(slot) \cup forgone => Safe(r)'
    BY <1>2, <1>3 DEF Safe
  <2>3. ASSUME NEW u \in Tab \ {t}, r \in handoff[u] \cup Pending(store[u]) PROVE Safe(r)'
    <3>1. store[u].cacheDurable /\ r \in Pending(store[u]) => r \in Recorded \cup Pending(slot)
      BY <2>1, <1>4 DEF LossTab, Kept
    <3>2. r \in handoff'[u] \/ (Warns(u) /\ r \in Pending(store'[u])) => Safe(r)'
      BY <1>5 DEF Safe, Warns
    <3> QED BY <2>2, <2>3, <3>1, <3>2, <1>5 DEF Warns
  <2>4. ASSUME r \in handoff[t] \/ (Warns(t) /\ r \in Pending(store[t])) PROVE Safe(r)'
    <3>1. r \in Announced(t) /\ r \in Pending(store[t]) \cup handoff[t]
      BY <2>4 DEF Announced
    <3>2. CASE r \in handoff'[t]
      BY <3>2 DEF Safe
    <3>3. CASE r \in OnlyIn(t) /\ r \notin handoff'[t]
      <4>1. r \in forgone'
        BY <3>1, <3>3, <1>2
      <4> QED BY <4>1 DEF Safe
    <3>4. CASE r \notin OnlyIn(t)
      <4>1. r \in Recorded \cup Pending(slot) \/ \E u \in Tab \ {t} : r \in handoff[u] \cup Pending(store[u])
        BY <3>1, <3>4, <2>1 DEF OnlyIn
      <4> QED BY <4>1, <2>2, <2>3
    <3> QED BY <3>2, <3>3, <3>4
  <2> QED BY <2>1, <2>2, <2>3, <2>4 DEF Safe
<1>7. ASSUME NEW u \in Tab PROVE LossTab(u)'
  <2>1. CASE u = t
    <3>1. /\ Pending(NoStore) = {} /\ ~Writes(NoStore) /\ NoRead.state # "read" /\ ~NoRead.asHolder
      BY NewStoreSpec DEF NoRead
    <3> QED BY <2>1, <3>1, <1>5 DEF LossTab
  <2>2. CASE u # t
    <3>1. (holder' = u) = (holder = u)
      BY <2>2, <1>2, RowAssumption
    <3>2. store'[u] = store[u] /\ reading'[u] = reading[u]
      BY <2>2, <1>5
    <3>3. InOrder(u)' = InOrder(u)
      BY <3>1, <3>2 DEF InOrder, IsReading
    <3> QED BY <3>1, <3>2, <3>3, <1>3, <1>4 DEF LossTab
  <2> QED BY <2>1, <2>2
<1> QED BY <1>3, <1>6, <1>7 DEF LossInv

\* The page's copies stay; the record may grow.
LEMMA LossStays ==
    ASSUME LossInv, UNCHANGED <<made, slot, store, reading, handoff, holder, forgone, raced>>,
           Recorded \subseteq Recorded'
    PROVE  LossInv'
<1> SUFFICES ASSUME ~raced PROVE LossInv'
  BY DEF LossInv
<1>1. Written' = Written /\ Kept \subseteq Kept'
  BY WrittenStays DEF Kept
<1>2. ASSUME NEW r \in Written PROVE Safe(r)'
  BY DEF LossInv, Safe, Warns
<1>3. ASSUME NEW u \in Tab PROVE LossTab(u)'
  <2>1. LossTab(u) /\ InOrder(u)' = InOrder(u)
    BY DEF LossInv, InOrder, IsReading
  <2> QED BY <1>1, <2>1 DEF LossTab
<1> QED BY <1>1, <1>2, <1>3 DEF LossInv

\* Every step preserves LossInv.
LEMMA LossNext == StoreInv /\ CursorInv /\ LossInv /\ [Next]_vars => LossInv'
<1> SUFFICES ASSUME StoreInv, CursorInv, LossInv, [Next]_vars PROVE LossInv'
  OBVIOUS
<1>1. ASSUME NEW t \in Tab,
             \/ Open(t) \/ Grant(t) \/ TakeOver(t) \/ Told(t) \/ Hydrate(t) \/ Reread(t)
             \/ Leave(t) \/ Crash(t)
      PROVE  LossInv'
  BY <1>1, LossOpen, LossTake, LossTold, LossHydrate, LossReread, LossGone DEF Grant, TakeOver
<1>2. ASSUME NEW t \in Tab, NEW r \in Row, Write(t, r) PROVE LossInv'
  BY <1>2, LossWrite
<1>3. ASSUME NEW t \in Tab, Answered(t) \/ Retry(t) \/ Requeue(t) \/ Adopt(t) PROVE LossInv'
  BY <1>3, LossSheds
<1>4. ASSUME NEW t \in Tab, Flush(t) \/ Lose(t) \/ Beacon(t) \/ Pull(t) PROVE LossInv'
  BY <1>4, LossStays DEF Flush, Lose, Beacon, Pull, server, local, Recorded
<1>5. ASSUME NEW t \in Tab, ServerTakes(t) PROVE LossInv'
  BY <1>5, StoreServerTakes, LossStays DEF ServerTakes, Receive, Grows, local
<1>6. ASSUME StrayArrives \/ OtherDevice \/ Lifecycle PROVE LossInv'
  <2>1. Grows
    BY <1>6, StoreStray, StoreOthers
  <2>2. UNCHANGED <<made, local, holder, forgone, raced>>
    BY <1>6 DEF StrayArrives, Receive, OtherDevice, Lifecycle
  <2> QED BY <2>1, <2>2, LossStays DEF Grows, local
<1>7. CASE Disk
  BY <1>7, LossStays DEF Disk, server, Recorded
<1>8. CASE UNCHANGED vars
  BY <1>8, LossStays DEF vars, server, local, Recorded
<1> QED BY <1>1, <1>2, <1>3, <1>4, <1>5, <1>6, <1>7, <1>8 DEF Next

LEMMA LossShows == StoreInv /\ LossInv => NoSilentLossInOrder
BY DEF LossInv, NoSilentLossInOrder, NoSilentLoss, Safe, Written

\* No row written on this profile is lost silently, as long as the slot was written by the
\* lock's holder only, from a read made since it has the lock (persist, hydrate, setReadOnly,
\* dispose and syncStatus of journalStore.ts).
THEOREM NoLoss == Spec => []NoSilentLossInOrder
<1>1. Init => StoreInv /\ CursorInv /\ LossInv
  BY StoreInit, CursorInit, LossInit
<1>2. StoreInv /\ CursorInv /\ LossInv /\ [Next]_vars => (StoreInv /\ CursorInv /\ LossInv)'
  BY StoreNext, CursorNext, LossNext
<1>3. StoreInv /\ CursorInv /\ LossInv => NoSilentLossInOrder
  BY LossShows
<1> QED BY <1>1, <1>2, <1>3, PTL DEF Spec
=============================================================================
