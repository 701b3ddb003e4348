--------------------------- MODULE TypeSetProofs ----------------------------
(***************************************************************************)
(* Proofs about TypeSet and about the type set an ArchetypeDescriptor      *)
(* makes, for every set of types and every way they share mask bits.       *)
(***************************************************************************)
EXTENDS ArchetypeDescriptor, FiniteSetTheorems, SequenceTheorems, TLAPS

\* Induction over the loops.
Building == INSTANCE DataFacts WITH Op <- Inserted
Matching == INSTANCE DataFacts WITH Op <- WithStep
Passing  == INSTANCE DataFacts WITH Op <- WithoutStep
Placing  == INSTANCE DataFacts WITH Op <- Place

-----------------------------------------------------------------------------
(* Ordered arrays *)

Ordered(s) == \A m, n \in DOMAIN s : m < n => s[m] < s[n]

\* The array s has the types of set, each once, in order.
Lists(s, set) == s \in Seq(Nat) /\ ToSet(s) = set /\ Ordered(s)

\* What an array that lists a set has.
LEMMA ListsHas ==
  ASSUME NEW s, NEW set, Lists(s, set)
  PROVE  /\ s \in Seq(Nat) /\ Len(s) \in Nat /\ DOMAIN s = 1 .. Len(s)
         /\ \A n \in 1 .. Len(s) : s[n] \in Nat /\ s[n] \in set
         /\ \A t \in set : \E n \in 1 .. Len(s) : s[n] = t
         /\ set \subseteq Nat
<1>1. s \in Seq(Nat) /\ set = {s[n] : n \in DOMAIN s}
  BY DEF Lists, ToSet
<1>2. Len(s) \in Nat /\ DOMAIN s = 1 .. Len(s) /\ \A n \in 1 .. Len(s) : s[n] \in Nat
  BY <1>1
<1> QED BY <1>1, <1>2

\* Everything below the place LowerBound gives is less, everything from it on is
\* not.
LEMMA LowerBoundSplits ==
  ASSUME NEW s \in Seq(Nat), Ordered(s), NEW t \in Nat, NEW n, n = LowerBound(s, t)
  PROVE  /\ n \in 1 .. Len(s) + 1
         /\ \A m \in 1 .. Len(s) : m < n => s[m] < t
         /\ \A m \in 1 .. Len(s) : n <= m => s[m] >= t
<1>0. Len(s) \in Nat /\ DOMAIN s = 1 .. Len(s) /\ \A m \in 1 .. Len(s) : s[m] \in Nat
  OBVIOUS
<1> DEFINE T == {m \in 1 .. Len(s) + 1 : m = Len(s) + 1 \/ s[m] >= t}
<1>1. PICK x \in T : \A y \in T : x <= y
  <2>1. T \subseteq Nat /\ Len(s) + 1 \in T
    BY <1>0
  <2> HIDE DEF T
  <2> QED BY <2>1, Building!NatLeast
<1>2. x \in 1 .. Len(s) + 1 /\ \A m \in 1 .. Len(s) : s[m] >= t => x <= m
  BY <1>0, <1>1
<1>3. ASSUME NEW m \in 1 .. Len(s), m < x PROVE s[m] < t
  BY <1>0, <1>2, <1>3
<1>4. ASSUME NEW m \in 1 .. Len(s), x <= m PROVE s[m] >= t
  <2>1. x \in 1 .. Len(s) /\ s[x] >= t
    BY <1>0, <1>1, <1>4
  <2>2. x = m \/ s[x] < s[m]
    BY <1>0, <1>4, <2>1 DEF Ordered
  <2> QED BY <1>0, <2>1, <2>2
<1>5. {m \in DOMAIN s : s[m] < t} = 1 .. x - 1
  <2>1. ASSUME NEW m \in 1 .. Len(s), s[m] < t PROVE m < x
    BY <1>0, <1>2, <1>4, <2>1
  <2> QED BY <1>0, <1>2, <1>3, <2>1
<1>6. Cardinality(1 .. x - 1) = x - 1
  <2>1. x - 1 \in Nat /\ 1 \in Int
    BY <1>0, <1>2
  <2>2. Cardinality(1 .. x - 1) = IF 1 > x - 1 THEN 0 ELSE x - 1 - 1 + 1
    BY <2>1, FS_Interval
  <2> QED BY <2>1, <2>2
<1>7. n = x
  <2>1. n = (x - 1) + 1
    BY <1>5, <1>6 DEF LowerBound
  <2> QED BY <1>0, <1>2, <2>1
<1> QED BY <1>2, <1>3, <1>4, <1>7

\* r is s with t inserted at place n.
Shifts(s, n, t, r) ==
  /\ r \in Seq(Nat) /\ Len(r) = Len(s) + 1
  /\ \A i \in 1 .. Len(s) + 1 :
       r[i] = IF i < n THEN s[i] ELSE IF i = n THEN t ELSE s[i - 1]

\* An element inserted at place n moves the later ones up.
LEMMA InsertAtShifts ==
  ASSUME NEW s \in Seq(Nat), NEW n \in 1 .. Len(s) + 1, NEW t \in Nat,
         NEW r, r = InsertAt(s, n, t)
  PROVE  Shifts(s, n, t, r)
<1>1. PICK a, b, c : a = SubSeq(s, 1, n - 1) /\ b = SubSeq(s, n, Len(s)) /\ c = <<t>>
  OBVIOUS
<1>2. /\ a \in Seq(Nat) /\ Len(a) = n - 1 /\ \A i \in 1 .. n - 1 : a[i] = s[i]
      /\ b \in Seq(Nat) /\ Len(b) = Len(s) + 1 - n
      /\ \A i \in 1 .. Len(s) + 1 - n : b[i] = s[n + i - 1]
      /\ c \in Seq(Nat) /\ Len(c) = 1 /\ c[1] = t
  <2>1. Len(s) \in Nat /\ \A i \in 1 .. Len(s) : s[i] \in Nat
    OBVIOUS
  <2>2. a \in Seq(Nat) /\ Len(a) = n - 1
    BY <1>1, <2>1
  <2>3. \A i \in 1 .. n - 1 : a[i] = s[i]
    BY <1>1, <2>1
  <2>4. b \in Seq(Nat) /\ Len(b) = Len(s) + 1 - n
    BY <1>1, <2>1
  <2>5. \A i \in 1 .. Len(s) + 1 - n : b[i] = s[n + i - 1]
    BY <1>1, <2>1
  <2>6. c \in Seq(Nat) /\ Len(c) = 1 /\ c[1] = t
    BY <1>1
  <2> QED BY <2>2, <2>3, <2>4, <2>5, <2>6
<1>3. r = (a \o c) \o b
  BY <1>1 DEF InsertAt
<1> DEFINE ac == a \o c
<1>4. /\ ac \in Seq(Nat) /\ Len(ac) = n
      /\ \A i \in 1 .. n : ac[i] = IF i < n THEN s[i] ELSE t
  <2>1. /\ ac \in Seq(Nat) /\ Len(ac) = Len(a) + Len(c)
        /\ \A i \in 1 .. Len(a) + Len(c) :
             ac[i] = IF i <= Len(a) THEN a[i] ELSE c[i - Len(a)]
    BY <1>2, ConcatProperties
  <2> HIDE DEF ac
  <2>2. Len(a) + Len(c) = n
    BY <1>2
  <2>3. ASSUME NEW i \in 1 .. n PROVE ac[i] = IF i < n THEN s[i] ELSE t
    <3>1. CASE i < n
      <4>1. i <= Len(a) /\ i \in 1 .. n - 1
        BY <1>2, <3>1
      <4> QED BY <1>2, <2>1, <2>2, <3>1, <4>1
    <3>2. CASE i = n
      <4>1. ~(i <= Len(a)) /\ i - Len(a) = 1
        BY <1>2, <3>2
      <4>2. ac[i] = c[i - Len(a)]
        BY <2>1, <2>2, <4>1
      <4>3. ac[i] = t /\ ~(i < n)
        BY <1>2, <3>2, <4>1, <4>2
      <4> QED BY <4>3
    <3> QED BY <3>1, <3>2
  <2> QED BY <2>1, <2>2, <2>3
<1>5. /\ r \in Seq(Nat) /\ Len(r) = Len(s) + 1
      /\ \A i \in 1 .. Len(s) + 1 : r[i] = IF i <= n THEN ac[i] ELSE b[i - n]
  <2>1. /\ ac \o b \in Seq(Nat) /\ Len(ac \o b) = Len(ac) + Len(b)
        /\ \A i \in 1 .. Len(ac) + Len(b) :
             (ac \o b)[i] = IF i <= Len(ac) THEN ac[i] ELSE b[i - Len(ac)]
    <3> HIDE DEF ac
    <3> QED BY <1>2, <1>4, ConcatProperties
  <2>2. Len(ac) + Len(b) = Len(s) + 1
    <3> HIDE DEF ac
    <3> QED BY <1>2, <1>4
  <2> HIDE DEF ac
  <2>3. r = ac \o b
    BY <1>3 DEF ac
  <2> QED BY <1>4, <2>1, <2>2, <2>3
<1> HIDE DEF ac
<1>6. ASSUME NEW i \in 1 .. Len(s) + 1, i > n PROVE b[i - n] = s[i - 1]
  <2>1. i - n \in 1 .. Len(s) + 1 - n /\ n + (i - n) - 1 = i - 1
    BY <1>6
  <2> QED BY <1>2, <2>1
<1>7. ASSUME NEW i \in 1 .. Len(s) + 1
      PROVE  r[i] = IF i < n THEN s[i] ELSE IF i = n THEN t ELSE s[i - 1]
  <2>1. CASE i <= n
    <3>1. i \in 1 .. n /\ (i < n \/ i = n)
      BY <2>1
    <3> QED BY <1>4, <1>5, <2>1, <3>1
  <2>2. CASE i > n
    <3>1. ~(i <= n) /\ ~(i < n) /\ i # n
      BY <2>2
    <3> QED BY <1>5, <1>6, <2>2, <3>1
  <2> QED BY <2>1, <2>2
<1> QED BY <1>5, <1>7 DEF Shifts

\* Inserted keeps the order and adds the type.
LEMMA InsertedLists ==
  ASSUME NEW s, NEW set, Lists(s, set), NEW t \in Nat, t \notin set
  PROVE  Lists(Inserted(t, s), set \cup {t})
<1>1. PICK n, r : n = LowerBound(s, t) /\ r = InsertAt(s, n, t)
  OBVIOUS
<1>2. /\ s \in Seq(Nat) /\ Len(s) \in Nat /\ DOMAIN s = 1 .. Len(s)
      /\ \A m \in 1 .. Len(s) : s[m] \in Nat /\ s[m] \in set
      /\ \A u \in set : \E m \in 1 .. Len(s) : s[m] = u
  BY ListsHas
<1>3. Ordered(s)
  BY DEF Lists
<1>4. /\ n \in 1 .. Len(s) + 1
      /\ \A m \in 1 .. Len(s) : m < n => s[m] < t
      /\ \A m \in 1 .. Len(s) : n <= m => s[m] >= t
  BY <1>1, <1>2, <1>3, LowerBoundSplits
<1>5. /\ r \in Seq(Nat) /\ Len(r) = Len(s) + 1
      /\ \A i \in 1 .. Len(s) + 1 :
           r[i] = IF i < n THEN s[i] ELSE IF i = n THEN t ELSE s[i - 1]
  <2>1. r = InsertAt(s, n, t) /\ n \in 1 .. Len(s) + 1
    BY <1>1, <1>4
  <2>2. Shifts(s, n, t, r)
    BY Zenon, <1>2, <2>1, InsertAtShifts
  <2> QED BY <2>2 DEF Shifts
<1>6. DOMAIN r = 1 .. Len(s) + 1
  BY <1>5
<1>7. ToSet(r) = set \cup {t}
  <2>1. ASSUME NEW i \in 1 .. Len(s) + 1 PROVE r[i] \in set \cup {t}
    <3>1. i < n => i \in 1 .. Len(s)
      BY <1>2, <1>4
    <3>2. i > n => i - 1 \in 1 .. Len(s)
      BY <1>2, <1>4
    <3>3. i < n \/ i = n \/ i > n
      BY <1>2, <1>4
    <3> QED BY <1>2, <1>4, <1>5, <3>1, <3>2, <3>3
  <2>2. ASSUME NEW u \in set PROVE \E i \in 1 .. Len(s) + 1 : r[i] = u
    <3>1. PICK m \in 1 .. Len(s) : s[m] = u
      BY <1>2, <2>2
    <3>2. CASE m < n
      <4>1. m \in 1 .. Len(s) + 1 /\ r[m] = u
        BY <1>2, <1>5, <3>1, <3>2
      <4> QED BY <4>1
    <3>3. CASE m >= n
      <4>1. m + 1 \in 1 .. Len(s) + 1 /\ ~(m + 1 < n) /\ m + 1 # n /\ m + 1 - 1 = m
        BY <1>2, <1>4, <3>3
      <4>2. r[m + 1] = u
        BY <1>5, <3>1, <4>1
      <4> QED BY <4>1, <4>2
    <3> QED BY <1>2, <1>4, <3>2, <3>3
  <2>3. \E i \in 1 .. Len(s) + 1 : r[i] = t
    <3>1. r[n] = t
      BY <1>2, <1>4, <1>5
    <3> QED BY <1>4, <3>1
  <2> QED BY <1>6, <2>1, <2>2, <2>3 DEF ToSet
<1>8. ASSUME NEW i \in 1 .. Len(s) + 1, NEW j \in 1 .. Len(s) + 1, i < j PROVE r[i] < r[j]
  <2>1. \A m \in 1 .. Len(s) : s[m] # t
    BY <1>2
  <2>2. CASE j < n
    <3>1. i \in 1 .. Len(s) /\ j \in 1 .. Len(s) /\ i < n
      BY <1>2, <1>4, <1>8, <2>2
    <3>2. s[i] < s[j]
      BY <1>2, <1>3, <1>8, <3>1 DEF Ordered
    <3> QED BY <1>5, <2>2, <3>1, <3>2
  <2>3. CASE j = n
    <3>1. i \in 1 .. Len(s) /\ i < n
      BY <1>2, <1>4, <1>8, <2>3
    <3> QED BY <1>4, <1>5, <2>3, <3>1
  <2>4. CASE j > n
    <3>1. j - 1 \in 1 .. Len(s) /\ n <= j - 1
      BY <1>2, <1>4, <2>4
    <3>2. r[j] = s[j - 1] /\ s[j - 1] > t
      <4>1. s[j - 1] >= t /\ s[j - 1] # t /\ s[j - 1] \in Nat
        BY <1>2, <1>4, <2>1, <3>1
      <4>2. r[j] = s[j - 1]
        BY <1>2, <1>4, <1>5, <2>4
      <4> QED BY <4>1, <4>2
    <3>3. CASE i < n
      <4>1. i \in 1 .. Len(s) /\ r[i] = s[i]
        BY <1>2, <1>4, <1>5, <3>3
      <4>2. s[i] < t /\ s[i] \in Nat /\ s[j - 1] \in Nat
        BY <1>2, <1>4, <3>1, <3>3, <4>1
      <4> QED BY <3>2, <4>1, <4>2
    <3>4. CASE i = n
      BY <1>5, <3>2, <3>4
    <3>5. CASE i > n
      <4>1. i - 1 \in 1 .. Len(s) /\ i - 1 < j - 1
        BY <1>2, <1>4, <1>8, <3>5
      <4>2. r[i] = s[i - 1]
        BY <1>2, <1>4, <1>5, <3>5
      <4>3. s[i - 1] < s[j - 1]
        BY <1>2, <1>3, <3>1, <4>1 DEF Ordered
      <4> QED BY <3>2, <4>2, <4>3
    <3> QED BY <1>2, <1>4, <3>3, <3>4, <3>5
  <2> QED BY <1>2, <1>4, <2>2, <2>3, <2>4
<1>9. Lists(r, set \cup {t})
  BY <1>5, <1>6, <1>7, <1>8 DEF Lists, Ordered
<1> QED BY <1>1, <1>9 DEF Inserted

\* r is s without its element at place n.
Drops(s, n, r) ==
  /\ r \in Seq(Nat) /\ Len(r) = Len(s) - 1
  /\ \A i \in 1 .. Len(s) - 1 : r[i] = IF i < n THEN s[i] ELSE s[i + 1]

\* An element removed at place n moves the later ones down.
LEMMA RemoveAtDrops ==
  ASSUME NEW s \in Seq(Nat), NEW n \in 1 .. Len(s), NEW r, r = RemoveAt(s, n)
  PROVE  Drops(s, n, r)
<1>1. PICK a, b : a = SubSeq(s, 1, n - 1) /\ b = SubSeq(s, n + 1, Len(s))
  OBVIOUS
<1>2. /\ a \in Seq(Nat) /\ Len(a) = n - 1 /\ \A i \in 1 .. n - 1 : a[i] = s[i]
      /\ b \in Seq(Nat) /\ Len(b) = Len(s) - n
      /\ \A i \in 1 .. Len(s) - n : b[i] = s[n + i]
  <2>1. Len(s) \in Nat /\ n - 1 \in Nat /\ \A i \in 1 .. Len(s) : s[i] \in Nat
    OBVIOUS
  <2>2. a \in Seq(Nat) /\ Len(a) = n - 1 /\ \A i \in 1 .. n - 1 : a[i] = s[i]
    BY <1>1, <2>1
  <2>3. b \in Seq(Nat) /\ Len(b) = Len(s) - n
    BY <1>1, <2>1
  <2>4. ASSUME NEW i \in 1 .. Len(s) - n PROVE b[i] = s[n + i]
    <3>1. n + 1 + i - 1 = n + i
      BY <2>1
    <3>2. b[i] = s[n + 1 + i - 1]
      BY <1>1, <2>1
    <3> QED BY <3>1, <3>2
  <2> QED BY <2>2, <2>3, <2>4
<1>3. r = a \o b
  BY <1>1 DEF RemoveAt
<1>4. /\ r \in Seq(Nat) /\ Len(r) = Len(a) + Len(b)
      /\ \A i \in 1 .. Len(a) + Len(b) :
           r[i] = IF i <= Len(a) THEN a[i] ELSE b[i - Len(a)]
  <2>1. /\ a \o b \in Seq(Nat) /\ Len(a \o b) = Len(a) + Len(b)
        /\ \A i \in 1 .. Len(a) + Len(b) :
             (a \o b)[i] = IF i <= Len(a) THEN a[i] ELSE b[i - Len(a)]
    BY <1>2, ConcatProperties
  <2> QED BY <1>3, <2>1
<1>5. Len(a) + Len(b) = Len(s) - 1
  BY <1>2
<1>6. ASSUME NEW i \in 1 .. Len(s) - 1 PROVE r[i] = IF i < n THEN s[i] ELSE s[i + 1]
  <2>1. CASE i < n
    <3>1. i \in 1 .. n - 1 /\ i <= Len(a)
      BY <1>2, <2>1
    <3> QED BY <1>2, <1>4, <1>5, <2>1, <3>1
  <2>2. CASE i >= n
    <3>1. /\ ~(i < n) /\ ~(i <= Len(a)) /\ i - Len(a) = i - n + 1
          /\ i - n + 1 \in 1 .. Len(s) - n /\ n + (i - n + 1) = i + 1
      BY <1>2, <2>2
    <3>2. r[i] = b[i - Len(a)]
      BY <1>4, <1>5, <3>1
    <3>3. b[i - n + 1] = s[n + (i - n + 1)]
      BY <1>2, <3>1
    <3>4. r[i] = s[i + 1]
      BY Zenon, <3>1, <3>2, <3>3
    <3> QED BY <3>1, <3>4
  <2> QED BY <2>1, <2>2
<1> QED BY <1>4, <1>5, <1>6 DEF Drops

\* Each type is in one place of an array that lists a set.
LEMMA OnePlace ==
  ASSUME NEW s, NEW set, Lists(s, set), NEW m \in 1 .. Len(s), NEW n \in 1 .. Len(s),
         s[m] = s[n]
  PROVE  m = n
<1>1. s \in Seq(Nat) /\ DOMAIN s = 1 .. Len(s) /\ Ordered(s)
  BY ListsHas DEF Lists
<1>2. s[m] \in Nat /\ s[n] \in Nat
  BY <1>1
<1>3. ~(m < n) /\ ~(n < m)
  BY <1>1, <1>2 DEF Ordered
<1> QED BY <1>3

\* RemoveAt keeps the order and takes one type out.
LEMMA RemovedLists ==
  ASSUME NEW s, NEW set, Lists(s, set), NEW n \in 1 .. Len(s)
  PROVE  Lists(RemoveAt(s, n), set \ {s[n]})
<1>1. PICK r : r = RemoveAt(s, n)
  OBVIOUS
<1>2. /\ s \in Seq(Nat) /\ Len(s) \in Nat /\ DOMAIN s = 1 .. Len(s)
      /\ \A m \in 1 .. Len(s) : s[m] \in Nat /\ s[m] \in set
      /\ \A u \in set : \E m \in 1 .. Len(s) : s[m] = u
  BY ListsHas
<1>3. Ordered(s)
  BY DEF Lists
<1>4. Drops(s, n, r)
  BY Zenon, <1>1, <1>2, RemoveAtDrops
<1>5. /\ r \in Seq(Nat) /\ Len(r) = Len(s) - 1 /\ DOMAIN r = 1 .. Len(s) - 1
      /\ \A i \in 1 .. Len(s) - 1 : r[i] = IF i < n THEN s[i] ELSE s[i + 1]
  BY <1>4 DEF Drops
<1>6. ToSet(r) = set \ {s[n]}
  <2>1. ASSUME NEW i \in 1 .. Len(s) - 1 PROVE r[i] \in set \ {s[n]}
    <3>1. CASE i < n
      <4>1. i \in 1 .. Len(s) /\ i # n
        BY <1>2, <3>1
      <4>2. r[i] = s[i]
        BY <1>5, <3>1
      <4> QED BY <1>2, <4>1, <4>2, OnePlace
    <3>2. CASE i >= n
      <4>1. i + 1 \in 1 .. Len(s) /\ i + 1 # n /\ r[i] = s[i + 1]
        BY <1>2, <1>5, <3>2
      <4> QED BY <1>2, <4>1, OnePlace
    <3> QED BY <1>2, <3>1, <3>2
  <2>2. ASSUME NEW u \in set, u # s[n] PROVE \E i \in 1 .. Len(s) - 1 : r[i] = u
    <3>1. PICK m \in 1 .. Len(s) : s[m] = u
      BY <1>2, <2>2
    <3>2. CASE m < n
      <4>1. m \in 1 .. Len(s) - 1
        BY <1>2, <3>2
      <4>2. r[m] = u
        BY <1>5, <3>1, <3>2, <4>1
      <4> QED BY <4>1, <4>2
    <3>3. CASE m > n
      <4>1. m - 1 \in 1 .. Len(s) - 1 /\ ~(m - 1 < n) /\ m - 1 + 1 = m
        BY <1>2, <3>3
      <4>2. r[m - 1] = u
        BY <1>5, <3>1, <4>1
      <4> QED BY <4>1, <4>2
    <3>4. m # n
      BY <2>2, <3>1
    <3> QED BY <1>2, <3>2, <3>3, <3>4
  <2>3. \A u \in set \ {s[n]} : \E i \in 1 .. Len(s) - 1 : r[i] = u
    BY <2>2
  <2>4. {r[i] : i \in 1 .. Len(s) - 1} = set \ {s[n]}
    <3>1. {r[i] : i \in 1 .. Len(s) - 1} \subseteq set \ {s[n]}
      BY <2>1
    <3>2. set \ {s[n]} \subseteq {r[i] : i \in 1 .. Len(s) - 1}
      BY Zenon, <2>3
    <3> QED BY <3>1, <3>2
  <2> QED BY Zenon, <1>5, <2>4 DEF ToSet
<1>7. ASSUME NEW i \in 1 .. Len(s) - 1, NEW j \in 1 .. Len(s) - 1, i < j
      PROVE  r[i] < r[j]
  <2>1. /\ i \in 1 .. Len(s) /\ i + 1 \in 1 .. Len(s)
        /\ j \in 1 .. Len(s) /\ j + 1 \in 1 .. Len(s)
    BY <1>2
  <2>2. /\ s[i] < s[j] /\ s[i] < s[j + 1] /\ s[i + 1] < s[j + 1]
    <3>1. i < j + 1 /\ i + 1 < j + 1
      BY <1>2, <1>7
    <3> QED BY <1>2, <1>3, <1>7, <2>1, <3>1 DEF Ordered
  <2>3. j < n => i < n
    BY <1>2, <1>7
  <2> QED BY <1>5, <2>2, <2>3
<1>8. Lists(r, set \ {s[n]})
  BY <1>5, <1>6, <1>7 DEF Lists, Ordered
<1> QED BY <1>1, <1>8

\* A type is at its lower bound if and only if it is listed.
LEMMA FoundAtLowerBound ==
  ASSUME NEW s, NEW set, Lists(s, set), NEW t \in Nat, NEW n, n = LowerBound(s, t)
  PROVE  (n <= Len(s) /\ s[n] = t) <=> t \in set
<1>1. /\ s \in Seq(Nat) /\ Len(s) \in Nat
      /\ \A m \in 1 .. Len(s) : s[m] \in Nat /\ s[m] \in set
      /\ \A u \in set : \E m \in 1 .. Len(s) : s[m] = u
  BY ListsHas
<1>2. Ordered(s)
  BY DEF Lists
<1>3. /\ n \in 1 .. Len(s) + 1
      /\ \A m \in 1 .. Len(s) : m < n => s[m] < t
      /\ \A m \in 1 .. Len(s) : n <= m => s[m] >= t
  BY <1>1, <1>2, LowerBoundSplits
<1>4. ASSUME n <= Len(s), s[n] = t PROVE t \in set
  <2>1. n \in 1 .. Len(s)
    BY <1>1, <1>3, <1>4
  <2> QED BY <1>1, <1>4, <2>1
<1>5. ASSUME t \in set PROVE n <= Len(s) /\ s[n] = t
  <2>1. PICK m \in 1 .. Len(s) : s[m] = t
    BY <1>1, <1>5
  <2>2. n <= m
    <3>1. ~(m < n)
      <4>1. ~(s[m] < t)
        BY <2>1
      <4> QED BY <1>3, <4>1
    <3> QED BY <1>1, <1>3, <3>1
  <2>3. n \in 1 .. Len(s) /\ s[n] >= t
    BY <1>1, <1>3, <2>2
  <2>4. n = m \/ s[n] < s[m]
    BY <1>1, <1>2, <2>2, <2>3 DEF Ordered
  <2> QED BY <1>1, <2>1, <2>3, <2>4
<1> QED BY <1>4, <1>5

-----------------------------------------------------------------------------
(* The type set *)

IInv == Lists(type_array, types) /\ MaskExact /\ types \subseteq Type

\* Types are numbers.
LEMMA TypesNat == Type \subseteq Nat /\ IsFiniteSet(Type)
BY TypeSetAssumption

LEMMA InitListed == Init => IInv
<1> SUFFICES ASSUME Init PROVE IInv
  OBVIOUS
<1>1. type_array = <<>> /\ mask = {} /\ types = {}
  BY DEF Init
<1>2. <<>> \in Seq(Nat) /\ DOMAIN <<>> = {}
  OBVIOUS
<1>3. Lists(type_array, types)
  BY <1>1, <1>2 DEF Lists, ToSet, Ordered
<1> QED BY <1>1, <1>3 DEF IInv, MaskExact

\* AddTypeId keeps array and mask exact.
LEMMA AddKeeps ==
  ASSUME IInv, NEW type \in Type, AddTypeId(type)
  PROVE  IInv'
<1>1. type \in Nat
  BY TypesNat
<1>2. (LowerBound(type_array, type) <= Len(type_array)
        /\ type_array[LowerBound(type_array, type)] = type) <=> type \in types
  BY <1>1, FoundAtLowerBound DEF IInv
<1>3. types' = types \cup {type}
  BY DEF AddTypeId
<1>4. CASE type \in types
  <2>1. type_array' = type_array /\ mask' = mask /\ types' = types
    BY <1>2, <1>3, <1>4 DEF AddTypeId
  <2> QED BY <2>1 DEF IInv, MaskExact
<1>5. CASE type \notin types
  <2>1. type_array' = Inserted(type, type_array) /\ mask' = mask \cup {FlagOf(type)}
    BY <1>2, <1>5 DEF AddTypeId, Insert, Inserted
  <2>2. Lists(type_array', types')
    BY <1>1, <1>3, <1>5, <2>1, InsertedLists DEF IInv
  <2>3. mask' = {FlagOf(t) : t \in types'}
    BY <1>3, <2>1 DEF IInv, MaskExact
  <2> QED BY <1>3, <2>2, <2>3 DEF IInv, MaskExact
<1> QED BY <1>4, <1>5

\* RemoveTypeId keeps array and mask exact.
LEMMA RemoveKeeps ==
  ASSUME IInv, NEW type \in Type, RemoveTypeId(type)
  PROVE  IInv'
<1>1. CASE PlacesOf(type) = {}
  BY <1>1 DEF RemoveTypeId, vars, IInv, MaskExact
<1>2. CASE PlacesOf(type) # {}
  <2>1. Take(type, type)
    BY <1>2 DEF RemoveTypeId
  <2>2. PICK n \in PlacesOf(type) : type_array' = RemoveAt(type_array, n)
    BY <2>1 DEF Take
  <2>3. /\ DOMAIN type_array = 1 .. Len(type_array)
        /\ \A m \in 1 .. Len(type_array) : type_array[m] \in types
        /\ \A t \in types : \E m \in 1 .. Len(type_array) : type_array[m] = t
    BY ListsHas DEF IInv
  <2>4. n \in 1 .. Len(type_array) /\ type_array[n] = type
    BY <2>2, <2>3 DEF PlacesOf
  <2>5. types' = types \ {type}
    BY <2>1 DEF Take
  <2>6. Lists(type_array', types')
    <3>1. Lists(RemoveAt(type_array, n), types \ {type_array[n]})
      BY <2>4, RemovedLists DEF IInv
    <3> QED BY <2>2, <2>4, <2>5, <3>1
  <2>7. SharesFlag(type) <=> \E t \in types : t # type /\ FlagOf(t) = FlagOf(type)
    BY <2>3 DEF SharesFlag
  <2>8. mask' = IF SharesFlag(type) THEN mask ELSE mask \ {FlagOf(type)}
    BY <2>1 DEF Take
  <2>9. mask' = {FlagOf(t) : t \in types'}
    <3>1. type \in types /\ mask = {FlagOf(t) : t \in types}
      BY <2>3, <2>4 DEF IInv, MaskExact
    <3>2. CASE SharesFlag(type)
      <4>1. PICK u \in types : u # type /\ FlagOf(u) = FlagOf(type)
        BY <2>7, <3>2
      <4>2. u \in types'
        BY <2>5, <4>1
      <4> QED BY <2>5, <2>8, <3>1, <3>2, <4>1, <4>2
    <3>3. CASE ~SharesFlag(type)
      BY <2>5, <2>7, <2>8, <3>1, <3>3
    <3> QED BY <3>2, <3>3
  <2> QED BY <2>5, <2>6, <2>9 DEF IInv, MaskExact
<1> QED BY <1>1, <1>2

-----------------------------------------------------------------------------
(* The sets queries are about *)

\* The array built from a set lists it.
LEMMA BuiltLists ==
  ASSUME NEW set, set \subseteq Type
  PROVE  /\ Lists(Built(set).array, set)
         /\ Built(set).mask = {FlagOf(t) : t \in set}
<1>1. IsFiniteSet(set) /\ set \subseteq Nat
  BY TypesNat, FS_Subset
<1>2. PICK g : Building!SetFolding(g, <<>>, set)
  <2>1. Building!IsFiniteSet(set)
    BY Zenon, <1>1 DEF IsFiniteSet, Building!IsFiniteSet
  <2> QED BY <2>1, Building!FoldSetSteps
<1>3. /\ g[{}] = <<>>
      /\ \A s \in SUBSET set : s # {} => \E x \in s : g[s] = Inserted(x, g[s \ {x}])
      /\ Building!SetFold(<<>>, set) = g[set]
  BY <1>2 DEF Building!SetFolding
<1> DEFINE K == {k \in Nat : \A s \in SUBSET set : Cardinality(s) = k => Lists(g[s], s)}
<1>4. 0 \in K
  <2>1. Lists(<<>>, {})
    <3>1. <<>> \in Seq(Nat) /\ DOMAIN <<>> = {}
      OBVIOUS
    <3> QED BY <3>1 DEF Lists, ToSet, Ordered
  <2>2. ASSUME NEW s \in SUBSET set, Cardinality(s) = 0 PROVE Lists(g[s], s)
    <3>1. IsFiniteSet(s)
      BY <1>1, FS_Subset
    <3>2. s = {}
      BY <2>2, <3>1, FS_EmptySet
    <3> QED BY <1>3, <2>1, <3>2
  <2> QED BY <2>2
<1>5. ASSUME NEW k \in Nat, k \in K PROVE k + 1 \in K
  <2>1. ASSUME NEW s \in SUBSET set, Cardinality(s) = k + 1 PROVE Lists(g[s], s)
    <3>1. IsFiniteSet(s)
      BY <1>1, FS_Subset
    <3>2. s # {}
      <4>1. k + 1 # 0
        OBVIOUS
      <4> QED BY <2>1, <3>1, <4>1, FS_EmptySet
    <3>3. PICK x \in s : g[s] = Inserted(x, g[s \ {x}])
      BY <1>3, <3>2
    <3>4. Cardinality(s \ {x}) = Cardinality(s) - 1
      BY <3>1, FS_RemoveElement
    <3>5. Lists(g[s \ {x}], s \ {x})
      <4>1. Cardinality(s \ {x}) = k /\ s \ {x} \in SUBSET set
        BY <2>1, <3>4
      <4> QED BY <1>5, <4>1
    <3>6. x \in Nat /\ x \notin s \ {x} /\ (s \ {x}) \cup {x} = s
      BY <1>1
    <3> QED BY <3>3, <3>5, <3>6, InsertedLists
  <2> QED BY <2>1
<1>6. Cardinality(set) \in Nat
  BY <1>1, FS_CardinalityType
<1>7. Cardinality(set) \in K
  <2> HIDE DEF K
  <2> QED BY <1>4, <1>5, <1>6, Building!NatSetInduction
<1>8. Lists(g[set], set)
  BY <1>7
<1>9. Built(set).array = g[set]
  <2>1. FoldSet(Inserted, <<>>, set) = Building!SetFold(<<>>, set)
    BY Zenon DEF FoldSet, Building!SetFold, MapThenFoldSet,
      Building!MapThenFoldSet
  <2>2. Built(set).array = FoldSet(Inserted, <<>>, set)
    BY DEF Built
  <2> QED BY <1>3, <2>1, <2>2
<1>10. Built(set).mask = {FlagOf(t) : t \in set}
  BY DEF Built
<1> QED BY <1>8, <1>9, <1>10

\* What a query is asked of: this set and another one, both as ordered arrays.
Ask(a, b, set) == IInv /\ set \subseteq Type /\ a = type_array /\ b = Built(set).array

LEMMA AskHas ==
  ASSUME NEW a, NEW b, NEW set, Ask(a, b, set)
  PROVE  /\ Lists(a, types) /\ Lists(b, set)
         /\ Len(a) \in Nat /\ Len(b) \in Nat /\ DOMAIN a = 1 .. Len(a) /\ DOMAIN b = 1 .. Len(b)
         /\ \A i \in 1 .. Len(a) : a[i] \in Nat /\ a[i] \in types
         /\ \A i \in 1 .. Len(b) : b[i] \in Nat /\ b[i] \in set
         /\ \A t \in types : \E i \in 1 .. Len(a) : a[i] = t
         /\ \A t \in set : \E i \in 1 .. Len(b) : b[i] = t
         /\ \A i, j \in 1 .. Len(a) : i < j => a[i] < a[j]
         /\ \A i, j \in 1 .. Len(b) : i < j => b[i] < b[j]
<1>1. Lists(a, types) /\ Lists(b, set)
  BY BuiltLists DEF Ask, IInv
<1>2. /\ Len(a) \in Nat /\ DOMAIN a = 1 .. Len(a)
      /\ \A i \in 1 .. Len(a) : a[i] \in Nat /\ a[i] \in types
      /\ \A t \in types : \E i \in 1 .. Len(a) : a[i] = t
  BY <1>1, ListsHas
<1>3. /\ Len(b) \in Nat /\ DOMAIN b = 1 .. Len(b)
      /\ \A i \in 1 .. Len(b) : b[i] \in Nat /\ b[i] \in set
      /\ \A t \in set : \E i \in 1 .. Len(b) : b[i] = t
  BY <1>1, ListsHas
<1> QED BY <1>1, <1>2, <1>3 DEF Lists, Ordered

\* The sets have no type in common if and only if the arrays have none.
LEMMA NoneInCommon ==
  ASSUME NEW a, NEW b, NEW set, Ask(a, b, set)
  PROVE  types \cap set = {} <=> \A i \in 1 .. Len(a), m \in 1 .. Len(b) : a[i] # b[m]
<1>1. /\ \A i \in 1 .. Len(a) : a[i] \in types
      /\ \A i \in 1 .. Len(b) : b[i] \in set
      /\ \A t \in types : \E i \in 1 .. Len(a) : a[i] = t
      /\ \A t \in set : \E i \in 1 .. Len(b) : b[i] = t
  BY AskHas
<1>2. ASSUME types \cap set = {}, NEW i \in 1 .. Len(a), NEW m \in 1 .. Len(b)
      PROVE  a[i] # b[m]
  <2>1. a[i] \in types /\ b[m] \in set
    BY <1>1
  <2> QED BY <1>2, <2>1
<1>3. ASSUME NEW t \in types, t \in set
      PROVE  \E i \in 1 .. Len(a), m \in 1 .. Len(b) : a[i] = b[m]
  <2>1. PICK i \in 1 .. Len(a) : a[i] = t
    BY <1>1
  <2>2. PICK m \in 1 .. Len(b) : b[m] = t
    BY <1>1, <1>3
  <2> QED BY <2>1, <2>2
<1> QED BY Zenon, <1>2, <1>3

\* Where the loop of Without(set) is after k turns.
Passed(a, b, walk, k) ==
  /\ walk \in [at : Nat, verdict : {"none", "true", "false"}, array : {b}]
  /\ walk.verdict = "none" =>
       /\ walk.at \in 1 .. Len(b)
       /\ \A i \in 1 .. k, m \in 1 .. Len(b) : a[i] # b[m]
       /\ \A m \in 1 .. Len(b), i \in k + 1 .. Len(a) : m < walk.at => b[m] < a[i]
  /\ walk.verdict = "true" => \A i \in 1 .. Len(a), m \in 1 .. Len(b) : a[i] # b[m]
  /\ walk.verdict = "false" => \E i \in 1 .. Len(a), m \in 1 .. Len(b) : a[i] = b[m]

\* A turn keeps it.
LEMMA PassStep ==
  ASSUME NEW a, NEW b, NEW set, Ask(a, b, set), NEW k \in 1 .. Len(a),
         NEW walk, Passed(a, b, walk, k - 1), NEW next, next = WithoutStep(walk, a[k])
  PROVE  Passed(a, b, next, k)
<1>1. /\ Len(a) \in Nat /\ Len(b) \in Nat
      /\ \A i \in 1 .. Len(a) : a[i] \in Nat
      /\ \A i \in 1 .. Len(b) : b[i] \in Nat
      /\ \A i, j \in 1 .. Len(a) : i < j => a[i] < a[j]
      /\ \A i, j \in 1 .. Len(b) : i < j => b[i] < b[j]
  BY AskHas
<1>2. /\ walk \in [at : Nat, verdict : {"none", "true", "false"}, array : {b}]
      /\ walk.array = b /\ k \in Nat /\ a[k] \in Nat
  BY <1>1 DEF Passed
<1> DEFINE later == {n \in walk.at .. Len(b) : b[n] >= a[k]}
<1>3. CASE walk.verdict # "none"
  <2>1. next = walk
    BY <1>3 DEF WithoutStep
  <2> QED BY <1>3, <2>1 DEF Passed
<1>4. CASE walk.verdict = "none"
  <2>1. /\ walk.at \in 1 .. Len(b)
        /\ \A i \in 1 .. k - 1, m \in 1 .. Len(b) : a[i] # b[m]
        /\ \A m \in 1 .. Len(b), i \in k - 1 + 1 .. Len(a) : m < walk.at => b[m] < a[i]
    BY <1>4 DEF Passed
  <2>2. \A m \in 1 .. Len(b) : m < walk.at => b[m] < a[k]
    BY <1>1, <1>2, <2>1
  <2>3. CASE later = {}
    <3>1. next = [walk EXCEPT !.verdict = "true"]
      BY <1>2, <1>4, <2>3 DEF WithoutStep
    <3>2. ASSUME NEW m \in 1 .. Len(b) PROVE b[m] < a[k]
      <4>1. CASE m < walk.at
        BY <2>2, <4>1
      <4>2. CASE m >= walk.at
        <5>1. m \in walk.at .. Len(b)
          BY <1>1, <2>1, <4>2
        <5>2. ~(b[m] >= a[k])
          BY <2>3, <5>1
        <5> QED BY <1>1, <1>2, <5>2
      <4> QED BY <1>1, <2>1, <4>1, <4>2
    <3>3. ASSUME NEW i \in 1 .. Len(a), NEW m \in 1 .. Len(b) PROVE a[i] # b[m]
      <4>1. CASE i < k
        <5>1. i \in 1 .. k - 1
          BY <1>1, <4>1
        <5> QED BY <2>1, <5>1
      <4>2. CASE i = k
        BY <1>1, <1>2, <3>2, <4>2
      <4>3. CASE i > k
        <5>1. a[k] < a[i]
          BY <1>1, <4>3
        <5> QED BY <1>1, <1>2, <3>2, <5>1
      <4> QED BY <1>1, <4>1, <4>2, <4>3
    <3>4. /\ next \in [at : Nat, verdict : {"none", "true", "false"}, array : {b}]
          /\ next.verdict = "true"
      BY <1>2, <3>1
    <3> QED BY <3>3, <3>4 DEF Passed
  <2>4. CASE later # {}
    <3>1. PICK at \in later : \A m \in later : at <= m
      <4>1. later \subseteq Nat
        BY <1>1, <2>1
      <4> HIDE DEF later
      <4> QED BY <2>4, <4>1, Passing!NatLeast
    <3>2. at = CHOOSE n \in later : \A m \in later : n <= m
      <4>1. later \subseteq Nat
        BY <1>1, <2>1
      <4> HIDE DEF later
      <4>2. \A n \in later : (\A m \in later : n <= m) => n = at
        BY <3>1, <4>1
      <4> QED BY <3>1, <4>2
    <3>3. next = [walk EXCEPT !.at = at, !.verdict = IF b[at] = a[k] THEN "false" ELSE "none"]
      BY <1>2, <1>4, <2>4, <3>2 DEF WithoutStep
    <3>4. at \in 1 .. Len(b) /\ at \in Nat /\ at >= walk.at /\ b[at] >= a[k] /\ b[at] \in Nat
      BY <1>1, <2>1, <3>1
    <3>5. \A m \in 1 .. Len(b) : m < at => b[m] < a[k]
      <4> SUFFICES ASSUME NEW m \in 1 .. Len(b), m < at PROVE b[m] < a[k]
        OBVIOUS
      <4>1. CASE m < walk.at
        BY <2>2, <4>1
      <4>2. CASE m >= walk.at
        <5>1. m \in walk.at .. Len(b)
          BY <1>1, <2>1, <4>2
        <5>2. ~(b[m] >= a[k])
          <6>1. b[m] >= a[k] => m \in later
            BY <5>1
          <6>2. m \in later => at <= m
            BY <3>1
          <6> QED BY <1>1, <3>4, <6>1, <6>2
        <5> QED BY <1>1, <1>2, <5>2
      <4> QED BY <1>1, <2>1, <4>1, <4>2
    <3>6. /\ next \in [at : Nat, verdict : {"none", "true", "false"}, array : {b}]
          /\ next.at = at /\ next.verdict = IF b[at] = a[k] THEN "false" ELSE "none"
      BY <1>2, <3>3, <3>4
    <3>7. CASE b[at] = a[k]
      <4>1. next.verdict = "false" /\ \E i \in 1 .. Len(a), m \in 1 .. Len(b) : a[i] = b[m]
        BY <3>4, <3>6, <3>7
      <4> QED BY <3>6, <4>1 DEF Passed
    <3>8. CASE b[at] # a[k]
      <4>1. next.verdict = "none"
        BY <3>6, <3>8
      <4>2. ASSUME NEW i \in 1 .. k, NEW m \in 1 .. Len(b) PROVE a[i] # b[m]
        <5>1. CASE i < k
          <6>1. i \in 1 .. k - 1
            BY <1>1, <5>1
          <6> QED BY <2>1, <6>1
        <5>2. CASE i = k
          <6>1. m < at => b[m] < a[k]
            BY <3>5
          <6>2. m >= at => b[m] > a[k]
            <7>1. m >= at => m = at \/ b[at] < b[m]
              BY <1>1, <3>4
            <7> QED BY <1>1, <1>2, <3>4, <3>8, <7>1
          <6> QED BY <1>1, <1>2, <3>4, <5>2, <6>1, <6>2
        <5> QED BY <1>1, <5>1, <5>2
      <4>3. ASSUME NEW m \in 1 .. Len(b), NEW i \in k + 1 .. Len(a), m < at PROVE b[m] < a[i]
        <5>1. b[m] < a[k]
          BY <3>5, <4>3
        <5>2. i \in 1 .. Len(a) /\ k < i
          BY <1>1
        <5>3. a[k] < a[i]
          BY <1>1, <5>2
        <5> QED BY SMTT(30), <1>1, <1>2, <5>1, <5>2, <5>3
      <4> QED BY <3>4, <3>6, <4>1, <4>2, <4>3 DEF Passed
    <3> QED BY <3>7, <3>8
  <2> QED BY <2>3, <2>4
<1> QED BY <1>3, <1>4

\* Where the loop ends.
LEMMA PassEnds ==
  ASSUME NEW a, NEW b, NEW set, Ask(a, b, set), a # <<>>, b # <<>>,
         NEW start, start = [at |-> 1, verdict |-> "none", array |-> b],
         NEW last, last = FoldLeft(WithoutStep, start, a)
  PROVE  Passed(a, b, last, Len(a))
<1>1. Len(a) \in Nat /\ DOMAIN a = 1 .. Len(a) /\ Len(b) \in Nat
  BY AskHas
<1>2. b \in Seq(Nat)
  BY AskHas, ListsHas
<1>3. PICK g : Passing!Folding(g, start, a, Len(a))
  <2>1. Passing!HasLength(a, Len(a))
    BY <1>1 DEF Passing!HasLength
  <2> QED BY <2>1, Passing!FoldSteps
<1>4. /\ g[0] = start
      /\ \A k \in 1 .. Len(a) : g[k] = WithoutStep(g[k - 1], a[k])
      /\ Passing!Fold(start, a) = g[Len(a)]
  BY <1>3 DEF Passing!Folding
<1> DEFINE K == {k \in 0 .. Len(a) : Passed(a, b, g[k], k)}
<1>5. 0 \in K
  <2>1. Len(b) >= 1
    BY <1>1, <1>2
  <2>2. /\ start \in [at : Nat, verdict : {"none", "true", "false"}, array : {b}]
        /\ start.at = 1 /\ start.verdict = "none"
    OBVIOUS
  <2>3. Passed(a, b, start, 0)
    BY <1>1, <2>1, <2>2 DEF Passed
  <2> QED BY <1>1, <1>4, <2>3
<1>6. ASSUME NEW k \in 1 .. Len(a), k - 1 \in K PROVE k \in K
  <2>1. Passed(a, b, g[k - 1], k - 1) /\ g[k] = WithoutStep(g[k - 1], a[k])
    BY <1>4, <1>6
  <2>2. Passed(a, b, g[k], k)
    BY Zenon, <2>1, PassStep
  <2> QED BY <1>1, <2>2
<1>7. Len(a) \in K
  <2> HIDE DEF K
  <2>1. 0 .. Len(a) \subseteq K
    BY <1>1, <1>5, <1>6, Passing!RangeInduction
  <2> QED BY <1>1, <2>1
<1>8. last = g[Len(a)]
  <2>1. FoldLeft(WithoutStep, start, a) = Passing!Fold(start, a)
    BY Zenon DEF Passing!Fold, FoldLeft, MapThenFoldSet,
      Passing!MapThenFoldSet, Max, Passing!Highest
  <2> QED BY <1>4, <2>1
<1> QED BY <1>7, <1>8

\* Without(set) says whether the sets have no type in common.
LEMMA WithoutIsExact == IInv => WithoutSetExact
<1> SUFFICES ASSUME IInv, NEW set \in SUBSET Type
             PROVE  WithoutSet(Built(set)) <=> types \cap set = {}
  BY DEF WithoutSetExact
<1>1. PICK a, b : a = type_array /\ b = Built(set).array
  OBVIOUS
<1>2. Ask(a, b, set)
  BY <1>1 DEF Ask
<1>3. PICK start, last : /\ start = [at |-> 1, verdict |-> "none", array |-> b]
                         /\ last = FoldLeft(WithoutStep, start, a)
  OBVIOUS
<1>4. WithoutSet(Built(set)) <=> a = <<>> \/ b = <<>> \/ last.verdict # "false"
  BY <1>1, <1>3 DEF WithoutSet
<1>5. types \cap set = {} <=> \A i \in 1 .. Len(a), m \in 1 .. Len(b) : a[i] # b[m]
  BY <1>2, NoneInCommon
<1>6. CASE a = <<>> \/ b = <<>>
  BY <1>4, <1>5, <1>6
<1>7. CASE a # <<>> /\ b # <<>>
  <2>1. Passed(a, b, last, Len(a))
    BY <1>2, <1>3, <1>7, PassEnds
  <2>2. Len(a) \in Nat
    BY <1>2, AskHas
  <2>3. last.verdict = "none" => \A i \in 1 .. Len(a), m \in 1 .. Len(b) : a[i] # b[m]
    BY <2>1 DEF Passed
  <2>4. last.verdict = "true" => \A i \in 1 .. Len(a), m \in 1 .. Len(b) : a[i] # b[m]
    BY <2>1 DEF Passed
  <2>5. last.verdict = "false" => \E i \in 1 .. Len(a), m \in 1 .. Len(b) : a[i] = b[m]
    BY <2>1 DEF Passed
  <2>6. last.verdict \in {"none", "true", "false"}
    BY <2>1 DEF Passed
  <2> QED BY Zenon, <1>4, <1>5, <1>7, <2>3, <2>4, <2>5, <2>6
<1> QED BY <1>6, <1>7

\* With(type_id) finds a type if and only if it is there.
LEMMA WithTypeIsExact == IInv => WithTypeExact
<1> SUFFICES ASSUME IInv, NEW type \in Type PROVE WithType(type) <=> type \in types
  BY DEF WithTypeExact
<1>1. type \in Nat
  BY TypesNat
<1>2. PICK n : n = LowerBound(type_array, type)
  OBVIOUS
<1>3. (n <= Len(type_array) /\ type_array[n] = type) <=> type \in types
  BY <1>1, <1>2, FoundAtLowerBound DEF IInv
<1>4. WithType(type) <=>
        FlagOf(type) \in mask /\ n <= Len(type_array) /\ type_array[n] = type
  BY <1>2 DEF WithType
<1>5. type \in types => FlagOf(type) \in mask
  BY DEF IInv, MaskExact
<1> QED BY <1>3, <1>4, <1>5

\* g[k] is the walk of With(set) after k turns of its loop.
Walks(a, b, past, g, last) ==
  /\ g[0] = [at |-> 1, going |-> TRUE, array |-> b, past |-> past]
  /\ \A k \in 1 .. Len(a) : g[k] = WithStep(g[k - 1], a[k])
  /\ last = g[Len(a)]

LEMMA WalkExists ==
  ASSUME NEW a, NEW b, NEW set, Ask(a, b, set), NEW past,
         NEW last, last = WithLoopEnd(b, past)
  PROVE  \E g : Walks(a, b, past, g, last)
<1>1. DOMAIN a = 1 .. Len(a) /\ Len(a) \in Nat /\ a = type_array
  BY AskHas DEF Ask
<1>2. PICK start : start = [at |-> 1, going |-> TRUE, array |-> b, past |-> past]
  OBVIOUS
<1>3. PICK g : Matching!Folding(g, start, a, Len(a))
  <2>1. Matching!HasLength(a, Len(a))
    BY <1>1 DEF Matching!HasLength
  <2> QED BY <2>1, Matching!FoldSteps
<1>4. last = Matching!Fold(start, a)
  <2>1. FoldLeft(WithStep, start, a) = Matching!Fold(start, a)
    BY Zenon DEF Matching!Fold, FoldLeft, MapThenFoldSet,
      Matching!MapThenFoldSet, Max, Matching!Highest
  <2>2. last = FoldLeft(WithStep, start, a)
    BY <1>1, <1>2 DEF WithLoopEnd
  <2> QED BY <2>1, <2>2
<1>5. Walks(a, b, past, g, last)
  BY <1>2, <1>3, <1>4 DEF Walks, Matching!Folding
<1> QED BY <1>5

WalkType(b, past) == [at : Nat \ {0}, going : BOOLEAN, array : {b}, past : {past}]

\* A turn of the loop of With(set) that is not over, in its fields.
LEMMA TurnFields ==
  ASSUME NEW b, NEW past, NEW walk \in WalkType(b, past), walk.going, NEW type \in Nat,
         NEW read \in Nat, read = IF walk.at <= Len(b) THEN b[walk.at] ELSE past,
         NEW next, next = WithStep(walk, type)
  PROVE  /\ next \in WalkType(b, past) /\ (next.going <=> type <= read)
         /\ next.at = IF type = read THEN walk.at + 1 ELSE walk.at
<1>1. walk.array = b /\ walk.past = past /\ walk.at \in Nat \ {0}
  BY DEF WalkType
<1>2. PICK go : go = (type <= read)
  OBVIOUS
<1>3. PICK to : to = IF type = read THEN walk.at + 1 ELSE walk.at
  OBVIOUS
<1>4. go \in BOOLEAN /\ (go <=> type <= read)
  <2>1. (type <= read) \in BOOLEAN
    OBVIOUS
  <2> QED BY Zenon, <1>2, <2>1
<1>5. next = [walk EXCEPT !.at = to, !.going = go]
  <2>1. read = IF walk.at <= Len(walk.array) THEN walk.array[walk.at] ELSE walk.past
    BY <1>1
  <2> QED BY Zenon, <1>2, <1>3, <2>1 DEF WithStep
<1>6. to \in Nat \ {0}
  BY <1>1, <1>3
<1>7. next \in WalkType(b, past) /\ next.at = to /\ next.going = go
  BY <1>4, <1>5, <1>6 DEF WalkType
<1> QED BY Zenon, <1>3, <1>4, <1>7

\* What has been matched is there.
Matched(a, b, past, walk) ==
  /\ walk \in WalkType(b, past)
  /\ \A m \in 1 .. Len(b) : m < walk.at => \E i \in 1 .. Len(a) : a[i] = b[m]

LEMMA MatchStep ==
  ASSUME NEW a, NEW b, NEW set, Ask(a, b, set), NEW past \in Nat, NEW k \in 1 .. Len(a),
         NEW walk, Matched(a, b, past, walk), NEW next, next = WithStep(walk, a[k])
  PROVE  Matched(a, b, past, next)
<1>1. Len(a) \in Nat /\ Len(b) \in Nat /\ a[k] \in Nat
  BY AskHas
<1>2. walk \in WalkType(b, past) /\ walk.array = b /\ walk.at \in Nat \ {0}
  BY DEF Matched, WalkType
<1>3. CASE ~walk.going
  <2>1. next = walk
    BY <1>3 DEF WithStep
  <2> QED BY <2>1
<1>4. CASE walk.going
  <2>1. PICK read : read = IF walk.at <= Len(b) THEN b[walk.at] ELSE walk.past
    OBVIOUS
  <2>2. walk.past = past /\ read \in Nat
    <3>1. walk.past = past
      BY <1>2 DEF WalkType
    <3>2. walk.at <= Len(b) => b[walk.at] \in Nat
      <4>1. \A m \in 1 .. Len(b) : b[m] \in Nat
        BY AskHas
      <4> QED BY <1>1, <1>2, <4>1
    <3> QED BY <2>1, <3>1, <3>2
  <2>3. next.at = IF a[k] = read THEN walk.at + 1 ELSE walk.at
    BY <1>1, <1>2, <1>4, <2>1, <2>2, TurnFields
  <2>4. next \in WalkType(b, past)
    BY <1>1, <1>2, <1>4, <2>1, <2>2, TurnFields
  <2>5. ASSUME NEW m \in 1 .. Len(b), m < next.at PROVE \E i \in 1 .. Len(a) : a[i] = b[m]
    <3>1. CASE m < walk.at
      BY <3>1 DEF Matched
    <3>2. CASE ~(m < walk.at)
      <4>1. a[k] = read /\ m = walk.at
        BY <1>2, <2>3, <2>5, <3>2
      <4>2. a[k] = b[m]
        BY <2>1, <4>1
      <4> QED BY <4>2
    <3> QED BY <3>1, <3>2
  <2> QED BY <2>4, <2>5 DEF Matched
<1> QED BY <1>3, <1>4

\* With(set) accepts only a subset.
LEMMA WithAcceptsSubsets ==
  ASSUME IInv, NEW set \in SUBSET Type, NEW past \in Nat, WithSet(Built(set), past)
  PROVE  set \subseteq types
<1>1. PICK a, b, last : /\ a = type_array /\ b = Built(set).array
                        /\ last = WithLoopEnd(b, past)
  OBVIOUS
<1>2. Ask(a, b, set)
  BY <1>1 DEF Ask
<1>3. /\ Len(a) \in Nat /\ Len(b) \in Nat
      /\ \A i \in 1 .. Len(a) : a[i] \in types
      /\ \A t \in set : \E i \in 1 .. Len(b) : b[i] = t
  BY <1>2, AskHas
<1>4. b = <<>> \/ last.at = Len(b) + 1
  BY <1>1 DEF WithSet, WithLoop
<1>5. CASE b = <<>>
  BY <1>3, <1>5
<1>6. CASE last.at = Len(b) + 1
  <2>1. PICK g : Walks(a, b, past, g, last)
    BY <1>1, <1>2, WalkExists
  <2> DEFINE K == {k \in 0 .. Len(a) : Matched(a, b, past, g[k])}
  <2>2. 0 \in K
    <3>1. g[0] = [at |-> 1, going |-> TRUE, array |-> b, past |-> past]
      BY <2>1 DEF Walks
    <3>2. Matched(a, b, past, g[0])
      BY <1>3, <3>1 DEF Matched, WalkType
    <3> QED BY <1>3, <3>2
  <2>3. ASSUME NEW k \in 1 .. Len(a), k - 1 \in K PROVE k \in K
    <3>1. Matched(a, b, past, g[k - 1]) /\ g[k] = WithStep(g[k - 1], a[k])
      BY <2>1, <2>3 DEF Walks
    <3>2. Matched(a, b, past, g[k])
      BY Zenon, <1>2, <3>1, MatchStep
    <3> QED BY <1>3, <3>2
  <2>4. Len(a) \in K
    <3> HIDE DEF K
    <3>1. 0 .. Len(a) \subseteq K
      BY <1>3, <2>2, <2>3, Matching!RangeInduction
    <3> QED BY <1>3, <3>1
  <2>5. Matched(a, b, past, last)
    BY <2>1, <2>4 DEF Walks
  <2>6. \A m \in 1 .. Len(b) : b[m] \in types
    BY <1>3, <1>6, <2>5 DEF Matched
  <2> QED BY <1>3, <2>6
<1> QED BY <1>4, <1>5, <1>6

\* The walk over an array that has all types of set, the greatest among them,
\* never stops: what has not been matched is greater than what has been seen.
Walking(a, b, past, walk, k) ==
  /\ walk \in WalkType(b, past) /\ walk.going /\ walk.at <= Len(b) + 1 /\ walk.at <= k + 1
  /\ \A m \in 1 .. Len(b), i \in 1 .. k : walk.at <= m => a[i] < b[m]
  /\ k < Len(a) => walk.at <= Len(b)
  /\ k = Len(a) => walk.at = Len(b) + 1

LEMMA WalkStep ==
  ASSUME NEW a, NEW b, NEW set, Ask(a, b, set), set \subseteq types,
         NEW t \in set, \A u \in types : u <= t,
         NEW past \in Nat, NEW k \in 1 .. Len(a), NEW walk, Walking(a, b, past, walk, k - 1),
         NEW next, next = WithStep(walk, a[k])
  PROVE  Walking(a, b, past, next, k)
<1>1. /\ Len(a) \in Nat /\ Len(b) \in Nat
      /\ \A i \in 1 .. Len(a) : a[i] \in Nat /\ a[i] \in types
      /\ \A i \in 1 .. Len(b) : b[i] \in Nat /\ b[i] \in set
      /\ \A u \in types : \E i \in 1 .. Len(a) : a[i] = u
      /\ \A u \in set : \E i \in 1 .. Len(b) : b[i] = u
  BY AskHas
<1>2. /\ \A i, j \in 1 .. Len(a) : i < j => a[i] < a[j]
      /\ \A i, j \in 1 .. Len(b) : i < j => b[i] < b[j]
  BY AskHas
<1>3. /\ walk \in WalkType(b, past) /\ walk.array = b /\ walk.at \in Nat \ {0}
      /\ walk.going /\ walk.at <= k
      /\ \A m \in 1 .. Len(b), i \in 1 .. k - 1 : walk.at <= m => a[i] < b[m]
  BY DEF Walking, WalkType
<1>4. PICK at \in 1 .. Len(b) : at = walk.at
  <2>1. k - 1 < Len(a)
    BY <1>1
  <2>2. walk.at <= Len(b)
    BY <2>1 DEF Walking
  <2> QED BY <1>1, <1>3, <2>2
<1>5. a[k] \in Nat /\ b[at] \in Nat /\ a[k] \in types /\ b[at] \in set
  BY <1>1
<1>6. a[k] <= b[at]
  <2>1. PICK j \in 1 .. Len(a) : a[j] = b[at]
    BY <1>1, <1>5
  <2>2. ~(j < k)
    <3>1. j < k => j \in 1 .. k - 1
      BY <1>1
    <3>2. j \in 1 .. k - 1 => a[j] < b[at]
      BY <1>3, <1>4
    <3> QED BY <1>5, <2>1, <3>1, <3>2
  <2>3. j = k \/ k < j
    BY <1>1, <2>2
  <2>4. k < j => a[k] < a[j]
    BY <1>2
  <2> QED BY <1>5, <2>1, <2>3, <2>4
<1>8. /\ next \in WalkType(b, past) /\ (next.going <=> a[k] <= b[at])
      /\ next.at = IF a[k] = b[at] THEN at + 1 ELSE at
  <2>1. b[at] = IF walk.at <= Len(b) THEN b[walk.at] ELSE past
    BY <1>1, <1>4
  <2> QED BY <1>3, <1>4, <1>5, <2>1, TurnFields
<1>9. next.going
  BY <1>6, <1>8
<1>10. /\ next.at \in 1 .. Len(b) + 1 /\ next.at <= k + 1 /\ at <= next.at
  <2>1. /\ at \in 1 .. Len(b) /\ at <= k /\ k \in Nat /\ Len(b) \in Nat
        /\ (next.at = at + 1 \/ next.at = at)
    BY <1>1, <1>3, <1>4, <1>8
  <2> QED BY <2>1
<1>11. ASSUME NEW m \in 1 .. Len(b), NEW i \in 1 .. k, next.at <= m PROVE a[i] < b[m]
  <2>1. CASE i < k
    <3>1. i \in 1 .. k - 1 /\ walk.at <= m
      BY <1>1, <1>4, <1>10, <1>11, <2>1
    <3> QED BY <1>3, <3>1
  <2>2. CASE i = k
    <3>1. b[m] \in Nat
      BY <1>1
    <3>2. at < m => b[at] < b[m]
      BY <1>2
    <3>3. CASE a[k] = b[at]
      <4>1. at < m
        BY <1>1, <1>8, <1>11, <3>3
      <4> QED BY <2>2, <3>2, <3>3, <4>1
    <3>4. CASE a[k] # b[at]
      <4>1. at = m \/ at < m
        BY <1>1, <1>10, <1>11
      <4>2. a[k] < b[at]
        BY <1>5, <1>6, <3>4
      <4> QED BY <1>5, <2>2, <3>1, <3>2, <4>1, <4>2
    <3> QED BY <3>3, <3>4
  <2> QED BY <1>1, <2>1, <2>2
<1>12. PICK p \in 1 .. Len(b) : b[p] = t
  BY <1>1
<1>13. ASSUME k < Len(a) PROVE next.at <= Len(b)
  <2>1. a[k] < t
    <3>1. k \in 1 .. Len(a) /\ Len(a) \in 1 .. Len(a)
      BY <1>1
    <3>2. a[k] < a[Len(a)] /\ a[Len(a)] \in Nat /\ a[Len(a)] <= t
      BY <1>1, <1>2, <1>13, <3>1
    <3>3. t \in Nat
      BY <1>1, <1>12
    <3> QED BY <1>5, <3>2, <3>3
  <2>2. CASE a[k] = b[at]
    <3>1. ~(p <= at)
      <4>1. p # at
        BY <1>12, <2>1, <2>2, <1>5
      <4>2. p < at => b[p] < b[at]
        BY <1>2
      <4>3. ~(b[p] < b[at])
        BY <1>5, <1>12, <2>1, <2>2, <1>1
      <4> QED BY <1>1, <4>1, <4>2, <4>3
    <3> QED BY <1>1, <1>8, <2>2, <3>1
  <2>3. CASE a[k] # b[at]
    BY <1>1, <1>8, <2>3
  <2> QED BY <2>2, <2>3
<1>14. ASSUME k = Len(a) PROVE next.at = Len(b) + 1
  <2>1. PICK l \in 1 .. Len(a) : a[l] = t
    BY <1>1
  <2>2. a[k] = t
    <3>1. l = k \/ l < k
      BY <1>1, <1>14
    <3>2. l < k => a[l] < a[k]
      BY <1>2
    <3>3. a[k] <= t
      BY <1>5
    <3>4. a[l] \in Nat
      BY <1>1
    <3> QED BY <1>5, <2>1, <3>1, <3>2, <3>3, <3>4
  <2>3. a[k] = b[at]
    <3>1. b[at] <= t
      BY <1>5
    <3> QED BY <1>5, <1>6, <2>2, <3>1
  <2>4. ~(at < Len(b))
    <3>1. at < Len(b) => at + 1 \in 1 .. Len(b) /\ at < at + 1
      BY <1>1
    <3>2. at + 1 \in 1 .. Len(b) /\ at < at + 1 => b[at] < b[at + 1]
      BY <1>2
    <3>3. at + 1 \in 1 .. Len(b) => b[at + 1] \in Nat /\ b[at + 1] \in types
      BY <1>1
    <3>4. b[at + 1] \in types => b[at + 1] <= t
      OBVIOUS
    <3> QED BY <1>5, <2>2, <2>3, <3>1, <3>2, <3>3, <3>4
  <2> QED BY <1>1, <1>8, <2>3, <2>4
<1> QED BY <1>1, <1>8, <1>9, <1>10, <1>11, <1>13, <1>14 DEF Walking

\* With(set) accepts a subset that has the greatest type of this set.
LEMMA WithAcceptsGreatest ==
  ASSUME IInv, NEW set \in SUBSET Type, set \subseteq types,
         NEW t \in set, \A u \in types : u <= t, NEW past \in Nat
  PROVE  WithSet(Built(set), past)
<1>1. PICK a, b, last : /\ a = type_array /\ b = Built(set).array
                        /\ last = WithLoopEnd(b, past)
  OBVIOUS
<1>2. Ask(a, b, set)
  BY <1>1 DEF Ask
<1>3. /\ Len(a) \in Nat /\ Len(b) \in Nat
      /\ \E i \in 1 .. Len(a) : a[i] = t
      /\ \E i \in 1 .. Len(b) : b[i] = t
  BY <1>2, AskHas
<1>4. PICK g : Walks(a, b, past, g, last)
  BY <1>1, <1>2, WalkExists
<1> DEFINE K == {k \in 0 .. Len(a) : Walking(a, b, past, g[k], k)}
<1>5. 0 \in K
  <2>1. g[0] = [at |-> 1, going |-> TRUE, array |-> b, past |-> past]
    BY <1>4 DEF Walks
  <2>2. 1 <= Len(b) /\ 0 < Len(a)
    BY <1>3
  <2>3. Walking(a, b, past, g[0], 0)
    BY <1>3, <2>1, <2>2 DEF Walking, WalkType
  <2> QED BY <1>3, <2>3
<1>6. ASSUME NEW k \in 1 .. Len(a), k - 1 \in K PROVE k \in K
  <2>1. Walking(a, b, past, g[k - 1], k - 1) /\ g[k] = WithStep(g[k - 1], a[k])
    BY <1>4, <1>6 DEF Walks
  <2>2. Walking(a, b, past, g[k], k)
    BY Zenon, <1>2, <2>1, WalkStep
  <2> QED BY <1>3, <2>2
<1>7. Len(a) \in K
  <2> HIDE DEF K
  <2>1. 0 .. Len(a) \subseteq K
    BY <1>3, <1>5, <1>6, Matching!RangeInduction
  <2> QED BY <1>3, <2>1
<1>8. Walking(a, b, past, last, Len(a))
  BY <1>4, <1>7 DEF Walks
<1>9. last.going /\ last.at = Len(b) + 1 /\ Len(b) <= Len(a)
  BY <1>3, <1>8 DEF Walking
<1>10. Built(set).mask \subseteq mask
  BY BuiltLists DEF IInv, MaskExact
<1> QED BY <1>1, <1>9, <1>10 DEF WithSet, WithLoop

\* With(set) answers as it should where it answers for certain.
LEMMA WithIsSound == IInv => WithSetSound
BY WithAcceptsSubsets, WithAcceptsGreatest, TypesNat DEF WithSetSound

-----------------------------------------------------------------------------
(* Inductive steps of the type set alone *)

\* Every step of a type set keeps array and mask exact.
LEMMA IInvInductive == IInv /\ [Next]_vars => IInv'
<1> SUFFICES ASSUME IInv, [Next]_vars PROVE IInv'
  OBVIOUS
<1>1. CASE UNCHANGED vars
  BY <1>1 DEF IInv, MaskExact, vars
<1>2. CASE Next
  <2>1. PICK type \in Type : AddTypeId(type) \/ RemoveTypeId(type)
    BY <1>2 DEF Next
  <2> QED BY <2>1, AddKeeps, RemoveKeeps
<1> QED BY <1>1, <1>2

-----------------------------------------------------------------------------
(* The descriptor *)

\* How far the constructor has come through its list: the components before
\* iter are there once, and the type set has them.
Read ==
  /\ listed = ToSet(component_id_array) /\ component_id_array # <<>>
  /\ iter \in 1 .. Len(component_id_array) + 1
  /\ types = {component_id_array[n] : n \in 1 .. iter - 1}
  /\ \A m, n \in 1 .. iter - 1 : component_id_array[m] = component_id_array[n] => m = n

\* The components of a row of this size do not overlap.
RowMap(map, size) ==
  /\ size \in Nat /\ DOMAIN map \subseteq Component
  /\ \A t \in DOMAIN map :
       map[t] \in Nat /\ map[t] % AlignOf(t) = 0 /\ map[t] + SizeOf(t) <= size
  /\ \A s, t \in DOMAIN map :
       s # t => map[s] + SizeOf(s) <= map[t] \/ map[t] + SizeOf(t) <= map[s]

LaidOut(map, size) ==
  /\ DOMAIN map = listed /\ listed # {} /\ RowMap(map, size)
  /\ \A t \in listed : size % AlignOf(t) = 0

ListInv ==
  /\ component_id_array \in Seq(Component) /\ iter \in Nat /\ bytes \in Nat
  /\ iter = 0 => component_id_array = <<>> /\ layout = <<>>
  /\ iter # 0 => Read
  /\ layout # <<>> => iter = Len(component_id_array) + 1
  /\ layout = <<>> => bytes = 0

LayoutInv == layout # <<>> => LaidOut(layout.offset_map, layout.size)

DInv == IInv /\ ListInv /\ LayoutInv

LEMMA InitDescribed == DescriptorInit => DInv
<1> SUFFICES ASSUME DescriptorInit PROVE DInv
  OBVIOUS
<1>1. component_id_array = <<>> /\ iter = 0 /\ layout = <<>> /\ bytes = 0 /\ Init
  BY DEF DescriptorInit, NoDescriptor
<1>2. IInv
  BY <1>1, InitListed
<1>3. <<>> \in Seq(Component)
  OBVIOUS
<1> QED BY <1>1, <1>2, <1>3 DEF DInv, ListInv, LayoutInv

\* The type set's own steps, before there is a list.
LEMMA SetStepKeeps ==
  ASSUME DInv, iter = 0, Next, UNCHANGED descriptor_vars
  PROVE  DInv'
<1>1. IInv'
  BY IInvInductive DEF DInv
<1>2. UNCHANGED <<component_id_array, iter, layout, bytes, listed>>
  BY DEF descriptor_vars
<1>3. ListInv' /\ LayoutInv'
  BY <1>2 DEF DInv, ListInv, LayoutInv, LaidOut
<1> QED BY <1>1, <1>3 DEF DInv

LEMMA DescribeKeeps ==
  ASSUME DInv, NEW list \in BoundedSeq(Component, MaxListed) \ {<<>>}, Describe(list)
  PROVE  DInv'
<1>1. list \in Seq(Component) /\ list # <<>>
  <2>1. PICK m \in 0 .. MaxListed : list \in [1 .. m -> Component]
    BY DEF BoundedSeq, SeqOf
  <2>2. m \in Nat
    BY DescriptorAssumption
  <2> QED BY <2>1, <2>2
<1>2. /\ iter = 0 /\ type_array = <<>> /\ component_id_array' = list /\ iter' = 1
      /\ listed' = ToSet(list) /\ UNCHANGED <<type_array, mask, types, layout, bytes>>
  BY DEF Describe, vars
<1>3. types = {}
  BY <1>2 DEF DInv, IInv, Lists, ToSet
<1>4. IInv'
  BY <1>2 DEF DInv, IInv, MaskExact
<1>5. layout' = <<>> /\ bytes' = 0
  BY <1>2 DEF DInv, ListInv
<1>6. Read'
  <2>1. 1 \in 1 .. Len(list) + 1 /\ 1 .. 1 - 1 = {}
    BY <1>1
  <2> QED BY <1>1, <1>2, <1>3, <2>1 DEF Read
<1> QED BY <1>1, <1>2, <1>4, <1>5, <1>6 DEF DInv, ListInv, LayoutInv

\* r is s without its element n, whose place its last one takes.
Swaps(s, n, r) ==
  /\ r \in Seq(Component) /\ Len(r) = Len(s) - 1
  /\ \A i \in 1 .. Len(s) - 1 : r[i] = IF i = n THEN s[Len(s)] ELSE s[i]

LEMMA SwapRemovedHas ==
  ASSUME NEW s \in Seq(Component), NEW n \in 1 .. Len(s), NEW r, r = SwapRemoved(s, n)
  PROVE  Swaps(s, n, r)
<1>1. Len(s) \in Nat /\ Len(s) \in 1 .. Len(s) /\ Last(s) = s[Len(s)] /\ s[Len(s)] \in Component
  BY DEF Last
<1>2. PICK u : u = [s EXCEPT ![n] = s[Len(s)]]
  OBVIOUS
<1>3. u \in Seq(Component) /\ Len(u) = Len(s)
  BY <1>1, <1>2
<1>4. \A i \in 1 .. Len(s) : u[i] = IF i = n THEN s[Len(s)] ELSE s[i]
  BY <1>1, <1>2
<1>5. r = SubSeq(u, 1, Len(s) - 1)
  BY <1>1, <1>2, <1>3 DEF SwapRemoved
<1>6. r \in Seq(Component) /\ Len(r) = Len(s) - 1
  BY <1>1, <1>3, <1>5
<1>7. \A i \in 1 .. Len(s) - 1 : r[i] = u[i]
  BY <1>1, <1>3, <1>5
<1>8. \A i \in 1 .. Len(s) - 1 : i \in 1 .. Len(s)
  BY <1>1
<1> QED BY <1>4, <1>6, <1>7, <1>8 DEF Swaps

\* The type set grows by one if and only if the type is new.
LEMMA GrowsIfNew ==
  ASSUME IInv, NEW type \in Type, AddTypeId(type)
  PROVE  Len(type_array') = Len(type_array) <=> type \in types
<1>1. type \in Nat /\ type_array \in Seq(Nat) /\ Len(type_array) \in Nat /\ Ordered(type_array)
  BY TypesNat DEF IInv, Lists
<1>2. PICK n : n = LowerBound(type_array, type)
  OBVIOUS
<1>3. (n <= Len(type_array) /\ type_array[n] = type) <=> type \in types
  BY <1>1, <1>2, FoundAtLowerBound DEF IInv
<1>4. type \in types => type_array' = type_array
  BY <1>2, <1>3 DEF AddTypeId
<1>5. type \notin types => Len(type_array') = Len(type_array) + 1
  <2>1. type \notin types => type_array' = InsertAt(type_array, n, type)
    BY <1>2, <1>3 DEF AddTypeId, Insert
  <2>2. n \in 1 .. Len(type_array) + 1
    BY <1>1, <1>2, LowerBoundSplits
  <2>3. type_array' = InsertAt(type_array, n, type) => Shifts(type_array, n, type, type_array')
    BY Zenon, <1>1, <2>2, InsertAtShifts
  <2> QED BY <2>1, <2>3 DEF Shifts
<1> QED BY <1>1, <1>4, <1>5

LEMMA VisitKeeps ==
  ASSUME DInv, Visit
  PROVE  DInv'
<1> DEFINE c == component_id_array
<1>1. c \in Seq(Component) /\ Len(c) \in Nat /\ DOMAIN c = 1 .. Len(c) /\ bytes \in Nat
  BY DEF DInv, ListInv
<1>2. iter \in 1 .. Len(c) /\ Read
  BY <1>1 DEF DInv, ListInv, Visit
<1>3. layout = <<>> /\ bytes = 0
  BY <1>1, <1>2 DEF DInv, ListInv
<1>4. PICK type : type = c[iter]
  OBVIOUS
<1>5. type \in Type /\ AddTypeId(type) /\ UNCHANGED <<layout, bytes, listed>>
  BY <1>1, <1>2, <1>4, DescriptorAssumption DEF Visit
<1>6. IInv /\ IInv' /\ types' = types \cup {type}
  BY <1>5, AddKeeps DEF DInv, AddTypeId
<1>7. Len(type_array') = Len(type_array) <=> type \in types
  BY <1>5, <1>6, GrowsIfNew
<1>8. /\ listed = {c[i] : i \in 1 .. Len(c)} /\ types = {c[n] : n \in 1 .. iter - 1}
      /\ \A m, n \in 1 .. iter - 1 : c[m] = c[n] => m = n
  BY <1>1, <1>2 DEF Read, ToSet
<1>9. CASE type \in types
  <2>1. PICK r : r = SwapRemoved(c, iter)
    OBVIOUS
  <2>2. component_id_array' = r /\ iter' = iter /\ types' = types
    BY <1>6, <1>7, <1>9, <2>1 DEF Visit
  <2>3. /\ r \in Seq(Component) /\ Len(r) = Len(c) - 1 /\ DOMAIN r = 1 .. Len(c) - 1
        /\ \A i \in 1 .. Len(c) - 1 : r[i] = IF i = iter THEN c[Len(c)] ELSE c[i]
    <3>1. c \in Seq(Component) /\ iter \in 1 .. Len(c) /\ r = SwapRemoved(c, iter)
      BY <1>1, <1>2, <2>1
    <3> HIDE DEF c
    <3>2. Swaps(c, iter, r)
      BY Zenon, <3>1, SwapRemovedHas
    <3> QED BY <3>2 DEF Swaps
  <2>4. PICK j \in 1 .. iter - 1 : c[j] = type
    BY <1>8, <1>9
  <2>5. \A n \in 1 .. iter - 1 : n \in 1 .. Len(c) - 1 /\ r[n] = c[n]
    <3>1. \A n \in 1 .. iter - 1 : n \in 1 .. Len(c) - 1 /\ n # iter
      BY <1>1, <1>2
    <3> QED BY <2>3, <3>1
  <2>6. ToSet(r) = listed
    <3>1. ASSUME NEW i \in 1 .. Len(c) - 1 PROVE r[i] \in {c[n] : n \in 1 .. Len(c)}
      <4>1. i \in 1 .. Len(c) /\ Len(c) \in 1 .. Len(c)
        BY <1>1
      <4> QED BY <2>3, <4>1
    <3>2. ASSUME NEW i \in 1 .. Len(c) PROVE \E n \in 1 .. Len(c) - 1 : r[n] = c[i]
      <4>1. CASE i = iter
        BY <1>4, <2>4, <2>5, <4>1
      <4>2. CASE i # iter /\ i < Len(c)
        <5>1. i \in 1 .. Len(c) - 1
          BY <1>1, <4>2
        <5> QED BY <2>3, <4>2, <5>1
      <4>3. CASE i # iter /\ i = Len(c)
        <5>1. iter \in 1 .. Len(c) - 1
          <6>1. iter \in 1 .. Len(c) /\ iter # Len(c) /\ Len(c) \in Nat
            BY ZenonT(60), <1>1, <1>2, <4>3
          <6> HIDE DEF c
          <6> QED BY SMTT(30), <6>1
        <5>2. r[iter] = c[i]
          BY <2>3, <4>3, <5>1
        <5> QED BY <5>1, <5>2
      <4> QED BY <1>1, <4>1, <4>2, <4>3
    <3>3. {r[n] : n \in 1 .. Len(c) - 1} = {c[n] : n \in 1 .. Len(c)}
      <4>1. ASSUME NEW u \in {c[n] : n \in 1 .. Len(c)}
            PROVE  u \in {r[n] : n \in 1 .. Len(c) - 1}
        BY Zenon, <3>2
      <4>2. ASSUME NEW u \in {r[n] : n \in 1 .. Len(c) - 1}
            PROVE  u \in {c[n] : n \in 1 .. Len(c)}
        BY Zenon, <3>1
      <4> QED BY Zenon, <4>1, <4>2
    <3> HIDE DEF c
    <3> QED BY Zenon, <1>8, <2>3, <3>3 DEF ToSet
  <2>7. Read'
    <3>1. iter \in 1 .. Len(r) + 1 /\ r # <<>>
      BY <1>1, <1>2, <2>3, <2>4
    <3>2. types = {r[n] : n \in 1 .. iter - 1}
      BY <1>8, <2>5
    <3>3. \A m, n \in 1 .. iter - 1 : r[m] = r[n] => m = n
      BY <1>8, <2>5
    <3> QED BY <1>5, <2>2, <2>6, <3>1, <3>2, <3>3 DEF Read
  <2> QED BY <1>2, <1>3, <1>5, <1>6, <2>2, <2>3, <2>7 DEF DInv, ListInv, LayoutInv
<1>10. CASE type \notin types
  <2>1. component_id_array' = c /\ iter' = iter + 1
    BY <1>7, <1>10 DEF Visit
  <2>2. iter + 1 \in 1 .. Len(c) + 1 /\ iter + 1 - 1 = iter
    BY <1>1, <1>2
  <2>3. types' = {c[n] : n \in 1 .. iter}
    <3>1. 1 .. iter = (1 .. iter - 1) \cup {iter}
      BY <1>1, <1>2
    <3> QED BY <1>4, <1>6, <1>8, <3>1
  <2>4. ASSUME NEW m \in 1 .. iter, NEW n \in 1 .. iter, c[m] = c[n] PROVE m = n
    <3>1. (m \in 1 .. iter - 1 \/ m = iter) /\ (n \in 1 .. iter - 1 \/ n = iter)
      BY <1>1, <1>2
    <3>2. \A i \in 1 .. iter - 1 : c[i] # type
      BY <1>8, <1>10
    <3> QED BY <1>4, <1>8, <2>4, <3>1, <3>2
  <2>5. Read'
    <3>0. iter' - 1 = iter
      <4>1. iter' = iter + 1
        BY <2>1
      <4>2. \A n \in Nat : n + 1 - 1 = n
        OBVIOUS
      <4>3. iter \in Nat
        BY DEF DInv, ListInv
      <4> HIDE DEF c
      <4> QED BY <4>1, <4>2, <4>3
    <3>1. types' = {c[n] : n \in 1 .. iter' - 1}
      BY Zenon, <2>3, <3>0
    <3>2. \A m, n \in 1 .. iter' - 1 : c[m] = c[n] => m = n
      BY Zenon, <2>4, <3>0
    <3>3. iter' \in 1 .. Len(c) + 1 /\ listed' = ToSet(c) /\ c # <<>>
      BY <1>2, <1>5, <2>1, <2>2 DEF Read
    <3> HIDE DEF c
    <3> QED BY <2>1, <3>1, <3>2, <3>3 DEF Read
  <2> QED BY <1>1, <1>2, <1>3, <1>5, <1>6, <2>1, <2>2, <2>5 DEF DInv, ListInv, LayoutInv
<1> QED BY <1>9, <1>10
-----------------------------------------------------------------------------
(* The layout *)

\* Remainders and quotients.
LEMMA Multiples ==
  ASSUME NEW n \in Nat, NEW d \in Nat \ {0}
  PROVE  n % d = 0 <=> \E q \in Nat : n = d * q
<1>1. d \in Nat /\ d > 0 /\ 0 \in 0 .. d - 1
  OBVIOUS
<1>2. n % d = 0 => \E q \in Nat : n = d * q
  <2>1. n = d * (n \div d) + (n % d)
    BY <1>1
  <2>2. n \div d \in Nat /\ d * (n \div d) \in Nat
    BY <1>1
  <2>3. n % d = 0 => n = d * (n \div d)
    BY <2>1, <2>2
  <2> QED BY <2>2, <2>3
<1>3. ASSUME NEW q \in Nat, n = d * q PROVE n % d = 0
  <2>1. n = d * q + 0
    <3>1. d * q \in Nat
      BY <1>1
    <3> QED BY <1>3, <3>1
  <2>2. \A r \in 0 .. d - 1 : n = d * q + r => n % d = r
    BY <1>1
  <2> QED BY <1>1, <2>1, <2>2
<1> QED BY <1>2, <1>3

\* A multiple of a multiple, and what is added to it.
LEMMA MultiplesAdd ==
  ASSUME NEW d \in Nat, NEW k \in Nat, NEW q \in Nat, NEW r \in Nat
  PROVE  k * q + r \in Nat /\ k * (d * q) + d * r = d * (k * q + r)
<1>1. k * (d * q) = d * (k * q)
  OBVIOUS
<1>2. PICK m : m = k * q
  OBVIOUS
<1>3. m \in Nat
  BY <1>2
<1>4. d * m + d * r = d * (m + r)
  BY <1>3
<1> QED BY <1>1, <1>2, <1>3, <1>4

\* A number rounded up is a multiple, and not less.
LEMMA RoundedUpIs ==
  ASSUME NEW n \in Nat, NEW align \in Nat \ {0}, NEW r, r = RoundedUp(n, align)
  PROVE  r \in Nat /\ r >= n /\ r % align = 0
<1>1. align \in Nat /\ align > 0
  OBVIOUS
<1>2. PICK m : m = n % align
  OBVIOUS
<1>3. PICK q : q = n \div align
  OBVIOUS
<1>4. m \in 0 .. align - 1 /\ q \in Nat /\ n = align * q + m
  BY <1>1, <1>2, <1>3
<1>5. CASE m = 0
  BY <1>2, <1>5 DEF RoundedUp
<1>6. CASE m # 0
  <2>1. r = n + align - m
    BY <1>2, <1>6 DEF RoundedUp
  <2>2. r \in Nat /\ r >= n
    BY <1>1, <1>4, <2>1
  <2>3. r = align * (q + 1)
    <3>1. align * (q + 1) = align * q + align /\ align * q \in Nat
      BY <1>1, <1>4
    <3> QED BY <1>1, <1>4, <2>1, <3>1
  <2>4. q + 1 \in Nat
    BY <1>4
  <2> QED BY <2>2, <2>3, <2>4, Multiples
<1> QED BY <1>5, <1>6

\* A component has a size and an alignment.
LEMMA ComponentHas ==
  ASSUME NEW t \in Component
  PROVE  /\ AlignOf(t) \in Nat \ {0} /\ AlignOf(t) \in Nat
         /\ SizeOf(t) \in Nat \ {0} /\ SizeOf(t) \in Nat /\ SizeOf(t) >= 1
BY DescriptorAssumption

\* A component that is placed next keeps the others where they are.
LEMMA PlaceKeeps ==
  ASSUME NEW placed, RowMap(placed.map, placed.end), NEW type \in Component,
         type \notin DOMAIN placed.map, NEW next, next = Place(placed, type)
  PROVE  RowMap(next.map, next.end) /\ DOMAIN next.map = DOMAIN placed.map \cup {type}
<1>1. PICK offset : offset = RoundedUp(placed.end, AlignOf(type))
  OBVIOUS
<1>2. /\ placed.end \in Nat /\ DOMAIN placed.map \subseteq Component
      /\ \A t \in DOMAIN placed.map :
           /\ placed.map[t] \in Nat /\ placed.map[t] % AlignOf(t) = 0
           /\ placed.map[t] + SizeOf(t) <= placed.end
      /\ \A s, t \in DOMAIN placed.map : s # t =>
           \/ placed.map[s] + SizeOf(s) <= placed.map[t]
           \/ placed.map[t] + SizeOf(t) <= placed.map[s]
  BY DEF RowMap
<1>3. offset \in Nat /\ offset >= placed.end /\ offset % AlignOf(type) = 0
  BY <1>1, <1>2, ComponentHas, RoundedUpIs
<1>4. PICK map : map = [t \in DOMAIN placed.map \cup {type} |->
                          IF t = type THEN offset ELSE placed.map[t]]
  OBVIOUS
<1>5. next = [end |-> offset + SizeOf(type), map |-> map]
  BY <1>1, <1>4 DEF Place
<1>6. next.map = map /\ next.end = offset + SizeOf(type)
  BY <1>5
<1>7. /\ DOMAIN map = DOMAIN placed.map \cup {type} /\ map[type] = offset
      /\ \A t \in DOMAIN placed.map : map[t] = placed.map[t]
  BY <1>4
<1>8. PICK size, end : size = SizeOf(type) /\ end = offset + size
  OBVIOUS
<1>9. size \in Nat /\ end \in Nat /\ end >= placed.end
  BY <1>2, <1>3, <1>8, ComponentHas
<1>10. ASSUME NEW t \in DOMAIN placed.map
       PROVE  /\ map[t] \in Nat /\ map[t] % AlignOf(t) = 0
              /\ map[t] + SizeOf(t) <= end /\ map[t] + SizeOf(t) <= offset
  <2>1. /\ placed.map[t] \in Nat /\ placed.map[t] % AlignOf(t) = 0
        /\ placed.map[t] + SizeOf(t) <= placed.end
    BY <1>2
  <2>2. map[t] = placed.map[t]
    BY <1>7
  <2>3. SizeOf(t) \in Nat
    BY <1>2, ComponentHas
  <2> QED BY <1>2, <1>3, <1>9, <2>1, <2>2, <2>3
<1>11. ASSUME NEW t \in DOMAIN map
       PROVE  map[t] \in Nat /\ map[t] % AlignOf(t) = 0 /\ map[t] + SizeOf(t) <= end
  <2>1. CASE t = type
    BY <1>3, <1>7, <1>8, <1>9, <2>1
  <2>2. CASE t # type
    BY <1>7, <1>10, <2>2
  <2> QED BY <2>1, <2>2
<1>12. ASSUME NEW s \in DOMAIN map, NEW t \in DOMAIN map, s # t
       PROVE  map[s] + SizeOf(s) <= map[t] \/ map[t] + SizeOf(t) <= map[s]
  <2>1. CASE s = type
    BY <1>7, <1>10, <1>12, <2>1
  <2>2. CASE t = type
    BY <1>7, <1>10, <1>12, <2>2
  <2>3. CASE s # type /\ t # type
    <3>1. s \in DOMAIN placed.map /\ t \in DOMAIN placed.map
      BY <1>7, <2>3
    <3>2. map[s] = placed.map[s] /\ map[t] = placed.map[t]
      BY <1>7, <3>1
    <3> QED BY <1>2, <1>12, <3>1, <3>2
  <2> QED BY <2>1, <2>2, <2>3
<1>13. RowMap(map, end)
  BY <1>2, <1>7, <1>9, <1>11, <1>12 DEF RowMap
<1> QED BY <1>6, <1>7, <1>8, <1>13

\* Components laid out in any order, each once.
LEMMA PlacedRow ==
  ASSUME NEW a \in Seq(Component),
         \A m, n \in 1 .. Len(a) : a[m] = a[n] => m = n,
         NEW placed, placed = Placed(a)
  PROVE  RowMap(placed.map, placed.end) /\ DOMAIN placed.map = {a[i] : i \in 1 .. Len(a)}
<1>1. Len(a) \in Nat /\ DOMAIN a = 1 .. Len(a) /\ \A i \in 1 .. Len(a) : a[i] \in Component
  OBVIOUS
<1>2. PICK start : start = [end |-> 0, map |-> <<>>]
  OBVIOUS
<1>3. PICK g : Placing!Folding(g, start, a, Len(a))
  <2>1. Placing!HasLength(a, Len(a))
    BY <1>1 DEF Placing!HasLength
  <2> QED BY <2>1, Placing!FoldSteps
<1>4. /\ g[0] = start
      /\ \A k \in 1 .. Len(a) : g[k] = Place(g[k - 1], a[k])
      /\ Placing!Fold(start, a) = g[Len(a)]
  BY <1>3 DEF Placing!Folding
<1> DEFINE K == {k \in 0 .. Len(a) :
                  /\ RowMap(g[k].map, g[k].end)
                  /\ DOMAIN g[k].map = {a[i] : i \in 1 .. k}}
<1>5. 0 \in K
  <2>1. g[0].end = 0 /\ DOMAIN g[0].map = {}
    BY <1>2, <1>4
  <2>2. 1 .. 0 = {}
    OBVIOUS
  <2>3. RowMap(g[0].map, g[0].end)
    BY <2>1 DEF RowMap
  <2> QED BY <1>1, <2>1, <2>2, <2>3
<1>6. ASSUME NEW k \in 1 .. Len(a), k - 1 \in K PROVE k \in K
  <2>1. /\ RowMap(g[k - 1].map, g[k - 1].end)
        /\ DOMAIN g[k - 1].map = {a[i] : i \in 1 .. k - 1}
    BY <1>6
  <2>2. a[k] \in Component /\ a[k] \notin {a[i] : i \in 1 .. k - 1}
    <3>1. \A i \in 1 .. k - 1 : i \in 1 .. Len(a) /\ i # k
      BY <1>1
    <3> QED BY <1>1, <3>1
  <2>3. /\ RowMap(g[k].map, g[k].end)
        /\ DOMAIN g[k].map = DOMAIN g[k - 1].map \cup {a[k]}
    <3>1. PICK from, next, type : from = g[k - 1] /\ next = g[k] /\ type = a[k]
      OBVIOUS
    <3>2. /\ RowMap(from.map, from.end) /\ type \in Component /\ type \notin DOMAIN from.map
          /\ next = Place(from, type)
      BY <1>4, <2>1, <2>2, <3>1
    <3>3. RowMap(next.map, next.end) /\ DOMAIN next.map = DOMAIN from.map \cup {type}
      BY <3>2, PlaceKeeps
    <3> QED BY <3>1, <3>3
  <2>4. 1 .. k = (1 .. k - 1) \cup {k}
    BY <1>1
  <2>5. {a[i] : i \in 1 .. k} = {a[i] : i \in 1 .. k - 1} \cup {a[k]}
    BY <2>4
  <2> QED BY <1>1, <2>1, <2>3, <2>5
<1>7. Len(a) \in K
  <2> HIDE DEF K
  <2>1. 0 .. Len(a) \subseteq K
    BY <1>1, <1>5, <1>6, Placing!RangeInduction
  <2> QED BY <1>1, <2>1
<1>8. placed = g[Len(a)]
  <2>1. FoldLeft(Place, start, a) = Placing!Fold(start, a)
    BY Zenon DEF Placing!Fold, FoldLeft, MapThenFoldSet,
      Placing!MapThenFoldSet, Max, Placing!Highest
  <2> QED BY <1>2, <1>4, <2>1 DEF Placed
<1> QED BY <1>7, <1>8

\* Sorting a list permutes it.
LEMMA SortedPermutes ==
  ASSUME NEW a \in Seq(Component), NEW order \in Sorted(a)
  PROVE  /\ order \in Seq(Component) /\ Len(order) = Len(a)
         /\ ToSet(order) = ToSet(a)
         /\ (\A m, n \in 1 .. Len(a) : a[m] = a[n] => m = n)
              => \A m, n \in 1 .. Len(a) : order[m] = order[n] => m = n
<1>1. Len(a) \in Nat /\ DOMAIN a = 1 .. Len(a) /\ \A i \in 1 .. Len(a) : a[i] \in Component
  OBVIOUS
<1>2. PICK p \in SetToSeqs(1 .. Len(a)) : order = [n \in 1 .. Len(a) |-> a[p[n]]]
  BY <1>1 DEF Sorted
<1>3. Cardinality(1 .. Len(a)) = Len(a)
  <2>1. Cardinality(1 .. Len(a)) = IF 1 > Len(a) THEN 0 ELSE Len(a) - 1 + 1
    BY <1>1, FS_Interval
  <2> QED BY <1>1, <2>1
<1>4. /\ p \in [1 .. Len(a) -> 1 .. Len(a)]
      /\ \A i, j \in 1 .. Len(a) : p[i] = p[j] => i = j
  BY <1>2, <1>3 DEF SetToSeqs
<1>5. \A m \in 1 .. Len(a) : \E i \in 1 .. Len(a) : p[i] = m
  BY <1>1, <1>4, Placing!RangePermuted
<1>6. \A i \in 1 .. Len(a) : p[i] \in 1 .. Len(a) /\ order[i] = a[p[i]]
  BY <1>2, <1>4
<1>7. order \in Seq(Component) /\ Len(order) = Len(a) /\ DOMAIN order = 1 .. Len(a)
  BY <1>1, <1>2, <1>6
<1>8. ToSet(order) = ToSet(a)
  <2>1. \A i \in 1 .. Len(a) : \E m \in 1 .. Len(a) : order[i] = a[m]
    BY <1>6
  <2>2. \A m \in 1 .. Len(a) : \E i \in 1 .. Len(a) : order[i] = a[m]
    <3>1. ASSUME NEW m \in 1 .. Len(a) PROVE \E i \in 1 .. Len(a) : order[i] = a[m]
      <4>1. PICK i \in 1 .. Len(a) : p[i] = m
        BY <1>5
      <4>2. order[i] = a[m]
        BY <1>6, <4>1
      <4> QED BY <4>2
    <3> QED BY <3>1
  <2>3. {order[i] : i \in 1 .. Len(a)} = {a[i] : i \in 1 .. Len(a)}
    <3>1. ASSUME NEW u \in {order[i] : i \in 1 .. Len(a)}
          PROVE  u \in {a[i] : i \in 1 .. Len(a)}
      BY Zenon, <2>1
    <3>2. ASSUME NEW u \in {a[i] : i \in 1 .. Len(a)}
          PROVE  u \in {order[i] : i \in 1 .. Len(a)}
      BY Zenon, <2>2
    <3> QED BY Zenon, <3>1, <3>2
  <2> QED BY Zenon, <1>1, <1>7, <2>3 DEF ToSet
<1>9. ASSUME \A m, n \in 1 .. Len(a) : a[m] = a[n] => m = n,
             NEW m \in 1 .. Len(a), NEW n \in 1 .. Len(a), order[m] = order[n]
      PROVE  m = n
  <2>1. p[m] = p[n]
    BY <1>6, <1>9
  <2> QED BY <1>4, <2>1
<1> QED BY <1>7, <1>8, <1>9

\* The greatest alignment is one of them, and a multiple of each.
LEMMA GreatestAlign ==
  ASSUME IInv, types # {}, types \subseteq Component,
         NEW align, align = Max({AlignOf(t) : t \in ToSet(type_array)})
  PROVE  align \in Nat \ {0} /\ \A t \in types : align % AlignOf(t) = 0
<1> DEFINE T == {AlignOf(t) : t \in types}
<1>1. ToSet(type_array) = types
  BY DEF IInv, Lists
<1>2. IsFiniteSet(types)
  BY TypesNat, FS_Subset DEF IInv
<1>3. \A t \in types : AlignOf(t) \in Nat \ {0}
  BY ComponentHas
<1>4. \E x \in T : \A y \in T : x >= y
  <2>1. PICK f : f = [t \in types |-> AlignOf(t)]
    OBVIOUS
  <2>2. f \in [types -> Nat] /\ \A t \in types : f[t] = AlignOf(t)
    BY <1>3, <2>1
  <2>3. Placing!Greatest(types, f)
    <3>1. Placing!IsFiniteSet(types)
      BY Zenon, <1>2 DEF IsFiniteSet, Placing!IsFiniteSet
    <3> QED BY <2>2, <3>1, Placing!GreatestOfFinite
  <2> QED BY <2>2, <2>3 DEF Placing!Greatest
<1>5. align \in T /\ \A y \in T : align >= y
  <2>1. align = CHOOSE x \in T : \A y \in T : x >= y
    BY <1>1 DEF Max
  <2> HIDE DEF T
  <2> QED BY <1>4, <2>1
<1>6. PICK u \in types : align = AlignOf(u)
  BY <1>5
<1>7. ASSUME NEW t \in types PROVE align % AlignOf(t) = 0
  <2>1. AlignOf(t) <= AlignOf(u)
    <3>1. AlignOf(t) \in T /\ align \in Nat /\ AlignOf(t) \in Nat
      BY <1>3, <1>5
    <3> QED BY <1>5, <1>6, <3>1
  <2> QED BY <1>6, <2>1, DescriptorAssumption
<1> QED BY <1>3, <1>5, <1>7
\* LayOut makes the offsets of the components it was asked for.
LEMMA LayOutKeeps ==
  ASSUME DInv, LayOut
  PROVE  DInv'
<1>1. PICK c, n : c = component_id_array /\ n = Len(c)
  OBVIOUS
<1>2. /\ c \in Seq(Component) /\ n \in Nat /\ DOMAIN c = 1 .. n /\ bytes \in Nat
      /\ iter = n + 1 /\ layout = <<>>
  BY <1>1 DEF DInv, ListInv, LayOut
<1>3. /\ listed = ToSet(c) /\ c # <<>> /\ types = {c[i] : i \in 1 .. n}
      /\ \A i, j \in 1 .. n : c[i] = c[j] => i = j
  <2>1. Read /\ iter - 1 = n
    BY <1>2 DEF DInv, ListInv
  <2> QED BY <1>1, <2>1 DEF Read
<1>4. listed = types /\ types # {} /\ types \subseteq Component
  <2>1. n # 0 /\ 1 \in 1 .. n
    BY <1>1, <1>2, <1>3
  <2>2. \A i \in 1 .. n : c[i] \in Component
    BY <1>1, <1>2
  <2> QED BY <1>2, <1>3, <2>1, <2>2 DEF ToSet
<1>5. PICK align : align = Max({AlignOf(t) : t \in ToSet(type_array)})
  OBVIOUS
<1>6. align \in Nat \ {0} /\ \A t \in types : align % AlignOf(t) = 0
  BY <1>4, <1>5, GreatestAlign DEF DInv
<1>7. PICK order \in Sorted(c) :
        /\ component_id_array' = order
        /\ layout' = [align |-> align, offset_map |-> Placed(order).map,
                      size |-> RoundedUp(Placed(order).end, align)]
  BY <1>1, <1>5 DEF LayOut
<1>8. /\ order \in Seq(Component) /\ Len(order) = n /\ ToSet(order) = ToSet(c)
      /\ \A i, j \in 1 .. n : order[i] = order[j] => i = j
  BY <1>1, <1>2, <1>3, SortedPermutes
<1>9. /\ UNCHANGED <<type_array, mask, types>> /\ iter' = iter
      /\ bytes' = bytes /\ listed' = listed
  BY DEF LayOut, vars
<1>10. DOMAIN order = 1 .. n /\ {order[i] : i \in 1 .. n} = types
  <2>1. DOMAIN order = 1 .. n
    BY <1>8
  <2> QED BY <1>3, <1>4, <1>8, <2>1 DEF ToSet
<1>11. PICK placed : placed = Placed(order)
  OBVIOUS
<1>12. RowMap(placed.map, placed.end) /\ DOMAIN placed.map = types
  BY <1>8, <1>10, <1>11, PlacedRow
<1>13. PICK size : size = RoundedUp(placed.end, align)
  OBVIOUS
<1>14. size \in Nat /\ size >= placed.end /\ size % align = 0
  BY <1>6, <1>12, <1>13, RoundedUpIs DEF RowMap
<1>15. RowMap(placed.map, size)
  <2>1. /\ placed.end \in Nat /\ DOMAIN placed.map \subseteq Component
        /\ \A t \in DOMAIN placed.map :
             /\ placed.map[t] \in Nat /\ placed.map[t] + SizeOf(t) <= placed.end
             /\ SizeOf(t) \in Nat
    BY <1>12, ComponentHas DEF RowMap
  <2>2. \A t \in DOMAIN placed.map : placed.map[t] + SizeOf(t) <= size
    BY <1>14, <2>1
  <2> QED BY <1>12, <1>14, <2>2 DEF RowMap
<1>16. ASSUME NEW t \in types PROVE size % AlignOf(t) = 0
  <2>1. AlignOf(t) \in Nat \ {0} /\ align % AlignOf(t) = 0 /\ align \in Nat
    BY <1>4, <1>6, ComponentHas
  <2>2. PICK q \in Nat : size = align * q
    BY <1>6, <1>14, Multiples
  <2>3. PICK r \in Nat : align = AlignOf(t) * r
    BY <2>1, Multiples
  <2>4. size = AlignOf(t) * (r * q) /\ r * q \in Nat
    BY <2>1, <2>2, <2>3
  <2> QED BY <1>14, <2>1, <2>4, Multiples
<1>17. LaidOut(placed.map, size)'
  BY <1>4, <1>9, <1>12, <1>15, <1>16 DEF LaidOut
<1>18. layout'.offset_map = placed.map /\ layout'.size = size /\ layout' # <<>>
  <2>1. layout' = [align |-> align, offset_map |-> placed.map, size |-> size]
    BY <1>7, <1>11, <1>13
  <2>2. "size" \in DOMAIN [align |-> align, offset_map |-> placed.map, size |-> size]
    OBVIOUS
  <2>3. DOMAIN <<>> = {}
    OBVIOUS
  <2> QED BY <2>1, <2>2, <2>3
<1>19. Read'
  <2>1. order # <<>> /\ iter - 1 = n /\ iter \in 1 .. n + 1
    BY <1>1, <1>2, <1>3, <1>8
  <2>2. /\ iter' - 1 = n /\ iter' \in 1 .. Len(order) + 1
        /\ listed' = ToSet(order) /\ types' = {order[i] : i \in 1 .. n}
    BY <1>3, <1>8, <1>9, <1>10, <2>1
  <2>3. /\ types' = {order[i] : i \in 1 .. iter' - 1}
        /\ \A i, j \in 1 .. iter' - 1 : order[i] = order[j] => i = j
    BY Zenon, <1>8, <2>2
  <2> QED BY Zenon, <1>7, <2>1, <2>2, <2>3 DEF Read
<1>20. IInv'
  BY <1>9 DEF DInv, IInv, MaskExact
<1>21. LayoutInv'
  BY <1>17, <1>18 DEF LayoutInv, LaidOut
<1> QED BY <1>2, <1>7, <1>8, <1>9, <1>18, <1>19, <1>20, <1>21 DEF DInv, ListInv

\* Steps that leave the list and the offsets alone.
LEMMA BytesKeep ==
  ASSUME DInv, layout # <<>>, bytes' \in Nat,
         UNCHANGED <<type_array, mask, types, component_id_array, iter, layout, listed>>
  PROVE  DInv'
<1>1. IInv' /\ LayoutInv'
  BY DEF DInv, IInv, MaskExact, LayoutInv, LaidOut
<1>2. Read' <=> Read
  BY DEF Read
<1> QED BY <1>1, <1>2 DEF DInv, ListInv

\* The size of a buffer, of components and of entity ids.
LEMMA BytesNat ==
  ASSUME DInv, layout # <<>>
  PROVE  bytes \in Nat /\ layout.size \in Nat /\ UnitSize \in Nat /\ MaxBytes \in Nat
<1>1. bytes \in Nat /\ layout.size \in Nat
  BY DEF DInv, ListInv, LayoutInv, LaidOut, RowMap
<1> QED BY <1>1, DescriptorAssumption DEF UnitSize, IdSize

LEMMA GrowKeeps ==
  ASSUME DInv, Allocate \/ Grow
  PROVE  DInv'
<1>1. layout # <<>>
  BY DEF Allocate, Grow, DInv, ListInv
<1>2. bytes' \in Nat
  <2>1. CASE Allocate
    BY <1>1, <2>1, BytesNat DEF Allocate
  <2>2. CASE Grow
    BY <1>1, <2>2, BytesNat DEF Grow
  <2> QED BY <2>1, <2>2
<1>3. UNCHANGED <<type_array, mask, types, component_id_array, iter, layout, listed>>
  BY DEF Allocate, Grow, vars
<1> QED BY <1>1, <1>2, <1>3, BytesKeep

LEMMA DestroyKeeps ==
  ASSUME DInv, Destroy
  PROVE  DInv'
<1>1. /\ type_array' = <<>> /\ mask' = {} /\ types' = {} /\ component_id_array' = <<>>
      /\ iter' = 0 /\ layout' = <<>> /\ bytes' = 0
  BY DEF Destroy
<1>2. <<>> \in Seq(Nat) /\ <<>> \in Seq(Component) /\ DOMAIN <<>> = {}
  OBVIOUS
<1>3. IInv'
  BY <1>1, <1>2 DEF IInv, Lists, MaskExact, ToSet, Ordered
<1> QED BY <1>1, <1>2, <1>3 DEF DInv, ListInv, LayoutInv

\* Every step keeps it.
LEMMA DInvInductive == DInv /\ [DescriptorNext]_<<vars, descriptor_vars>> => DInv'
<1> SUFFICES ASSUME DInv, [DescriptorNext]_<<vars, descriptor_vars>> PROVE DInv'
  OBVIOUS
<1>1. CASE UNCHANGED <<vars, descriptor_vars>>
  <2>1. UNCHANGED <<type_array, mask, types, component_id_array, iter, layout, bytes, listed>>
    BY <1>1 DEF vars, descriptor_vars
  <2> QED BY <2>1 DEF DInv, IInv, MaskExact, ListInv, Read, LayoutInv, LaidOut
<1>2. CASE iter = 0 /\ Next /\ UNCHANGED descriptor_vars
  BY <1>2, SetStepKeeps
<1>3. CASE \E list \in BoundedSeq(Component, MaxListed) \ {<<>>} : Describe(list)
  BY <1>3, DescribeKeeps
<1>4. CASE Visit
  BY <1>4, VisitKeeps
<1>5. CASE LayOut
  BY <1>5, LayOutKeeps
<1>6. CASE Allocate \/ Grow
  BY <1>6, GrowKeeps
<1>7. CASE Destroy
  BY <1>7, DestroyKeeps
<1> QED BY <1>1, <1>2, <1>3, <1>4, <1>5, <1>6, <1>7 DEF DescriptorNext

-----------------------------------------------------------------------------
(* Rows and entity ids *)

\* What a buffer of this many rows is, in numbers.
RoomFor(size, count) ==
  /\ size \in Nat /\ size = layout.size /\ size >= 1
  /\ count \in Nat /\ count = Capacity /\ bytes \in Nat
  /\ count * size + count * IdSize <= bytes

LEMMA RoomForRows ==
  ASSUME DInv, layout # <<>>
  PROVE  \E size, count : RoomFor(size, count)
<1>1. PICK size, count : size = layout.size /\ count = Capacity
  OBVIOUS
<1>2. size \in Nat /\ bytes \in Nat /\ LaidOut(layout.offset_map, size)
  BY <1>1 DEF DInv, ListInv, LayoutInv, LaidOut, RowMap
<1>3. size >= 1
  <2>1. PICK t \in listed : t \in Component
    BY <1>2 DEF LaidOut, RowMap
  <2>2. layout.offset_map[t] \in Nat /\ layout.offset_map[t] + SizeOf(t) <= size
    BY <1>2, <2>1 DEF LaidOut, RowMap
  <2> QED BY <1>2, <2>1, <2>2, ComponentHas
<1>4. PICK unit : unit = size + 16
  OBVIOUS
<1>5. unit \in Nat /\ unit > 0 /\ count = bytes \div unit
  BY <1>1, <1>2, <1>4 DEF Capacity, UnitSize, IdSize
<1>6. count \in Nat /\ bytes = unit * count + (bytes % unit) /\ bytes % unit \in Nat
  BY <1>2, <1>5
<1>7. unit * count = count * size + count * 16
  BY <1>2, <1>4, <1>6
<1>8. count * size + count * 16 <= bytes
  <2>1. count * size \in Nat /\ count * 16 \in Nat
    BY <1>2, <1>6
  <2> QED BY <1>2, <1>6, <1>7, <2>1
<1> QED BY <1>1, <1>2, <1>3, <1>6, <1>8 DEF RoomFor, IdSize

\* Where a component of a row is.
LEMMA ComponentIn ==
  ASSUME DInv, layout # <<>>, NEW size, NEW count, RoomFor(size, count),
         NEW row \in Rows, NEW type \in listed
  PROVE  \E from \in Nat :
           /\ BytesOf(row, type) = from .. from + SizeOf(type) - 1
           /\ from = row * size + layout.offset_map[type]
           /\ row * size <= from /\ from + SizeOf(type) <= (row + 1) * size
           /\ from % AlignOf(type) = 0
<1>1. size \in Nat /\ size = layout.size /\ row \in Nat
  BY DEF RoomFor, Rows
<1>2. /\ LaidOut(layout.offset_map, size) /\ type \in Component
      /\ size % AlignOf(type) = 0
  BY <1>1 DEF DInv, LayoutInv, LaidOut, RowMap
<1>3. PICK offset : offset = layout.offset_map[type]
  OBVIOUS
<1>4. offset \in Nat /\ offset % AlignOf(type) = 0 /\ offset + SizeOf(type) <= size
  BY <1>2, <1>3 DEF LaidOut, RowMap
<1>5. SizeOf(type) \in Nat /\ AlignOf(type) \in Nat \ {0}
  BY <1>2, ComponentHas
<1>6. PICK from : from = row * size + offset
  OBVIOUS
<1>7. row * size \in Nat /\ (row + 1) * size = row * size + size
  BY <1>1
<1>8. /\ from \in Nat /\ row * size <= from /\ from + SizeOf(type) <= (row + 1) * size
  <2>1. PICK start, end : start = row * size /\ end = (row + 1) * size
    OBVIOUS
  <2>2. start \in Nat /\ end = start + size /\ from = start + offset
    BY <1>6, <1>7, <2>1
  <2>3. from \in Nat /\ start <= from /\ from + SizeOf(type) <= end
    BY <1>1, <1>4, <1>5, <2>2
  <2> QED BY <2>1, <2>3
<1>9. from % AlignOf(type) = 0
  <2>1. PICK q \in Nat : size = AlignOf(type) * q
    BY <1>1, <1>2, <1>5, Multiples
  <2>2. PICK r \in Nat : offset = AlignOf(type) * r
    BY <1>4, <1>5, Multiples
  <2>3. from = AlignOf(type) * (row * q + r) /\ row * q + r \in Nat
    <3>1. PICK d : d = AlignOf(type)
      OBVIOUS
    <3>2. from = row * (d * q) + d * r
      BY <1>6, <2>1, <2>2, <3>1
    <3>3. row * q + r \in Nat /\ row * (d * q) + d * r = d * (row * q + r)
      BY <1>1, <1>5, <3>1, MultiplesAdd
    <3> QED BY <3>1, <3>2, <3>3
  <2> QED BY <1>5, <1>8, <2>3, Multiples
<1>10. BytesOf(row, type) = from .. from + SizeOf(type) - 1
  BY <1>1, <1>3, <1>6 DEF BytesOf, RowAt
<1> QED BY <1>3, <1>6, <1>8, <1>9, <1>10

\* Where the entity id of a row is.
LEMMA IdIn ==
  ASSUME NEW size, NEW count, RoomFor(size, count), NEW row \in Rows
  PROVE  \E from \in Nat :
           /\ IdBytes(row) = from .. from + 15
           /\ from = bytes - (count - row) * 16
           /\ count * size <= from /\ from + 15 < bytes
<1>1. /\ size \in Nat /\ count \in Nat /\ bytes \in Nat /\ count = Capacity
      /\ count * size + count * 16 <= bytes /\ row \in 0 .. count - 1
  BY DEF RoomFor, Rows, IdSize
<1>2. PICK from : from = bytes - (count - row) * 16
  OBVIOUS
<1>3. /\ count * size \in Nat /\ count * 16 \in Nat /\ row * 16 \in Nat /\ row \in Nat
      /\ (count - row) * 16 = count * 16 - row * 16
  BY <1>1
<1>4. from \in Nat /\ count * size <= from
  BY <1>1, <1>2, <1>3
<1>5. from + 15 < bytes
  BY <1>1, <1>2
<1>6. IdBytes(row) = from .. from + 15
  <2>1. IdAt(row) = from
    BY <1>1, <1>2 DEF IdAt, IdSize
  <2>2. from + 16 - 1 = from + 15
    BY <1>4
  <2> QED BY <2>1, <2>2 DEF IdBytes, IdSize
<1> QED BY <1>2, <1>4, <1>5, <1>6

\* Components of different rows, or of one row, share no byte.
LEMMA ComponentsApart ==
  ASSUME DInv, layout # <<>>, NEW row \in Rows, NEW other \in Rows,
         NEW type \in listed, NEW another \in listed,
         BytesOf(row, type) \cap BytesOf(other, another) # {}
  PROVE  row = other /\ type = another
<1>1. PICK size, count : RoomFor(size, count)
  BY RoomForRows
<1>2. size \in Nat /\ size = layout.size /\ row \in Nat /\ other \in Nat
  BY <1>1 DEF RoomFor, Rows
<1>3. PICK from \in Nat :
        /\ BytesOf(row, type) = from .. from + SizeOf(type) - 1
        /\ from = row * size + layout.offset_map[type]
        /\ row * size <= from /\ from + SizeOf(type) <= (row + 1) * size
  BY <1>1, ComponentIn
<1>4. PICK to \in Nat :
        /\ BytesOf(other, another) = to .. to + SizeOf(another) - 1
        /\ to = other * size + layout.offset_map[another]
        /\ other * size <= to /\ to + SizeOf(another) <= (other + 1) * size
  BY <1>1, ComponentIn
<1>5. /\ LaidOut(layout.offset_map, size) /\ type \in Component /\ another \in Component
  BY <1>2 DEF DInv, LayoutInv, LaidOut, RowMap
<1>6. SizeOf(type) \in Nat /\ SizeOf(another) \in Nat
  BY <1>5, ComponentHas
<1>7. from < to + SizeOf(another) /\ to < from + SizeOf(type)
  <2>1. PICK b \in Nat : /\ from <= b /\ b <= from + SizeOf(type) - 1
                         /\ to <= b /\ b <= to + SizeOf(another) - 1
    BY <1>3, <1>4, <1>6
  <2> QED BY <1>6, <2>1
<1>8. row = other
  <2>1. ASSUME NEW i \in Nat, NEW j \in Nat, i < j PROVE (i + 1) * size <= j * size
    <3>1. i + 1 <= j
      BY <2>1
    <3> QED BY <1>2, <3>1
  <2>2. ~(row < other)
    <3>1. row < other => (row + 1) * size <= other * size
      BY <1>2, <2>1
    <3>2. (row + 1) * size \in Nat /\ other * size \in Nat
      BY <1>2
    <3> QED BY <1>3, <1>4, <1>6, <1>7, <3>1, <3>2
  <2>3. ~(other < row)
    <3>1. other < row => (other + 1) * size <= row * size
      BY <1>2, <2>1
    <3>2. (other + 1) * size \in Nat /\ row * size \in Nat
      BY <1>2
    <3> QED BY <1>3, <1>4, <1>6, <1>7, <3>1, <3>2
  <2> QED BY <1>2, <2>2, <2>3
<1>9. type = another
  <2>1. PICK p, q : p = layout.offset_map[type] /\ q = layout.offset_map[another]
    OBVIOUS
  <2>2. /\ p \in Nat /\ q \in Nat
        /\ type # another => p + SizeOf(type) <= q \/ q + SizeOf(another) <= p
    BY <1>5, <2>1 DEF LaidOut, RowMap
  <2>3. row * size \in Nat /\ from = row * size + p /\ to = row * size + q
    BY <1>2, <1>3, <1>4, <1>8, <2>1
  <2> QED BY <1>6, <1>7, <2>2, <2>3
<1> QED BY <1>8, <1>9

\* Entity ids of different rows share no byte.
LEMMA IdsApart ==
  ASSUME DInv, layout # <<>>, NEW row \in Rows, NEW other \in Rows,
         IdBytes(row) \cap IdBytes(other) # {}
  PROVE  row = other
<1>1. PICK size, count : RoomFor(size, count)
  BY RoomForRows
<1>2. /\ count \in Nat /\ bytes \in Nat /\ row \in 0 .. count - 1 /\ other \in 0 .. count - 1
  BY <1>1 DEF RoomFor, Rows
<1>3. PICK from \in Nat : IdBytes(row) = from .. from + 15 /\ from = bytes - (count - row) * 16
  BY <1>1, IdIn
<1>4. PICK to \in Nat : IdBytes(other) = to .. to + 15 /\ to = bytes - (count - other) * 16
  BY <1>1, IdIn
<1>5. from <= to + 15 /\ to <= from + 15
  BY <1>3, <1>4
<1> QED BY <1>2, <1>3, <1>4, <1>5

\* Components end before the entity ids begin, and these at the buffer's end.
LEMMA AllInside ==
  ASSUME DInv, layout # <<>>
  PROVE  /\ ComponentBytes \cap AllIdBytes = {}
         /\ ComponentBytes \cup AllIdBytes \subseteq 0 .. bytes - 1
<1>1. PICK size, count : RoomFor(size, count)
  BY RoomForRows
<1>2. /\ size \in Nat /\ count \in Nat /\ bytes \in Nat /\ Rows = 0 .. count - 1
      /\ count * size + count * 16 <= bytes
  BY <1>1 DEF RoomFor, Rows, IdSize
<1>3. PICK split : split = count * size
  OBVIOUS
<1>4. split \in Nat /\ split <= bytes
  <2>1. count * size \in Nat /\ count * 16 \in Nat
    BY <1>2
  <2> QED BY <1>2, <1>3, <2>1
<1>5. ASSUME NEW row \in Rows, NEW type \in listed, NEW b \in BytesOf(row, type)
      PROVE  b \in 0 .. split - 1
  <2>1. PICK from \in Nat :
          /\ BytesOf(row, type) = from .. from + SizeOf(type) - 1
          /\ from + SizeOf(type) <= (row + 1) * size
    BY <1>1, ComponentIn
  <2>2. type \in Component
    BY DEF DInv, LayoutInv, LaidOut, RowMap
  <2>3. SizeOf(type) \in Nat
    BY <2>2, ComponentHas
  <2>4. (row + 1) * size <= split /\ (row + 1) * size \in Nat
    <3>1. row + 1 <= count /\ row + 1 \in Nat
      BY <1>2
    <3> QED BY <1>2, <1>3, <3>1
  <2> QED BY <1>4, <1>5, <2>1, <2>3, <2>4
<1>6. ASSUME NEW row \in Rows, NEW b \in IdBytes(row)
      PROVE  b \in split .. bytes - 1
  <2>1. PICK from \in Nat :
          /\ IdBytes(row) = from .. from + 15 /\ split <= from /\ from + 15 < bytes
    BY <1>1, <1>3, IdIn
  <2> QED BY <1>2, <1>4, <1>6, <2>1
<1>7. ComponentBytes \subseteq 0 .. split - 1
  BY <1>5 DEF ComponentBytes
<1>8. AllIdBytes \subseteq split .. bytes - 1
  BY <1>6 DEF AllIdBytes
<1> QED BY <1>2, <1>4, <1>7, <1>8

LEMMA SoundLayout == DInv => LayoutSound
<1> SUFFICES ASSUME DInv PROVE LayoutSound
  OBVIOUS
<1>1. DescribesListed
  <2> SUFFICES ASSUME layout # <<>> PROVE types = listed /\ DOMAIN layout.offset_map = listed
    BY DEF DescribesListed
  <2>1. /\ component_id_array \in Seq(Component) /\ Read
        /\ iter = Len(component_id_array) + 1
    BY DEF DInv, ListInv
  <2>2. /\ DOMAIN component_id_array = 1 .. Len(component_id_array)
        /\ iter - 1 = Len(component_id_array)
    BY <2>1
  <2>3. types = listed
    BY Zenon, <2>1, <2>2 DEF Read, ToSet
  <2> QED BY <2>3 DEF DInv, LayoutInv, LaidOut
<1>2. NothingOverlaps
  <2> SUFFICES ASSUME bytes # 0
               PROVE  NothingOverlaps
    BY DEF NothingOverlaps
  <2>1. layout # <<>>
    BY DEF DInv, ListInv
  <2>2. ASSUME NEW row \in Rows, NEW type \in listed
        PROVE  (RowAt(row) + layout.offset_map[type]) % AlignOf(type) = 0
    <3>1. PICK size, count : RoomFor(size, count)
      BY <2>1, RoomForRows
    <3>2. (row * size + layout.offset_map[type]) % AlignOf(type) = 0
      BY <2>1, <3>1, ComponentIn
    <3> QED BY <3>1, <3>2 DEF RowAt, RoomFor
  <2> QED BY <2>1, <2>2, ComponentsApart, IdsApart, AllInside DEF NothingOverlaps
<1> QED BY <1>1, <1>2 DEF LayoutSound

-----------------------------------------------------------------------------
(* Theorems *)

\* However callers use type sets and descriptors, arrays are ordered and have
\* each type once, masks are exact, and rows are laid out.
THEOREM DescriptorInvariant == DescriptorSpec => []DInv
<1>1. DescriptorInit => DInv
  BY InitDescribed
<1>2. DInv /\ [DescriptorNext]_<<vars, descriptor_vars>> => DInv'
  BY DInvInductive
<1> QED BY <1>1, <1>2, PTL DEF DescriptorSpec

\* AddTypeId and RemoveTypeId keep array and mask exact, of a set that is used
\* alone and of a descriptor's.
THEOREM SetAlwaysExact == (Spec => []SetExact) /\ (DescriptorSpec => []SetExact)
<1>1. IInv => SetExact
  BY DEF IInv, SetExact, ArrayExact, Lists, Ordered
<1>2. Init => IInv
  BY InitListed
<1>3. IInv /\ [Next]_vars => IInv'
  BY IInvInductive
<1>4. Spec => []SetExact
  BY <1>1, <1>2, <1>3, PTL DEF Spec
<1>5. DInv => SetExact
  BY <1>1 DEF DInv
<1>6. DescriptorSpec => []SetExact
  BY <1>5, DescriptorInvariant, PTL
<1> QED BY <1>4, <1>6

\* With(type_id) finds a type if and only if it is in the set.
THEOREM WithTypeAlwaysExact == DescriptorSpec => []WithTypeExact
<1>1. DInv => WithTypeExact
  BY WithTypeIsExact DEF DInv
<1> QED BY <1>1, DescriptorInvariant, PTL

\* Without(set) says whether the sets have no type in common.
THEOREM WithoutSetAlwaysExact == DescriptorSpec => []WithoutSetExact
<1>1. DInv => WithoutSetExact
  BY WithoutIsExact DEF DInv
<1> QED BY <1>1, DescriptorInvariant, PTL

\* With(set) accepts no set that is not a subset, and every subset that has the
\* greatest type.
THEOREM WithSetAlwaysSound == DescriptorSpec => []WithSetSound
<1>1. DInv => WithSetSound
  BY WithIsSound DEF DInv
<1> QED BY <1>1, DescriptorInvariant, PTL

\* A descriptor has the components it was given, each once; in a buffer of any
\* size its rows and their entity ids share no byte, every component is aligned
\* and nothing leaves the buffer.
THEOREM LayoutAlwaysSound == DescriptorSpec => []LayoutSound
<1>1. DInv => LayoutSound
  BY SoundLayout
<1> QED BY <1>1, DescriptorInvariant, PTL
=============================================================================
